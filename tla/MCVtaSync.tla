----------------------------- MODULE MCVtaSync -----------------------------
(* Model-checking instances of VtaSync: which records there are, when their *)
(* kind may change in a running session, and what may happen how often.     *)
EXTENDS VtaSync, TLC

Budget(e, s, f, c, r, n) ==
    [edits |-> e, saves |-> s, faults |-> f, crashes |-> c, reaps |-> r, newer |-> n]

(* One record: concurrent edits of its fields under faults; deletions,      *)
(* reaping and a restart; a newer build.                                    *)
OneRecord == {Budget(4, 0, 1, 0, 0, 0), Budget(2, 1, 0, 1, 1, 1)}
(* Two records and one of a kind this build does not know: deferral over a  *)
(* restart; pages, a snapshot in between, and an answer that is lost; a     *)
(* newer build's records among the pages.                                   *)
TwoRecords ==
    {Budget(1, 1, 0, 1, 0, 0), Budget(3, 0, 0, 0, 1, 0), Budget(2, 0, 1, 0, 0, 0),
     Budget(1, 0, 0, 0, 0, 1), Budget(0, 0, 0, 0, 1, 1)}
DeferAndReap == {Budget(2, 1, 0, 1, 1, 0)}

NoPersona == [k \in Keys |-> 0]
FirstIsPersona == [k \in Keys |-> IF k = 2 THEN 1 ELSE 0]
OneBig == {[f \in Fields |-> CHOOSE s \in Scalars : TRUE]}
Sym == Permutations(Devices) \cup Permutations(Scalars) \cup Permutations(Fields)
=============================================================================
