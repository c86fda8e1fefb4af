------------------------------- MODULE Merge3 -------------------------------
(***************************************************************************)
(* The three-way merge of one synced record (vta_sync/merge.rs).           *)
(* A record is a JSON object: a function from its fields to scalars, where *)
(* Absent stands for a key the object does not have.  Absent as a whole    *)
(* record is a deletion, or a record one side has never seen.              *)
(***************************************************************************)
CONSTANTS Fields, Scalars, Absent

(* The path "/" under which a conflict about the whole record is reported. *)
CONSTANT Root

ASSUME Merge3Assumption == Absent \notin [Fields -> Scalars \cup {Absent}] /\ Root \notin Fields

Objects == [Fields -> Scalars \cup {Absent}]
Records == Objects \cup {Absent}

(* Both sides moved, and not to the same value. *)
BothMoved(b, l, r) == l # r /\ b # l /\ b # r

(* The side that moved; the VTA's when both did. *)
Pick(b, l, r) == IF l # r /\ b = r THEN l ELSE r

FieldOf(rec, f) == IF rec = Absent THEN Absent ELSE rec[f]

(* Objects both of whose sides moved merge field by field. *)
ByField(b, l, r) == BothMoved(b, l, r) /\ l # Absent /\ r # Absent

merge3(b, l, r) ==
    IF ByField(b, l, r)
    THEN [f \in Fields |-> Pick(FieldOf(b, f), l[f], r[f])]
    ELSE Pick(b, l, r)

(* A variant that reports no deletion against an edit. *)
conflicts3_FieldsOnly(b, l, r) ==
    IF ByField(b, l, r)
    THEN {f \in Fields : BothMoved(FieldOf(b, f), l[f], r[f])}
    ELSE {}

(* The paths merge3 reports as changed on both sides. *)
conflicts3(b, l, r) ==
    IF ByField(b, l, r)
    THEN {f \in Fields : BothMoved(FieldOf(b, f), l[f], r[f])}
    ELSE IF BothMoved(b, l, r) THEN {Root} ELSE {}
=============================================================================
