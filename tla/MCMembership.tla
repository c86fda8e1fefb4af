---------------------------- MODULE MCMembership ----------------------------
(* Model-checking instances of Membership: what may happen how often.       *)
EXTENDS Membership, TLC
CONSTANTS p1, p2

Budget(j, f, c, r, d, e, t, again) ==
    [joins |-> j, faults |-> f, crashes |-> c, renewals |-> r, decides |-> d,
     elsewhere |-> e, turns |-> t, rejoins |-> again]

TwoPersonas == {Budget(<<p1, p2>>, 1, 0, 0, 0, 0, 1, FALSE), Budget(<<p1, p2>>, 0, 0, 0, 1, 0, 0, FALSE)}
Again == {Budget(<<p1, p1>>, 1, 0, 0, 0, 1, 2, FALSE)}
Cut == {Budget(<<p1, p1>>, 0, 1, 0, 0, 0, 2, FALSE)}
Renewing == {Budget(<<p1>>, 1, 0, 1, 1, 1, 2, FALSE)}
All == TwoPersonas \cup Again \cup Cut \cup Renewing
Rejoin == {Budget(<<p1, p1>>, 0, 0, 0, 0, 0, 1, TRUE)}
=============================================================================
