------------------------ MODULE MembershipLifecycle ------------------------
(***************************************************************************)
(* What the account promises about each join it makes: the states a       *)
(* membership passes through, and that a stop takes the account back to    *)
(* what it last wrote and no further.                                      *)
(***************************************************************************)
CONSTANT Joins

VARIABLES status,   \* the membership each join has become
          durable   \* the same, as last written to disk

Ended == {"Rejected", "Removed", "Left", "Withdrawn", "Expired"}
Kept == {"Pending", "Active"} \cup Ended
States == {"None", "Gone"} \cup Kept   \* not made yet; its record deleted or never kept

Move(k, from, to) ==
    /\ status[k] \in from
    /\ status' = [status EXCEPT ![k] = to]
    /\ UNCHANGED durable

Init ==
    /\ status = [k \in Joins |-> "None"]
    /\ durable = status

Join(k) ==
    /\ status[k] = "None"
    /\ status' = [status EXCEPT ![k] = "Pending"]
    /\ durable' \in {status', [durable EXCEPT ![k] = "Gone"]}   \* written, or not
Admit(k) == Move(k, {"Pending"}, "Active")
Reject(k) == Move(k, {"Pending"}, "Rejected")
Expire(k) == Move(k, {"Pending"}, "Expired")
Withdraw(k) == Move(k, {"Pending"}, "Withdrawn")
Remove(k) == Move(k, {"Active"}, "Removed")
Leave(k) == Move(k, Kept, "Left")   \* the farewell is sent first and recorded later
Delete(k) == Move(k, Ended, "Gone")
Persist == durable' = status /\ UNCHANGED status
Restart == status' = durable /\ UNCHANGED durable
(* The account stops after its request went out and before it is recorded.  *)
Orphan(k) ==
    /\ status[k] = "None"
    /\ status' = [durable EXCEPT ![k] = "Gone"]
    /\ durable' = status'

Next ==
    \/ \E k \in Joins : \/ Join(k) \/ Admit(k) \/ Reject(k) \/ Expire(k) \/ Withdraw(k)
                        \/ Remove(k) \/ Leave(k) \/ Delete(k) \/ Orphan(k)
    \/ Persist \/ Restart

Spec == Init /\ [][Next]_<<status, durable>>
=============================================================================
