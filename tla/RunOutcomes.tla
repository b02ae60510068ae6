----------------------------- MODULE RunOutcomes -----------------------------
(***************************************************************************)
(* What SearchRuns promises of the runs of a chat to whoever looks at them *)
(* again: a run once begun ends in one of four ways, and an ending is      *)
(* final.  It disappears only if its admission failed or with its chat.    *)
(***************************************************************************)
CONSTANT Requests
VARIABLE outcome

Terminal == {"completed", "stopped", "failed", "interrupted"}

Init == outcome = [r \in Requests |-> "absent"]

Begin(r) ==
  /\ outcome[r] = "absent"
  /\ outcome' = [outcome EXCEPT ![r] = "running"]

Finish(r, ending) ==
  /\ outcome[r] = "running"
  /\ outcome' = [outcome EXCEPT ![r] = ending]

Withdraw(r) ==
  /\ outcome[r] = "running"
  /\ outcome' = [outcome EXCEPT ![r] = "absent"]

Forget == outcome' = [r \in Requests |-> "absent"]

Next ==
  \/ \E r \in Requests : Begin(r) \/ Withdraw(r) \/ \E e \in Terminal : Finish(r, e)
  \/ Forget

Spec == Init /\ [][Next]_outcome
=============================================================================
