---------------------------- MODULE TaskService ----------------------------
(***************************************************************************)
(* What the asynchronous API promises to the application (include/iscsi.h):*)
(* a call that was accepted is answered by one callback with one status,   *)
(* and that is the end of the request.  It says nothing of PDUs, queues,   *)
(* numbers or connections.                                                 *)
(***************************************************************************)
CONSTANTS Reqs, Statuses

VARIABLE outcome   \* "idle", "pending", or the status of the callback

Init == outcome = [r \in Reqs |-> "idle"]

\* Some idle requests are submitted and some pending ones are completed.
Step(submitted, completed, status) ==
  /\ \A r \in submitted : outcome[r] = "idle"
  /\ \A r \in completed : outcome[r] = "pending"
  /\ outcome' = [r \in Reqs |-> IF r \in submitted THEN "pending"
                               ELSE IF r \in completed THEN status
                               ELSE outcome[r]]

Next ==
  \E submitted, completed \in SUBSET Reqs, status \in Statuses :
    Step(submitted, completed, status)

Spec == Init /\ [][Next]_outcome

\* Every accepted request is answered.
Answered == \A r \in Reqs : outcome[r] = "pending" ~> outcome[r] \in Statuses

=============================================================================
