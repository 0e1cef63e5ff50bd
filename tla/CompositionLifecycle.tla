------------------------ MODULE CompositionLifecycle ------------------------
(***************************************************************************)
(* What the composition service promises, with no gate, no clock and no    *)
(* Lambda: one composition at a time, each paid with one use, and each     *)
(* settled by a result that keeps the use or a failure that returns it.    *)
(***************************************************************************)
CONSTANT Jobs

VARIABLES
  status,     \* composition_jobs.status; ABSENT: no row
  payment     \* the job's DEDUCT and REFUND transactions

vars == <<status, payment>>

Working == {j \in Jobs : status[j] = "PROCESSING"}

Settled(j) == status[j] \in {"COMPLETED", "FAILED"}

Init ==
  /\ status = [j \in Jobs |-> "ABSENT"]
  /\ payment = [j \in Jobs |-> "NONE"]

Accept(j) ==
  /\ Working = {}
  /\ status[j] = "ABSENT"
  /\ status' = [status EXCEPT ![j] = "PROCESSING"]
  /\ payment' = [payment EXCEPT ![j] = "DEDUCTED"]

Complete(j) ==
  /\ status[j] = "PROCESSING"
  /\ status' = [status EXCEPT ![j] = "COMPLETED"]
  /\ UNCHANGED payment

Fail(j) ==
  /\ status[j] = "PROCESSING"
  /\ status' = [status EXCEPT ![j] = "FAILED"]
  /\ payment' = [payment EXCEPT ![j] = "REFUNDED"]

\* A request gives up on a job nobody answers for, and takes its place.
Replace(i, j) ==
  /\ status[i] = "PROCESSING" /\ status[j] = "ABSENT"
  /\ status' = [status EXCEPT ![i] = "FAILED", ![j] = "PROCESSING"]
  /\ payment' = [payment EXCEPT ![i] = "REFUNDED", ![j] = "DEDUCTED"]

\* The one way back from a result: the request could not tell that its
\* pipeline had started, and compensates.
Retract(j) ==
  /\ status[j] = "COMPLETED"
  /\ status' = [status EXCEPT ![j] = "FAILED"]
  /\ payment' = [payment EXCEPT ![j] = "REFUNDED"]

Settle(j) == Complete(j) \/ Fail(j) \/ \E k \in Jobs : Replace(j, k)

Next ==
  \E j \in Jobs : Accept(j) \/ Settle(j) \/ Retract(j)

Fairness == \A j \in Jobs : WF_vars(Settle(j))

Spec == Init /\ [][Next]_vars

FairSpec == Spec /\ Fairness
=============================================================================
