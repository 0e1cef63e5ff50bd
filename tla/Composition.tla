----------------------------- MODULE Composition -----------------------------
(***************************************************************************)
(* Compositions from the request to their settlement: the request handler, *)
(* the gate, the AI Lambda that does the work and calls back, and the      *)
(* status streams that give up on a run nobody hears from.                 *)
(*                                                                         *)
(* Every handler takes the lock of the gate row first and commits last, so *)
(* a handler that waits for nothing else is one step.  The request also    *)
(* uploads to object storage under that lock: it takes two steps.          *)
(* Callbacks are messages: the server may handle one late or never, and    *)
(* its answer may be lost, in which case the Lambda times out.             *)
(***************************************************************************)
EXTENDS CompositionGate

CONSTANTS
  AI_TIMEOUT,      \* how long the platform lets an invocation live
  LastRequest,     \* bound: no request enters the gate after this time
  MaxTime          \* bound of the clock

ASSUME CompositionAssumption ==
  /\ AI_TIMEOUT \in Nat
  /\ RUNNING_LEASE >= AI_TIMEOUT + COOLDOWN
  /\ LastRequest \in Nat /\ MaxTime \in Nat

VARIABLES
  now,
  gate,        \* the committed row of composition_gate
  locker,      \* the request that holds its lock over the uploads
  entered,     \* the time that request read once it had the lock
  status,      \* composition_jobs.status; ABSENT: no row
  payment,     \* the job's DEDUCT and REFUND transactions
  request,     \* where the job's request handler is
  polled,      \* the time a status stream found a lease expired at
  lambda,      \* where the handler of each invocation is
  born,        \* when it was invoked
  edited,      \* when it last sent an edit to the image service
  calls        \* callbacks on their way to the server

store == <<gate, status, payment>>
server == <<locker, entered, request, polled>>
cloud == <<lambda, born, edited, calls>>
vars == <<now, store, server, cloud>>

\* What a Lambda that waits for an answer has called: start, edit-started
\* before and after a batch of edits, complete, fail.
Waiting == {"starting", "recording", "settling", "completing", "failing"}
Working == {"working", "editing", "raised"}
Alive(r) == lambda[r] \in Waiting \cup Working

Call == [run : Runs, from : Waiting, elapsed : 0..AI_TIMEOUT]

Init ==
  /\ now = 0
  /\ gate = FreeGate
  /\ locker = NoJob /\ entered = Never
  /\ status = [j \in Jobs |-> "ABSENT"]
  /\ payment = [j \in Jobs |-> "NONE"]
  /\ request = [j \in Jobs |-> "new"]
  /\ polled = Never
  /\ lambda = [r \in Runs |-> "none"]
  /\ born = [r \in Runs |-> Never]
  /\ edited = [r \in Runs |-> Never]
  /\ calls = {}

-----------------------------------------------------------------------------
(* The request: RequestCompositionService.execute.                         *)

\* The unlocked look at the gate; the feasibility check, a Lambda call that
\* takes its time, comes after it.
Check(j) ==
  /\ request[j] = "new"
  /\ ~Held(gate) \/ Expired(gate, now)
  /\ request' = [request EXCEPT ![j] = "checked"]
  /\ UNCHANGED <<now, store, locker, entered, polled, cloud>>

EnterGate(j) ==
  /\ request[j] = "checked"
  /\ now <= LastRequest
  /\ locker = NoJob
  /\ Reservable(gate, now)
  /\ locker' = j /\ entered' = now
  /\ request' = [request EXCEPT ![j] = "uploading"]
  /\ UNCHANGED <<now, store, polled, cloud>>

\* Mutant: the job that lost its lease keeps the use it was paid with.
Accept_NoRefund(j) ==
  /\ request[j] = "uploading"
  /\ status' = [i \in Jobs |-> IF i = j THEN "PROCESSING"
                               ELSE IF i = gate.active_job_id THEN "FAILED"
                               ELSE status[i]]
  /\ payment' = [payment EXCEPT ![j] = "DEDUCTED"]
  /\ gate' = Reserve(gate, j, entered)
  /\ locker' = NoJob /\ entered' = Never
  /\ request' = [request EXCEPT ![j] = "triggering"]
  /\ UNCHANGED <<now, polled, cloud>>

\* The transaction commits: the stale job is failed and refunded, the new one
\* is processing and paid.
Accept(j) ==
  /\ request[j] = "uploading"
  /\ LET stale == {i \in Jobs : i = gate.active_job_id /\ status[i] = "PROCESSING"} IN
       /\ status' = [i \in Jobs |-> IF i = j THEN "PROCESSING"
                                    ELSE IF i \in stale THEN "FAILED" ELSE status[i]]
       /\ payment' = [i \in Jobs |-> IF i = j THEN "DEDUCTED"
                                     ELSE IF i \in stale THEN "REFUNDED" ELSE payment[i]]
  /\ gate' = Reserve(gate, j, entered)
  /\ locker' = NoJob /\ entered' = Never
  /\ request' = [request EXCEPT ![j] = "triggering"]
  /\ UNCHANGED <<now, polled, cloud>>

\* The trigger's HTTP call reaches AWS, once or, as the client retries a call
\* whose answer it lost, again.
Invoke(r) ==
  /\ request[r[1]] = "triggering"
  /\ lambda[r] = "none"
  /\ lambda' = [lambda EXCEPT ![r] = "queued"]
  /\ UNCHANGED <<now, store, server, born, edited, calls>>

Triggered(j) ==
  /\ request[j] = "triggering"
  /\ \E r \in Runs : r[1] = j /\ lambda[r] # "none"
  /\ request' = [request EXCEPT ![j] = "done"]
  /\ UNCHANGED <<now, store, locker, entered, polled, cloud>>

\* trigger() raises: nothing was invoked, or no answer said that it was.
TriggerFails(j) ==
  /\ request[j] = "triggering"
  /\ request' = [request EXCEPT ![j] = "compensating"]
  /\ UNCHANGED <<now, store, locker, entered, polled, cloud>>

\* Mutant: the compensation forgets to return the use.
Compensate_NoRefund(j) ==
  /\ request[j] = "compensating"
  /\ locker = NoJob
  /\ status' = [status EXCEPT ![j] = "FAILED"]
  /\ gate' = Release(gate, j)
  /\ request' = [request EXCEPT ![j] = "compensated"]
  /\ UNCHANGED <<now, payment, locker, entered, polled, cloud>>

\* The compensating transaction fails the job whatever has become of it.
Compensate(j) ==
  /\ request[j] = "compensating"
  /\ locker = NoJob
  /\ status' = [status EXCEPT ![j] = "FAILED"]
  /\ payment' = [payment EXCEPT ![j] = "REFUNDED"]
  /\ gate' = Release(gate, j)
  /\ request' = [request EXCEPT ![j] = "compensated"]
  /\ UNCHANGED <<now, locker, entered, polled, cloud>>

\* A refused request, an error that rolls its transaction back, and a crash
\* of the server all leave what was committed.
Abandon(j) ==
  /\ request[j] \in {"checked", "uploading", "triggering", "compensating"}
  /\ request' = [request EXCEPT ![j] = "gone"]
  /\ IF locker = j THEN locker' = NoJob /\ entered' = Never
                   ELSE UNCHANGED <<locker, entered>>
  /\ UNCHANGED <<now, store, polled, cloud>>

-----------------------------------------------------------------------------
(* The status streams: reconcile_expired, every two seconds.               *)

PollReads ==
  /\ polled = Never
  /\ Expired(gate, now)
  /\ polled' = now
  /\ UNCHANGED <<now, store, locker, entered, request, cloud>>

\* Mutant: the lease is not compared again under the lock.
PollSettles_NoRecheck ==
  /\ polled # Never
  /\ locker = NoJob
  /\ LET late == {i \in Jobs : i = gate.active_job_id} IN
       /\ status' = [i \in Jobs |-> IF i \in late THEN "FAILED" ELSE status[i]]
       /\ payment' = [i \in Jobs |-> IF i \in late THEN "REFUNDED" ELSE payment[i]]
       /\ gate' = Release(gate, gate.active_job_id)
  /\ polled' = Never
  /\ UNCHANGED <<now, locker, entered, request, cloud>>

\* Under the lock, but with the time read before it.
PollSettles ==
  /\ polled # Never
  /\ locker = NoJob
  /\ IF Expired(gate, polled)
     THEN LET late == {i \in Jobs : i = gate.active_job_id /\ status[i] = "PROCESSING"} IN
            /\ status' = [i \in Jobs |-> IF i \in late THEN "FAILED" ELSE status[i]]
            /\ payment' = [i \in Jobs |-> IF i \in late THEN "REFUNDED" ELSE payment[i]]
            /\ gate' = Release(gate, gate.active_job_id)
     ELSE UNCHANGED store
  /\ polled' = Never
  /\ UNCHANGED <<now, locker, entered, request, cloud>>

-----------------------------------------------------------------------------
(* The Lambda: ai_processor/handler.py.                                    *)

\* Where each answer takes the caller: success, 409, and any other error or a
\* timeout.  complete and fail take a 409 for an answer.
AfterOk ==
  [ starting |-> "working", recording |-> "editing", settling |-> "working",
    completing |-> "ended", failing |-> "ended" ]
AfterConflict ==
  [ starting |-> "ended", recording |-> "raised", settling |-> "raised",
    completing |-> "ended", failing |-> "ended" ]
AfterError ==
  [ starting |-> "ended", recording |-> "raised", settling |-> "raised",
    completing |-> "raised", failing |-> "ended" ]

\* Mutant: the tracker starts at zero instead of None.
Elapsed_FromZero(r) == now - edited[r]

\* mark_started() to now; without an edit the server takes the time it has.
Elapsed(r) == IF edited[r] = Never THEN 0 ELSE now - edited[r]

Send(r, from, elapsed) ==
  /\ lambda' = [lambda EXCEPT ![r] = from]
  /\ calls' = calls \cup {[run |-> r, from |-> from, elapsed |-> elapsed]}
  /\ UNCHANGED <<now, store, server, edited>>

Deliver(r) ==
  /\ lambda[r] = "queued"
  /\ born' = [born EXCEPT ![r] = now]
  /\ Send(r, "starting", 0)

\* Before the draft's edit, and before the frames'.
RecordEdits(r) ==
  /\ lambda[r] = "working"
  /\ Send(r, "recording", 0)
  /\ UNCHANGED born

SendEdit(r) ==
  /\ lambda[r] = "editing"
  /\ edited' = [edited EXCEPT ![r] = now]
  /\ UNCHANGED <<now, store, server, lambda, born, calls>>

\* After the frames' edits; the draft's single edit is not followed by one.
SettleEdits(r) ==
  /\ lambda[r] = "editing" /\ edited[r] # Never
  /\ \/ Send(r, "settling", Elapsed(r)) /\ UNCHANGED born
     \/ /\ lambda' = [lambda EXCEPT ![r] = "working"]
        /\ UNCHANGED <<now, store, server, born, edited, calls>>

SendComplete(r) ==
  /\ lambda[r] = "working" /\ edited[r] # Never
  /\ Send(r, "completing", Elapsed(r))
  /\ UNCHANGED born

\* Any exception of the pipeline, an unanswered callback included.
SendFail(r) ==
  /\ lambda[r] \in Working
  /\ Send(r, "failing", Elapsed(r))
  /\ UNCHANGED born

TimesOut(r) ==
  /\ lambda[r] \in Waiting
  /\ lambda' = [lambda EXCEPT ![r] = AfterError[@]]
  /\ UNCHANGED <<now, store, server, born, edited, calls>>

\* An event too old is dropped; an invocation may crash at any point.
Dies(r) ==
  /\ lambda[r] = "queued" \/ Alive(r)
  /\ lambda' = [lambda EXCEPT ![r] = "ended"]
  /\ UNCHANGED <<now, store, server, born, edited, calls>>

-----------------------------------------------------------------------------
(* The callbacks: PipelineCallbackService.                                 *)

\* The call is handled, and its answer reaches the caller or does not.
Answer(c, next) ==
  /\ calls' = calls \ {c}
  /\ \/ UNCHANGED lambda
     \/ /\ lambda[c.run] = c.from
        /\ lambda' = [lambda EXCEPT ![c.run] = next[@]]
  /\ UNCHANGED <<now, server, born, edited>>

HandleStart(c) ==
  /\ c.from = "starting"
  /\ Claimable(gate, c.run, now)
  /\ gate' = Claim(gate, c.run, now)
  /\ Answer(c, AfterOk)
  /\ UNCHANGED <<status, payment>>

HandleEdit(c) ==
  /\ c.from \in {"recording", "settling"}
  /\ Owns(gate, c.run, now)
  /\ gate' = RecordEdit(gate, now, c.elapsed)
  /\ Answer(c, AfterOk)
  /\ UNCHANGED <<status, payment>>

\* Mutant: a run that has lost the gate may still complete its job.
HandleComplete_AnyRun(c) ==
  /\ c.from = "completing"
  /\ status' = [status EXCEPT ![c.run[1]] = "COMPLETED"]
  /\ gate' = Release(RecordEdit(gate, now, c.elapsed), c.run[1])
  /\ Answer(c, AfterOk)
  /\ UNCHANGED payment

HandleComplete(c) ==
  /\ c.from = "completing"
  /\ Owns(gate, c.run, now)
  /\ IF status[c.run[1]] = "PROCESSING"
     THEN /\ status' = [status EXCEPT ![c.run[1]] = "COMPLETED"]
          /\ gate' = Release(RecordEdit(gate, now, c.elapsed), c.run[1])
     ELSE UNCHANGED <<status, gate>>
  /\ Answer(c, AfterOk)
  /\ UNCHANGED payment

HandleFail(c) ==
  /\ c.from = "failing"
  /\ Owns(gate, c.run, now)
  /\ IF status[c.run[1]] = "PROCESSING"
     THEN /\ status' = [status EXCEPT ![c.run[1]] = "FAILED"]
          /\ payment' = [payment EXCEPT ![c.run[1]] = "REFUNDED"]
          /\ gate' = Release(RecordEdit(gate, now, c.elapsed), c.run[1])
     ELSE UNCHANGED store
  /\ Answer(c, AfterOk)

\* claim() and ensure_run() raise: HTTP 409.
Conflict(c) ==
  /\ IF c.from = "starting" THEN ~Claimable(gate, c.run, now) ELSE ~Owns(gate, c.run, now)
  /\ Answer(c, AfterConflict)
  /\ UNCHANGED store

\* The user is no longer active (403), or the transaction fails (500).
Rejected(c) ==
  /\ Answer(c, AfterError)
  /\ UNCHANGED store

Handle(c) ==
  /\ locker = NoJob
  /\ \/ HandleStart(c)
     \/ HandleEdit(c)
     \/ HandleComplete(c)
     \/ HandleFail(c)
     \/ Conflict(c)
     \/ Rejected(c)

-----------------------------------------------------------------------------
\* Time passes; an invocation that has had its time is killed.
Tick ==
  /\ now < MaxTime
  /\ now' = now + 1
  /\ lambda' = [r \in Runs |-> IF Alive(r) /\ born[r] + AI_TIMEOUT <= now
                               THEN "ended" ELSE lambda[r]]
  /\ UNCHANGED <<store, server, born, edited, calls>>

RequestStep(j) ==
  \/ Check(j) \/ EnterGate(j) \/ Accept(j)
  \/ Triggered(j) \/ TriggerFails(j) \/ Compensate(j) \/ Abandon(j)

LambdaStep(r) ==
  \/ Invoke(r) \/ Deliver(r) \/ RecordEdits(r) \/ SendEdit(r) \/ SettleEdits(r)
  \/ SendComplete(r) \/ SendFail(r) \/ TimesOut(r) \/ Dies(r)

Next ==
  \/ \E j \in Jobs : RequestStep(j)
  \/ \E r \in Runs : LambdaStep(r)
  \/ \E c \in calls : Handle(c)
  \/ PollReads \/ PollSettles
  \/ Tick

Spec == Init /\ [][Next]_vars

\* The clock runs; a transaction that holds the gate ends; as long as anybody
\* watches a composition, its stream keeps polling.
Fairness ==
  /\ WF_vars(Tick)
  /\ WF_vars(PollReads)
  /\ WF_vars(PollSettles)
  /\ \A j \in Jobs : WF_vars(locker = j /\ (Accept(j) \/ Abandon(j)))

FairSpec == Spec /\ Fairness

-----------------------------------------------------------------------------
(* Properties                                                              *)

TypeOK ==
  /\ now \in Nat
  /\ gate \in Gate
  /\ locker \in Jobs \cup {NoJob}
  /\ entered \in Times
  /\ status \in [Jobs -> {"ABSENT", "PROCESSING", "COMPLETED", "FAILED"}]
  /\ payment \in [Jobs -> {"NONE", "DEDUCTED", "REFUNDED"}]
  /\ request \in [Jobs -> {"new", "checked", "uploading", "triggering",
                           "compensating", "compensated", "done", "gone"}]
  /\ polled \in Times
  /\ lambda \in [Runs -> {"none", "queued", "ended"} \cup Waiting \cup Working]
  /\ born \in [Runs -> Times]
  /\ edited \in [Runs -> Times]
  /\ calls \subseteq Call

\* The gate is held by exactly the job that is being processed: a job can
\* never be left processing with nothing that will ever settle it, and the
\* gate can never be left shut by a job that is over.
GateHoldsTheProcessingJob ==
  \A j \in Jobs : status[j] = "PROCESSING" <=> gate.active_job_id = j

\* Whatever ends a job, the use it was paid with is returned exactly when it
\* has failed.
FailedMeansRefunded ==
  \A j \in Jobs :
    /\ status[j] = "FAILED" <=> payment[j] = "REFUNDED"
    /\ status[j] \in {"PROCESSING", "COMPLETED"} => payment[j] = "DEDUCTED"

\* The request has released the gate of a pipeline it could not see start.
Compensated(j) == request[j] = "compensated"

\* Two runs of one job, as a retried trigger makes, never both send edits.
OneRunEdits ==
  \A r, s \in Runs :
    r[1] = s[1] /\ edited[r] # Never /\ edited[s] # Never => r = s

\* An edit is sent COOLDOWN after the last edit of every other job: through
\* lost callbacks, killed runs and expired leases, whatever the order.
EditsAreSpaced ==
  [][\A r, s \in Runs :
       edited'[r] # edited[r] /\ r[1] # s[1] /\ edited[s] # Never
         => \/ edited[s] + COOLDOWN <= now
            \/ Compensated(r[1]) \/ Compensated(s[1])]_vars

\* A settled job stays as it was settled, unless its own request compensates.
SettledIsFinal ==
  [][\A j \in Jobs :
       status[j] \in {"COMPLETED", "FAILED"} /\ status'[j] # status[j]
         => request[j] = "compensating" /\ status'[j] = "FAILED"]_vars

\* A lease runs out on its own time only: a poll that was slow to get the
\* lock does not take the gate from the job that holds it by then.
LeaseIsHonoured ==
  [][Held(gate) /\ now < gate.lease_until /\ gate'.active_job_id # gate.active_job_id
       => \/ request[gate.active_job_id] = "compensating"
          \/ \E c \in calls \ calls' : c.run = gate.active_run_id]_vars

\* The use of a composition that has a result is never returned.
ResultIsNeverRefunded ==
  [][\A j \in Jobs : status[j] = "COMPLETED" => payment'[j] = payment[j]]_vars

\* Every job accepted is settled: a lease always runs out, and is noticed.
EveryJobSettles ==
  \A j \in Jobs : status[j] = "PROCESSING" ~> status[j] \in {"COMPLETED", "FAILED"}

\* The service keeps the promise of its abstract specification.
Lifecycle == INSTANCE CompositionLifecycle
ImplementsLifecycle == Lifecycle!Spec
ImplementsFairLifecycle == Lifecycle!FairSpec

-----------------------------------------------------------------------------
(* The inductive invariant behind the theorems of CompositionProofs.       *)

\* A request has its job's row from Accept on, and never before; the lock it
\* holds over the uploads is its own.
RequestsMatchJobs ==
  \A j \in Jobs :
    /\ request[j] \in {"new", "checked", "uploading"} => status[j] = "ABSENT"
    /\ request[j] \in {"triggering", "compensating"} => status[j] # "ABSENT"
    /\ status[j] = "ABSENT" => payment[j] = "NONE"
    /\ request[j] = "uploading" <=> locker = j

\* An invocation lives AI_TIMEOUT at most, and edits only while it lives.
LivesAreBounded ==
  \A r \in Runs :
    /\ Alive(r) => born[r] \in 0..now /\ now <= born[r] + AI_TIMEOUT
    /\ edited[r] # Never =>
         born[r] \in 0..now /\ edited[r] \in born[r]..now /\ edited[r] <= born[r] + AI_TIMEOUT
    /\ lambda[r] \in {"none", "queued"} => edited[r] = Never

\* What a request or a stream has read is in the past, and under the lock the
\* gate stays as the request found it.
ReadsAreOld ==
  /\ polled <= now
  /\ locker # NoJob => entered \in 0..now /\ Reservable(gate, entered)

\* A run between its start and its last call.
Started(r) == lambda[r] \in {"working", "recording", "editing", "settling"}
Holds(r) ==
  /\ gate.active_job_id = r[1] /\ gate.active_run_id = r
  /\ gate.lease_until >= born[r] + RUNNING_LEASE

StartedRunsHoldTheGate ==
  \A r \in Runs : Started(r) => Holds(r) \/ Compensated(r[1])

\* A last call is followed by no edit, and puts the last one where it was.
LastCallsAreLast ==
  \A c \in calls :
    c.from \in {"completing", "failing"} =>
      /\ lambda[c.run] \in {"completing", "failing", "raised", "ended"}
      /\ edited[c.run] # Never => edited[c.run] <= now - c.elapsed

\* An edit is old, or the gate knows of it, or whoever sent it has the gate.
Quiet(s) == edited[s] = Never \/ edited[s] + COOLDOWN <= now \/ Compensated(s[1])
EditsAreKnown ==
  \A s \in Runs : Quiet(s) \/ Holds(s) \/ edited[s] <= gate.last_edit_sent_at

\* The gate is reserved only once the edits of all other jobs are old.
OthersAreQuiet ==
  Held(gate) => \A s \in Runs : s[1] # gate.active_job_id => Quiet(s)

\* One run of a job claims it, and keeps it until the job is settled.
OneRunClaims ==
  \A r \in Runs :
    Started(r) \/ edited[r] # Never =>
      /\ (gate.active_run_id = r /\ gate.active_job_id = r[1]) \/ Lifecycle!Settled(r[1])
      /\ \A s \in Runs : s[1] = r[1] /\ (Started(s) \/ edited[s] # Never) => s = r

IInv ==
  /\ TypeOK
  /\ LivesAreBounded
  /\ GateHoldsTheProcessingJob
  /\ FailedMeansRefunded
  /\ RequestsMatchJobs
  /\ ReadsAreOld
  /\ StartedRunsHoldTheGate
  /\ LastCallsAreLast
  /\ EditsAreKnown
  /\ OthersAreQuiet
  /\ OneRunClaims
=============================================================================
