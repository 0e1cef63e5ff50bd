------------------------- MODULE CompositionProofs --------------------------
(***************************************************************************)
(* Proofs about Composition for every set of jobs and of invocations, all  *)
(* leases and pauses that satisfy CompositionAssumption, and any bound of  *)
(* the clock: the inductive invariant IInv, one lemma for each action, and *)
(* the safety properties and the refinement that follow from it.           *)
(***************************************************************************)
EXTENDS Composition, TLAPS

-----------------------------------------------------------------------------
(* The constants, and the operators of the gate                            *)

\* The constants are times, and the run that claims has a lease that outlasts
\* both the invocation and the pause.
LEMMA Numbers ==
  /\ COOLDOWN \in Nat /\ COOLDOWN > 0
  /\ PENDING_LEASE \in Nat /\ RUNNING_LEASE \in Nat /\ AI_TIMEOUT \in Nat
  /\ RUNNING_LEASE >= AI_TIMEOUT + COOLDOWN
  /\ NoJob \notin Jobs /\ NoRun \notin Runs
  /\ Never = -1
BY GateAssumption, CompositionAssumption DEF Never

\* A run works for one of the jobs.
LEMMA RunJob == \A r \in Runs : r[1] \in Jobs
BY DEF Runs

\* A row of composition_gate, column by column.
LEMMA GateFields ==
  ASSUME NEW g \in Gate
  PROVE  /\ g.active_job_id \in Jobs \cup {NoJob} /\ g.active_run_id \in Runs \cup {NoRun}
         /\ g.lease_until \in Times /\ g.last_edit_sent_at \in Times
BY DEF Gate

\* reserve() gives the gate to a job with no run, and keeps the anchor.
LEMMA ReserveGate ==
  ASSUME NEW g \in Gate, NEW j \in Jobs, NEW t \in Nat
  PROVE  /\ Reserve(g, j, t) \in Gate
         /\ Reserve(g, j, t).active_job_id = j /\ Reserve(g, j, t).active_run_id = NoRun
         /\ Reserve(g, j, t).last_edit_sent_at = g.last_edit_sent_at
<1>1. t + PENDING_LEASE \in Times
  BY Numbers DEF Times
<1> QED
  BY <1>1 DEF Gate, Reserve

\* claim() sets the run and its lease, and keeps the job and the anchor.
LEMMA ClaimGate ==
  ASSUME NEW g \in Gate, NEW r \in Runs, NEW t \in Nat
  PROVE  /\ Claim(g, r, t) \in Gate
         /\ Claim(g, r, t).active_job_id = g.active_job_id
         /\ Claim(g, r, t).active_run_id = r
         /\ Claim(g, r, t).lease_until = t + RUNNING_LEASE
         /\ Claim(g, r, t).last_edit_sent_at = g.last_edit_sent_at
<1>1. t + RUNNING_LEASE \in Times
  BY Numbers DEF Times
<1> QED
  BY <1>1 DEF Gate, Claim

\* The anchor of the pause never goes back.
LEMMA RecordEditGate ==
  ASSUME NEW g \in Gate, NEW t \in Nat, NEW elapsed \in Nat
  PROVE  /\ RecordEdit(g, t, elapsed) \in Gate
         /\ RecordEdit(g, t, elapsed).active_job_id = g.active_job_id
         /\ RecordEdit(g, t, elapsed).active_run_id = g.active_run_id
         /\ RecordEdit(g, t, elapsed).lease_until = g.lease_until
         /\ RecordEdit(g, t, elapsed).last_edit_sent_at >= g.last_edit_sent_at
         /\ RecordEdit(g, t, elapsed).last_edit_sent_at >= t - elapsed
<1>1. g.last_edit_sent_at \in Times
  BY DEF Gate
<1>2. CASE t - elapsed > g.last_edit_sent_at
  <2>1. t - elapsed \in Times
    BY <1>1, <1>2, Numbers DEF Times
  <2> QED
    BY <1>1, <1>2, <2>1, Numbers DEF RecordEdit, Gate, Times
<1>3. CASE ~(t - elapsed > g.last_edit_sent_at)
  BY <1>1, <1>3, Numbers DEF RecordEdit, Times
<1> QED
  BY <1>2, <1>3

\* release() empties the gate of the job named, and touches no other.
LEMMA ReleaseGate ==
  ASSUME NEW g \in Gate, NEW j
  PROVE  /\ Release(g, j) \in Gate
         /\ Release(g, j).last_edit_sent_at = g.last_edit_sent_at
         /\ g.active_job_id # j => Release(g, j) = g
         /\ g.active_job_id = j =>
              /\ Release(g, j).active_job_id = NoJob
              /\ Release(g, j).active_run_id = NoRun
<1>1. Never \in Times
  BY DEF Times
<1> QED
  BY <1>1 DEF Release, Gate

-----------------------------------------------------------------------------
(* What the invariant says of the gate                                     *)

\* A run that may edit outlives neither its invocation nor its lease.
LEMMA StartedRunsHaveTime ==
  ASSUME IInv, NEW r \in Runs, Started(r), ~Compensated(r[1])
  PROVE  Holds(r) /\ now < gate.lease_until
<1>1. Holds(r)
  BY DEF IInv, StartedRunsHoldTheGate
<1>2. born[r] \in 0..now /\ now <= born[r] + AI_TIMEOUT
  BY DEF IInv, LivesAreBounded, Started, Alive, Waiting, Working
<1>3. gate.lease_until \in Int /\ now \in Nat
  BY GateFields, Numbers DEF IInv, TypeOK, Times
<1> QED
  BY <1>1, <1>2, <1>3, Numbers DEF Holds

\* Once its lease has run out, a run has been silent for the pause.
LEMMA ExpiredRunsAreQuiet ==
  ASSUME IInv, NEW t \in Int, t <= now, Expired(gate, t), NEW s \in Runs, Holds(s)
  PROVE  Quiet(s)
<1>1. SUFFICES ASSUME edited[s] # Never
               PROVE  edited[s] + COOLDOWN <= now
  BY DEF Quiet
<1>2. born[s] \in 0..now /\ edited[s] \in Int /\ edited[s] <= born[s] + AI_TIMEOUT
  BY <1>1 DEF IInv, LivesAreBounded
<1>3. gate.lease_until \in Int /\ now \in Nat
  BY GateFields, Numbers DEF IInv, TypeOK, Times
<1> QED
  BY <1>2, <1>3, Numbers DEF Holds, Expired

\* A gate that can be reserved is one whose pause is over for every run, the
\* one that lost it included.
LEMMA ReservableIsQuiet ==
  ASSUME IInv, NEW t \in Nat, t <= now, Reservable(gate, t), NEW s \in Runs
  PROVE  Quiet(s)
<1>1. gate \in Gate /\ now \in Nat /\ s[1] \in Jobs
  BY RunJob DEF IInv, TypeOK
<1>2. CASE Holds(s)
  <2>1. Held(gate)
    BY <1>1, <1>2, Numbers DEF Holds, Held
  <2> QED
    BY <1>2, <2>1, ExpiredRunsAreQuiet DEF Reservable
<1>3. CASE edited[s] # Never /\ edited[s] <= gate.last_edit_sent_at
  <2>1. edited[s] \in Nat
    BY <1>3 DEF IInv, TypeOK, Times
  <2>2. gate.last_edit_sent_at \in Int
    BY <1>1, GateFields, Numbers DEF Times
  <2> QED
    BY <1>1, <1>3, <2>1, <2>2, Numbers DEF Reservable, CoolingDown, Quiet
<1> QED
  BY <1>2, <1>3 DEF IInv, EditsAreKnown, Quiet

\* The job that holds the gate is processing, and no other one is.
LEMMA ActiveJob ==
  ASSUME IInv, NEW j \in Jobs, gate.active_job_id = j
  PROVE  status[j] = "PROCESSING"
BY DEF IInv, GateHoldsTheProcessingJob

\* What a last call says of the edits of its run.
LEMMA ElapsedSinceEdit ==
  ASSUME IInv, NEW r \in Runs, Alive(r)
  PROVE  /\ Elapsed(r) \in 0..AI_TIMEOUT
         /\ edited[r] # Never => edited[r] = now - Elapsed(r)
<1>1. now \in Nat /\ born[r] \in 0..now /\ now <= born[r] + AI_TIMEOUT
  BY DEF IInv, TypeOK, LivesAreBounded
<1>2. CASE edited[r] = Never
  BY <1>2, Numbers DEF Elapsed
<1>3. CASE edited[r] # Never
  <2>1. edited[r] \in born[r]..now
    BY <1>3 DEF IInv, LivesAreBounded
  <2> QED
    BY <1>1, <2>1, Numbers DEF Elapsed
<1> QED
  BY <1>2, <1>3

\* An error answer, or none, stops the pipeline.
LEMMA ErrorsStop ==
  \A w \in Waiting : AfterError[w] \in {"ended", "raised"} /\ AfterConflict[w] \in {"ended", "raised"}
BY DEF Waiting, AfterError, AfterConflict

-----------------------------------------------------------------------------
(* Requests                                                                *)

\* The unlocked look at the gate changes nothing but where the request is.
LEMMA CheckStep ==
  ASSUME IInv, NEW j \in Jobs, Check(j)
  PROVE  IInv'
<1>0. UNCHANGED <<now, gate, locker, entered, status, payment, polled, lambda, born,
                  edited, calls>>
  BY DEF Check, store, cloud
<1>1. TypeOK'
  BY <1>0, Numbers DEF IInv, TypeOK, Check
<1>2. RequestsMatchJobs'
  BY <1>0, Numbers DEF IInv, TypeOK, RequestsMatchJobs, Check
<1>3. StartedRunsHoldTheGate'
  BY <1>0, RunJob, Numbers DEF IInv, TypeOK, StartedRunsHoldTheGate, Started, Holds,
     Compensated, Check
<1>4. EditsAreKnown'
  BY <1>0, RunJob, Numbers DEF IInv, TypeOK, EditsAreKnown, Quiet, Holds, Compensated,
     Check
<1>5. OthersAreQuiet'
  BY <1>0, RunJob, Numbers DEF IInv, TypeOK, OthersAreQuiet, Held, Quiet, Compensated,
     Check
<1>6. (LivesAreBounded /\ GateHoldsTheProcessingJob /\ FailedMeansRefunded
       /\ ReadsAreOld /\ LastCallsAreLast /\ OneRunClaims)'
  BY <1>0 DEF IInv, LivesAreBounded, Alive, GateHoldsTheProcessingJob,
     FailedMeansRefunded, ReadsAreOld, Reservable, Held, Expired, CoolingDown,
     LastCallsAreLast, OneRunClaims, Started, Lifecycle!Settled
<1> QED
  BY <1>1, <1>2, <1>3, <1>4, <1>5, <1>6 DEF IInv

\* A request takes the lock of a gate it has found reservable.
LEMMA EnterGateStep ==
  ASSUME IInv, NEW j \in Jobs, EnterGate(j)
  PROVE  IInv'
<1>0. UNCHANGED <<now, gate, status, payment, polled, lambda, born, edited, calls>>
  BY DEF EnterGate, store, cloud
<1>1. TypeOK'
  BY <1>0, Numbers DEF IInv, TypeOK, EnterGate, Times
<1>2. RequestsMatchJobs'
  BY <1>0, Numbers DEF IInv, TypeOK, RequestsMatchJobs, EnterGate
<1>3. ReadsAreOld'
  BY <1>0, RunJob, Numbers DEF IInv, TypeOK, ReadsAreOld, Reservable, Held, Expired,
     EnterGate
<1>4. StartedRunsHoldTheGate'
  BY <1>0, RunJob, Numbers DEF IInv, TypeOK, StartedRunsHoldTheGate, Started, Holds,
     Compensated, EnterGate
<1>5. EditsAreKnown'
  BY <1>0, RunJob, Numbers DEF IInv, TypeOK, EditsAreKnown, Quiet, Holds, Compensated,
     EnterGate
<1>6. OthersAreQuiet'
  BY <1>0, RunJob, Numbers DEF IInv, TypeOK, OthersAreQuiet, Held, Quiet, Compensated,
     EnterGate
<1>7. (LivesAreBounded /\ GateHoldsTheProcessingJob /\ FailedMeansRefunded
       /\ LastCallsAreLast /\ OneRunClaims)'
  BY <1>0 DEF IInv, LivesAreBounded, Alive, GateHoldsTheProcessingJob,
     FailedMeansRefunded, LastCallsAreLast, OneRunClaims, Started, Lifecycle!Settled
<1> QED
  BY <1>1, <1>2, <1>3, <1>4, <1>5, <1>6, <1>7 DEF IInv

\* The gate changes hands: the old job is settled, the new one is processing
\* and paid, and the runs of every other job are quiet.
LEMMA AcceptStep ==
  ASSUME IInv, NEW j \in Jobs, Accept(j)
  PROVE  IInv'
<1>0. UNCHANGED <<now, polled, lambda, born, edited, calls>>
  BY DEF Accept, cloud
<1>1. /\ gate \in Gate /\ entered \in Nat /\ entered <= now /\ Reservable(gate, entered)
      /\ now \in Nat /\ locker = j /\ request[j] = "uploading" /\ status[j] = "ABSENT"
  BY Numbers DEF IInv, TypeOK, Accept, RequestsMatchJobs, ReadsAreOld
<1>2. /\ gate' \in Gate /\ gate'.active_job_id = j /\ gate'.active_run_id = NoRun
      /\ gate'.last_edit_sent_at = gate.last_edit_sent_at
  BY <1>1, ReserveGate DEF Accept
<1>3. \A i \in Jobs : Compensated(i)' <=> Compensated(i)
  BY <1>1 DEF Accept, Compensated
<1>4. \A s \in Runs : Quiet(s)'
  BY <1>0, <1>1, <1>3, ReservableIsQuiet, RunJob DEF Quiet
<1>5. \A r \in Runs : Started(r) => Compensated(r[1])
  <2> SUFFICES ASSUME NEW r \in Runs, Started(r), ~Compensated(r[1])
               PROVE  FALSE
    OBVIOUS
  <2>1. Holds(r) /\ now < gate.lease_until
    BY StartedRunsHaveTime
  <2>2. gate.lease_until <= entered
    BY <1>1, <2>1, RunJob, Numbers DEF Holds, Reservable, Held, Expired
  <2>3. gate.lease_until \in Int
    BY <1>1, GateFields, Numbers DEF Times
  <2> QED
    BY <1>1, <2>1, <2>2, <2>3
<1>6. TypeOK'
  <2>1. /\ status' \in [Jobs -> {"ABSENT", "PROCESSING", "COMPLETED", "FAILED"}]
        /\ payment' \in [Jobs -> {"NONE", "DEDUCTED", "REFUNDED"}]
    BY DEF Accept, IInv, TypeOK
  <2>2. /\ locker' \in Jobs \cup {NoJob} /\ entered' \in Times
        /\ request' \in [Jobs -> {"new", "checked", "uploading", "triggering",
                                  "compensating", "compensated", "done", "gone"}]
    BY DEF Accept, IInv, TypeOK, Times
  <2> QED
    BY <1>0, <1>2, <2>1, <2>2 DEF IInv, TypeOK
<1>7. GateHoldsTheProcessingJob'
  BY <1>0, Numbers DEF IInv, TypeOK, GateHoldsTheProcessingJob, Accept, Reserve
<1>8. FailedMeansRefunded'
  BY <1>0, Numbers DEF IInv, FailedMeansRefunded, Accept
<1>9. RequestsMatchJobs'
  BY <1>0, Numbers DEF IInv, TypeOK, RequestsMatchJobs, Accept
<1>10. ReadsAreOld'
  BY <1>0, RunJob, Numbers DEF IInv, TypeOK, ReadsAreOld, Reservable, Held, Expired,
     CoolingDown, Accept
<1>11. StartedRunsHoldTheGate'
  BY <1>0, <1>3, <1>5, RunJob DEF StartedRunsHoldTheGate, Started
<1>12. EditsAreKnown'
  BY <1>4 DEF EditsAreKnown
<1>13. OthersAreQuiet'
  BY <1>4 DEF OthersAreQuiet
<1>14. OneRunClaims'
  <2>1. \A i \in Jobs : i = gate.active_job_id \/ Lifecycle!Settled(i) => Lifecycle!Settled(i)'
    BY <1>1, ActiveJob DEF Accept, Lifecycle!Settled
  <2> QED
    BY <1>0, <2>1, RunJob DEF IInv, OneRunClaims, Started
<1>15. (LivesAreBounded /\ LastCallsAreLast)'
  BY <1>0 DEF IInv, LivesAreBounded, Alive, LastCallsAreLast
<1> QED
  BY <1>6, <1>7, <1>8, <1>9, <1>10, <1>11, <1>12, <1>13, <1>14, <1>15 DEF IInv

\* The trigger has been answered.
LEMMA TriggeredStep ==
  ASSUME IInv, NEW j \in Jobs, Triggered(j)
  PROVE  IInv'
<1>0. UNCHANGED <<now, gate, locker, entered, status, payment, polled, lambda, born,
                  edited, calls>>
  BY DEF Triggered, store, cloud
<1>1. TypeOK'
  BY <1>0, Numbers DEF IInv, TypeOK, Triggered
<1>2. RequestsMatchJobs'
  BY <1>0, Numbers DEF IInv, RequestsMatchJobs, Triggered
<1>3. StartedRunsHoldTheGate'
  BY <1>0, RunJob, Numbers DEF IInv, TypeOK, StartedRunsHoldTheGate, Started, Holds,
     Compensated, Triggered
<1>4. EditsAreKnown'
  BY <1>0, RunJob, Numbers DEF IInv, TypeOK, EditsAreKnown, Quiet, Holds, Compensated,
     Triggered
<1>5. OthersAreQuiet'
  BY <1>0, RunJob, Numbers DEF IInv, TypeOK, OthersAreQuiet, Held, Quiet, Compensated,
     Triggered
<1>6. (LivesAreBounded /\ GateHoldsTheProcessingJob /\ FailedMeansRefunded
       /\ ReadsAreOld /\ LastCallsAreLast /\ OneRunClaims)'
  BY <1>0 DEF IInv, LivesAreBounded, Alive, GateHoldsTheProcessingJob,
     FailedMeansRefunded, ReadsAreOld, Reservable, Held, Expired, CoolingDown,
     LastCallsAreLast, OneRunClaims, Started, Lifecycle!Settled
<1> QED
  BY <1>1, <1>2, <1>3, <1>4, <1>5, <1>6 DEF IInv

\* The trigger has raised; its job has a row to compensate.
LEMMA TriggerFailsStep ==
  ASSUME IInv, NEW j \in Jobs, TriggerFails(j)
  PROVE  IInv'
<1>0. UNCHANGED <<now, gate, locker, entered, status, payment, polled, lambda, born,
                  edited, calls>>
  BY DEF TriggerFails, store, cloud
<1>1. TypeOK'
  BY <1>0, Numbers DEF IInv, TypeOK, TriggerFails
<1>2. RequestsMatchJobs'
  BY <1>0, Numbers DEF IInv, RequestsMatchJobs, TriggerFails
<1>3. StartedRunsHoldTheGate'
  BY <1>0, RunJob, Numbers DEF IInv, TypeOK, StartedRunsHoldTheGate, Started, Holds,
     Compensated, TriggerFails
<1>4. EditsAreKnown'
  BY <1>0, RunJob, Numbers DEF IInv, TypeOK, EditsAreKnown, Quiet, Holds, Compensated,
     TriggerFails
<1>5. OthersAreQuiet'
  BY <1>0, RunJob, Numbers DEF IInv, TypeOK, OthersAreQuiet, Held, Quiet, Compensated,
     TriggerFails
<1>6. (LivesAreBounded /\ GateHoldsTheProcessingJob /\ FailedMeansRefunded
       /\ ReadsAreOld /\ LastCallsAreLast /\ OneRunClaims)'
  BY <1>0 DEF IInv, LivesAreBounded, Alive, GateHoldsTheProcessingJob,
     FailedMeansRefunded, ReadsAreOld, Reservable, Held, Expired, CoolingDown,
     LastCallsAreLast, OneRunClaims, Started, Lifecycle!Settled
<1> QED
  BY <1>1, <1>2, <1>3, <1>4, <1>5, <1>6 DEF IInv

\* The compensation settles its own job, and releases no gate but its own.
\* A run it may have left behind is from now on a compensated one.
LEMMA CompensateStep ==
  ASSUME IInv, NEW j \in Jobs, Compensate(j)
  PROVE  IInv'
<1>0. UNCHANGED <<now, locker, entered, polled, lambda, born, edited, calls>>
  BY DEF Compensate, cloud
<1>1. TypeOK'
  BY <1>0, Numbers DEF IInv, TypeOK, Compensate, Release, Gate, Times
<1>2. GateHoldsTheProcessingJob'
  BY <1>0, Numbers DEF IInv, TypeOK, GateHoldsTheProcessingJob, Compensate, Release, Gate
<1>3. FailedMeansRefunded'
  BY <1>0, Numbers DEF IInv, TypeOK, FailedMeansRefunded, Compensate
<1>4. RequestsMatchJobs'
  BY <1>0, Numbers DEF IInv, RequestsMatchJobs, Compensate
<1>5. ReadsAreOld'
  BY <1>0, RunJob, Numbers DEF IInv, TypeOK, ReadsAreOld, Reservable, Held, Expired,
     CoolingDown, Compensate, Release
<1>6. StartedRunsHoldTheGate'
  BY <1>0, RunJob, Numbers DEF IInv, TypeOK, StartedRunsHoldTheGate, Started, Holds,
     Compensated, Compensate, Release
<1>7. EditsAreKnown'
  BY <1>0, RunJob, Numbers DEF IInv, TypeOK, EditsAreKnown, Quiet, Holds, Compensated,
     Compensate, Release
<1>8. OthersAreQuiet'
  BY <1>0, RunJob, Numbers DEF IInv, TypeOK, OthersAreQuiet, Held, Quiet, Compensated,
     Compensate, Release
<1>9. OneRunClaims'
  BY <1>0, RunJob, Numbers DEF IInv, TypeOK, OneRunClaims, Started, Lifecycle!Settled,
     Compensate, Release
<1>10. (LivesAreBounded /\ LastCallsAreLast)'
  BY <1>0 DEF IInv, LivesAreBounded, Alive, LastCallsAreLast
<1> QED
  BY <1>1, <1>2, <1>3, <1>4, <1>5, <1>6, <1>7, <1>8, <1>9, <1>10 DEF IInv

\* A request that goes leaves no lock behind.
LEMMA AbandonStep ==
  ASSUME IInv, NEW j \in Jobs, Abandon(j)
  PROVE  IInv'
<1>0. UNCHANGED <<now, gate, status, payment, polled, lambda, born, edited, calls>>
  BY DEF Abandon, store, cloud
<1>1. TypeOK'
  BY <1>0, Numbers DEF IInv, TypeOK, Abandon, Times
<1>2. RequestsMatchJobs'
  BY <1>0, Numbers DEF IInv, TypeOK, RequestsMatchJobs, Abandon
<1>3. ReadsAreOld'
  BY <1>0, RunJob, Numbers DEF IInv, TypeOK, ReadsAreOld, Reservable, Held, Expired,
     Abandon
<1>4. StartedRunsHoldTheGate'
  BY <1>0, RunJob, Numbers DEF IInv, TypeOK, StartedRunsHoldTheGate, Started, Holds,
     Compensated, Abandon
<1>5. EditsAreKnown'
  BY <1>0, RunJob, Numbers DEF IInv, TypeOK, EditsAreKnown, Quiet, Holds, Compensated,
     Abandon
<1>6. OthersAreQuiet'
  BY <1>0, RunJob, Numbers DEF IInv, TypeOK, OthersAreQuiet, Held, Quiet, Compensated,
     Abandon
<1>7. (LivesAreBounded /\ GateHoldsTheProcessingJob /\ FailedMeansRefunded
       /\ LastCallsAreLast /\ OneRunClaims)'
  BY <1>0 DEF IInv, LivesAreBounded, Alive, GateHoldsTheProcessingJob,
     FailedMeansRefunded, LastCallsAreLast, OneRunClaims, Started, Lifecycle!Settled
<1> QED
  BY <1>1, <1>2, <1>3, <1>4, <1>5, <1>6, <1>7 DEF IInv

-----------------------------------------------------------------------------
(* Status streams                                                          *)

\* What a stream has read is the present, and then the past.
LEMMA PollReadsStep ==
  ASSUME IInv, PollReads
  PROVE  IInv'
<1>0. UNCHANGED <<now, gate, locker, entered, status, payment, request, lambda, born,
                  edited, calls>>
  BY DEF PollReads, store, cloud
<1>1. TypeOK'
  BY <1>0, Numbers DEF IInv, TypeOK, PollReads, Times
<1>2. ReadsAreOld'
  BY <1>0, RunJob, Numbers DEF IInv, TypeOK, ReadsAreOld, Reservable, Held, Expired,
     PollReads
<1>3. (LivesAreBounded /\ GateHoldsTheProcessingJob /\ FailedMeansRefunded
       /\ RequestsMatchJobs /\ StartedRunsHoldTheGate /\ LastCallsAreLast
       /\ EditsAreKnown /\ OthersAreQuiet /\ OneRunClaims)'
  BY <1>0 DEF IInv, LivesAreBounded, Alive, GateHoldsTheProcessingJob,
     FailedMeansRefunded, RequestsMatchJobs, StartedRunsHoldTheGate, Started, Holds,
     Compensated, LastCallsAreLast, EditsAreKnown, Quiet, OthersAreQuiet, OneRunClaims,
     Lifecycle!Settled
<1> QED
  BY <1>1, <1>2, <1>3 DEF IInv

\* A gate released on expiry leaves only quiet runs behind.
LEMMA PollSettlesStep ==
  ASSUME IInv, PollSettles
  PROVE  IInv'
<1>0. UNCHANGED <<now, locker, entered, request, lambda, born, edited, calls>>
  BY DEF PollSettles, cloud
<1>1. /\ gate \in Gate /\ now \in Nat /\ polled \in Int /\ polled <= now
      /\ polled' = Never /\ locker = NoJob
  BY Numbers DEF IInv, TypeOK, Times, PollSettles, ReadsAreOld
<1>2. CASE ~Expired(gate, polled)
  <2>1. UNCHANGED store
    BY <1>2 DEF PollSettles
  <2>2. TypeOK' /\ ReadsAreOld'
    BY <1>0, <1>1, <2>1, Numbers DEF IInv, TypeOK, Times, ReadsAreOld, store
  <2> QED
    BY <1>0, <2>1, <2>2 DEF IInv, store, LivesAreBounded, Alive,
       GateHoldsTheProcessingJob, FailedMeansRefunded, RequestsMatchJobs,
       StartedRunsHoldTheGate, Started, Holds, Compensated, LastCallsAreLast,
       EditsAreKnown, Quiet, OthersAreQuiet, OneRunClaims, Lifecycle!Settled
<1>3. CASE Expired(gate, polled)
  <2> DEFINE j == gate.active_job_id
  <2>1. j \in Jobs /\ status[j] = "PROCESSING"
    BY <1>1, <1>3, GateFields, ActiveJob DEF Expired, Held
  <2>2. /\ status' = [i \in Jobs |-> IF i = j THEN "FAILED" ELSE status[i]]
        /\ payment' = [i \in Jobs |-> IF i = j THEN "REFUNDED" ELSE payment[i]]
        /\ gate' = Release(gate, j)
    BY <1>3, <2>1 DEF PollSettles
  <2>3. /\ gate' \in Gate /\ gate'.active_job_id = NoJob /\ gate'.active_run_id = NoRun
        /\ gate'.last_edit_sent_at = gate.last_edit_sent_at
    BY <1>1, <2>2, ReleaseGate
  <2>4. \A r \in Runs : Started(r) => Compensated(r[1])
    <3> SUFFICES ASSUME NEW r \in Runs, Started(r), ~Compensated(r[1])
                 PROVE  FALSE
      OBVIOUS
    <3>1. now < gate.lease_until /\ gate.lease_until \in Int
      BY <1>1, StartedRunsHaveTime, GateFields, Numbers DEF Times
    <3> QED
      BY <1>1, <1>3, <3>1 DEF Expired
  <2>5. \A s \in Runs : Holds(s) => Quiet(s)
    BY <1>1, <1>3, ExpiredRunsAreQuiet
  <2> HIDE DEF j
  <2>6. TypeOK' /\ ReadsAreOld'
    <3>1. /\ status' \in [Jobs -> {"ABSENT", "PROCESSING", "COMPLETED", "FAILED"}]
          /\ payment' \in [Jobs -> {"NONE", "DEDUCTED", "REFUNDED"}]
      BY <2>2 DEF IInv, TypeOK
    <3> QED
      BY <1>0, <1>1, <2>3, <3>1, Numbers DEF IInv, TypeOK, Times, ReadsAreOld
  <2>7. GateHoldsTheProcessingJob'
    BY <2>1, <2>2, <2>3, Numbers DEF IInv, GateHoldsTheProcessingJob
  <2>8. FailedMeansRefunded' /\ RequestsMatchJobs'
    BY <1>0, <2>1, <2>2 DEF IInv, FailedMeansRefunded, RequestsMatchJobs
  <2>9. StartedRunsHoldTheGate'
    BY <1>0, <2>4 DEF StartedRunsHoldTheGate, Started, Compensated
  <2>10. EditsAreKnown'
    BY <1>0, <2>3, <2>5 DEF IInv, EditsAreKnown, Quiet, Compensated
  <2>11. OthersAreQuiet'
    BY <2>3 DEF OthersAreQuiet, Held
  <2>12. OneRunClaims'
    <3>1. \A i \in Jobs : i = gate.active_job_id \/ Lifecycle!Settled(i) => Lifecycle!Settled(i)'
      BY <2>2 DEF Lifecycle!Settled, j
    <3> QED
      BY <1>0, <3>1, RunJob DEF IInv, OneRunClaims, Started
  <2>13. LivesAreBounded' /\ LastCallsAreLast'
    BY <1>0 DEF IInv, LivesAreBounded, Alive, LastCallsAreLast
  <2> QED
    BY <2>6, <2>7, <2>8, <2>9, <2>10, <2>11, <2>12, <2>13 DEF IInv
<1> QED
  BY <1>2, <1>3

-----------------------------------------------------------------------------
(* The Lambda                                                              *)

\* An invocation is queued; it is not alive and has sent nothing.
LEMMA InvokeStep ==
  ASSUME IInv, NEW r \in Runs, Invoke(r)
  PROVE  IInv'
<1>0. UNCHANGED <<now, gate, locker, entered, status, payment, request, polled, born,
                  edited, calls>>
  BY DEF Invoke, store, server
<1>1. TypeOK'
  BY <1>0, RunJob, Numbers DEF IInv, TypeOK, Invoke, Waiting
<1>2. LivesAreBounded'
  BY <1>0, RunJob, Numbers DEF IInv, TypeOK, LivesAreBounded, Alive, Invoke, Waiting,
     Working
<1>3. StartedRunsHoldTheGate'
  BY <1>0, RunJob, Numbers DEF IInv, TypeOK, StartedRunsHoldTheGate, Started, Holds,
     Compensated, Invoke
<1>4. LastCallsAreLast'
  BY <1>0, RunJob, Numbers DEF IInv, LastCallsAreLast, Invoke
<1>5. OneRunClaims'
  BY <1>0, RunJob, Numbers DEF IInv, TypeOK, OneRunClaims, Started, Lifecycle!Settled,
     Invoke
<1>6. (GateHoldsTheProcessingJob /\ FailedMeansRefunded /\ RequestsMatchJobs
       /\ ReadsAreOld /\ EditsAreKnown /\ OthersAreQuiet)'
  BY <1>0 DEF IInv, GateHoldsTheProcessingJob, FailedMeansRefunded, RequestsMatchJobs,
     ReadsAreOld, Reservable, Held, Expired, CoolingDown, EditsAreKnown, Quiet, Holds,
     Compensated, OthersAreQuiet
<1> QED
  BY <1>1, <1>2, <1>3, <1>4, <1>5, <1>6 DEF IInv

\* An invocation begins its life; its first call is not a last one.
LEMMA DeliverStep ==
  ASSUME IInv, NEW r \in Runs, Deliver(r)
  PROVE  IInv'
<1>0. UNCHANGED <<now, gate, locker, entered, status, payment, request, polled, edited>>
  BY DEF Deliver, Send, store, server
<1>1. TypeOK'
  BY <1>0, RunJob, Numbers DEF IInv, TypeOK, Deliver, Send, Waiting, Working, Call, Times
<1>2. LivesAreBounded'
  BY <1>0, RunJob, Numbers DEF IInv, TypeOK, LivesAreBounded, Alive, Deliver, Send
<1>3. StartedRunsHoldTheGate'
  BY <1>0, RunJob, Numbers DEF IInv, TypeOK, StartedRunsHoldTheGate, Started, Holds,
     Compensated, Deliver, Send
<1>4. LastCallsAreLast'
  BY <1>0, RunJob, Numbers DEF IInv, TypeOK, LastCallsAreLast, Deliver, Send
<1>5. EditsAreKnown'
  <2> SUFFICES ASSUME NEW s \in Runs
               PROVE  (Quiet(s) \/ Holds(s) \/ edited[s] <= gate.last_edit_sent_at)'
    BY DEF EditsAreKnown
  <2>1. CASE s = r
    BY <1>0, <2>1 DEF IInv, LivesAreBounded, Deliver, Quiet
  <2>2. CASE s # r
    <3>1. born'[s] = born[s]
      BY <2>2 DEF Deliver
    <3> QED
      BY <1>0, <3>1 DEF IInv, EditsAreKnown, Quiet, Holds, Compensated
  <2> QED
    BY <2>1, <2>2
<1>6. OneRunClaims'
  BY <1>0, RunJob, Numbers DEF IInv, TypeOK, OneRunClaims, Started, Lifecycle!Settled,
     Deliver, Send
<1>7. (GateHoldsTheProcessingJob /\ FailedMeansRefunded /\ RequestsMatchJobs
       /\ ReadsAreOld /\ OthersAreQuiet)'
  BY <1>0 DEF IInv, GateHoldsTheProcessingJob, FailedMeansRefunded, RequestsMatchJobs,
     ReadsAreOld, Reservable, Held, Expired, OthersAreQuiet, Quiet, Compensated
<1> QED
  BY <1>1, <1>2, <1>3, <1>4, <1>5, <1>6, <1>7 DEF IInv

\* A working run announces its edits.
LEMMA RecordEditsStep ==
  ASSUME IInv, NEW r \in Runs, RecordEdits(r)
  PROVE  IInv'
<1>0. UNCHANGED <<now, gate, locker, entered, status, payment, request, polled, born,
                  edited>>
  BY DEF RecordEdits, Send, store, server
<1>1. TypeOK'
  BY <1>0, RunJob, Numbers DEF IInv, TypeOK, RecordEdits, Send, Waiting, Working, Call
<1>2. LivesAreBounded'
  BY <1>0, RunJob, Numbers DEF IInv, TypeOK, LivesAreBounded, Alive, RecordEdits, Send
<1>3. StartedRunsHoldTheGate'
  BY <1>0, RunJob, Numbers DEF IInv, TypeOK, StartedRunsHoldTheGate, Started, Holds,
     Compensated, RecordEdits, Send
<1>4. LastCallsAreLast'
  BY <1>0, RunJob, Numbers DEF IInv, TypeOK, LastCallsAreLast, RecordEdits, Send
<1>5. OneRunClaims'
  BY <1>0, RunJob, Numbers DEF IInv, TypeOK, OneRunClaims, Started, Lifecycle!Settled,
     RecordEdits, Send
<1>6. (GateHoldsTheProcessingJob /\ FailedMeansRefunded /\ RequestsMatchJobs
       /\ ReadsAreOld /\ EditsAreKnown /\ OthersAreQuiet)'
  BY <1>0 DEF IInv, GateHoldsTheProcessingJob, FailedMeansRefunded, RequestsMatchJobs,
     ReadsAreOld, Reservable, Held, Expired, CoolingDown, EditsAreKnown, Quiet, Holds,
     Compensated, OthersAreQuiet
<1> QED
  BY <1>1, <1>2, <1>3, <1>4, <1>5, <1>6 DEF IInv

\* A run that edits has the gate, so its edit need not be known to it yet.
LEMMA SendEditStep ==
  ASSUME IInv, NEW r \in Runs, SendEdit(r)
  PROVE  IInv'
<1>0. UNCHANGED <<now, gate, locker, entered, status, payment, request, polled, lambda,
                  born, calls>>
  BY DEF SendEdit, store, server
<1>1. Holds(r) \/ Compensated(r[1])
  BY DEF SendEdit, Started, IInv, StartedRunsHoldTheGate
<1>2. \A s \in Runs : s # r => edited'[s] = edited[s]
  BY DEF SendEdit
<1>3. \A s \in Runs : s # r => (Quiet(s) => Quiet(s)')
  BY <1>0, <1>2 DEF Quiet, Compensated
<1>4. TypeOK'
  BY <1>0, RunJob, Numbers DEF IInv, TypeOK, SendEdit, Times
<1>5. LivesAreBounded'
  BY <1>0, RunJob, Numbers DEF IInv, TypeOK, LivesAreBounded, Alive, SendEdit
<1>6. LastCallsAreLast'
  BY <1>0, RunJob, Numbers DEF IInv, LastCallsAreLast, SendEdit
<1>7. EditsAreKnown'
  BY <1>0, <1>1, <1>2, <1>3 DEF IInv, EditsAreKnown, Quiet, Holds, Compensated
<1>8. OthersAreQuiet'
  BY <1>0, <1>1, <1>3 DEF IInv, OthersAreQuiet, Quiet, Holds, Compensated
<1>9. OneRunClaims'
  BY <1>0, RunJob, Numbers DEF IInv, TypeOK, OneRunClaims, Started, Lifecycle!Settled,
     SendEdit
<1>10. (GateHoldsTheProcessingJob /\ FailedMeansRefunded /\ RequestsMatchJobs
        /\ ReadsAreOld /\ StartedRunsHoldTheGate)'
  BY <1>0 DEF IInv, GateHoldsTheProcessingJob, FailedMeansRefunded, RequestsMatchJobs,
     ReadsAreOld, Reservable, Held, Expired, CoolingDown, StartedRunsHoldTheGate,
     Started, Holds, Compensated
<1> QED
  BY <1>4, <1>5, <1>6, <1>7, <1>8, <1>9, <1>10 DEF IInv

\* A run reports its edits, or goes on without.
LEMMA SettleEditsStep ==
  ASSUME IInv, NEW r \in Runs, SettleEdits(r)
  PROVE  IInv'
<1>0. UNCHANGED <<now, gate, locker, entered, status, payment, request, polled, born,
                  edited>>
  BY DEF SettleEdits, Send, store, server
<1>1. TypeOK'
  <2>1. Elapsed(r) \in 0..AI_TIMEOUT
    BY ElapsedSinceEdit DEF SettleEdits, Alive, Working
  <2>2. calls' \subseteq Call
    BY <2>1 DEF SettleEdits, Send, Call, Waiting, IInv, TypeOK
  <2> QED
    BY <1>0, <2>2 DEF IInv, TypeOK, SettleEdits, Send, Waiting, Working
<1>2. LivesAreBounded'
  BY <1>0, RunJob, Numbers DEF IInv, TypeOK, LivesAreBounded, Alive, SettleEdits, Send
<1>3. StartedRunsHoldTheGate'
  BY <1>0, RunJob, Numbers DEF IInv, TypeOK, StartedRunsHoldTheGate, Started, Holds,
     Compensated, SettleEdits, Send
<1>4. LastCallsAreLast'
  BY <1>0, RunJob, Numbers DEF IInv, TypeOK, LastCallsAreLast, SettleEdits, Send, Call
<1>5. OneRunClaims'
  BY <1>0, RunJob, Numbers DEF IInv, TypeOK, OneRunClaims, Started, Lifecycle!Settled,
     SettleEdits, Send
<1>6. (GateHoldsTheProcessingJob /\ FailedMeansRefunded /\ RequestsMatchJobs
       /\ ReadsAreOld /\ EditsAreKnown /\ OthersAreQuiet)'
  BY <1>0 DEF IInv, GateHoldsTheProcessingJob, FailedMeansRefunded, RequestsMatchJobs,
     ReadsAreOld, Reservable, Held, Expired, CoolingDown, EditsAreKnown, Quiet, Holds,
     Compensated, OthersAreQuiet
<1> QED
  BY <1>1, <1>2, <1>3, <1>4, <1>5, <1>6 DEF IInv

\* A run makes its last call: it says how old its last edit is.
LEMMA SendCompleteStep ==
  ASSUME IInv, NEW r \in Runs, SendComplete(r)
  PROVE  IInv'
<1>0. UNCHANGED <<now, gate, locker, entered, status, payment, request, polled, born,
                  edited>>
  BY DEF SendComplete, Send, store, server
<1>1. TypeOK'
  <2>1. Elapsed(r) \in 0..AI_TIMEOUT
    BY ElapsedSinceEdit DEF SendComplete, Alive, Working
  <2>2. calls' \subseteq Call
    BY <2>1 DEF SendComplete, Send, Call, Waiting, IInv, TypeOK
  <2> QED
    BY <1>0, <2>2 DEF IInv, TypeOK, SendComplete, Send, Waiting
<1>2. LivesAreBounded'
  BY <1>0, RunJob, Numbers DEF IInv, TypeOK, LivesAreBounded, Alive, SendComplete, Send
<1>3. StartedRunsHoldTheGate'
  BY <1>0, RunJob, Numbers DEF IInv, TypeOK, StartedRunsHoldTheGate, Started, Holds,
     Compensated, SendComplete, Send
<1>4. LastCallsAreLast'
  <2>1. edited[r] # Never => edited[r] <= now - Elapsed(r)
    BY ElapsedSinceEdit, Numbers DEF SendComplete, Alive, IInv, TypeOK
  <2> QED
    BY <1>0, <2>1 DEF IInv, TypeOK, LastCallsAreLast, SendComplete, Send
<1>5. OneRunClaims'
  BY <1>0, RunJob, Numbers DEF IInv, TypeOK, OneRunClaims, Started, Lifecycle!Settled,
     SendComplete, Send
<1>6. (GateHoldsTheProcessingJob /\ FailedMeansRefunded /\ RequestsMatchJobs
       /\ ReadsAreOld /\ EditsAreKnown /\ OthersAreQuiet)'
  BY <1>0 DEF IInv, GateHoldsTheProcessingJob, FailedMeansRefunded, RequestsMatchJobs,
     ReadsAreOld, Reservable, Held, Expired, CoolingDown, EditsAreKnown, Quiet, Holds,
     Compensated, OthersAreQuiet
<1> QED
  BY <1>1, <1>2, <1>3, <1>4, <1>5, <1>6 DEF IInv

\* A run that fails makes its last call as one that completes does.
LEMMA SendFailStep ==
  ASSUME IInv, NEW r \in Runs, SendFail(r)
  PROVE  IInv'
<1>0. UNCHANGED <<now, gate, locker, entered, status, payment, request, polled, born,
                  edited>>
  BY DEF SendFail, Send, store, server
<1>1. TypeOK'
  <2>1. Elapsed(r) \in 0..AI_TIMEOUT
    BY ElapsedSinceEdit DEF SendFail, Alive
  <2>2. calls' \subseteq Call
    BY <2>1 DEF SendFail, Send, Call, Waiting, IInv, TypeOK
  <2> QED
    BY <1>0, <2>2 DEF IInv, TypeOK, SendFail, Send, Waiting
<1>2. LivesAreBounded'
  BY <1>0, RunJob, Numbers DEF IInv, TypeOK, LivesAreBounded, Alive, SendFail, Send
<1>3. StartedRunsHoldTheGate'
  BY <1>0, RunJob, Numbers DEF IInv, TypeOK, StartedRunsHoldTheGate, Started, Holds,
     Compensated, SendFail, Send
<1>4. LastCallsAreLast'
  <2>1. edited[r] # Never => edited[r] <= now - Elapsed(r)
    BY ElapsedSinceEdit, Numbers DEF SendFail, Alive, IInv, TypeOK
  <2> QED
    BY <1>0, <2>1 DEF IInv, TypeOK, LastCallsAreLast, SendFail, Send
<1>5. OneRunClaims'
  BY <1>0, RunJob, Numbers DEF IInv, TypeOK, OneRunClaims, Started, Lifecycle!Settled,
     SendFail, Send
<1>6. (GateHoldsTheProcessingJob /\ FailedMeansRefunded /\ RequestsMatchJobs
       /\ ReadsAreOld /\ EditsAreKnown /\ OthersAreQuiet)'
  BY <1>0 DEF IInv, GateHoldsTheProcessingJob, FailedMeansRefunded, RequestsMatchJobs,
     ReadsAreOld, Reservable, Held, Expired, CoolingDown, EditsAreKnown, Quiet, Holds,
     Compensated, OthersAreQuiet
<1> QED
  BY <1>1, <1>2, <1>3, <1>4, <1>5, <1>6 DEF IInv

\* An answer that never came stops the pipeline, and starts nothing.
LEMMA TimesOutStep ==
  ASSUME IInv, NEW r \in Runs, TimesOut(r)
  PROVE  IInv'
<1>0. UNCHANGED <<now, gate, locker, entered, status, payment, request, polled, born,
                  edited, calls>>
  BY DEF TimesOut, store, server
<1>1. /\ lambda' \in [Runs -> {"none", "queued", "ended"} \cup Waiting \cup Working]
      /\ \A s \in Runs : lambda'[s] # lambda[s]
                         => lambda[s] \in Waiting /\ lambda'[s] \in {"ended", "raised"}
  <2>1. lambda[r] \in Waiting /\ lambda' = [lambda EXCEPT ![r] = AfterError[lambda[r]]]
    BY DEF TimesOut
  <2>2. AfterError[lambda[r]] \in {"ended", "raised"}
    BY <2>1, ErrorsStop
  <2>3. lambda \in [Runs -> {"none", "queued", "ended"} \cup Waiting \cup Working]
    BY DEF IInv, TypeOK
  <2>4. {"ended", "raised"} \subseteq {"none", "queued", "ended"} \cup Waiting \cup Working
    BY DEF Working
  <2> QED
    BY <2>1, <2>2, <2>3, <2>4
<1>2. TypeOK'
  BY <1>0, <1>1 DEF IInv, TypeOK
<1>3. LivesAreBounded'
  BY <1>0, <1>1 DEF IInv, LivesAreBounded, Alive
<1>4. StartedRunsHoldTheGate'
  BY <1>0, <1>1 DEF IInv, StartedRunsHoldTheGate, Started, Holds, Compensated
<1>5. LastCallsAreLast'
  BY <1>0, <1>1 DEF IInv, TypeOK, Call, LastCallsAreLast
<1>6. OneRunClaims'
  BY <1>0, <1>1 DEF IInv, OneRunClaims, Started, Lifecycle!Settled
<1>7. (GateHoldsTheProcessingJob /\ FailedMeansRefunded /\ RequestsMatchJobs
       /\ ReadsAreOld /\ EditsAreKnown /\ OthersAreQuiet)'
  BY <1>0 DEF IInv, GateHoldsTheProcessingJob, FailedMeansRefunded, RequestsMatchJobs,
     ReadsAreOld, Reservable, Held, Expired, CoolingDown, EditsAreKnown, Quiet, Holds,
     Compensated, OthersAreQuiet
<1> QED
  BY <1>2, <1>3, <1>4, <1>5, <1>6, <1>7 DEF IInv

\* A dead invocation sends nothing more.
LEMMA DiesStep ==
  ASSUME IInv, NEW r \in Runs, Dies(r)
  PROVE  IInv'
<1>0. UNCHANGED <<now, gate, locker, entered, status, payment, request, polled, born,
                  edited, calls>>
  BY DEF Dies, store, server
<1>1. TypeOK'
  BY <1>0, RunJob, Numbers DEF IInv, TypeOK, Dies, Waiting
<1>2. LivesAreBounded'
  BY <1>0, RunJob, Numbers DEF IInv, TypeOK, LivesAreBounded, Alive, Dies, Waiting,
     Working
<1>3. StartedRunsHoldTheGate'
  BY <1>0, RunJob, Numbers DEF IInv, TypeOK, StartedRunsHoldTheGate, Started, Holds,
     Compensated, Dies
<1>4. LastCallsAreLast'
  BY <1>0, RunJob, Numbers DEF IInv, LastCallsAreLast, Dies
<1>5. OneRunClaims'
  BY <1>0, RunJob, Numbers DEF IInv, TypeOK, OneRunClaims, Started, Lifecycle!Settled,
     Dies
<1>6. (GateHoldsTheProcessingJob /\ FailedMeansRefunded /\ RequestsMatchJobs
       /\ ReadsAreOld /\ EditsAreKnown /\ OthersAreQuiet)'
  BY <1>0 DEF IInv, GateHoldsTheProcessingJob, FailedMeansRefunded, RequestsMatchJobs,
     ReadsAreOld, Reservable, Held, Expired, CoolingDown, EditsAreKnown, Quiet, Holds,
     Compensated, OthersAreQuiet
<1> QED
  BY <1>1, <1>2, <1>3, <1>4, <1>5, <1>6 DEF IInv

-----------------------------------------------------------------------------
(* Callbacks                                                               *)

\* The run that claims an unclaimed gate has it, with a lease that outlasts
\* its life by the pause.
LEMMA HandleStartStep ==
  ASSUME IInv, NEW c \in calls, locker = NoJob, HandleStart(c)
  PROVE  IInv'
<1>0. UNCHANGED <<now, locker, entered, status, payment, request, polled, born, edited>>
  BY DEF HandleStart, Answer, server
<1>1. /\ gate \in Gate /\ now \in Nat /\ c.run \in Runs /\ c.run[1] \in Jobs
      /\ gate.active_job_id = c.run[1] /\ gate.active_run_id = NoRun
      /\ status[c.run[1]] = "PROCESSING"
  BY RunJob, ActiveJob DEF HandleStart, Claimable, IInv, TypeOK, Call
<1>2. /\ gate' \in Gate /\ gate'.active_job_id = c.run[1] /\ gate'.active_run_id = c.run
      /\ gate'.lease_until = now + RUNNING_LEASE
      /\ gate'.last_edit_sent_at = gate.last_edit_sent_at
  BY <1>1, ClaimGate DEF HandleStart
<1>3. /\ lambda' \in [Runs -> {"none", "queued", "ended"} \cup Waiting \cup Working]
      /\ calls' \subseteq calls
      /\ \A r \in Runs : r # c.run => lambda'[r] = lambda[r]
      /\ \/ lambda'[c.run] = lambda[c.run]
         \/ lambda[c.run] = "starting" /\ lambda'[c.run] = "working"
  BY <1>1 DEF HandleStart, Answer, AfterOk, IInv, TypeOK, Working
<1>4. \A r \in Runs : ~Holds(r)
  BY <1>1, Numbers DEF Holds
<1>5. TypeOK'
  BY <1>0, <1>2, <1>3 DEF IInv, TypeOK
<1>6. LivesAreBounded'
  BY <1>0, RunJob, Numbers DEF IInv, TypeOK, LivesAreBounded, Alive, HandleStart, Answer,
     AfterOk, Claim
<1>7. GateHoldsTheProcessingJob'
  BY <1>0, RunJob, Numbers DEF IInv, TypeOK, GateHoldsTheProcessingJob, HandleStart,
     Answer, Claim
<1>8. ReadsAreOld'
  BY <1>0, RunJob, Numbers DEF IInv, TypeOK, ReadsAreOld, Reservable, Held, Expired,
     CoolingDown, HandleStart, Answer, AfterOk
<1>9. StartedRunsHoldTheGate'
  <2> SUFFICES ASSUME NEW r \in Runs, Started(r)'
               PROVE  (Holds(r) \/ Compensated(r[1]))'
    BY DEF StartedRunsHoldTheGate
  <2>1. CASE Started(r)
    BY <1>0, <1>4, <2>1 DEF IInv, StartedRunsHoldTheGate, Compensated
  <2>2. CASE ~Started(r)
    <3>1. r = c.run /\ lambda[r] = "starting"
      BY <1>3, <2>2 DEF Started
    <3>2. born[r] \in 0..now
      BY <3>1 DEF IInv, LivesAreBounded, Alive, Waiting
    <3> QED
      BY <1>0, <1>1, <1>2, <3>1, <3>2, Numbers DEF Holds
  <2> QED
    BY <2>1, <2>2
<1>10. LastCallsAreLast'
  BY <1>0, RunJob, Numbers DEF IInv, TypeOK, LastCallsAreLast, HandleStart, Answer, Call
<1>11. EditsAreKnown'
  BY <1>0, RunJob, Numbers DEF IInv, TypeOK, EditsAreKnown, Quiet, Holds, Compensated,
     HandleStart, Answer, AfterOk, Claim, Claimable
<1>12. OthersAreQuiet'
  BY <1>0, RunJob, Numbers DEF IInv, TypeOK, OthersAreQuiet, Held, Quiet, Compensated,
     HandleStart, Answer, AfterOk, Claim
<1>13. OneRunClaims'
  <2>1. \A r \in Runs : Started(r) \/ edited[r] # Never => Lifecycle!Settled(r[1]) /\ r[1] # c.run[1]
    BY <1>1, Numbers DEF IInv, OneRunClaims, Lifecycle!Settled
  <2>2. \A r \in Runs : Started(r)' \/ edited'[r] # Never => Started(r) \/ edited[r] # Never \/ r = c.run
    BY <1>0, <1>3 DEF Started
  <2>3. \A i \in Jobs : Lifecycle!Settled(i) <=> Lifecycle!Settled(i)'
    BY <1>0 DEF Lifecycle!Settled
  <2> SUFFICES ASSUME NEW r \in Runs, Started(r)' \/ edited'[r] # Never
               PROVE  /\ \/ gate'.active_run_id = r /\ gate'.active_job_id = r[1]
                         \/ Lifecycle!Settled(r[1])'
                      /\ \A s \in Runs : s[1] = r[1] /\ (Started(s)' \/ edited'[s] # Never) => s = r
    BY DEF OneRunClaims
  <2>4. CASE r = c.run
    BY <1>2, <2>1, <2>2, <2>4
  <2>5. CASE r # c.run
    <3>1. Started(r) \/ edited[r] # Never
      BY <2>2, <2>5
    <3>2. Lifecycle!Settled(r[1])' /\ r[1] # c.run[1]
      BY <2>1, <2>3, <3>1, RunJob
    <3>3. \A s \in Runs : s[1] = r[1] /\ (Started(s)' \/ edited'[s] # Never)
                            => Started(s) \/ edited[s] # Never
      BY <2>2, <3>2
    <3> QED
      BY <3>1, <3>2, <3>3 DEF IInv, OneRunClaims
  <2> QED
    BY <2>4, <2>5
<1>14. (FailedMeansRefunded /\ RequestsMatchJobs)'
  BY <1>0 DEF IInv, FailedMeansRefunded, RequestsMatchJobs
<1> QED
  BY <1>5, <1>6, <1>7, <1>8, <1>9, <1>10, <1>11, <1>12, <1>13, <1>14 DEF IInv

\* The anchor moves forward, and the gate stays where it is.
LEMMA HandleEditStep ==
  ASSUME IInv, NEW c \in calls, locker = NoJob, HandleEdit(c)
  PROVE  IInv'
<1>0. UNCHANGED <<now, locker, entered, status, payment, request, polled, born, edited>>
  BY DEF HandleEdit, Answer, server
<1>1. TypeOK'
  BY <1>0, RunJob, Numbers DEF IInv, TypeOK, HandleEdit, Answer, AfterOk, RecordEdit,
     Owns, Waiting, Working, Call, Gate, Times
<1>2. LivesAreBounded'
  BY <1>0, RunJob, Numbers DEF IInv, TypeOK, LivesAreBounded, Alive, HandleEdit, Answer,
     AfterOk, RecordEdit
<1>3. GateHoldsTheProcessingJob'
  BY <1>0, RunJob, Numbers DEF IInv, TypeOK, GateHoldsTheProcessingJob, HandleEdit,
     Answer, RecordEdit
<1>4. ReadsAreOld'
  BY <1>0, RunJob, Numbers DEF IInv, TypeOK, ReadsAreOld, Reservable, Held, Expired,
     CoolingDown, HandleEdit, Answer, AfterOk
<1>5. StartedRunsHoldTheGate'
  BY <1>0, RunJob, Numbers DEF IInv, TypeOK, StartedRunsHoldTheGate, Started, Holds,
     Compensated, HandleEdit, Answer, RecordEdit
<1>6. LastCallsAreLast'
  BY <1>0, RunJob, Numbers DEF IInv, TypeOK, LastCallsAreLast, HandleEdit, Answer, Call
<1>7. EditsAreKnown'
  <2>1. gate \in Gate /\ now \in Nat /\ c.elapsed \in Nat
    BY DEF IInv, TypeOK, Call
  <2>2. /\ gate'.active_job_id = gate.active_job_id /\ gate'.active_run_id = gate.active_run_id
        /\ gate'.lease_until = gate.lease_until
        /\ gate'.last_edit_sent_at >= gate.last_edit_sent_at /\ gate' \in Gate
    BY <2>1, RecordEditGate DEF HandleEdit
  <2>3. gate'.last_edit_sent_at \in Int /\ gate.last_edit_sent_at \in Int
    BY <2>1, <2>2, GateFields, Numbers DEF Times
  <2>4. \A s \in Runs : edited[s] \in Int
    BY Numbers DEF IInv, TypeOK, Times
  <2> QED
    BY <1>0, <2>2, <2>3, <2>4 DEF IInv, EditsAreKnown, Quiet, Holds, Compensated
<1>8. OthersAreQuiet'
  BY <1>0, RunJob, Numbers DEF IInv, TypeOK, OthersAreQuiet, Held, Quiet, Compensated,
     HandleEdit, Answer, AfterOk, RecordEdit
<1>9. OneRunClaims'
  BY <1>0, RunJob, Numbers DEF IInv, TypeOK, OneRunClaims, Started, Lifecycle!Settled,
     HandleEdit, Answer, RecordEdit
<1>10. (FailedMeansRefunded /\ RequestsMatchJobs)'
  BY <1>0 DEF IInv, FailedMeansRefunded, RequestsMatchJobs
<1> QED
  BY <1>1, <1>2, <1>3, <1>4, <1>5, <1>6, <1>7, <1>8, <1>9, <1>10 DEF IInv

\* The run that has the gate gives it back, and the anchor then covers its
\* last edit.
LEMMA HandleCompleteStep ==
  ASSUME IInv, NEW c \in calls, locker = NoJob, HandleComplete(c)
  PROVE  IInv'
<1>0. UNCHANGED <<now, locker, entered, payment, request, polled, born, edited>>
  BY DEF HandleComplete, Answer, server
<1> DEFINE j == c.run[1]
<1>1. /\ gate \in Gate /\ now \in Nat /\ c.run \in Runs /\ j \in Jobs /\ c.elapsed \in Nat
      /\ gate.active_job_id = j /\ gate.active_run_id = c.run /\ status[j] = "PROCESSING"
  BY RunJob, ActiveJob, Numbers DEF HandleComplete, Owns, IInv, TypeOK, Call
<1>2. /\ status' = [status EXCEPT ![j] = "COMPLETED"]
      /\ gate' = Release(RecordEdit(gate, now, c.elapsed), j)
  BY <1>1 DEF HandleComplete
<1>3. /\ gate' \in Gate /\ gate'.active_job_id = NoJob /\ gate'.active_run_id = NoRun
      /\ gate'.last_edit_sent_at >= gate.last_edit_sent_at
      /\ gate'.last_edit_sent_at >= now - c.elapsed
  <2> DEFINE g == RecordEdit(gate, now, c.elapsed)
  <2>1. /\ g \in Gate /\ g.active_job_id = j
        /\ g.last_edit_sent_at >= gate.last_edit_sent_at
        /\ g.last_edit_sent_at >= now - c.elapsed
    BY <1>1, RecordEditGate
  <2> HIDE DEF g
  <2>2. /\ Release(g, j) \in Gate /\ Release(g, j).active_job_id = NoJob
        /\ Release(g, j).active_run_id = NoRun
        /\ Release(g, j).last_edit_sent_at = g.last_edit_sent_at
    BY <2>1, ReleaseGate
  <2> QED
    BY <1>2, <2>1, <2>2 DEF g
<1> HIDE DEF j
<1>4. /\ lambda' \in [Runs -> {"none", "queued", "ended"} \cup Waiting \cup Working]
      /\ calls' \subseteq calls
      /\ \A r \in Runs : lambda'[r] = lambda[r] \/ lambda'[r] = "ended"
  BY <1>1 DEF HandleComplete, Answer, AfterOk, IInv, TypeOK
<1>5. /\ lambda[c.run] \in {"completing", "failing", "raised", "ended"}
      /\ edited[c.run] # Never => edited[c.run] <= now - c.elapsed
  BY DEF HandleComplete, IInv, LastCallsAreLast
<1>6. TypeOK'
  <2>1. /\ status' \in [Jobs -> {"ABSENT", "PROCESSING", "COMPLETED", "FAILED"}]
        /\ payment' \in [Jobs -> {"NONE", "DEDUCTED", "REFUNDED"}]
    BY <1>0, <1>2 DEF IInv, TypeOK
  <2> QED
    BY <1>0, <1>3, <1>4, <2>1 DEF IInv, TypeOK
<1>7. LivesAreBounded'
  BY <1>0, <1>4 DEF IInv, LivesAreBounded, Alive, Waiting, Working
<1>8. GateHoldsTheProcessingJob'
  BY <1>1, <1>2, <1>3, Numbers DEF IInv, TypeOK, GateHoldsTheProcessingJob
<1>9. FailedMeansRefunded' /\ RequestsMatchJobs'
  BY <1>0, <1>1, <1>2 DEF IInv, FailedMeansRefunded, RequestsMatchJobs
<1>10. ReadsAreOld'
  BY <1>0 DEF IInv, ReadsAreOld
<1>11. StartedRunsHoldTheGate'
  <2>1. \A r \in Runs : Started(r)' => Started(r) /\ r # c.run
    BY <1>4, <1>5 DEF Started
  <2> QED
    BY <1>0, <1>1, <2>1 DEF IInv, StartedRunsHoldTheGate, Holds, Compensated
<1>12. LastCallsAreLast'
  BY <1>0, <1>4, <1>1 DEF IInv, TypeOK, Call, LastCallsAreLast
<1>13. EditsAreKnown'
  <2> SUFFICES ASSUME NEW s \in Runs
               PROVE  (Quiet(s) \/ Holds(s) \/ edited[s] <= gate.last_edit_sent_at)'
    BY DEF EditsAreKnown
  <2>1. /\ edited[s] \in Int /\ c.elapsed \in Nat
        /\ gate.last_edit_sent_at \in Int /\ gate'.last_edit_sent_at \in Int
    BY <1>1, <1>3, GateFields, Numbers DEF IInv, TypeOK, Times
  <2>2. CASE Quiet(s)
    BY <1>0, <2>2 DEF Quiet, Compensated
  <2>3. CASE ~Quiet(s) /\ Holds(s)
    <3>1. s = c.run /\ edited[s] # Never
      BY <1>1, <2>3 DEF Holds, Quiet
    <3> QED
      BY <1>0, <1>1, <1>3, <1>5, <2>1, <3>1
  <2>4. CASE edited[s] <= gate.last_edit_sent_at
    BY <1>0, <1>3, <2>1, <2>4
  <2> QED
    BY <2>2, <2>3, <2>4 DEF IInv, EditsAreKnown
<1>14. OthersAreQuiet'
  BY <1>3 DEF OthersAreQuiet, Held
<1>15. OneRunClaims'
  <2>1. \A i \in Jobs : i = j \/ Lifecycle!Settled(i) => Lifecycle!Settled(i)'
    BY <1>2 DEF Lifecycle!Settled, IInv, TypeOK
  <2>2. \A r \in Runs : Started(r)' => Started(r)
    BY <1>4 DEF Started
  <2> QED
    BY <1>0, <1>1, <2>1, <2>2, RunJob DEF IInv, OneRunClaims
<1> QED
  BY <1>6, <1>7, <1>8, <1>9, <1>10, <1>11, <1>12, <1>13, <1>14, <1>15 DEF IInv

\* The same, for a run that fails: its job is refunded as well.
LEMMA HandleFailStep ==
  ASSUME IInv, NEW c \in calls, locker = NoJob, HandleFail(c)
  PROVE  IInv'
<1>0. UNCHANGED <<now, locker, entered, request, polled, born, edited>>
  BY DEF HandleFail, Answer, server
<1> DEFINE j == c.run[1]
<1>1. /\ gate \in Gate /\ now \in Nat /\ c.run \in Runs /\ j \in Jobs /\ c.elapsed \in Nat
      /\ gate.active_job_id = j /\ gate.active_run_id = c.run /\ status[j] = "PROCESSING"
  BY RunJob, ActiveJob, Numbers DEF HandleFail, Owns, IInv, TypeOK, Call
<1>2. /\ status' = [status EXCEPT ![j] = "FAILED"]
      /\ payment' = [payment EXCEPT ![j] = "REFUNDED"]
      /\ gate' = Release(RecordEdit(gate, now, c.elapsed), j)
  BY <1>1 DEF HandleFail
<1>3. /\ gate' \in Gate /\ gate'.active_job_id = NoJob /\ gate'.active_run_id = NoRun
      /\ gate'.last_edit_sent_at >= gate.last_edit_sent_at
      /\ gate'.last_edit_sent_at >= now - c.elapsed
  <2> DEFINE g == RecordEdit(gate, now, c.elapsed)
  <2>1. /\ g \in Gate /\ g.active_job_id = j
        /\ g.last_edit_sent_at >= gate.last_edit_sent_at
        /\ g.last_edit_sent_at >= now - c.elapsed
    BY <1>1, RecordEditGate
  <2> HIDE DEF g
  <2>2. /\ Release(g, j) \in Gate /\ Release(g, j).active_job_id = NoJob
        /\ Release(g, j).active_run_id = NoRun
        /\ Release(g, j).last_edit_sent_at = g.last_edit_sent_at
    BY <2>1, ReleaseGate
  <2> QED
    BY <1>2, <2>1, <2>2 DEF g
<1> HIDE DEF j
<1>4. /\ lambda' \in [Runs -> {"none", "queued", "ended"} \cup Waiting \cup Working]
      /\ calls' \subseteq calls
      /\ \A r \in Runs : lambda'[r] = lambda[r] \/ lambda'[r] = "ended"
  BY <1>1 DEF HandleFail, Answer, AfterOk, IInv, TypeOK
<1>5. /\ lambda[c.run] \in {"completing", "failing", "raised", "ended"}
      /\ edited[c.run] # Never => edited[c.run] <= now - c.elapsed
  BY DEF HandleFail, IInv, LastCallsAreLast
<1>6. TypeOK'
  <2>1. /\ status' \in [Jobs -> {"ABSENT", "PROCESSING", "COMPLETED", "FAILED"}]
        /\ payment' \in [Jobs -> {"NONE", "DEDUCTED", "REFUNDED"}]
    BY <1>0, <1>2 DEF IInv, TypeOK
  <2> QED
    BY <1>0, <1>3, <1>4, <2>1 DEF IInv, TypeOK
<1>7. LivesAreBounded'
  BY <1>0, <1>4 DEF IInv, LivesAreBounded, Alive, Waiting, Working
<1>8. GateHoldsTheProcessingJob'
  BY <1>1, <1>2, <1>3, Numbers DEF IInv, TypeOK, GateHoldsTheProcessingJob
<1>9. FailedMeansRefunded' /\ RequestsMatchJobs'
  BY <1>0, <1>1, <1>2 DEF IInv, TypeOK, FailedMeansRefunded, RequestsMatchJobs
<1>10. ReadsAreOld'
  BY <1>0 DEF IInv, ReadsAreOld
<1>11. StartedRunsHoldTheGate'
  <2>1. \A r \in Runs : Started(r)' => Started(r) /\ r # c.run
    BY <1>4, <1>5 DEF Started
  <2> QED
    BY <1>0, <1>1, <2>1 DEF IInv, StartedRunsHoldTheGate, Holds, Compensated
<1>12. LastCallsAreLast'
  BY <1>0, <1>4, <1>1 DEF IInv, TypeOK, Call, LastCallsAreLast
<1>13. EditsAreKnown'
  <2> SUFFICES ASSUME NEW s \in Runs
               PROVE  (Quiet(s) \/ Holds(s) \/ edited[s] <= gate.last_edit_sent_at)'
    BY DEF EditsAreKnown
  <2>1. /\ edited[s] \in Int /\ c.elapsed \in Nat
        /\ gate.last_edit_sent_at \in Int /\ gate'.last_edit_sent_at \in Int
    BY <1>1, <1>3, GateFields, Numbers DEF IInv, TypeOK, Times
  <2>2. CASE Quiet(s)
    BY <1>0, <2>2 DEF Quiet, Compensated
  <2>3. CASE ~Quiet(s) /\ Holds(s)
    <3>1. s = c.run /\ edited[s] # Never
      BY <1>1, <2>3 DEF Holds, Quiet
    <3> QED
      BY <1>0, <1>1, <1>3, <1>5, <2>1, <3>1
  <2>4. CASE edited[s] <= gate.last_edit_sent_at
    BY <1>0, <1>3, <2>1, <2>4
  <2> QED
    BY <2>2, <2>3, <2>4 DEF IInv, EditsAreKnown
<1>14. OthersAreQuiet'
  BY <1>3 DEF OthersAreQuiet, Held
<1>15. OneRunClaims'
  <2>1. \A i \in Jobs : i = j \/ Lifecycle!Settled(i) => Lifecycle!Settled(i)'
    BY <1>2 DEF Lifecycle!Settled, IInv, TypeOK
  <2>2. \A r \in Runs : Started(r)' => Started(r)
    BY <1>4 DEF Started
  <2> QED
    BY <1>0, <1>1, <2>1, <2>2, RunJob DEF IInv, OneRunClaims
<1> QED
  BY <1>6, <1>7, <1>8, <1>9, <1>10, <1>11, <1>12, <1>13, <1>14, <1>15 DEF IInv

\* A 409 changes nothing, and starts no run.
LEMMA ConflictStep ==
  ASSUME IInv, NEW c \in calls, locker = NoJob, Conflict(c)
  PROVE  IInv'
<1>0. UNCHANGED <<now, gate, locker, entered, status, payment, request, polled, born,
                  edited>>
  BY DEF Conflict, Answer, store, server
<1>1. /\ lambda' \in [Runs -> {"none", "queued", "ended"} \cup Waiting \cup Working]
      /\ \A s \in Runs : lambda'[s] # lambda[s]
                         => lambda[s] \in Waiting /\ lambda'[s] \in {"ended", "raised"}
  <2>1. c.run \in Runs /\ c.from \in Waiting
    BY DEF IInv, TypeOK, Call
  <2>2. \/ UNCHANGED lambda
        \/ /\ lambda[c.run] \in Waiting
           /\ lambda' = [lambda EXCEPT ![c.run] = AfterConflict[lambda[c.run]]]
    BY <2>1 DEF Conflict, Answer
  <2>3. lambda[c.run] \in Waiting => AfterConflict[lambda[c.run]] \in {"ended", "raised"}
    BY ErrorsStop
  <2>4. lambda \in [Runs -> {"none", "queued", "ended"} \cup Waiting \cup Working]
    BY DEF IInv, TypeOK
  <2>5. {"ended", "raised"} \subseteq {"none", "queued", "ended"} \cup Waiting \cup Working
    BY DEF Working
  <2> QED
    BY <2>1, <2>2, <2>3, <2>4, <2>5
<1>2. calls' \subseteq calls
  BY DEF Conflict, Answer
<1>3. TypeOK'
  BY <1>0, <1>1, <1>2 DEF IInv, TypeOK
<1>4. LivesAreBounded'
  BY <1>0, <1>1 DEF IInv, LivesAreBounded, Alive
<1>5. StartedRunsHoldTheGate'
  BY <1>0, <1>1 DEF IInv, StartedRunsHoldTheGate, Started, Holds, Compensated
<1>6. LastCallsAreLast'
  BY <1>0, <1>1, <1>2 DEF IInv, TypeOK, Call, LastCallsAreLast
<1>7. OneRunClaims'
  BY <1>0, <1>1 DEF IInv, OneRunClaims, Started, Lifecycle!Settled
<1>8. (GateHoldsTheProcessingJob /\ FailedMeansRefunded /\ RequestsMatchJobs
       /\ ReadsAreOld /\ EditsAreKnown /\ OthersAreQuiet)'
  BY <1>0 DEF IInv, GateHoldsTheProcessingJob, FailedMeansRefunded, RequestsMatchJobs,
     ReadsAreOld, Reservable, Held, Expired, CoolingDown, EditsAreKnown, Quiet, Holds,
     Compensated, OthersAreQuiet
<1> QED
  BY <1>3, <1>4, <1>5, <1>6, <1>7, <1>8 DEF IInv

\* Nor does an error.
LEMMA RejectedStep ==
  ASSUME IInv, NEW c \in calls, locker = NoJob, Rejected(c)
  PROVE  IInv'
<1>0. UNCHANGED <<now, gate, locker, entered, status, payment, request, polled, born,
                  edited>>
  BY DEF Rejected, Answer, store, server
<1>1. /\ lambda' \in [Runs -> {"none", "queued", "ended"} \cup Waiting \cup Working]
      /\ \A s \in Runs : lambda'[s] # lambda[s]
                         => lambda[s] \in Waiting /\ lambda'[s] \in {"ended", "raised"}
  <2>1. c.run \in Runs /\ c.from \in Waiting
    BY DEF IInv, TypeOK, Call
  <2>2. \/ UNCHANGED lambda
        \/ /\ lambda[c.run] \in Waiting
           /\ lambda' = [lambda EXCEPT ![c.run] = AfterError[lambda[c.run]]]
    BY <2>1 DEF Rejected, Answer
  <2>3. lambda[c.run] \in Waiting => AfterError[lambda[c.run]] \in {"ended", "raised"}
    BY ErrorsStop
  <2>4. lambda \in [Runs -> {"none", "queued", "ended"} \cup Waiting \cup Working]
    BY DEF IInv, TypeOK
  <2>5. {"ended", "raised"} \subseteq {"none", "queued", "ended"} \cup Waiting \cup Working
    BY DEF Working
  <2> QED
    BY <2>1, <2>2, <2>3, <2>4, <2>5
<1>2. calls' \subseteq calls
  BY DEF Rejected, Answer
<1>3. TypeOK'
  BY <1>0, <1>1, <1>2 DEF IInv, TypeOK
<1>4. LivesAreBounded'
  BY <1>0, <1>1 DEF IInv, LivesAreBounded, Alive
<1>5. StartedRunsHoldTheGate'
  BY <1>0, <1>1 DEF IInv, StartedRunsHoldTheGate, Started, Holds, Compensated
<1>6. LastCallsAreLast'
  BY <1>0, <1>1, <1>2 DEF IInv, TypeOK, Call, LastCallsAreLast
<1>7. OneRunClaims'
  BY <1>0, <1>1 DEF IInv, OneRunClaims, Started, Lifecycle!Settled
<1>8. (GateHoldsTheProcessingJob /\ FailedMeansRefunded /\ RequestsMatchJobs
       /\ ReadsAreOld /\ EditsAreKnown /\ OthersAreQuiet)'
  BY <1>0 DEF IInv, GateHoldsTheProcessingJob, FailedMeansRefunded, RequestsMatchJobs,
     ReadsAreOld, Reservable, Held, Expired, CoolingDown, EditsAreKnown, Quiet, Holds,
     Compensated, OthersAreQuiet
<1> QED
  BY <1>3, <1>4, <1>5, <1>6, <1>7, <1>8 DEF IInv

-----------------------------------------------------------------------------
(* Time                                                                    *)

\* Time passes: no invocation outlives AI_TIMEOUT, and old edits get older.
LEMMA TickStep ==
  ASSUME IInv, Tick
  PROVE  IInv'
<1>0. UNCHANGED <<gate, locker, entered, status, payment, request, polled, born, edited,
                  calls>>
  BY DEF Tick, store, server
<1>1. TypeOK'
  BY <1>0, Numbers DEF IInv, TypeOK, Tick, Waiting
<1>2. LivesAreBounded'
  BY <1>0, RunJob, Numbers DEF IInv, TypeOK, LivesAreBounded, Alive, Tick, Waiting,
     Working
<1>3. ReadsAreOld'
  BY <1>0, RunJob, Numbers DEF IInv, TypeOK, ReadsAreOld, Reservable, Held, Expired,
     Tick, Times
<1>4. StartedRunsHoldTheGate'
  BY <1>0, RunJob, Numbers DEF IInv, TypeOK, StartedRunsHoldTheGate, Started, Holds,
     Compensated, Tick
<1>5. LastCallsAreLast'
  <2>1. \A r \in Runs : lambda'[r] = lambda[r] \/ lambda'[r] = "ended"
    BY DEF Tick
  <2>2. \A r \in Runs : edited[r] \in Int
    BY Numbers DEF IInv, TypeOK, Times
  <2>3. \A c \in calls : c.run \in Runs /\ c.elapsed \in Int
    BY DEF IInv, TypeOK, Call
  <2>4. now \in Int /\ now' = now + 1
    BY DEF IInv, TypeOK, Tick
  <2> QED
    BY <1>0, <2>1, <2>2, <2>3, <2>4 DEF IInv, LastCallsAreLast
<1>6. EditsAreKnown'
  BY <1>0, RunJob, Numbers DEF IInv, TypeOK, EditsAreKnown, Quiet, Holds, Compensated,
     Tick, Times
<1>7. OthersAreQuiet'
  BY <1>0, RunJob, Numbers DEF IInv, TypeOK, OthersAreQuiet, Held, Quiet, Compensated,
     Tick, Times
<1>8. OneRunClaims'
  BY <1>0, RunJob, Numbers DEF IInv, TypeOK, OneRunClaims, Started, Lifecycle!Settled,
     Tick
<1>9. (GateHoldsTheProcessingJob /\ FailedMeansRefunded /\ RequestsMatchJobs)'
  BY <1>0 DEF IInv, GateHoldsTheProcessingJob, FailedMeansRefunded, RequestsMatchJobs
<1> QED
  BY <1>1, <1>2, <1>3, <1>4, <1>5, <1>6, <1>7, <1>8, <1>9 DEF IInv

-----------------------------------------------------------------------------
(* The invariant                                                           *)

\* The empty tables satisfy the invariant.
LEMMA InitInv == Init => IInv
<1> SUFFICES ASSUME Init PROVE IInv
  OBVIOUS
<1>1. FreeGate \in Gate /\ FreeGate.active_job_id = NoJob
  BY DEF FreeGate, Gate, Times
<1>2. TypeOK
  BY <1>1 DEF Init, TypeOK, Times
<1>3. GateHoldsTheProcessingJob /\ FailedMeansRefunded /\ RequestsMatchJobs
  BY <1>1, Numbers DEF Init, GateHoldsTheProcessingJob, FailedMeansRefunded,
     RequestsMatchJobs
<1>4. LivesAreBounded /\ ReadsAreOld /\ LastCallsAreLast
  BY Numbers DEF Init, LivesAreBounded, Alive, Waiting, Working, ReadsAreOld,
     LastCallsAreLast
<1>5. StartedRunsHoldTheGate /\ EditsAreKnown /\ OthersAreQuiet /\ OneRunClaims
  BY DEF Init, StartedRunsHoldTheGate, EditsAreKnown, OthersAreQuiet, OneRunClaims,
     Started, Quiet
<1> QED
  BY <1>2, <1>3, <1>4, <1>5 DEF IInv

\* A step that changes no variable keeps it.
LEMMA StutterInv == IInv /\ UNCHANGED vars => IInv'
BY DEF IInv, vars, store, server, cloud, TypeOK, LivesAreBounded, Alive,
   GateHoldsTheProcessingJob, FailedMeansRefunded, RequestsMatchJobs, ReadsAreOld,
   StartedRunsHoldTheGate, Started, Holds, Compensated, LastCallsAreLast, EditsAreKnown,
   Quiet, OthersAreQuiet, OneRunClaims, Lifecycle!Settled

\* Every step keeps it.
LEMMA NextInv == IInv /\ [Next]_vars => IInv'
<1> SUFFICES ASSUME IInv, [Next]_vars PROVE IInv'
  OBVIOUS
<1>1. ASSUME NEW j \in Jobs, RequestStep(j) PROVE IInv'
  BY <1>1, CheckStep, EnterGateStep, AcceptStep, TriggeredStep, TriggerFailsStep,
     CompensateStep, AbandonStep DEF RequestStep
<1>2. ASSUME NEW r \in Runs, LambdaStep(r) PROVE IInv'
  BY <1>2, InvokeStep, DeliverStep, RecordEditsStep, SendEditStep, SettleEditsStep,
     SendCompleteStep, SendFailStep, TimesOutStep, DiesStep DEF LambdaStep
<1>3. ASSUME NEW c \in calls, Handle(c) PROVE IInv'
  BY <1>3, HandleStartStep, HandleEditStep, HandleCompleteStep, HandleFailStep,
     ConflictStep, RejectedStep DEF Handle
<1> QED
  BY <1>1, <1>2, <1>3, PollReadsStep, PollSettlesStep, TickStep, StutterInv DEF Next

\* The inductive invariant of the service: the gate, the lock and the leases
\* against the lives of the invocations, the edits against the pause.
THEOREM CompositionInvariant == Spec => []IInv
BY InitInv, NextInv, PTL DEF Spec

\* No row and no message leaves its range.
THEOREM TypeCorrect == Spec => []TypeOK
<1>1. IInv => TypeOK
  BY DEF IInv
<1> QED
  BY <1>1, CompositionInvariant, PTL

\* composition_gate is held by exactly the composition being processed.
THEOREM GateTheorem == Spec => []GateHoldsTheProcessingJob
<1>1. IInv => GateHoldsTheProcessingJob
  BY DEF IInv
<1> QED
  BY <1>1, CompositionInvariant, PTL

\* Callbacks, reconciliation, the next request and the compensation of the
\* trigger return the use of a composition exactly when they fail it.
THEOREM RefundTheorem == Spec => []FailedMeansRefunded
<1>1. IInv => FailedMeansRefunded
  BY DEF IInv
<1> QED
  BY <1>1, CompositionInvariant, PTL

\* However often the trigger is repeated, the claim lets one run work.
THEOREM OneRunTheorem == Spec => []OneRunEdits
<1>1. IInv => OneRunEdits
  BY DEF IInv, OneRunClaims, OneRunEdits
<1> QED
  BY <1>1, CompositionInvariant, PTL

-----------------------------------------------------------------------------
(* Action properties                                                       *)

\* The gate keeps the pause between the edits of two compositions, whatever
\* happens to leases, callbacks and invocations.
THEOREM PauseTheorem == Spec => EditsAreSpaced
<1> DEFINE Spaced ==
      \A r, s \in Runs :
        edited'[r] # edited[r] /\ r[1] # s[1] /\ edited[s] # Never
          => \/ edited[s] + COOLDOWN <= now
             \/ Compensated(r[1]) \/ Compensated(s[1])
<1>1. ASSUME IInv, NEW r \in Runs, SendEdit(r) PROVE Spaced
  <2>1. Holds(r) \/ Compensated(r[1])
    BY <1>1 DEF SendEdit, Started, IInv, StartedRunsHoldTheGate
  <2>2. \A q \in Runs : edited'[q] # edited[q] => q = r
    BY <1>1 DEF SendEdit
  <2>3. Holds(r) => \A s \in Runs : s[1] # r[1] => Quiet(s)
    BY <1>1, RunJob, Numbers DEF IInv, OthersAreQuiet, Holds, Held
  <2> QED
    BY <2>1, <2>2, <2>3 DEF Quiet
<1>2. ASSUME IInv, UNCHANGED edited PROVE Spaced
  BY <1>2
<1>3. ASSUME NEW r \in Runs, LambdaStep(r), ~SendEdit(r) PROVE UNCHANGED edited
  BY <1>3 DEF LambdaStep, Invoke, Deliver, RecordEdits, SettleEdits, SendComplete,
     SendFail, TimesOut, Dies, Send
<1>4. ASSUME NEW j \in Jobs, RequestStep(j) PROVE UNCHANGED edited
  BY <1>4 DEF RequestStep, Check, EnterGate, Accept, Triggered, TriggerFails, Compensate,
     Abandon, cloud
<1>5. ASSUME NEW c \in calls, Handle(c) PROVE UNCHANGED edited
  BY <1>5 DEF Handle, HandleStart, HandleEdit, HandleComplete, HandleFail, Conflict,
     Rejected, Answer
<1>6. PollReads \/ PollSettles \/ Tick \/ UNCHANGED vars => UNCHANGED edited
  BY DEF PollReads, PollSettles, Tick, vars, cloud
<1>7. IInv /\ [Next]_vars => [Spaced]_vars
  BY <1>1, <1>2, <1>3, <1>4, <1>5, <1>6 DEF Next
<1> QED
  BY <1>7, CompositionInvariant, PTL DEF Spec, EditsAreSpaced

\* A job that has a result or a failure keeps it; only the compensation of its
\* own request can turn it into a failure.
THEOREM SettledTheorem == Spec => SettledIsFinal
<1> DEFINE Final ==
      \A j \in Jobs :
        status[j] \in {"COMPLETED", "FAILED"} /\ status'[j] # status[j]
          => request[j] = "compensating" /\ status'[j] = "FAILED"
<1>1. ASSUME IInv, NEW j \in Jobs, Accept(j) PROVE Final
  BY <1>1 DEF Accept, IInv, RequestsMatchJobs
<1>2. ASSUME IInv, NEW j \in Jobs, Compensate(j) PROVE Final
  BY <1>2 DEF Compensate
<1>3. ASSUME IInv, PollSettles PROVE Final
  BY <1>3 DEF PollSettles, store
<1>4. ASSUME IInv, NEW c \in calls, HandleComplete(c) \/ HandleFail(c) PROVE Final
  BY <1>4, RunJob DEF HandleComplete, HandleFail, IInv, TypeOK, store
<1>5. ASSUME UNCHANGED status PROVE Final
  BY <1>5
<1>6. ASSUME NEW j \in Jobs, RequestStep(j), ~Accept(j), ~Compensate(j) PROVE UNCHANGED status
  BY <1>6 DEF RequestStep, Check, EnterGate, Triggered, TriggerFails, Abandon, store
<1>7. ASSUME NEW r \in Runs, LambdaStep(r) PROVE UNCHANGED status
  BY <1>7 DEF LambdaStep, Invoke, Deliver, RecordEdits, SendEdit, SettleEdits,
     SendComplete, SendFail, TimesOut, Dies, Send, store
<1>8. ASSUME NEW c \in calls, Handle(c), ~HandleComplete(c), ~HandleFail(c)
      PROVE  UNCHANGED status
  BY <1>8 DEF Handle, HandleStart, HandleEdit, Conflict, Rejected, store
<1>9. PollReads \/ Tick \/ UNCHANGED vars => UNCHANGED status
  BY DEF PollReads, Tick, vars, store
<1>10. IInv /\ [Next]_vars => [Final]_vars
  <2> HIDE DEF Final
  <2> SUFFICES ASSUME IInv, Next PROVE Final
    OBVIOUS
  <2>1. ASSUME NEW c \in calls, Handle(c) PROVE Final
    BY <1>4, <1>5, <1>8, <2>1
  <2> QED
    BY <1>1, <1>2, <1>3, <1>5, <1>6, <1>7, <1>9, <2>1 DEF Next
<1> QED
  BY <1>10, CompositionInvariant, PTL DEF Spec, SettledIsFinal

\* Nobody takes the gate before its lease has run out, but the run that has it
\* and the request that compensates.
THEOREM LeaseTheorem == Spec => LeaseIsHonoured
<1> DEFINE Honoured ==
      Held(gate) /\ now < gate.lease_until /\ gate'.active_job_id # gate.active_job_id
        => \/ request[gate.active_job_id] = "compensating"
           \/ \E c \in calls \ calls' : c.run = gate.active_run_id
<1>0. ASSUME IInv PROVE gate \in Gate /\ gate.lease_until \in Int /\ now \in Nat
  BY <1>0, GateFields, Numbers DEF IInv, TypeOK, Times
<1>1. ASSUME IInv, NEW j \in Jobs, Accept(j) PROVE Honoured
  <2>1. entered \in 0..now /\ Reservable(gate, entered)
    BY <1>1, Numbers DEF Accept, IInv, RequestsMatchJobs, ReadsAreOld
  <2> QED
    BY <1>0, <1>1, <2>1 DEF Reservable, Expired
<1>2. ASSUME IInv, NEW j \in Jobs, Compensate(j) PROVE Honoured
  BY <1>2 DEF Compensate, Release
<1>3. ASSUME IInv, PollSettles PROVE Honoured
  <2>1. polled \in Int /\ polled <= now
    BY <1>3, Numbers DEF IInv, TypeOK, Times, ReadsAreOld
  <2> QED
    BY <1>0, <1>3, <2>1 DEF PollSettles, Expired, store
<1>4. ASSUME IInv, NEW c \in calls, HandleComplete(c) \/ HandleFail(c) PROVE Honoured
  BY <1>4 DEF HandleComplete, HandleFail, Owns, Answer
<1>5. ASSUME UNCHANGED gate PROVE Honoured
  BY <1>5
<1>6. ASSUME IInv, NEW c \in calls, HandleStart(c) \/ HandleEdit(c) PROVE Honoured
  <2>1. gate \in Gate /\ now \in Nat /\ c.run \in Runs /\ c.elapsed \in Nat
    BY <1>6 DEF IInv, TypeOK, Call
  <2>2. CASE HandleStart(c)
    BY <2>1, <2>2, ClaimGate DEF HandleStart
  <2>3. CASE HandleEdit(c)
    BY <2>1, <2>3, RecordEditGate DEF HandleEdit
  <2> QED
    BY <1>6, <2>2, <2>3
<1>7. ASSUME NEW j \in Jobs, RequestStep(j), ~Accept(j), ~Compensate(j) PROVE UNCHANGED gate
  BY <1>7 DEF RequestStep, Check, EnterGate, Triggered, TriggerFails, Abandon, store
<1>8. ASSUME NEW r \in Runs, LambdaStep(r) PROVE UNCHANGED gate
  BY <1>8 DEF LambdaStep, Invoke, Deliver, RecordEdits, SendEdit, SettleEdits,
     SendComplete, SendFail, TimesOut, Dies, Send, store
<1>9. ASSUME NEW c \in calls, Conflict(c) \/ Rejected(c) PROVE UNCHANGED gate
  BY <1>9 DEF Conflict, Rejected, store
<1>10. PollReads \/ Tick \/ UNCHANGED vars => UNCHANGED gate
  BY DEF PollReads, Tick, vars, store
<1>11. IInv /\ [Next]_vars => [Honoured]_vars
  <2> HIDE DEF Honoured
  <2> SUFFICES ASSUME IInv, Next PROVE Honoured
    OBVIOUS
  <2>1. ASSUME NEW c \in calls, Handle(c) PROVE Honoured
    BY <1>4, <1>5, <1>6, <1>9, <2>1 DEF Handle
  <2> QED
    BY <1>1, <1>2, <1>3, <1>5, <1>7, <1>8, <1>10, <2>1 DEF Next
<1> QED
  BY <1>11, CompositionInvariant, PTL DEF Spec, LeaseIsHonoured

-----------------------------------------------------------------------------
(* The guard of PipelineRun's LeaseRunsOut                                 *)

\* A run that has claimed the gate has been invoked, and its claim gave it a
\* lease from a time it lived in.
ClaimsAreBorn ==
  /\ \A r \in Runs : born[r] <= now
  /\ \A c \in calls : lambda[c.run] \notin {"none", "queued"}
  /\ \A r \in Runs : gate.active_run_id = r =>
       /\ lambda[r] \notin {"none", "queued"}
       /\ gate.lease_until >= born[r] + RUNNING_LEASE

\* The pause a run that has claimed the gate leaves before its lease ends.
LivingRunsHaveTime ==
  \A r \in Runs :
    gate.active_run_id = r /\ Alive(r) => now + COOLDOWN <= gate.lease_until

\* A lease that has run out was nobody's, or its run is no more.
ExpiredRunsAreDead ==
  gate.active_run_id # NoRun /\ Expired(gate, now) => ~Alive(gate.active_run_id)

\* A step that gives no run the gate and delivers no event keeps the claims.
LEMMA NoClaimStep ==
  ASSUME IInv, ClaimsAreBorn, now' \in Nat, now <= now', UNCHANGED born,
         \A c \in calls' : c \in calls \/ lambda'[c.run] \notin {"none", "queued"},
         \A r \in Runs : lambda[r] \notin {"none", "queued"} => lambda'[r] \notin {"none", "queued"},
         \A r \in Runs : gate'.active_run_id = r =>
           gate.active_run_id = r /\ gate'.lease_until = gate.lease_until
  PROVE  ClaimsAreBorn'
<1>1. calls \subseteq Call /\ born \in [Runs -> Times] /\ now \in Nat
  BY DEF IInv, TypeOK
<1>2. \A r \in Runs : born'[r] <= now'
  BY <1>1, Numbers DEF ClaimsAreBorn, Times
<1>3. \A c \in calls' : lambda'[c.run] \notin {"none", "queued"}
  BY <1>1 DEF ClaimsAreBorn, Call
<1> QED
  BY <1>2, <1>3 DEF ClaimsAreBorn

\* The commits of requests and of status streams take the gate from its run,
\* or leave it as it is.
LEMMA ServerClaims ==
  ASSUME IInv, ClaimsAreBorn, (\E j \in Jobs : RequestStep(j)) \/ PollReads \/ PollSettles
  PROVE  ClaimsAreBorn'
<1>1. gate \in Gate /\ now \in Nat /\ entered \in Times /\ NoRun \notin Runs
  BY Numbers DEF IInv, TypeOK
<1>2. UNCHANGED <<now, cloud>>
  BY DEF RequestStep, Check, EnterGate, Accept, Triggered, TriggerFails, Compensate,
     Abandon, PollReads, PollSettles
<1>3. \A r \in Runs : gate'.active_run_id = r =>
        gate.active_run_id = r /\ gate'.lease_until = gate.lease_until
  <2>1. CASE UNCHANGED gate
    BY <2>1
  <2>2. ASSUME NEW j \in Jobs, Accept(j) PROVE gate'.active_run_id = NoRun
    BY <1>1, <2>2 DEF Accept, Reserve, Gate
  <2>3. ASSUME NEW j, gate' = Release(gate, j)
        PROVE  gate' = gate \/ gate'.active_run_id = NoRun
    BY <1>1, <2>3, ReleaseGate
  <2>4. ASSUME NEW j \in Jobs, RequestStep(j), ~Accept(j), ~Compensate(j) PROVE UNCHANGED gate
    BY <2>4 DEF RequestStep, Check, EnterGate, Triggered, TriggerFails, Abandon, store
  <2>5. ASSUME NEW j \in Jobs, Compensate(j) PROVE gate' = Release(gate, j)
    BY <2>5 DEF Compensate
  <2>6. PollReads => UNCHANGED gate
    BY DEF PollReads, store
  <2>7. PollSettles => UNCHANGED gate \/ gate' = Release(gate, gate.active_job_id)
    BY DEF PollSettles, store
  <2> QED
    BY <1>1, <2>1, <2>2, <2>3, <2>4, <2>5, <2>6, <2>7
<1> QED
  BY <1>1, <1>2, <1>3, NoClaimStep DEF cloud, ClaimsAreBorn, IInv, TypeOK

\* An event that is delivered is delivered once, before its run calls.
LEMMA LambdaClaims ==
  ASSUME IInv, ClaimsAreBorn, NEW r \in Runs, LambdaStep(r)
  PROVE  ClaimsAreBorn'
<1>1. lambda \in [Runs -> {"none", "queued", "ended"} \cup Waiting \cup Working]
      /\ born \in [Runs -> Times] /\ now \in Nat /\ calls \subseteq Call
  BY DEF IInv, TypeOK
<1>2. UNCHANGED <<now, gate>>
  BY DEF LambdaStep, Invoke, Deliver, RecordEdits, SendEdit, SettleEdits,
     SendComplete, SendFail, TimesOut, Dies, Send, store
<1>3. CASE Deliver(r)
  <2>1. lambda[r] = "queued" /\ lambda' = [lambda EXCEPT ![r] = "starting"]
        /\ born' = [born EXCEPT ![r] = now]
        /\ \A c \in calls' : c \in calls \/ c.run = r
    BY <1>3 DEF Deliver, Send
  <2>2. \A s \in Runs : born'[s] <= now'
    BY <1>1, <1>2, <2>1 DEF ClaimsAreBorn
  <2>3. \A c \in calls' : lambda'[c.run] \notin {"none", "queued"}
    BY <1>1, <2>1 DEF ClaimsAreBorn, Call
  <2>4. ASSUME NEW s \in Runs, gate'.active_run_id = s
        PROVE  lambda'[s] \notin {"none", "queued"} /\ gate'.lease_until >= born'[s] + RUNNING_LEASE
    BY <1>1, <1>2, <2>1, <2>4 DEF ClaimsAreBorn
  <2> QED
    BY <2>2, <2>3, <2>4 DEF ClaimsAreBorn
<1>4. CASE ~Deliver(r)
  <2>1. UNCHANGED born
    BY <1>4 DEF LambdaStep, Invoke, RecordEdits, SendEdit, SettleEdits,
       SendComplete, SendFail, TimesOut, Dies, Send
  <2>2. \A s \in Runs : lambda[s] \notin {"none", "queued"} => lambda'[s] \notin {"none", "queued"}
    BY <1>1, <1>4 DEF LambdaStep, Invoke, RecordEdits, SendEdit, SettleEdits,
       SendComplete, SendFail, TimesOut, Dies, Send, AfterError, Waiting, Working
  <2>3. \A c \in calls' : c \in calls \/ lambda'[c.run] \notin {"none", "queued"}
    BY <1>1, <1>4 DEF LambdaStep, Invoke, RecordEdits, SendEdit, SettleEdits,
       SendComplete, SendFail, TimesOut, Dies, Send
  <2> QED
    BY <1>1, <1>2, <2>1, <2>2, <2>3, NoClaimStep
<1> QED
  BY <1>3, <1>4

\* A claim is made by a run that has been invoked, with a lease from now.
LEMMA HandleClaims ==
  ASSUME IInv, ClaimsAreBorn, NEW c \in calls, Handle(c)
  PROVE  ClaimsAreBorn'
<1>1. lambda \in [Runs -> {"none", "queued", "ended"} \cup Waiting \cup Working]
      /\ born \in [Runs -> Times] /\ now \in Nat /\ calls \subseteq Call
      /\ gate \in Gate /\ c.run \in Runs /\ c.elapsed \in Nat /\ c.run[1] \in Jobs
  BY RunJob DEF IInv, TypeOK, Call
<1>2. UNCHANGED <<now, born>> /\ calls' \subseteq calls
  BY DEF Handle, HandleStart, HandleEdit, HandleComplete, HandleFail, Conflict, Rejected,
     Answer
<1>3. \A r \in Runs : lambda[r] \notin {"none", "queued"} => lambda'[r] \notin {"none", "queued"}
  <2>1. ASSUME NEW next \in {AfterOk, AfterConflict, AfterError}, Answer(c, next)
        PROVE  \A r \in Runs : lambda[r] \notin {"none", "queued"} => lambda'[r] \notin {"none", "queued"}
    BY <1>1, <2>1 DEF Answer, AfterOk, AfterConflict, AfterError, Call, Waiting
  <2> QED
    BY <2>1 DEF Handle, HandleStart, HandleEdit, HandleComplete, HandleFail, Conflict, Rejected
<1>4. CASE HandleStart(c)
  <2>1. gate'.active_run_id = c.run /\ gate'.lease_until = now + RUNNING_LEASE
    BY <1>1, <1>4, ClaimGate DEF HandleStart
  <2>2. lambda'[c.run] \notin {"none", "queued"}
    BY <1>1, <1>3 DEF ClaimsAreBorn
  <2>3. born[c.run] <= now /\ born[c.run] \in Int
    BY <1>1, Numbers DEF ClaimsAreBorn, Times
  <2>4. \A r \in Runs : gate'.active_run_id = r =>
          lambda'[r] \notin {"none", "queued"} /\ gate'.lease_until >= born'[r] + RUNNING_LEASE
    BY <1>1, <1>2, <2>1, <2>2, <2>3, Numbers
  <2>5. \A d \in calls' : lambda'[d.run] \notin {"none", "queued"}
    BY <1>1, <1>2, <1>3 DEF ClaimsAreBorn, Call
  <2> QED
    BY <1>2, <2>4, <2>5 DEF ClaimsAreBorn
<1>5. CASE ~HandleStart(c)
  <2>1. gate' = gate \/ gate' = RecordEdit(gate, now, c.elapsed)
        \/ gate' = Release(RecordEdit(gate, now, c.elapsed), c.run[1])
    BY <1>5 DEF Handle, HandleEdit, HandleComplete, HandleFail, Conflict, Rejected, store
  <2>2. \A r \in Runs : gate'.active_run_id = r =>
          gate.active_run_id = r /\ gate'.lease_until = gate.lease_until
    BY <1>1, <2>1, RecordEditGate, ReleaseGate, Numbers
  <2> QED
    BY <1>1, <1>2, <1>3, <2>2, NoClaimStep
<1> QED
  BY <1>4, <1>5

\* As long as a run that has claimed the gate is alive, its lease has not run
\* out, with the pause to spare: reconciliation and the next request, which
\* look at the lease alone, never take the gate from a run that works.
THEOREM LivingRunTheorem == Spec => [](LivingRunsHaveTime /\ ExpiredRunsAreDead)
<1>1. Init => ClaimsAreBorn
  BY Numbers DEF Init, FreeGate, ClaimsAreBorn
<1>2. IInv /\ IInv' /\ ClaimsAreBorn /\ [Next]_vars => ClaimsAreBorn'
  <2> SUFFICES ASSUME IInv, IInv', ClaimsAreBorn, [Next]_vars PROVE ClaimsAreBorn'
    OBVIOUS
  <2>1. CASE Tick
    <3>1. lambda \in [Runs -> {"none", "queued", "ended"} \cup Waiting \cup Working] /\ now \in Nat
      BY DEF IInv, TypeOK
    <3>2. \A r \in Runs : lambda[r] \notin {"none", "queued"} => lambda'[r] \notin {"none", "queued"}
      BY <2>1, <3>1 DEF Tick
    <3> QED
      BY <2>1, <3>1, <3>2, NoClaimStep DEF Tick, store
  <2>2. CASE UNCHANGED vars
    BY <2>2 DEF ClaimsAreBorn, vars, store, server, cloud
  <2> QED
    BY <2>1, <2>2, ServerClaims, LambdaClaims, HandleClaims DEF Next
<1>3. IInv /\ ClaimsAreBorn => LivingRunsHaveTime
  <2> SUFFICES ASSUME IInv, ClaimsAreBorn, NEW r \in Runs, gate.active_run_id = r, Alive(r)
               PROVE  now + COOLDOWN <= gate.lease_until
    BY DEF LivingRunsHaveTime
  <2>1. born[r] \in Nat /\ now \in Nat /\ now <= born[r] + AI_TIMEOUT
    BY DEF IInv, TypeOK, LivesAreBounded
  <2>2. gate.lease_until >= born[r] + RUNNING_LEASE /\ gate.lease_until \in Int
    BY GateFields, Numbers DEF ClaimsAreBorn, IInv, TypeOK, Times
  <2> QED
    BY <2>1, <2>2, Numbers
<1>4. IInv /\ LivingRunsHaveTime => ExpiredRunsAreDead
  <2> SUFFICES ASSUME IInv, LivingRunsHaveTime, gate.active_run_id # NoRun,
                      Alive(gate.active_run_id), Expired(gate, now)
               PROVE  FALSE
    BY DEF ExpiredRunsAreDead
  <2>1. gate.active_run_id \in Runs /\ now \in Nat /\ gate.lease_until \in Int
    BY GateFields, Numbers DEF IInv, TypeOK, Times
  <2>2. now + COOLDOWN <= gate.lease_until
    BY <2>1 DEF LivingRunsHaveTime
  <2> QED
    BY <2>1, <2>2, Numbers DEF Expired
<1>5. Spec => []ClaimsAreBorn
  BY <1>1, <1>2, CompositionInvariant, PTL DEF Spec
<1> QED
  BY <1>3, <1>4, <1>5, CompositionInvariant, PTL

-----------------------------------------------------------------------------
(* Refinement                                                              *)

\* The service implements the abstract life cycle: every step accepts, settles,
\* replaces or retracts one composition, or changes none.
THEOREM LifecycleTheorem == Spec => ImplementsLifecycle
<1>1. Init => Lifecycle!Init
  BY DEF Init, Lifecycle!Init
<1> DEFINE Step == Lifecycle!Next \/ UNCHANGED <<status, payment>>
<1>2. ASSUME IInv, NEW j \in Jobs, Accept(j) PROVE Step
  <2>1. status[j] = "ABSENT" /\ payment[j] = "NONE"
    BY <1>2 DEF Accept, IInv, RequestsMatchJobs
  <2>2. CASE gate.active_job_id \in Jobs
    <3> DEFINE i == gate.active_job_id
    <3>1. i \in Jobs /\ status[i] = "PROCESSING" /\ i # j
      BY <1>2, <2>1, <2>2, ActiveJob
    <3>2. /\ status' = [status EXCEPT ![i] = "FAILED", ![j] = "PROCESSING"]
          /\ payment' = [payment EXCEPT ![i] = "REFUNDED", ![j] = "DEDUCTED"]
      BY <1>2, <3>1 DEF Accept, IInv, TypeOK
    <3> QED
      BY <2>1, <3>1, <3>2 DEF Lifecycle!Next, Lifecycle!Settle, Lifecycle!Replace
  <2>3. CASE gate.active_job_id \notin Jobs
    <3>1. Lifecycle!Working = {}
      BY <1>2, <2>3 DEF IInv, GateHoldsTheProcessingJob, Lifecycle!Working
    <3>2. /\ status' = [status EXCEPT ![j] = "PROCESSING"]
          /\ payment' = [payment EXCEPT ![j] = "DEDUCTED"]
      BY <1>2, <2>3 DEF Accept, IInv, TypeOK
    <3> QED
      BY <2>1, <3>1, <3>2 DEF Lifecycle!Next, Lifecycle!Accept
  <2> QED
    BY <2>2, <2>3
<1>3. ASSUME IInv, NEW j \in Jobs, Compensate(j) PROVE Step
  <2>1. status[j] \in {"PROCESSING", "COMPLETED", "FAILED"}
    BY <1>3 DEF Compensate, IInv, TypeOK, RequestsMatchJobs
  <2>2. CASE status[j] \in {"PROCESSING", "COMPLETED"}
    BY <1>3, <2>2 DEF Compensate, Lifecycle!Next, Lifecycle!Settle, Lifecycle!Fail,
       Lifecycle!Retract
  <2>3. CASE status[j] = "FAILED"
    <3>1. payment[j] = "REFUNDED"
      BY <1>3, <2>3 DEF IInv, FailedMeansRefunded
    <3> QED
      BY <1>3, <2>3, <3>1 DEF Compensate, IInv, TypeOK
  <2> QED
    BY <2>1, <2>2, <2>3
<1>4. ASSUME IInv, PollSettles PROVE Step
  <2>1. CASE Expired(gate, polled)
    <3> DEFINE i == gate.active_job_id
    <3>1. i \in Jobs /\ status[i] = "PROCESSING"
      BY <1>4, <2>1, GateFields, ActiveJob DEF IInv, TypeOK, Expired, Held
    <3>2. /\ status' = [status EXCEPT ![i] = "FAILED"]
          /\ payment' = [payment EXCEPT ![i] = "REFUNDED"]
      BY <1>4, <2>1, <3>1 DEF PollSettles, IInv, TypeOK
    <3> QED
      BY <3>1, <3>2 DEF Lifecycle!Next, Lifecycle!Settle, Lifecycle!Fail
  <2>2. CASE ~Expired(gate, polled)
    BY <1>4, <2>2 DEF PollSettles, store
  <2> QED
    BY <2>1, <2>2
<1>5. ASSUME IInv, NEW c \in calls, HandleComplete(c) \/ HandleFail(c) PROVE Step
  <2>1. c.run[1] \in Jobs
    BY <1>5, RunJob DEF IInv, TypeOK, Call
  <2> QED
    BY <1>5, <2>1 DEF HandleComplete, HandleFail, store, Lifecycle!Next,
       Lifecycle!Settle, Lifecycle!Complete, Lifecycle!Fail
<1>6. ASSUME UNCHANGED <<status, payment>> PROVE Step
  BY <1>6
<1>7. ASSUME NEW j \in Jobs, RequestStep(j), ~Accept(j), ~Compensate(j)
      PROVE  UNCHANGED <<status, payment>>
  BY <1>7 DEF RequestStep, Check, EnterGate, Triggered, TriggerFails, Abandon, store
<1>8. ASSUME NEW r \in Runs, LambdaStep(r) PROVE UNCHANGED <<status, payment>>
  BY <1>8 DEF LambdaStep, Invoke, Deliver, RecordEdits, SendEdit, SettleEdits,
     SendComplete, SendFail, TimesOut, Dies, Send, store
<1>9. ASSUME NEW c \in calls, Handle(c), ~HandleComplete(c), ~HandleFail(c)
      PROVE  UNCHANGED <<status, payment>>
  BY <1>9 DEF Handle, HandleStart, HandleEdit, Conflict, Rejected, store
<1>10. PollReads \/ Tick \/ UNCHANGED vars => UNCHANGED <<status, payment>>
  BY DEF PollReads, Tick, vars, store
<1>11. IInv /\ [Next]_vars => [Lifecycle!Next]_(Lifecycle!vars)
  <2> SUFFICES ASSUME IInv, [Next]_vars PROVE Step
    BY DEF Lifecycle!vars
  <2> HIDE DEF Step
  <2>1. ASSUME NEW c \in calls, Handle(c) PROVE Step
    BY <1>5, <1>6, <1>9, <2>1
  <2> QED
    BY <1>2, <1>3, <1>4, <1>6, <1>7, <1>8, <1>10, <2>1 DEF Next
<1> QED
  BY <1>1, <1>11, CompositionInvariant, PTL DEF Spec, ImplementsLifecycle, Lifecycle!Spec
=============================================================================
