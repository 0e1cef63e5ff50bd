------------------------- MODULE NotificationProofs -------------------------
(***************************************************************************)
(* Proofs about CompletionNotifications for every set of jobs, browsers    *)
(* and dispatchers, and any lease, delay, lifetime and number of attempts. *)
(***************************************************************************)
EXTENDS CompletionNotifications, TLAPS

-----------------------------------------------------------------------------
(* Rows, tasks and the operators on them                                   *)

\* The constants are numbers, and None is none of what it stands for.
LEMMA Constant ==
  /\ CLAIM_LEASE \in Nat /\ RETRY_DELAY \in Nat /\ LIFETIME \in Nat
  /\ MAX_ATTEMPTS \in Nat /\ MAX_ATTEMPTS > 0
  /\ None \notin Outcome /\ None \notin Task /\ None \notin Registration
BY NotificationAssumption DEF NotificationAssumption

\* A row, or its absence, column by column.
LEMMA RowFields ==
  ASSUME NEW n \in Row \cup {NoRow}
  PROVE  /\ n.id \in Nat /\ n.attempts \in 0..MAX_ATTEMPTS
         /\ n.next_attempt_at \in Nat /\ n.expires_at \in Nat
         /\ n.has_endpoint \in BOOLEAN
         /\ n.status \in {"none", "pending", "sent", "failed", "cancelled"}
         /\ n.status # "none" => n \in Row /\ n.id # 0
         /\ NoRow.id = 0 /\ NoRow.status = "none" /\ NoRow.has_endpoint = FALSE
<1>1. CASE n \in Row
  BY <1>1, Constant DEF Row, NoRow, Ids
<1>2. CASE n = NoRow
  BY <1>2, Constant DEF NoRow
<1> QED
  BY <1>1, <1>2

\* What a busy dispatcher remembers.
LEMMA TaskFields ==
  ASSUME TypeOK, NEW d \in Dispatchers, Busy(d)
  PROVE  /\ task[d] \in Task /\ task[d].key \in Keys /\ task[d].id \in Ids
         /\ task[d].attempts \in 1..MAX_ATTEMPTS /\ task[d].until \in Nat
BY DEF TypeOK, Task

\* clean_expired() makes a row fail, deletes it, or leaves it.
LEMMA CleanedRow ==
  ASSUME NEW n \in Row \cup {NoRow}
  PROVE  \/ Cleaned(n) = NoRow
         \/ Cleaned(n) = n
         \/ /\ n.status = "pending"
            /\ Cleaned(n) = [n EXCEPT !.status = "failed", !.has_endpoint = FALSE]
BY DEF Cleaned

-----------------------------------------------------------------------------
(* Steps that make no id, claim nothing and push nothing                   *)

\* Such a step keeps what the invariant says of ids and attempts: it may
\* delete rows, change what has no part in a claim, and end tasks.
LEMMA KeptStep ==
  ASSUME IInv, TypeOK', used' = used, pushes' = pushes, now <= now',
         \A k \in Keys :
           \/ row'[k] = NoRow
           \/ /\ row'[k].id = row[k].id /\ row'[k].attempts = row[k].attempts
              /\ \/ row'[k].next_attempt_at = row[k].next_attempt_at
                 \/ \A d \in Dispatchers :
                      Busy(d)' /\ task[d].id = row[k].id => task[d].attempts # row[k].attempts,
         \A d \in Dispatchers :
           Busy(d)' => /\ Busy(d) /\ task'[d] = task[d]
                       /\ at'[d] = "pushing" => at[d] = "pushing"
  PROVE  (IdsAreUnique /\ AttemptsAreCounted /\ EachAttemptOnce /\ OverlapsAreLate)'
<1>1. now \in Nat /\ now' \in Nat /\ used \in Nat
  BY DEF IInv, TypeOK
<1>2. ASSUME NEW k \in Keys
      PROVE  /\ row[k].id \in Nat /\ row[k].attempts \in Nat
             /\ row'[k] = NoRow => row'[k].id = 0
             /\ row'[k] # NoRow => row'[k].id = row[k].id
  <2>1. row[k] \in Row \cup {NoRow}
    BY DEF IInv, TypeOK
  <2>2. row[k].id \in Nat /\ row[k].attempts \in 0..MAX_ATTEMPTS /\ NoRow.id = 0
    BY <2>1, RowFields
  <2> QED
    BY <2>2, Constant
<1>3. ASSUME NEW d \in Dispatchers, Busy(d)'
      PROVE  /\ task'[d] = task[d] /\ task[d].id \in Nat /\ task[d].id # 0
             /\ task[d].until \in Nat /\ task[d].attempts \in Nat
  BY <1>3, TaskFields DEF IInv, Ids
<1>4. \A p \in pushes : p[1] # 0
  BY DEF IInv, TypeOK, Ids
<1>5. IdsAreUnique'
  BY <1>1, <1>2, <1>3 DEF IInv, IdsAreUnique
<1>6. AttemptsAreCounted'
  <2>1. ASSUME NEW p \in pushes, NEW k \in Keys, p[1] = row'[k].id
        PROVE  p[2] <= row'[k].attempts
    BY <1>2, <1>4, <2>1 DEF IInv, AttemptsAreCounted
  <2>2. ASSUME NEW d \in Dispatchers, NEW k \in Keys, Busy(d)', row'[k].id = task'[d].id
        PROVE  \/ task'[d].attempts < row'[k].attempts /\ task'[d].until <= now'
               \/ task'[d].attempts = row'[k].attempts
                    /\ task'[d].until = row'[k].next_attempt_at
    <3>1. row'[k] # NoRow /\ row[k].id = task[d].id
      BY <1>2, <1>3, <2>2
    <3>2. \/ task[d].attempts < row[k].attempts /\ task[d].until <= now
          \/ task[d].attempts = row[k].attempts /\ task[d].until = row[k].next_attempt_at
      BY <2>2, <3>1 DEF IInv, AttemptsAreCounted
    <3> QED
      BY <1>1, <1>2, <1>3, <2>2, <3>1, <3>2
  <2> QED
    BY <2>1, <2>2 DEF AttemptsAreCounted
<1>7. EachAttemptOnce'
  BY DEF IInv, EachAttemptOnce, Busy
<1>8. OverlapsAreLate'
  BY <1>1, <1>3 DEF IInv, OverlapsAreLate
<1> QED
  BY <1>5, <1>6, <1>7, <1>8

\* A step of the jobs, or of a registration before it writes.
LEMMA FrameStep ==
  ASSUME IInv, TypeOK', UNCHANGED <<now, row, used, at, task, outcome, pushes, accepted>>
  PROVE  IInv'
BY DEF IInv, IdsAreUnique, AttemptsAreCounted, AnswersAreTrue, EachAttemptOnce,
       OverlapsAreLate, SentMeansAccepted, EndpointsAreErased, Busy

\* A composition is accepted or settled.
LEMMA JobStepInv ==
  ASSUME IInv, JobStep
  PROVE  IInv'
<1>1. UNCHANGED <<now, row, registration, used, at, task, outcome, pushes, accepted>>
  BY DEF JobStep, dispatch, network
<1>2. /\ status' \in [Jobs -> {"ABSENT", "PROCESSING", "COMPLETED", "FAILED"}]
      /\ payment' \in [Jobs -> {"NONE", "DEDUCTED", "REFUNDED"}]
  BY DEF IInv, TypeOK, JobStep, Lifecycle!Next, Lifecycle!Accept, Lifecycle!Settle,
         Lifecycle!Complete, Lifecycle!Fail, Lifecycle!Replace, Lifecycle!Retract
<1>3. TypeOK'
  BY <1>1, <1>2 DEF IInv, TypeOK, Busy
<1> QED
  BY <1>1, <1>3, FrameStep

\* A registration takes the lock of its job and reads its row.
LEMMA RegisterReadsInv ==
  ASSUME IInv, NEW k \in Keys, RegisterReads(k)
  PROVE  IInv'
<1>1. UNCHANGED <<now, status, payment, row, used, at, task, outcome, pushes, accepted>>
  BY DEF RegisterReads, jobs, dispatch, network
<1>2. k[1] \in Jobs
  BY DEF Keys
<1>3. [key |-> k, created_at |-> now, read |-> row[k]] \in Registration
  BY DEF IInv, TypeOK, Registration
<1>4. /\ registration' \in [Jobs -> Registration \cup {None}]
      /\ \A j \in Jobs : registration'[j] # None => registration'[j].key[1] = j
  BY <1>2, <1>3 DEF IInv, TypeOK, RegisterReads
<1>5. TypeOK'
  BY <1>1, <1>4 DEF IInv, TypeOK, Busy
<1> QED
  BY <1>1, <1>5, FrameStep

\* A registration is rolled back.
LEMMA RegisterFailsInv ==
  ASSUME IInv, NEW j \in Jobs, RegisterFails(j)
  PROVE  IInv'
<1>1. UNCHANGED <<now, status, payment, row, used, at, task, outcome, pushes, accepted>>
  BY DEF RegisterFails, jobs, dispatch, network
<1>2. TypeOK'
  BY <1>1 DEF IInv, TypeOK, Busy, RegisterFails
<1> QED
  BY <1>1, <1>2, FrameStep

\* The user cancels: the row keeps its id and its attempts.
LEMMA CancelInv ==
  ASSUME IInv, NEW k \in Keys, Cancel(k)
  PROVE  IInv'
<1>1. UNCHANGED <<now, status, payment, registration, used, at, task, outcome, pushes, accepted>>
  BY DEF Cancel, jobs, dispatch, network
<1>2. row[k] \in Row
  BY RowFields DEF IInv, TypeOK, Cancel
<1>3. /\ row' = [row EXCEPT ![k] = row'[k]] /\ row'[k] \in Row
      /\ row'[k].status = "cancelled" /\ row'[k].has_endpoint = FALSE
      /\ row'[k].id = row[k].id /\ row'[k].attempts = row[k].attempts
      /\ row'[k].next_attempt_at = row[k].next_attempt_at
  BY <1>2 DEF IInv, TypeOK, Cancel, Row
<1>4. TypeOK'
  BY <1>1, <1>3 DEF IInv, TypeOK, Busy
<1>5. (IdsAreUnique /\ AttemptsAreCounted /\ EachAttemptOnce /\ OverlapsAreLate)'
  <2>1. now <= now'
    BY <1>1 DEF IInv, TypeOK
  <2>2. \A l \in Keys : /\ row'[l].id = row[l].id /\ row'[l].attempts = row[l].attempts
                        /\ row'[l].next_attempt_at = row[l].next_attempt_at
    BY <1>3 DEF IInv, TypeOK
  <2> QED
    BY <1>1, <1>4, <2>1, <2>2, KeptStep DEF Busy
<1>6. (AnswersAreTrue /\ SentMeansAccepted /\ EndpointsAreErased)'
  BY <1>1, <1>3 DEF IInv, TypeOK, AnswersAreTrue, SentMeansAccepted, EndpointsAreErased
<1> QED
  BY <1>4, <1>5, <1>6 DEF IInv

\* clean_expired() gives no row another id, and starts no claim.
LEMMA CleanInv ==
  ASSUME IInv, NEW d \in Dispatchers, Clean(d)
  PROVE  IInv'
<1>1. UNCHANGED <<now, status, payment, registration, used, task, outcome, pushes, accepted>>
  BY DEF Clean, jobs, network
<1>2. ASSUME NEW k \in Keys
      PROVE  /\ row'[k] \in Row \cup {NoRow}
             /\ \/ row'[k] = NoRow
                \/ row'[k] = row[k]
                \/ /\ row'[k].status = "failed" /\ row'[k].has_endpoint = FALSE
                   /\ row'[k].id = row[k].id /\ row'[k].attempts = row[k].attempts
                   /\ row'[k].next_attempt_at = row[k].next_attempt_at
  <2>1. row[k] \in Row \cup {NoRow} /\ row'[k] = Cleaned(row[k])
    BY DEF IInv, TypeOK, Clean
  <2>2. row[k].status = "pending" => row[k] \in Row
    BY <2>1, RowFields
  <2>3. CASE row'[k] = row[k] \/ row'[k] = NoRow
    BY <2>1, <2>3
  <2>4. CASE /\ row[k].status = "pending"
             /\ row'[k] = [row[k] EXCEPT !.status = "failed", !.has_endpoint = FALSE]
    BY <2>2, <2>4 DEF Row
  <2> QED
    BY <2>1, <2>3, <2>4, CleanedRow
<1>3. \A e \in Dispatchers : Busy(e)' <=> Busy(e)
  BY DEF IInv, TypeOK, Clean, Busy
<1>4. TypeOK'
  <2>1. row' \in [Keys -> Row \cup {NoRow}]
    BY <1>2 DEF Clean
  <2>2. /\ at' \in [Dispatchers -> {"asleep", "claiming", "pushing", "answered"}]
        /\ \A e \in Dispatchers : at'[e] = "answered" <=> outcome[e] # None
    BY DEF IInv, TypeOK, Clean
  <2> QED
    BY <1>1, <1>3, <2>1, <2>2 DEF IInv, TypeOK
<1>5. (IdsAreUnique /\ AttemptsAreCounted /\ EachAttemptOnce /\ OverlapsAreLate)'
  <2>1. now <= now'
    BY <1>1 DEF IInv, TypeOK
  <2>2. \A k \in Keys : \/ row'[k] = NoRow
                        \/ /\ row'[k].id = row[k].id /\ row'[k].attempts = row[k].attempts
                           /\ row'[k].next_attempt_at = row[k].next_attempt_at
    BY <1>2
  <2>3. \A e \in Dispatchers : at'[e] = "pushing" => at[e] = "pushing"
    BY DEF IInv, TypeOK, Clean
  <2> QED
    BY <1>1, <1>3, <1>4, <2>1, <2>2, <2>3, KeptStep
<1>6. (SentMeansAccepted /\ EndpointsAreErased)'
  BY <1>1, <1>2, RowFields DEF IInv, SentMeansAccepted, EndpointsAreErased
<1>7. AnswersAreTrue'
  BY <1>1 DEF IInv, AnswersAreTrue
<1> QED
  BY <1>4, <1>5, <1>6, <1>7 DEF IInv

\* A dispatcher gives up what it is doing, or finds nothing to do.
LEMMA LeavesInv ==
  ASSUME IInv, NEW d \in Dispatchers, EndRound(d) \/ Stop(d)
  PROVE  IInv'
<1>1. UNCHANGED <<now, status, payment, registration, row, used, pushes, accepted>>
  BY DEF EndRound, Stop, jobs, network
<1>2. /\ at' = [at EXCEPT ![d] = "asleep"]
      /\ task' = [task EXCEPT ![d] = None] /\ outcome' = [outcome EXCEPT ![d] = None]
  BY DEF IInv, TypeOK, EndRound, Stop, Busy
<1>3. \A e \in Dispatchers : Busy(e)' => e # d /\ Busy(e) /\ task'[e] = task[e]
  BY <1>2 DEF IInv, TypeOK, Busy
<1>4. TypeOK'
  BY <1>1, <1>2 DEF IInv, TypeOK, Busy
<1>5. (IdsAreUnique /\ AttemptsAreCounted /\ EachAttemptOnce /\ OverlapsAreLate)'
  <2>1. now <= now'
    BY <1>1 DEF IInv, TypeOK
  <2>2. \A e \in Dispatchers : at'[e] = "pushing" => at[e] = "pushing"
    BY <1>2 DEF IInv, TypeOK
  <2> QED
    BY <1>1, <1>3, <1>4, <2>1, <2>2, KeptStep
<1>6. AnswersAreTrue'
  BY <1>1, <1>2, Constant DEF IInv, TypeOK, AnswersAreTrue, Outcome
<1>7. (SentMeansAccepted /\ EndpointsAreErased)'
  BY <1>1 DEF IInv, SentMeansAccepted, EndpointsAreErased
<1> QED
  BY <1>4, <1>5, <1>6, <1>7 DEF IInv

\* Time passes: claims that have run out stay so.
LEMMA TickInv ==
  ASSUME IInv, Tick
  PROVE  IInv'
<1>1. /\ now' \in Nat /\ now <= now'
      /\ UNCHANGED <<status, payment, registration, row, used, at, task, outcome, pushes, accepted>>
  BY DEF IInv, TypeOK, Tick, jobs, dispatch, network
<1>2. TypeOK'
  BY <1>1 DEF IInv, TypeOK, Busy
<1>3. (IdsAreUnique /\ AttemptsAreCounted /\ EachAttemptOnce /\ OverlapsAreLate)'
  BY <1>1, <1>2, KeptStep DEF Busy
<1>4. (AnswersAreTrue /\ SentMeansAccepted /\ EndpointsAreErased)'
  BY <1>1 DEF IInv, AnswersAreTrue, SentMeansAccepted, EndpointsAreErased
<1> QED
  BY <1>2, <1>3, <1>4 DEF IInv

\* settle(): no other task has the attempt that is settled, so the new time of
\* the next attempt belongs to no claim that still counts.
LEMMA SettleInv ==
  ASSUME IInv, NEW d \in Dispatchers, Settle(d)
  PROVE  IInv'
<1> DEFINE k == task[d].key
<1>1. UNCHANGED <<now, status, payment, registration, used, pushes, accepted>>
  BY DEF Settle, jobs, network
<1>2. /\ Busy(d) /\ at[d] = "answered" /\ outcome[d] \in Outcome
      /\ at' = [at EXCEPT ![d] = "claiming"]
      /\ task' = [task EXCEPT ![d] = None] /\ outcome' = [outcome EXCEPT ![d] = None]
  BY DEF IInv, TypeOK, Settle, Busy
<1>3. \A e \in Dispatchers : Busy(e)' => e # d /\ Busy(e) /\ task'[e] = task[e]
  BY <1>2 DEF IInv, TypeOK, Busy
<1>4. /\ k \in Keys /\ task[d].id \in Ids /\ task[d].attempts \in 1..MAX_ATTEMPTS
      /\ task[d].until \in Nat
  BY <1>2, TaskFields DEF IInv
<1>5. \/ row' = row
      \/ /\ row[k] \in Row /\ row[k].id = task[d].id /\ row[k].attempts = task[d].attempts
         /\ row' = [row EXCEPT ![k] = row'[k]] /\ row'[k] \in Row
         /\ row'[k].id = row[k].id /\ row'[k].attempts = row[k].attempts
         /\ row'[k].has_endpoint <=> row'[k].status = "pending"
         /\ row'[k].status = "sent" => outcome[d] = "accepted"
  <2>1. CASE ~Settles(row[k], task[d])
    BY <2>1 DEF Settle
  <2>2. CASE Settles(row[k], task[d])
    <3> DEFINE result == CASE outcome[d] = "accepted" -> "sent"
                           [] outcome[d] = "invalid" -> "failed"
                           [] outcome[d] = "retry" -> IF task[d].attempts >= MAX_ATTEMPTS
                                                      THEN "failed" ELSE "pending"
    <3> DEFINE next == IF result = "pending" THEN now + RETRY_DELAY * task[d].attempts
                                             ELSE task[d].until
    <3>1. row' = [row EXCEPT ![k] = [row[k] EXCEPT !.status = result, !.next_attempt_at = next,
                                                   !.has_endpoint = (result = "pending")]]
      BY <2>2 DEF Settle
    <3>2. result \in {"sent", "failed", "pending"} /\ (result = "sent" => outcome[d] = "accepted")
      BY <1>2 DEF Outcome
    <3>3. next \in Nat
      <4>1. RETRY_DELAY * task[d].attempts \in Nat
        BY <1>4, Constant
      <4> QED
        BY <1>4, <4>1 DEF IInv, TypeOK
    <3>4. /\ row[k] \in Row /\ row \in [Keys -> Row \cup {NoRow}]
          /\ row[k].id = task[d].id /\ row[k].attempts = task[d].attempts
      BY <1>4, <2>2, RowFields DEF IInv, TypeOK, Settles
    <3> HIDE DEF result, next
    <3>5. row'[k] = [row[k] EXCEPT !.status = result, !.next_attempt_at = next,
                                   !.has_endpoint = (result = "pending")]
      BY <1>4, <3>1, <3>4
    <3>6. /\ row'[k] \in Row /\ row'[k].id = row[k].id /\ row'[k].attempts = row[k].attempts
          /\ row'[k].status = result /\ row'[k].has_endpoint = (result = "pending")
      BY <3>2, <3>3, <3>4, <3>5 DEF Row
    <3> QED
      BY <3>1, <3>2, <3>4, <3>5, <3>6
  <2> QED
    BY <2>1, <2>2
<1>6. TypeOK'
  <2>1. row' \in [Keys -> Row \cup {NoRow}]
    BY <1>5 DEF IInv, TypeOK
  <2> QED
    BY <1>1, <1>2, <2>1 DEF IInv, TypeOK, Busy
<1>7. (IdsAreUnique /\ AttemptsAreCounted /\ EachAttemptOnce /\ OverlapsAreLate)'
  <2>1. now <= now'
    BY <1>1 DEF IInv, TypeOK
  <2>2. \A e \in Dispatchers : at'[e] = "pushing" => at[e] = "pushing"
    BY <1>2 DEF IInv, TypeOK
  <2>3. \A e \in Dispatchers :
          Busy(e)' /\ task[e].id = task[d].id => task[e].attempts # task[d].attempts
    <3>1. ASSUME NEW e \in Dispatchers, Busy(e)', task[e].id = task[d].id
          PROVE  task[e].attempts \in Nat /\ task[d].attempts \in Nat
                 /\ (task[d].attempts < task[e].attempts \/ task[e].attempts < task[d].attempts)
      BY <1>2, <1>3, <3>1, TaskFields, Constant DEF IInv, OverlapsAreLate
    <3> QED
      BY <3>1
  <2>4. \A l \in Keys :
          /\ row'[l].id = row[l].id /\ row'[l].attempts = row[l].attempts
          /\ \/ row'[l].next_attempt_at = row[l].next_attempt_at
             \/ \A e \in Dispatchers :
                  Busy(e)' /\ task[e].id = row[l].id => task[e].attempts # row[l].attempts
    BY <1>5, <2>3 DEF IInv, TypeOK
  <2> QED
    BY <1>1, <1>3, <1>6, <2>1, <2>2, <2>4, KeptStep
<1>8. AnswersAreTrue'
  BY <1>1, <1>2, Constant DEF IInv, TypeOK, AnswersAreTrue, Outcome
<1>9. (SentMeansAccepted /\ EndpointsAreErased)'
  BY <1>1, <1>2, <1>5 DEF IInv, TypeOK, AnswersAreTrue, SentMeansAccepted, EndpointsAreErased
<1> QED
  BY <1>6, <1>7, <1>8, <1>9 DEF IInv

-----------------------------------------------------------------------------
(* Steps that make an id, a claim or a push                                *)

\* A registration writes a row under an id nobody has seen, or nothing.
LEMMA RegisterWritesInv ==
  ASSUME IInv, NEW j \in Jobs, RegisterWrites(j)
  PROVE  IInv'
<1> DEFINE k == registration[j].key
<1> DEFINE new == NewRow(used + 1, registration[j].created_at)
<1>1. /\ UNCHANGED <<now, status, payment, at, task, outcome, pushes, accepted>>
      /\ registration' = [registration EXCEPT ![j] = None]
  BY DEF RegisterWrites, jobs, dispatch, network
<1>2. /\ \/ row' = row /\ used' = used
         \/ row' = [row EXCEPT ![k] = new] /\ used' = used + 1
      /\ registration[j] \in Registration
  BY DEF IInv, TypeOK, RegisterWrites, Renewed
<1>3. k \in Keys /\ registration[j].created_at \in Nat /\ used \in Nat
  BY <1>2 DEF IInv, TypeOK, Registration
<1>4. /\ new \in Row /\ new.id = used + 1 /\ new.status = "pending"
      /\ new.has_endpoint = TRUE
  BY <1>3, Constant DEF NewRow, Row, Ids
<1> HIDE DEF k, new
<1>5. \A l \in Keys :
        /\ row'[l] # row[l] => l = k /\ row'[l] = new /\ used' = used + 1
        /\ row[l].id \in Nat /\ row[l].id <= used
  BY <1>2, <1>3, RowFields DEF IInv, TypeOK, IdsAreUnique
<1>6. TypeOK'
  BY <1>1, <1>2, <1>3, <1>4 DEF IInv, TypeOK, Busy
<1>7. \A d \in Dispatchers : Busy(d)' => Busy(d) /\ task[d].id \in Nat /\ task[d].id <= used
  BY <1>1, TaskFields DEF IInv, IdsAreUnique, Busy, Ids
<1>8. \A p \in pushes : p[1] \in Nat /\ p[1] <= used
  BY DEF IInv, TypeOK, IdsAreUnique, Ids
<1>9. used' \in Nat /\ used <= used'
  BY <1>2, <1>3
<1>10. IdsAreUnique'
  <2>1. \A l \in Keys : row'[l].id <= used' /\ (row'[l].id = used + 1 => l = k)
    BY <1>2, <1>3, <1>4, <1>5, <1>9
  <2>2. \A l, m \in Keys : row'[l].id = row'[m].id /\ row'[l].id # 0 => l = m
    BY <1>3, <1>4, <1>5 DEF IInv, IdsAreUnique
  <2>3. \A d \in Dispatchers, l \in Keys :
          Busy(d)' /\ row'[l].id = task'[d].id => l = task'[d].key
    BY <1>1, <1>3, <1>4, <1>5, <1>7 DEF IInv, IdsAreUnique
  <2> QED
    BY <1>1, <1>3, <1>7, <1>8, <1>9, <2>1, <2>2, <2>3 DEF IdsAreUnique
<1>11. AttemptsAreCounted'
  <2>1. \A p \in pushes', l \in Keys : p[1] = row'[l].id => p[2] <= row'[l].attempts
    BY <1>1, <1>3, <1>4, <1>5, <1>8 DEF IInv, AttemptsAreCounted
  <2>2. ASSUME NEW d \in Dispatchers, NEW l \in Keys, Busy(d)', row'[l].id = task'[d].id
        PROVE  row'[l] = row[l]
    BY <1>1, <1>3, <1>4, <1>5, <1>7, <2>2
  <2> QED
    BY <1>1, <1>7, <2>1, <2>2 DEF IInv, AttemptsAreCounted
<1>12. (AnswersAreTrue /\ EachAttemptOnce /\ OverlapsAreLate)'
  BY <1>1 DEF IInv, AnswersAreTrue, EachAttemptOnce, OverlapsAreLate, Busy
<1>13. (SentMeansAccepted /\ EndpointsAreErased)'
  BY <1>1, <1>4, <1>5 DEF IInv, SentMeansAccepted, EndpointsAreErased
<1> QED
  BY <1>6, <1>10, <1>11, <1>12, <1>13 DEF IInv

\* claim_ready(): the claim it makes is the one its row knows; all others of
\* that row have run out, or the row would not be ready.
LEMMA ClaimReadyInv ==
  ASSUME IInv, NEW d \in Dispatchers, NEW k \in Keys, ClaimReady(d, k)
  PROVE  IInv'
<1> DEFINE t == [key |-> k, id |-> row[k].id, attempts |-> row[k].attempts + 1,
                 until |-> now + CLAIM_LEASE]
<1>1. /\ UNCHANGED <<now, status, payment, registration, used, outcome, pushes, accepted>>
      /\ at[d] = "claiming" /\ at' = [at EXCEPT ![d] = "pushing"]
      /\ task' = [task EXCEPT ![d] = t]
      /\ row' = [row EXCEPT ![k] = Claimed(row[k])]
      /\ row[k].attempts < MAX_ATTEMPTS /\ row[k].next_attempt_at <= now
      /\ row[k].status = "pending"
  BY DEF ClaimReady, Ready, jobs, network
<1>2. /\ row[k] \in Row /\ row[k].id \in Ids /\ row[k].attempts \in Nat
      /\ row[k].next_attempt_at \in Nat /\ now \in Nat
  <2>1. row[k] \in Row
    BY <1>1, RowFields DEF IInv, TypeOK
  <2> QED
    BY <2>1, Constant DEF IInv, TypeOK, Row
<1>3. t \in Task
  BY <1>1, <1>2, Constant DEF Task
<1>4. /\ Claimed(row[k]) \in Row /\ Claimed(row[k]).id = row[k].id
      /\ Claimed(row[k]).attempts = row[k].attempts + 1
      /\ Claimed(row[k]).next_attempt_at = now + CLAIM_LEASE
      /\ Claimed(row[k]).status = row[k].status
      /\ Claimed(row[k]).has_endpoint = row[k].has_endpoint
  <2>1. row[k].attempts + 1 \in 0..MAX_ATTEMPTS /\ now + CLAIM_LEASE \in Nat
    BY <1>1, <1>2, Constant
  <2> QED
    BY <1>2, <2>1 DEF Claimed, Row
<1>5. /\ \A l \in Keys : row'[l].id = row[l].id /\ (l # k => row'[l] = row[l])
      /\ row'[k] = Claimed(row[k])
  BY <1>1, <1>4 DEF IInv, TypeOK
<1>6. /\ Busy(d)' /\ ~Busy(d)
      /\ task'[d].key = k /\ task'[d].id = row[k].id
      /\ task'[d].attempts = row[k].attempts + 1 /\ task'[d].until = now + CLAIM_LEASE
      /\ \A e \in Dispatchers : e # d => (Busy(e)' <=> Busy(e)) /\ task'[e] = task[e]
  BY <1>1 DEF IInv, TypeOK, Busy
<1>7. ASSUME NEW e \in Dispatchers, Busy(e), task[e].id = row[k].id
      PROVE  /\ task[e].attempts \in Nat /\ task[e].until \in Nat
             /\ task[e].attempts < row[k].attempts + 1 /\ task[e].until <= now
  <2>1. task[e].attempts \in Nat /\ task[e].until \in Nat
    BY <1>7, TaskFields, Constant DEF IInv
  <2>2. \/ task[e].attempts < row[k].attempts /\ task[e].until <= now
        \/ task[e].attempts = row[k].attempts /\ task[e].until = row[k].next_attempt_at
    BY <1>7 DEF IInv, AttemptsAreCounted
  <2> QED
    BY <1>1, <1>2, <2>1, <2>2
<1> HIDE DEF t
<1>8. TypeOK'
  <2>1. /\ row' \in [Keys -> Row \cup {NoRow}] /\ task' \in [Dispatchers -> Task \cup {None}]
        /\ at' \in [Dispatchers -> {"asleep", "claiming", "pushing", "answered"}]
    BY <1>1, <1>3, <1>4 DEF IInv, TypeOK
  <2>2. \A e \in Dispatchers : Busy(e)' <=> task'[e] # None
    BY <1>1, <1>3, <1>6, Constant DEF IInv, TypeOK
  <2>3. \A e \in Dispatchers : at'[e] = "answered" <=> outcome'[e] # None
    BY <1>1 DEF IInv, TypeOK
  <2> QED
    BY <1>1, <2>1, <2>2, <2>3 DEF IInv, TypeOK
<1>9. IdsAreUnique'
  BY <1>1, <1>2, <1>5, <1>6 DEF IInv, IdsAreUnique, Ids
<1>10. AttemptsAreCounted'
  <2>1. ASSUME NEW p \in pushes', NEW l \in Keys, p[1] = row'[l].id
        PROVE  p[2] <= row'[l].attempts
    <3>1. p[2] \in Nat /\ p[2] <= row[l].attempts
      BY <1>1, <1>5, <2>1, Constant DEF IInv, TypeOK, AttemptsAreCounted
    <3> QED
      BY <1>2, <1>4, <1>5, <3>1
  <2>2. ASSUME NEW e \in Dispatchers, NEW l \in Keys, Busy(e)', row'[l].id = task'[e].id
        PROVE  \/ task'[e].attempts < row'[l].attempts /\ task'[e].until <= now'
               \/ task'[e].attempts = row'[l].attempts
                    /\ task'[e].until = row'[l].next_attempt_at
    <3>1. CASE e = d
      <4>1. l = k
        BY <1>2, <1>5, <1>6, <2>2, <3>1 DEF IInv, IdsAreUnique, Ids
      <4> QED
        BY <1>4, <1>5, <1>6, <3>1, <4>1
    <3>2. CASE e # d /\ l = k
      BY <1>1, <1>4, <1>5, <1>6, <1>7, <2>2, <3>2
    <3>3. CASE e # d /\ l # k
      BY <1>1, <1>5, <1>6, <2>2, <3>3 DEF IInv, AttemptsAreCounted
    <3> QED
      BY <3>1, <3>2, <3>3
  <2> QED
    BY <2>1, <2>2 DEF AttemptsAreCounted
<1>11. EachAttemptOnce'
  <2>1. <<row[k].id, row[k].attempts + 1>> \notin pushes
    BY <1>2 DEF IInv, AttemptsAreCounted
  <2> QED
    BY <1>1, <1>6, <2>1 DEF IInv, TypeOK, EachAttemptOnce
<1>12. OverlapsAreLate'
  BY <1>1, <1>2, <1>6, <1>7 DEF IInv, OverlapsAreLate
<1>13. AnswersAreTrue'
  <2>1. outcome[d] # "accepted"
    BY <1>1, Constant DEF IInv, TypeOK, Outcome
  <2> QED
    BY <1>1, <1>6, <2>1 DEF IInv, AnswersAreTrue
<1>14. (SentMeansAccepted /\ EndpointsAreErased)'
  BY <1>1, <1>4, <1>5 DEF IInv, SentMeansAccepted, EndpointsAreErased
<1> QED
  BY <1>8, <1>9, <1>10, <1>11, <1>12, <1>13, <1>14 DEF IInv

\* The push of an attempt is the first of that attempt: no other dispatcher has
\* claimed it.
LEMMA PushInv ==
  ASSUME IInv, NEW d \in Dispatchers, Push(d)
  PROVE  IInv'
<1> DEFINE p == <<task[d].id, task[d].attempts>>
<1>1. /\ UNCHANGED <<now, status, payment, row, registration, used, task>>
      /\ at[d] = "pushing" /\ at' = [at EXCEPT ![d] = "answered"]
      /\ pushes' = pushes \cup {p}
  BY DEF Push, jobs
<1>2. /\ accepted' \in {accepted, accepted \cup {task[d].id}}
      /\ \E o \in Outcome : outcome' = [outcome EXCEPT ![d] = o]
      /\ outcome'[d] = "accepted" => task[d].id \in accepted'
  BY DEF IInv, TypeOK, Push, Outcome
<1>3. Busy(d) /\ \A e \in Dispatchers : Busy(e)' <=> Busy(e)
  BY <1>1 DEF IInv, TypeOK, Busy
<1>4. /\ task[d].id \in Ids /\ task[d].attempts \in 1..MAX_ATTEMPTS
      /\ p[1] = task[d].id /\ p[2] = task[d].attempts
  BY <1>3, TaskFields DEF IInv
<1>5. TypeOK'
  <2>1. /\ outcome' \in [Dispatchers -> Outcome \cup {None}]
        /\ \A e \in Dispatchers : at'[e] = "answered" <=> outcome'[e] # None
    BY <1>1, <1>2, Constant DEF IInv, TypeOK
  <2>2. pushes' \subseteq Ids \X (1..MAX_ATTEMPTS) /\ accepted' \subseteq Ids
    BY <1>1, <1>2, <1>4 DEF IInv, TypeOK
  <2>3. at' \in [Dispatchers -> {"asleep", "claiming", "pushing", "answered"}]
    BY <1>1 DEF IInv, TypeOK
  <2> QED
    BY <1>1, <1>3, <2>1, <2>2, <2>3 DEF IInv, TypeOK
<1>6. IdsAreUnique'
  BY <1>1, <1>3, <1>4 DEF IInv, IdsAreUnique
<1>7. AttemptsAreCounted'
  <2>1. ASSUME NEW k \in Keys, row[k].id = task[d].id
        PROVE  task[d].attempts <= row[k].attempts
    <3>1. row[k].attempts \in Nat /\ task[d].attempts \in Nat
      <4>1. row[k] \in Row \cup {NoRow}
        BY DEF IInv, TypeOK
      <4>2. row[k].attempts \in 0..MAX_ATTEMPTS
        BY <4>1, RowFields
      <4> QED
        BY <1>4, <4>2, Constant
    <3>2. task[d].attempts < row[k].attempts \/ task[d].attempts = row[k].attempts
      BY <1>3, <2>1 DEF IInv, AttemptsAreCounted
    <3> QED
      BY <3>1, <3>2
  <2> QED
    BY <1>1, <1>3, <1>4, <2>1 DEF IInv, AttemptsAreCounted
<1>8. EachAttemptOnce'
  <2>1. ASSUME NEW e \in Dispatchers, at'[e] = "pushing"
        PROVE  <<task[e].id, task[e].attempts>> \notin pushes'
    <3>1. e # d /\ at[e] = "pushing" /\ Busy(e)
      BY <1>1, <2>1 DEF IInv, TypeOK, Busy
    <3>2. task[e].attempts \in Nat /\ task[d].attempts \in Nat
      BY <1>4, <3>1, TaskFields, Constant DEF IInv
    <3>3. task[e].id = task[d].id => task[e].attempts # task[d].attempts
      BY <1>3, <3>1, <3>2 DEF IInv, OverlapsAreLate
    <3>4. <<task[e].id, task[e].attempts>> \notin pushes
      BY <3>1 DEF IInv, EachAttemptOnce
    <3> QED
      BY <1>1, <3>3, <3>4
  <2> QED
    BY <1>1, <2>1 DEF EachAttemptOnce
<1>9. OverlapsAreLate'
  BY <1>1, <1>3 DEF IInv, OverlapsAreLate
<1>10. AnswersAreTrue'
  BY <1>1, <1>2 DEF IInv, TypeOK, AnswersAreTrue
<1>11. (SentMeansAccepted /\ EndpointsAreErased)'
  BY <1>1, <1>2 DEF IInv, SentMeansAccepted, EndpointsAreErased
<1> QED
  BY <1>5, <1>6, <1>7, <1>8, <1>9, <1>10, <1>11 DEF IInv

-----------------------------------------------------------------------------
\* The empty table satisfies the invariant.
LEMMA InitInv == Init => IInv
<1> SUFFICES ASSUME Init PROVE IInv
  OBVIOUS
<1>1. \A k \in Keys : row[k] = NoRow
  BY DEF Init
<1>2. \A d \in Dispatchers : ~Busy(d) /\ outcome[d] = None /\ at[d] = "asleep"
  BY DEF Init, Busy
<1>3. TypeOK
  BY <1>2 DEF Init, Lifecycle!Init, TypeOK, Busy
<1>4. IdsAreUnique /\ AttemptsAreCounted
  BY <1>1, <1>2 DEF Init, IdsAreUnique, AttemptsAreCounted, NoRow
<1>5. EachAttemptOnce /\ OverlapsAreLate /\ AnswersAreTrue
  BY <1>2, Constant DEF EachAttemptOnce, OverlapsAreLate, AnswersAreTrue, Outcome
<1>6. SentMeansAccepted /\ EndpointsAreErased
  BY <1>1 DEF SentMeansAccepted, EndpointsAreErased, NoRow
<1> QED
  BY <1>3, <1>4, <1>5, <1>6 DEF IInv

\* Every step keeps it.
LEMMA NextInv == IInv /\ [Next]_vars => IInv'
<1> SUFFICES ASSUME IInv, [Next]_vars PROVE IInv'
  OBVIOUS
<1>1. CASE Next
  BY <1>1, JobStepInv, RegisterReadsInv, RegisterWritesInv, RegisterFailsInv, CancelInv,
     CleanInv, ClaimReadyInv, PushInv, SettleInv, LeavesInv, TickInv DEF Next, Dispatch
<1>2. CASE UNCHANGED vars
  <2>1. TypeOK'
    BY <1>2 DEF IInv, TypeOK, vars, jobs, dispatch, network, Busy
  <2> QED
    BY <1>2, <2>1, FrameStep DEF vars, dispatch, network
<1> QED
  BY <1>1, <1>2

-----------------------------------------------------------------------------
(* Theorems                                                                *)

\* The inductive invariant: ids and attempts name one claim each, and rows,
\* tasks and pushes agree on them.
THEOREM NotificationInvariant == Spec => []IInv
BY InitInv, NextInv, PTL DEF Spec

\* No column and no task leaves its range: attempts stay within MAX_ATTEMPTS.
THEOREM TypeCorrect == Spec => []TypeOK
<1>1. IInv => TypeOK
  BY DEF IInv
<1> QED
  BY <1>1, NotificationInvariant, PTL

\* Counting attempts before they are made, claim_ready() lets each be pushed
\* once, though dispatchers die and answers are lost.
THEOREM AttemptTheorem == Spec => []EachAttemptOnce
<1>1. IInv => EachAttemptOnce
  BY DEF IInv
<1> QED
  BY <1>1, NotificationInvariant, PTL

\* Dispatchers work on one registration at the same time only when the earlier
\* claim has run out.
THEOREM ClaimTheorem == Spec => []OverlapsAreLate
<1>1. IInv => OverlapsAreLate
  BY DEF IInv
<1> QED
  BY <1>1, NotificationInvariant, PTL

\* A renewed registration is not taken for sent on the answer to its
\* predecessor's push.
THEOREM SentTheorem == Spec => []SentMeansAccepted
<1>1. IInv => SentMeansAccepted
  BY DEF IInv
<1> QED
  BY <1>1, NotificationInvariant, PTL

\* Endpoints and keys are kept exactly as long as they may be used.
THEOREM ErasureTheorem == Spec => []EndpointsAreErased
<1>1. IInv => EndpointsAreErased
  BY DEF IInv
<1> QED
  BY <1>1, NotificationInvariant, PTL

\* Neither a late answer nor a cancellation changes a registration that is
\* over; the next one of the same browser has an id of its own.
THEOREM OverTheorem == Spec => OverIsOver
<1> DEFINE Over == {"sent", "failed", "cancelled"}
<1> DEFINE Stays ==
      \A k \in Keys : row[k].status \in Over /\ row'[k] # row[k]
                        => row'[k] = NoRow \/ row'[k].id \notin 1..used
<1>1. ASSUME IInv, [Next]_vars PROVE Stays
  <2> SUFFICES ASSUME NEW k \in Keys, row[k].status \in Over, row'[k] # row[k]
               PROVE  row'[k] = NoRow \/ row'[k].id \notin 1..used
    OBVIOUS
  <2>1. /\ row \in [Keys -> Row \cup {NoRow}] /\ row[k] \in Row /\ used \in Nat
        /\ row[k].status # "pending"
    BY <1>1, RowFields DEF IInv, TypeOK
  <2>2. CASE \E d \in Dispatchers : Clean(d)
    <3>1. row'[k] = Cleaned(row[k])
      BY <2>2 DEF Clean
    <3> QED
      BY <2>1, <3>1, CleanedRow
  <2>3. CASE \E j \in Jobs : RegisterWrites(j)
    <3>1. PICK j \in Jobs : RegisterWrites(j)
      BY <2>3
    <3>2. row'[k] = NewRow(used + 1, registration[j].created_at)
      BY <2>1, <3>1 DEF RegisterWrites, Renewed
    <3> QED
      BY <2>1, <3>2 DEF NewRow
  <2>4. CASE \E d \in Dispatchers : Settle(d)
    BY <2>1, <2>4 DEF Settle, Settles
  <2>5. CASE \E l \in Keys : Cancel(l) \/ \E d \in Dispatchers : ClaimReady(d, l)
    BY <2>1, <2>5 DEF Cancel, ClaimReady, Ready
  <2>6. CASE UNCHANGED row
    BY <2>6
  <2> QED
    BY <1>1, <2>2, <2>3, <2>4, <2>5, <2>6
       DEF Next, Dispatch, JobStep, RegisterReads, RegisterFails, Push, EndRound, Stop, Tick, vars
<1>2. Stays => [\A k \in Keys :
                  row[k].status \in {"sent", "failed", "cancelled"} /\ row'[k] # row[k]
                    => row'[k] = NoRow \/ row'[k].id \notin 1..used]_vars
  OBVIOUS
<1> HIDE DEF Stays
<1> QED
  BY <1>1, <1>2, NotificationInvariant, PTL DEF Spec, OverIsOver
=============================================================================
