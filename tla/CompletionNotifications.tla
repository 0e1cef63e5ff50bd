----------------------- MODULE CompletionNotifications -----------------------
(***************************************************************************)
(* Web pushes that tell a browser its composition is done: the table       *)
(* composition_notifications, the handlers that register and cancel, and   *)
(* the dispatcher each server process runs.                                *)
(*                                                                         *)
(* A registration reads its row without a lock and writes it later, under  *)
(* the lock of the job's row only.  Every other transaction is one         *)
(* statement on the row and its commit: one step.  A push is sent outside  *)
(* of any transaction, and may answer when nobody waits for it any more.   *)
(* The jobs are those of CompositionLifecycle.                             *)
(***************************************************************************)
EXTENDS Integers

CONSTANTS
  Jobs, Browsers,     \* a browser stands for its endpoint_hash
  Dispatchers,        \* one per server process
  None,
  CLAIM_LEASE, RETRY_DELAY, MAX_ATTEMPTS, LIFETIME,
  LastRegistration,   \* bound: no registration after this time
  MaxId,              \* bound: generations of all rows
  MaxTime             \* bound of the clock

Keys == Jobs \X Browsers
Ids == Nat \ {0}

\* composition_notifications; has_endpoint: endpoint and keys not yet erased.
Row ==
  [ id : Ids, status : {"pending", "sent", "failed", "cancelled"},
    attempts : 0..MAX_ATTEMPTS, next_attempt_at : Nat, expires_at : Nat,
    has_endpoint : BOOLEAN ]

\* What a dispatcher remembers of the row it has claimed; until: the
\* next_attempt_at it wrote.
Task == [key : Keys, id : Ids, attempts : 1..MAX_ATTEMPTS, until : Nat]

NoRow ==
  [ id |-> 0, status |-> "none", attempts |-> 0, next_attempt_at |-> 0,
    expires_at |-> 0, has_endpoint |-> FALSE ]

\* A registration under way: the entity's time, and the row it has read.
Registration == [key : Keys, created_at : Nat, read : Row \cup {NoRow}]

\* CompletionPushPort: what a push comes to.
Outcome == {"accepted", "retry", "invalid"}

ASSUME NotificationAssumption ==
  /\ CLAIM_LEASE \in Nat \ {0} /\ RETRY_DELAY \in Nat \ {0}
  /\ MAX_ATTEMPTS \in Nat \ {0} /\ LIFETIME \in Nat \ {0}
  /\ LastRegistration \in Nat /\ MaxId \in Nat /\ MaxTime \in Nat
  /\ None \notin Outcome /\ None \notin Task /\ None \notin Registration

VARIABLES
  now,
  status, payment,   \* the jobs
  row,               \* by job and browser; NoRow: no such row
  registration,      \* by job: the registration that has its lock, what it read
  used,              \* ids made so far
  at,                \* where each dispatcher is
  task,              \* what it has claimed
  outcome,           \* what the push it sent has answered
  pushes,            \* <<id, attempt>> of pushes that left (for the properties)
  accepted           \* ids the push service has accepted (for the properties)

jobs == <<status, payment>>
dispatch == <<at, task, outcome>>
network == <<pushes, accepted>>
vars == <<now, jobs, row, registration, used, dispatch, network>>

Lifecycle == INSTANCE CompositionLifecycle

Init ==
  /\ now = 0
  /\ Lifecycle!Init
  /\ row = [k \in Keys |-> NoRow]
  /\ registration = [j \in Jobs |-> None]
  /\ used = 0
  /\ at = [d \in Dispatchers |-> "asleep"]
  /\ task = [d \in Dispatchers |-> None]
  /\ outcome = [d \in Dispatchers |-> None]
  /\ pushes = {}
  /\ accepted = {}

-----------------------------------------------------------------------------
(* The jobs: their status does not change under a registration's lock.     *)

JobStep ==
  /\ Lifecycle!Next
  /\ \A j \in Jobs : registration[j] # None => status'[j] = status[j]
  /\ UNCHANGED <<now, row, registration, used, dispatch, network>>

-----------------------------------------------------------------------------
(* CompletionNotificationService                                           *)

NewRow(i, t) ==
  [ id |-> i, status |-> "pending", attempts |-> 0, next_attempt_at |-> t,
    expires_at |-> t + LIFETIME, has_endpoint |-> TRUE ]

\* register(): find_for_update(job), the new entity, then the row as committed.
RegisterReads(k) ==
  /\ now <= LastRegistration
  /\ registration[k[1]] = None
  /\ status[k[1]] \in {"PROCESSING", "COMPLETED"}
  /\ registration' = [registration EXCEPT ![k[1]] =
       [key |-> k, created_at |-> now, read |-> row[k]]]
  /\ UNCHANGED <<now, jobs, row, used, dispatch, network>>

\* Mutant: a registration renews its row under the id it had.
Renewed_SameId(read, i) == IF read.status = "none" THEN i ELSE read.id

\* asdict(notification) overwrites every column, the id included.
Renewed(read, i) == i

\* A row that is pending or sent is left alone.  The update is WHERE id = the
\* id that was read: without such a row it fails, as an insert does on the
\* unique constraint.
RegisterWrites(j) ==
  /\ registration[j] # None
  /\ LET k == registration[j].key
         read == registration[j].read IN
       \/ /\ read.status \in {"pending", "sent"}
          /\ UNCHANGED <<row, used>>
       \/ /\ read.status \in {"none", "failed", "cancelled"}
          /\ row[k].id = read.id
          /\ used < MaxId
          /\ used' = used + 1
          /\ row' = [row EXCEPT ![k] = NewRow(Renewed(read, used'), registration[j].created_at)]
  /\ registration' = [registration EXCEPT ![j] = None]
  /\ UNCHANGED <<now, jobs, dispatch, network>>

\* An error or a crash: the transaction is rolled back.
RegisterFails(j) ==
  /\ registration[j] # None
  /\ registration' = [registration EXCEPT ![j] = None]
  /\ UNCHANGED <<now, jobs, row, used, dispatch, network>>

Cancel(k) ==
  /\ row[k].status = "pending"
  /\ row' = [row EXCEPT ![k].status = "cancelled", ![k].has_endpoint = FALSE]
  /\ UNCHANGED <<now, jobs, registration, used, dispatch, network>>

-----------------------------------------------------------------------------
(* DispatchCompletionNotificationsService                                  *)

\* Mutant: only rows that are over are deleted.
Cleaned_KeepsPending(n) ==
  IF n.status \in {"sent", "failed", "cancelled"} /\ n.expires_at <= now THEN NoRow ELSE n

\* Mutant: a row that is given up keeps its endpoint.
Cleaned_KeepsEndpoint(n) ==
  CASE n.expires_at <= now -> NoRow
    [] n.expires_at > now /\ n.status = "pending"
         /\ n.attempts >= MAX_ATTEMPTS /\ n.next_attempt_at <= now
         -> [n EXCEPT !.status = "failed"]
    [] OTHER -> n

\* clean_expired(): a row whose last attempt ran out has failed; then rows that
\* have lived LIFETIME are deleted.
Cleaned(n) ==
  CASE n.expires_at <= now -> NoRow
    [] n.expires_at > now /\ n.status = "pending"
         /\ n.attempts >= MAX_ATTEMPTS /\ n.next_attempt_at <= now
         -> [n EXCEPT !.status = "failed", !.has_endpoint = FALSE]
    [] OTHER -> n

Clean(d) ==
  /\ at[d] = "asleep"
  /\ row' = [k \in Keys |-> Cleaned(row[k])]
  /\ at' = [at EXCEPT ![d] = "claiming"]
  /\ UNCHANGED <<now, jobs, registration, used, task, outcome, network>>

\* Mutant: only clean_expired() knows how many attempts there are.
Ready_AnyAttempt(k) ==
  /\ row[k].status = "pending"
  /\ row[k].next_attempt_at <= now /\ now < row[k].expires_at
  /\ status[k[1]] = "COMPLETED"

Ready(k) ==
  /\ row[k].status = "pending" /\ row[k].attempts < MAX_ATTEMPTS
  /\ row[k].next_attempt_at <= now /\ now < row[k].expires_at
  /\ status[k[1]] = "COMPLETED"

\* Mutant: the attempt is counted once the push has answered.
Claimed_CountsLater(n) == [n EXCEPT !.next_attempt_at = now + CLAIM_LEASE]

Claimed(n) == [n EXCEPT !.attempts = @ + 1, !.next_attempt_at = now + CLAIM_LEASE]

\* claim_ready(): the oldest first; committed before the push is sent.
ClaimReady(d, k) ==
  /\ at[d] = "claiming"
  /\ Ready(k)
  /\ \A l \in Keys : Ready(l) => row[k].expires_at <= row[l].expires_at
  /\ row' = [row EXCEPT ![k] = Claimed(@)]
  /\ task' = [task EXCEPT ![d] = [key |-> k, id |-> row[k].id,
                                   attempts |-> row[k].attempts + 1,
                                   until |-> now + CLAIM_LEASE]]
  /\ at' = [at EXCEPT ![d] = "pushing"]
  /\ UNCHANGED <<now, jobs, registration, used, outcome, network>>

\* The push leaves; the service may accept it and its answer be lost.
Push(d) ==
  /\ at[d] = "pushing"
  /\ pushes' = pushes \cup {<<task[d].id, task[d].attempts>>}
  /\ \/ accepted' = accepted \cup {task[d].id} /\ outcome' = [outcome EXCEPT ![d] = "accepted"]
     \/ accepted' = accepted \cup {task[d].id} /\ outcome' = [outcome EXCEPT ![d] = "retry"]
     \/ UNCHANGED accepted /\ \E o \in {"retry", "invalid"} : outcome' = [outcome EXCEPT ![d] = o]
  /\ at' = [at EXCEPT ![d] = "answered"]
  /\ UNCHANGED <<now, jobs, row, registration, used, task>>

\* Mutants: the update of settle() misses one of its conditions.
Settles_AnyId(n, t) == n.status = "pending" /\ n.attempts = t.attempts
Settles_AnyStatus(n, t) == n.id = t.id /\ n.attempts = t.attempts
Settles_AnyAttempt(n, t) == n.id = t.id /\ n.status = "pending"

Settles(n, t) == n.id = t.id /\ n.status = "pending" /\ n.attempts = t.attempts

\* settle(): the outcome, written if the row is still the one it claimed.
Settle(d) ==
  /\ at[d] = "answered"
  /\ LET t == task[d]
         n == row[t.key]
         result == CASE outcome[d] = "accepted" -> "sent"
                     [] outcome[d] = "invalid" -> "failed"
                     [] outcome[d] = "retry" -> IF t.attempts >= MAX_ATTEMPTS
                                                THEN "failed" ELSE "pending" IN
       IF Settles(n, t)
       THEN row' = [row EXCEPT ![t.key] =
              [n EXCEPT !.status = result,
                        !.next_attempt_at =
                          IF result = "pending" THEN now + RETRY_DELAY * t.attempts ELSE t.until,
                        !.has_endpoint = (result = "pending")]]
       ELSE UNCHANGED row
  /\ at' = [at EXCEPT ![d] = "claiming"]
  /\ task' = [task EXCEPT ![d] = None]
  /\ outcome' = [outcome EXCEPT ![d] = None]
  /\ UNCHANGED <<now, jobs, registration, used, network>>

EndRound(d) ==
  /\ at[d] = "claiming"
  /\ ~\E k \in Keys : Ready(k)
  /\ at' = [at EXCEPT ![d] = "asleep"]
  /\ UNCHANGED <<now, jobs, row, registration, used, task, outcome, network>>

\* An exception, a full round, or a restart of the process.
Stop(d) ==
  /\ at[d] # "asleep"
  /\ at' = [at EXCEPT ![d] = "asleep"]
  /\ task' = [task EXCEPT ![d] = None]
  /\ outcome' = [outcome EXCEPT ![d] = None]
  /\ UNCHANGED <<now, jobs, row, registration, used, network>>

Tick ==
  /\ now < MaxTime
  /\ now' = now + 1
  /\ UNCHANGED <<jobs, row, registration, used, dispatch, network>>

-----------------------------------------------------------------------------
Dispatch(d) ==
  Clean(d) \/ (\E k \in Keys : ClaimReady(d, k)) \/ Push(d) \/ Settle(d) \/ EndRound(d)

Next ==
  \/ JobStep
  \/ \E k \in Keys : RegisterReads(k) \/ Cancel(k)
  \/ \E j \in Jobs : RegisterWrites(j) \/ RegisterFails(j)
  \/ \E d \in Dispatchers : Dispatch(d) \/ Stop(d)
  \/ Tick

Spec == Init /\ [][Next]_vars

\* The clock runs, and some server's dispatcher keeps its loop.
Fairness == WF_vars(Tick) /\ WF_vars(\E d \in Dispatchers : Dispatch(d))
FairSpec == Spec /\ Fairness

-----------------------------------------------------------------------------
(* Properties                                                              *)

\* Between a claim and its settlement.
Busy(d) == at[d] \in {"pushing", "answered"}

TypeOK ==
  /\ now \in Nat /\ used \in Nat
  /\ status \in [Jobs -> {"ABSENT", "PROCESSING", "COMPLETED", "FAILED"}]
  /\ payment \in [Jobs -> {"NONE", "DEDUCTED", "REFUNDED"}]
  /\ row \in [Keys -> Row \cup {NoRow}]
  /\ registration \in [Jobs -> Registration \cup {None}]
  /\ \A j \in Jobs : registration[j] # None => registration[j].key[1] = j
  /\ at \in [Dispatchers -> {"asleep", "claiming", "pushing", "answered"}]
  /\ task \in [Dispatchers -> Task \cup {None}]
  /\ outcome \in [Dispatchers -> Outcome \cup {None}]
  /\ \A d \in Dispatchers : Busy(d) <=> task[d] # None
  /\ \A d \in Dispatchers : at[d] = "answered" <=> outcome[d] # None
  /\ pushes \subseteq Ids \X (1..MAX_ATTEMPTS)
  /\ accepted \subseteq Ids

\* An attempt is pushed once, whatever dispatchers stop between the claim, the
\* push and its answer: as the attempts are counted before they are made, a
\* registration is never pushed more than MAX_ATTEMPTS times.
EachAttemptOnce ==
  \A d \in Dispatchers : at[d] = "pushing" => <<task[d].id, task[d].attempts>> \notin pushes

\* Two dispatchers are busy with one registration only when the claim of the
\* earlier one has run out.
OverlapsAreLate ==
  \A d, e \in Dispatchers :
    Busy(d) /\ Busy(e) /\ task[d].id = task[e].id /\ d # e
    => (task[d].attempts < task[e].attempts /\ task[d].until <= now)
       \/ (task[e].attempts < task[d].attempts /\ task[e].until <= now)

\* A row says "sent" only of a push of this very registration that the push
\* service took: not of one for the registration it renewed.
SentMeansAccepted ==
  \A k \in Keys : row[k].status = "sent" => row[k].id \in accepted

\* Endpoint and keys are gone from every row that is over, and no late answer
\* of a dispatcher brings them back.
EndpointsAreErased ==
  \A k \in Keys : row[k].has_endpoint <=> row[k].status = "pending"

\* A registration that is over is not taken up again, except by a new one.
OverIsOver ==
  [][\A k \in Keys :
       row[k].status \in {"sent", "failed", "cancelled"} /\ row'[k] # row[k]
         => row'[k] = NoRow \/ row'[k].id \notin 1..used]_vars

\* Every registration ends, at the latest when its row expires: also one for a
\* job that never completes, or whose dispatcher died with its last attempt.
EveryRegistrationEnds ==
  \A k \in Keys : row[k].status = "pending" ~> row[k].status # "pending"

-----------------------------------------------------------------------------
(* The inductive invariant behind the theorems of NotificationProofs.      *)

\* An id is of one row, and is never made again.
IdsAreUnique ==
  /\ \A k \in Keys : row[k].id <= used
  /\ \A d \in Dispatchers : Busy(d) => task[d].id <= used
  /\ \A p \in pushes : p[1] <= used
  /\ \A k, l \in Keys : row[k].id = row[l].id /\ row[k].id # 0 => k = l
  /\ \A d \in Dispatchers, k \in Keys : Busy(d) /\ row[k].id = task[d].id => k = task[d].key

\* A row counts every attempt claimed or pushed; the claim of its last one is
\* the one it knows, and those of the others have run out.
AttemptsAreCounted ==
  /\ \A p \in pushes, k \in Keys : p[1] = row[k].id => p[2] <= row[k].attempts
  /\ \A d \in Dispatchers, k \in Keys :
       Busy(d) /\ row[k].id = task[d].id =>
         \/ task[d].attempts < row[k].attempts /\ task[d].until <= now
         \/ task[d].attempts = row[k].attempts /\ task[d].until = row[k].next_attempt_at

AnswersAreTrue ==
  \A d \in Dispatchers : outcome[d] = "accepted" => task[d].id \in accepted

IInv ==
  /\ TypeOK
  /\ IdsAreUnique
  /\ AttemptsAreCounted
  /\ AnswersAreTrue
  /\ EachAttemptOnce
  /\ OverlapsAreLate
  /\ SentMeansAccepted
  /\ EndpointsAreErased
=============================================================================
