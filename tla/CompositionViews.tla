-------------------------- MODULE CompositionViews --------------------------
(***************************************************************************)
(* What a client is told of its compositions: the event stream of a job's  *)
(* status with its credit settlement, and the feedback form.               *)
(*                                                                         *)
(* Both read the job in a session of its own and act on it later: the      *)
(* settlement is read, and the answer stored, in other transactions, while *)
(* the jobs of CompositionLifecycle go on.                                 *)
(***************************************************************************)
CONSTANTS
  Jobs,
  Streams,    \* open GET .../status connections
  Forms,      \* GET and PUT .../feedback requests under way
  Nobody

Answers == {"YES", "NO"}

ASSUME ViewsAssumption == Nobody \notin Jobs \cup Streams \cup Forms

VARIABLES
  status, payment,   \* the jobs
  feedback,          \* composition_feedbacks.satisfied by job; NONE: no row
  stream,            \* the job of each stream, and the status it has read
  form,              \* each request for feedback
  writer,            \* by job: the form whose row is not committed yet
  events,            \* last events of streams (for the properties)
  told               \* answers confirmed or shown (for the properties)

jobs == <<status, payment>>
watching == <<stream, events>>
answering == <<feedback, form, writer, told>>
vars == <<jobs, watching, answering>>

Lifecycle == INSTANCE CompositionLifecycle

NoStream == [job |-> Nobody, seen |-> "UNREAD"]
NoForm == [job |-> Nobody, answer |-> "NONE", step |-> "free"]

Init ==
  /\ Lifecycle!Init
  /\ feedback = [j \in Jobs |-> "NONE"]
  /\ stream = [v \in Streams |-> NoStream]
  /\ form = [f \in Forms |-> NoForm]
  /\ writer = [j \in Jobs |-> Nobody]
  /\ events = {}
  /\ told = {}

\* Requests, callbacks and reconcile_expired_composition_gate(), which every
\* turn of a stream calls too.
JobStep ==
  /\ Lifecycle!Next
  /\ UNCHANGED <<watching, answering>>

-----------------------------------------------------------------------------
(* GET /compositions/{id}/status                                           *)

Terminal == {"COMPLETED", "FAILED"}

find_by_id(j) == status[j]

\* The types of the job's transactions.
find_transactions_by_source(j) ==
  (IF payment[j] = "NONE" THEN {} ELSE {"DEDUCT"})
    \cup (IF payment[j] = "REFUNDED" THEN {"REFUND"} ELSE {})

Uses(found) == IF found THEN 1 ELSE 0

\* Mutant: the refunds are not looked for.
Settlement_ChargesOnly(j) ==
  [charged |-> Uses("DEDUCT" \in find_transactions_by_source(j)), refunded |-> 0]

Settlement(j) ==
  [ charged |-> Uses("DEDUCT" \in find_transactions_by_source(j)),
    refunded |-> Uses("REFUND" \in find_transactions_by_source(j)) ]

Connect(v) ==
  /\ stream[v] = NoStream
  /\ \E j \in Jobs : stream' = [stream EXCEPT ![v].job = j]
  /\ UNCHANGED <<jobs, events, answering>>

\* A job that is going on is reported, and read again in two
\* seconds; the settlement of one that is over is still to be read.
ReadStatus(v) ==
  /\ stream[v].seen = "UNREAD"
  /\ stream[v].job # Nobody /\ find_by_id(stream[v].job) \in Terminal
  /\ stream' = [stream EXCEPT ![v].seen = find_by_id(stream[v].job)]
  /\ UNCHANGED <<jobs, events, answering>>

\* get_job_summary(), and the event that ends the stream.
ReportResult(v) ==
  LET j == stream[v].job IN
  /\ stream[v].seen \in Terminal
  /\ events' = events \cup
       {[job |-> j, status |-> stream[v].seen, settlement |-> Settlement(j)]}
  /\ stream' = [stream EXCEPT ![v] = NoStream]
  /\ UNCHANGED <<jobs, answering>>

\* The client has gone, the job is unknown or a read fails.
CloseStream(v) ==
  /\ stream[v] # NoStream
  /\ stream' = [stream EXCEPT ![v] = NoStream]
  /\ UNCHANGED <<jobs, events, answering>>

-----------------------------------------------------------------------------
(* GET and PUT /compositions/{id}/feedback                                 *)

\* The status of the job is read in another session than the feedback's; an
\* answer NONE stands for a GET.
CheckJob(f) ==
  /\ form[f] = NoForm
  /\ \E j \in Jobs, a \in Answers \cup {"NONE"} :
       /\ find_by_id(j) = "COMPLETED"
       /\ form' = [form EXCEPT ![f] = [job |-> j, answer |-> a, step |-> "checked"]]
  /\ UNCHANGED <<jobs, watching, feedback, writer, told>>

find_by_job_id(j) == feedback[j]

ShowAnswer(f) ==
  LET j == form[f].job IN
  /\ form[f].step = "checked" /\ form[f].answer = "NONE"
  /\ told' = told \cup ({<<j, find_by_job_id(j)>>} \cap (Jobs \X Answers))
  /\ form' = [form EXCEPT ![f] = NoForm]
  /\ UNCHANGED <<jobs, watching, feedback, writer>>

\* Mutant: a row another request has committed is updated.
RowIsFree_Always(j) == writer[j] = Nobody

\* The insert waits for a row that is not committed yet.
RowIsFree(j) == writer[j] = Nobody /\ feedback[j] = "NONE"

\* create_once() when the row is its own.
CreateOnce(f) ==
  LET j == form[f].job IN
  /\ form[f].step = "checked" /\ form[f].answer \in Answers
  /\ RowIsFree(j)
  /\ writer' = [writer EXCEPT ![j] = f]
  /\ form' = [form EXCEPT ![f].step = "inserted"]
  /\ UNCHANGED <<jobs, watching, feedback, told>>

\* ON CONFLICT DO NOTHING: the answer is refused.
AlreadyAnswered(f) ==
  /\ form[f].step = "checked" /\ form[f].answer \in Answers
  /\ find_by_job_id(form[f].job) # "NONE"
  /\ form' = [form EXCEPT ![f] = NoForm]
  /\ UNCHANGED <<jobs, watching, feedback, writer, told>>

\* commit(): the 204 may not arrive.
CommitAnswer(f) ==
  LET j == form[f].job IN
  /\ form[f].step = "inserted"
  /\ feedback' = [feedback EXCEPT ![j] = form[f].answer]
  /\ told' \in {told, told \cup {<<j, form[f].answer>>}}
  /\ writer' = [writer EXCEPT ![j] = Nobody]
  /\ form' = [form EXCEPT ![f] = NoForm]
  /\ UNCHANGED <<jobs, watching>>

\* An error or a crash: the transaction is rolled back.
FormFails(f) ==
  /\ form[f] # NoForm
  /\ writer' = [j \in Jobs |-> IF writer[j] = f THEN Nobody ELSE writer[j]]
  /\ form' = [form EXCEPT ![f] = NoForm]
  /\ UNCHANGED <<jobs, watching, feedback, told>>

StreamStep(v) == Connect(v) \/ ReadStatus(v) \/ ReportResult(v) \/ CloseStream(v)

FormStep(f) ==
  \/ CheckJob(f) \/ ShowAnswer(f) \/ CreateOnce(f)
  \/ AlreadyAnswered(f) \/ CommitAnswer(f) \/ FormFails(f)

Next ==
  \/ JobStep
  \/ \E v \in Streams : StreamStep(v)
  \/ \E f \in Forms : FormStep(f)

Spec == Init /\ [][Next]_vars

-----------------------------------------------------------------------------
(* Properties                                                              *)

Kept == [charged |-> 1, refunded |-> 0]
Returned == [charged |-> 1, refunded |-> 1]

\* A stream that ends in a failure reports the use as returned, and the failure
\* stands.  One that ends in a result reports it as spent, unless the request
\* took the result back between the two reads.
ReportsAgree ==
  \A e \in events :
    \/ e.status = "FAILED" /\ e.settlement = Returned /\ status[e.job] = "FAILED"
    \/ e.status = "COMPLETED" /\ e.settlement = Kept
    \/ e.status = "COMPLETED" /\ e.settlement = Returned /\ status[e.job] = "FAILED"

\* What a client was once told of an answer, confirming or showing it, is what
\* is stored: no later answer replaces it, and none is lost.
FirstAnswerStands == \A t \in told : feedback[t[1]] = t[2]

\* What clients are told of a job, its settlement and its feedback, stays true.
ViewsAreHonest == ReportsAgree /\ FirstAnswerStands

-----------------------------------------------------------------------------
(* The inductive invariant.                                                *)

\* The lifecycle's own: a job keeps its use exactly until it fails.
PaymentFollowsStatus ==
  \A j \in Jobs :
    \/ status[j] = "ABSENT" /\ payment[j] = "NONE"
    \/ status[j] \in {"PROCESSING", "COMPLETED"} /\ payment[j] = "DEDUCTED"
    \/ status[j] = "FAILED" /\ payment[j] = "REFUNDED"

\* What a stream has read was so: since then the job can only have failed.
ReadsWereTrue ==
  \A v \in Streams :
    /\ stream[v].seen = "FAILED" => status[stream[v].job] = "FAILED"
    /\ stream[v].seen = "COMPLETED" => status[stream[v].job] \in Terminal

\* One form at a time inserts for a job, and only where there is no answer.
OneWriter ==
  /\ \A f \in Forms : form[f].step = "inserted" => writer[form[f].job] = f
  /\ \A j \in Jobs : writer[j] # Nobody =>
       /\ feedback[j] = "NONE"
       /\ writer[j] \in Forms
       /\ form[writer[j]].step = "inserted" /\ form[writer[j]].job = j

ViewTypes ==
  /\ status \in [Jobs -> {"ABSENT", "PROCESSING", "COMPLETED", "FAILED"}]
  /\ payment \in [Jobs -> {"NONE", "DEDUCTED", "REFUNDED"}]
  /\ feedback \in [Jobs -> Answers \cup {"NONE"}]
  /\ stream \in [Streams -> [job : Jobs \cup {Nobody}, seen : Terminal \cup {"UNREAD"}]]
  /\ form \in [Forms -> [ job : Jobs \cup {Nobody}, answer : Answers \cup {"NONE"},
                          step : {"free", "checked", "inserted"} ]]
  /\ writer \in [Jobs -> Forms \cup {Nobody}]
  /\ \A v \in Streams : stream[v].seen \in Terminal => stream[v].job \in Jobs
  /\ \A f \in Forms : form[f].step # "free" => form[f].job \in Jobs
  /\ \A f \in Forms : form[f].step = "inserted" => form[f].answer \in Answers
  /\ \A e \in events : e.job \in Jobs
  /\ told \subseteq Jobs \X Answers

IInv == ViewTypes /\ PaymentFollowsStatus /\ ReadsWereTrue /\ OneWriter /\ ViewsAreHonest
=============================================================================
