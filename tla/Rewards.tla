------------------------------- MODULE Rewards -------------------------------
(***************************************************************************)
(* The experiment survey and the rewards of one user: one use for the      *)
(* response, three uses per Korean day for whoever has responded.  The     *)
(* requests of the user run concurrently, each in one transaction: they    *)
(* read without a lock, insert the response under its unique constraint    *)
(* and grant under the lock of the credit account.                         *)
(***************************************************************************)
EXTENDS Integers, Sequences, FiniteSets, Bags, SequencesExt

CONSTANTS
  Requests,      \* requests of the user running at a time
  Responses,     \* ids of responses
  Forms,         \* the survey bodies sent
  Day,           \* ticks of a day
  KoreaOffset,   \* ticks Korea is ahead of UTC
  Validity,      \* ticks a use is valid
  MaxTime,       \* bound of the clock
  MaxAttempts,   \* bound of the requests that may still be begun
  Nobody, NoResponse, NoForm, NoAnswer

IntendedContext == {"sns", "other"}
ActualAction == {"viewed_only", "saved", "sns", "other"}
EXTERNAL_ACTIONS == {"sns"}
NonExternalUseReason == {"no_situation", "other"}

\* What the constants have to be; the module that instantiates this one assumes it.
RewardsAssumption ==
  /\ Day \in Nat \ {0} /\ Validity \in Nat \ {0} /\ MaxTime \in Nat /\ MaxAttempts \in Nat
  /\ KoreaOffset \in 0 .. Day - 1
  /\ Nobody \notin Requests /\ NoResponse \notin Responses /\ NoForm \notin Forms
  /\ \A f \in Forms : f.actions \in Seq(ActualAction) /\ f.reasons \in Seq(NonExternalUseReason)

VARIABLES
  now,         \* the clock of the server, in UTC
  completed,   \* a composition of the user is COMPLETED
  account,     \* the credit account exists
  response,    \* the user's row of experiment_survey_responses
  charges,     \* bag of the account's CHARGE transactions and their lots
  lock,        \* holder of the response's unique key and of the account
  session,     \* the requests
  answer,      \* the last DailyRewardResult each client was given
  attempts     \* requests begun

vars == <<now, completed, account, response, charges, lock, session, answer, attempts>>

Text == {"none", "blank", "text", "long"}

Steps == {"idle", "finding", "checking", "inserting", "granting", "claiming", "saving"}
Sources == {"EXPERIMENT", "DAILY_REWARD"}

Idle == [step |-> "idle", kind |-> "none", form |-> NoForm, id |-> NoResponse, at |-> 0,
         charge |-> EmptyBag]

-----------------------------------------------------------------------------
(* The answers of a survey.                                                *)

ValidOther(selected, text) == IF selected THEN text = "text" ELSE text = "none"

MayGiveReasons(external, reasons) == external <=> reasons = {}

ExperimentSurveyAnswers(f) ==
  LET actions == ToSet(f.actions)
      reasons == ToSet(f.reasons)
  IN  /\ actions # {}
      /\ IsInjective(f.actions) /\ IsInjective(f.reasons)
      /\ "viewed_only" \in actions => actions = {"viewed_only"}
      /\ MayGiveReasons(actions \cap EXTERNAL_ACTIONS # {}, reasons)
      /\ ValidOther(f.context = "other", f.context_other)
      /\ ValidOther("other" \in actions, f.action_other)
      /\ ValidOther("other" \in reasons, f.reason_other)
      /\ f.next_context \in {"none", "text"}

-----------------------------------------------------------------------------
(* Days and rewards.                                                       *)

\* Mutant: the day is taken in UTC.
KoreanDay_Utc(t) == t \div Day
KoreanDay(t) == (t + KoreaOffset) \div Day

Midnight(d) == d * Day - KoreaOffset

Charge(source, id, uses, t) ==
  [source |-> source, source_id |-> id, uses |-> uses, created_at |-> t,
   expires_at |-> t + Validity]

ExperimentCharge(id, t) == Charge("EXPERIMENT", id, 1, t)
DailyCharge(t) == Charge("DAILY_REWARD", KoreanDay(t), 3, t)

Booked == BagToSet(charges)

\* Rows and those of a transaction: what is booked twice is there twice.
Together(rows, own) == rows (+) own

\* find_transaction_by_source, and the unique constraint of the table.
Find(source, id) == {c \in Booked : c.source = source /\ c.source_id = id}

Result(t, claims, granted) ==
  [claim_date |-> KoreanDay(t), claimed |-> claims # {}, granted |-> granted,
   server_now |-> t, next_claim_at |-> Midnight(KoreanDay(t) + 1),
   expires_at |-> {c.created_at + Validity : c \in claims}]

-----------------------------------------------------------------------------
(* Sessions.                                                               *)

Goto(w, step) == session' = [session EXCEPT ![w].step = step]
Free(w, key) == lock[key] \in {Nobody, w}
Lock(w, key) == lock' = [lock EXCEPT ![key] = w]

End(w) ==
  /\ session' = [session EXCEPT ![w] = Idle]
  /\ lock' = [k \in DOMAIN lock |-> IF lock[k] = w THEN Nobody ELSE lock[k]]

Begin(w, s) ==
  /\ session[w].step = "idle" /\ attempts < MaxAttempts
  /\ session' = [session EXCEPT ![w] = s]
  /\ attempts' = attempts + 1

Fresh == Responses \ ({response.id} \cup {session[w].id : w \in Requests}
                        \cup {c.source_id : c \in {d \in Booked : d.source = "EXPERIMENT"}})

-----------------------------------------------------------------------------
(* SubmitExperimentSurveyService                                           *)

Submit(w, f) ==
  /\ ExperimentSurveyAnswers(f)
  /\ Begin(w, [Idle EXCEPT !.step = "finding", !.kind = "submit", !.form = f])
  /\ UNCHANGED <<now, completed, account, response, charges, lock, answer>>

AlreadySubmitted(w) ==
  /\ session[w].step = "finding" /\ response.id # NoResponse
  /\ End(w)
  /\ UNCHANGED <<now, completed, account, response, charges, answer, attempts>>

FindNoResponse(w) ==
  /\ session[w].step = "finding" /\ response.id = NoResponse
  /\ Goto(w, "checking")
  /\ UNCHANGED <<now, completed, account, response, charges, lock, answer, attempts>>

exists_completed_by_user_id == completed

\* Only who has a completed composition may answer.
CheckCompletion(w) ==
  /\ session[w].step = "checking" /\ exists_completed_by_user_id
  /\ \E id \in Fresh :
       session' = [session EXCEPT ![w].step = "inserting", ![w].id = id, ![w].at = now]
  /\ UNCHANGED <<now, completed, account, response, charges, lock, answer, attempts>>

\* Mutant: a conflicting insert counts as this request's own.
InsertedByOther_Ignored(w) == FALSE
InsertedByOther(w) == response.id # NoResponse

\* add_if_absent waits for an insert in flight, then does nothing after it.
AddIfAbsent(w) ==
  /\ session[w].step = "inserting" /\ Free(w, "response")
  /\ IF InsertedByOther(w)
       THEN End(w)
       ELSE Lock(w, "response") /\ Goto(w, "granting")
  /\ UNCHANGED <<now, completed, account, response, charges, answer, attempts>>

\* GrantExperimentRewardService, under the lock of the account.
GrantReward(w) ==
  /\ session[w].step = "granting" /\ Free(w, "account") /\ account
  /\ Lock(w, "account")
  /\ session' = [session EXCEPT ![w].step = "saving",
       ![w].charge = IF Find("EXPERIMENT", session[w].id) # {} THEN EmptyBag
                     ELSE SetToBag({ExperimentCharge(session[w].id, session[w].at)})]
  /\ UNCHANGED <<now, completed, account, response, charges, answer, attempts>>

-----------------------------------------------------------------------------
(* DailyRewardService                                                      *)

\* The time of the claim is taken before the account is locked.
Claim(w) ==
  /\ response.id # NoResponse
  /\ Begin(w, [Idle EXCEPT !.step = "claiming", !.kind = "claim", !.at = now])
  /\ UNCHANGED <<now, completed, account, response, charges, lock, answer>>

ClaimedBefore(w) ==
  LET claims == Find("DAILY_REWARD", KoreanDay(session[w].at)) IN
  /\ session[w].step = "claiming" /\ Free(w, "account") /\ account
  /\ claims # {}
  /\ answer' = [answer EXCEPT ![w] = Result(session[w].at, claims, FALSE)]
  /\ End(w)
  /\ UNCHANGED <<now, completed, account, response, charges, attempts>>

GrantDaily(w) ==
  /\ session[w].step = "claiming" /\ Free(w, "account") /\ account
  /\ Find("DAILY_REWARD", KoreanDay(session[w].at)) = {}
  /\ Lock(w, "account")
  /\ session' = [session EXCEPT ![w].step = "saving",
                   ![w].charge = SetToBag({DailyCharge(session[w].at)})]
  /\ UNCHANGED <<now, completed, account, response, charges, answer, attempts>>

GetStatus(w) ==
  /\ session[w].step = "idle" /\ response.id # NoResponse
  /\ answer' = [answer EXCEPT ![w] = Result(now, Find("DAILY_REWARD", KoreanDay(now)), FALSE)]
  /\ UNCHANGED <<now, completed, account, response, charges, lock, session, attempts>>

-----------------------------------------------------------------------------
(* The end of a request.                                                   *)

Rollback(w) == UNCHANGED response

\* The row that add_if_absent has inserted.
Inserted(w) ==
  [id |-> session[w].id, form |-> session[w].form, submitted_at |-> session[w].at]

Commit(w) ==
  LET s == session[w] IN
  /\ s.step = "saving"
  /\ charges' = Together(charges, s.charge)
  /\ response' = IF s.kind = "submit"
                 THEN Inserted(w) ELSE response
  /\ answer' = IF s.kind = "claim"
               THEN [answer EXCEPT ![w] = Result(s.at, BagToSet(s.charge), TRUE)] ELSE answer
  /\ End(w)
  /\ UNCHANGED <<now, completed, account, attempts>>

\* A missing account, a missing composition or any other error.
Fail(w) ==
  /\ session[w].step # "idle"
  /\ Rollback(w)
  /\ End(w)
  /\ UNCHANGED <<now, completed, account, charges, answer, attempts>>

-----------------------------------------------------------------------------
(* The rest of the system.                                                 *)

Tick == /\ now < MaxTime /\ now' = now + 1
        /\ UNCHANGED <<completed, account, response, charges, lock, session, answer, attempts>>

\* A job is completed, or compensated after it was.
SettleJob == /\ completed' = ~completed
             /\ UNCHANGED <<now, account, response, charges, lock, session, answer, attempts>>

OpenAccount == /\ ~account /\ account' = TRUE
               /\ UNCHANGED <<now, completed, response, charges, lock, session, answer, attempts>>

NoRow == [id |-> NoResponse, form |-> NoForm, submitted_at |-> 0]

Init ==
  /\ now = 0 /\ completed = FALSE /\ account \in BOOLEAN
  /\ response = NoRow
  /\ charges = EmptyBag
  /\ lock = [k \in {"response", "account"} |-> Nobody]
  /\ session = [w \in Requests |-> Idle]
  /\ answer = [w \in Requests |-> NoAnswer]
  /\ attempts = 0

Step(w) ==
  \/ \E f \in Forms : Submit(w, f)
  \/ AlreadySubmitted(w) \/ FindNoResponse(w) \/ CheckCompletion(w)
  \/ AddIfAbsent(w) \/ GrantReward(w)
  \/ Claim(w) \/ ClaimedBefore(w) \/ GrantDaily(w) \/ GetStatus(w)
  \/ Commit(w) \/ Fail(w)

Next == Tick \/ SettleJob \/ OpenAccount \/ \E w \in Requests : Step(w)

Spec == Init /\ [][Next]_vars

-----------------------------------------------------------------------------
(* Properties.                                                             *)

TypeOK ==
  /\ now \in 0 .. MaxTime /\ completed \in BOOLEAN /\ account \in BOOLEAN
  /\ attempts \in 0 .. MaxAttempts
  /\ response.id \in Responses \cup {NoResponse} /\ response.form \in Forms \cup {NoForm}
  /\ IsABag(charges) /\ \A c \in Booked : c.source \in Sources
  /\ \A k \in DOMAIN lock : lock[k] \in Requests \cup {Nobody}
  /\ \A w \in Requests : session[w].step \in Steps

\* The survey rewards exactly once, whoever submits it twice or fails half-way:
\* the account has one use of it when the response is committed, none before,
\* granted for that response at its time, and nobody without a response has
\* ever had a daily reward.  The stored row tells apart who used the result
\* outside from who did not: shared without a reason, or kept with one.
ToldUse(f) == (\E i \in DOMAIN f.actions : f.actions[i] = "sns") <=> Len(f.reasons) = 0

SurveyRewardedOnce ==
  /\ TypeOK
  /\ response # NoRow => ToldUse(response.form)
  /\ {c \in Booked : c.source = "EXPERIMENT"} =
       IF response = NoRow THEN {} ELSE {ExperimentCharge(response.id, response.submitted_at)}
  /\ \A c \in Booked : charges[c] = 1
  /\ response = NoRow => \A c \in Booked : c.source # "DAILY_REWARD"

\* Between two midnights of Korea the daily reward is granted once, however
\* long a claim has waited for the account, and what a client was told of its
\* claim and of the next one is so.
DailyRewardKept ==
  /\ \A c, d \in Booked :
       /\ c.source = "DAILY_REWARD" /\ d.source = "DAILY_REWARD" /\ c # d
       => \E midnight \in {n * Day - KoreaOffset : n \in 0 .. MaxTime + 1} :
            \/ c.created_at < midnight /\ midnight <= d.created_at
            \/ d.created_at < midnight /\ midnight <= c.created_at
  /\ \A w \in Requests : answer[w] # NoAnswer =>
       LET a == answer[w]
           today == {c \in Booked : c.source = "DAILY_REWARD"
                       /\ c.created_at \in a.next_claim_at - Day .. a.next_claim_at - 1}
       IN  /\ a.server_now < a.next_claim_at /\ a.next_claim_at <= a.server_now + Day
           /\ a.claimed => a.expires_at = {c.expires_at : c \in today} /\ today # {}
           /\ a.granted => a.claimed /\ \E c \in today : c.created_at = a.server_now
-----------------------------------------------------------------------------
(* The inductive invariant.                                                *)

Charges == {ExperimentCharge(id, t) : id \in Responses, t \in 0 .. MaxTime}
             \cup {DailyCharge(t) : t \in 0 .. MaxTime}

Row == [id : Responses, form : Forms, submitted_at : 0 .. MaxTime]

Session ==
  [ step : Steps, kind : {"none", "submit", "claim"}, form : Forms \cup {NoForm},
    id : Responses \cup {NoResponse}, at : 0 .. MaxTime,
    charge : {EmptyBag} \cup {SetToBag({c}) : c \in Charges} ]

Answer ==
  [ claim_date : Int, claimed : BOOLEAN, granted : BOOLEAN, server_now : 0 .. MaxTime,
    next_claim_at : Int, expires_at : SUBSET Int ]

Types ==
  /\ now \in 0 .. MaxTime /\ completed \in BOOLEAN /\ account \in BOOLEAN
  /\ attempts \in 0 .. MaxAttempts
  /\ response \in Row \cup {NoRow}
  /\ lock \in [{"response", "account"} -> Requests \cup {Nobody}]
  /\ session \in [Requests -> Session]
  /\ answer \in [Requests -> Answer \cup {NoAnswer}]

\* Who submits keeps its keys from the insert to the commit, who grants the
\* account, and what was looked up under a key stays so while it is held.
RequestInv(w) ==
  LET s == session[w] IN
  /\ s.step = "idle" => s = Idle
  /\ s.step \in {"finding", "checking", "inserting", "granting"} => s.kind = "submit"
  /\ s.kind = "submit" => s.form \in Forms /\ ExperimentSurveyAnswers(s.form)
  /\ s.kind = "submit" /\ s.step \in {"inserting", "granting", "saving"} => s.id \in Responses
  /\ s.kind = "submit" /\ s.step \in {"granting", "saving"}
       => lock["response"] = w /\ response = NoRow
  /\ s.kind = "claim" => response # NoRow
  /\ s.step = "claiming" => s.kind = "claim"
  /\ s.step = "saving" =>
       /\ lock["account"] = w /\ s.kind \in {"submit", "claim"}
       /\ s.charge = SetToBag({IF s.kind = "submit" THEN ExperimentCharge(s.id, s.at)
                               ELSE DailyCharge(s.at)})
       /\ s.kind = "claim" => Find("DAILY_REWARD", KoreanDay(s.at)) = {}

ChargesFit ==
  /\ charges = SetToBag(Booked) /\ Booked \subseteq Charges
  /\ \A c, d \in Booked :
       c.source = "DAILY_REWARD" /\ d.source = "DAILY_REWARD" /\ c.source_id = d.source_id => c = d

\* What a client was told rests on charges that are still booked.
AnswerFits(w) ==
  answer[w] # NoAnswer =>
    LET a == answer[w] IN
    /\ a.next_claim_at = Midnight(KoreanDay(a.server_now) + 1)
    /\ a.claimed => \E c \in Find("DAILY_REWARD", KoreanDay(a.server_now)) :
                      a.expires_at = {c.expires_at}
    /\ a.granted => a.claimed /\ DailyCharge(a.server_now) \in Booked

IInv ==
  /\ Types /\ SurveyRewardedOnce /\ ChargesFit
  /\ \A w \in Requests : RequestInv(w) /\ AnswerFits(w)
=============================================================================
