---------------------------- MODULE RewardsProofs ----------------------------
(***************************************************************************)
(* The survey is rewarded once and the daily reward once per Korean day,   *)
(* for any number of requests, responses and ticks of a day.  The argument *)
(* is about the two keys: a request that is about to commit still holds    *)
(* the key it has looked under, so what it found there is still so.        *)
(***************************************************************************)
EXTENDS MCPeople, Integers, TLAPS

-----------------------------------------------------------------------------
(* Rows, charges and days.                                                 *)

LEMMA RowsAreTold ==
  ASSUME R!RewardsAssumption
  PROVE  /\ R!NoRow.id = NoResponse /\ R!NoRow \notin R!Row
         /\ \A r \in R!Row \cup {R!NoRow} : r.id = NoResponse <=> r = R!NoRow
<1>1. R!NoRow.id = NoResponse
  BY DEF R!NoRow
<1>2. \A r \in R!Row : r.id \in Responses
  BY DEF R!Row
<1> QED
  BY <1>1, <1>2 DEF R!RewardsAssumption

\* What a survey says of the use outside agrees with whether it gives reasons.
LEMMA AnswersTellUse ==
  ASSUME R!RewardsAssumption, NEW f \in Forms, R!ExperimentSurveyAnswers(f)
  PROVE  R!ToldUse(f)
<1>1. f.actions \in Seq(R!ActualAction) /\ f.reasons \in Seq(R!NonExternalUseReason)
  BY DEF R!RewardsAssumption
<1>2. R!ToSet(f.actions) \cap R!EXTERNAL_ACTIONS # {} <=> R!ToSet(f.reasons) = {}
  BY DEF R!ExperimentSurveyAnswers, R!MayGiveReasons
<1>3. R!ToSet(f.actions) \cap R!EXTERNAL_ACTIONS # {} <=> \E i \in DOMAIN f.actions : f.actions[i] = "sns"
  BY DEF R!ToSet, R!EXTERNAL_ACTIONS
<1>4. R!ToSet(f.reasons) = {} <=> Len(f.reasons) = 0
  <2>1. Len(f.reasons) \in Nat /\ DOMAIN f.reasons = 1 .. Len(f.reasons)
    BY <1>1
  <2>2. R!ToSet(f.reasons) = {} <=> DOMAIN f.reasons = {}
    BY DEF R!ToSet
  <2>3. Len(f.reasons) # 0 => 1 \in 1 .. Len(f.reasons)
    BY <2>1
  <2>4. Len(f.reasons) = 0 => 1 .. Len(f.reasons) = {}
    BY <2>1
  <2> QED
    BY <2>1, <2>2, <2>3, <2>4
<1> QED
  BY <1>2, <1>3, <1>4 DEF R!ToldUse

LEMMA DayBounds ==
  ASSUME R!RewardsAssumption, NEW t \in Nat
  PROVE  /\ R!KoreanDay(t) \in Nat
         /\ R!KoreanDay(t) * Day <= t + KoreaOffset /\ t + KoreaOffset < (R!KoreanDay(t) + 1) * Day
<1>1. t + KoreaOffset \in Nat /\ Day \in Nat \ {0}
  BY DEF R!RewardsAssumption
<1> QED
  BY <1>1 DEF R!KoreanDay

\* Two days lie on two sides of the later one's midnight.
LEMMA MidnightBetween ==
  ASSUME R!RewardsAssumption, NEW s \in 0 .. MaxTime, NEW t \in 0 .. MaxTime,
         R!KoreanDay(s) < R!KoreanDay(t)
  PROVE  \E midnight \in {n * Day - KoreaOffset : n \in 0 .. MaxTime + 1} :
           s < midnight /\ midnight <= t
<1> DEFINE p == R!KoreanDay(s)
           q == R!KoreanDay(t)
<1>1. /\ Day \in Nat /\ Day >= 1 /\ KoreaOffset \in Nat /\ KoreaOffset < Day /\ MaxTime \in Nat
      /\ s \in Nat /\ t \in Nat /\ t <= MaxTime
  BY DEF R!RewardsAssumption
<1>2. /\ p \in Nat /\ q \in Nat /\ p < q /\ s + KoreaOffset < (p + 1) * Day
      /\ q * Day <= t + KoreaOffset
  BY <1>1, DayBounds
<1> HIDE DEF p, q
<1>3. (p + 1) * Day <= q * Day
  BY <1>1, <1>2
<1>4. s < q * Day - KoreaOffset /\ q * Day - KoreaOffset <= t
  BY <1>1, <1>2, <1>3
<1>5. q <= MaxTime + 1
  <2> SUFFICES ASSUME q >= MaxTime + 2
               PROVE  FALSE
    BY <1>1, <1>2
  <2>1. (MaxTime + 2) * Day <= q * Day
    BY <1>1, <1>2
  <2>2. MaxTime <= MaxTime * Day
    BY <1>1
  <2>3. (MaxTime + 2) * Day = MaxTime * Day + 2 * Day
    BY <1>1
  <2> QED
    BY <1>1, <1>2, <2>1, <2>2, <2>3
<1>6. q * Day - KoreaOffset \in {n * Day - KoreaOffset : n \in 0 .. MaxTime + 1}
  BY <1>1, <1>2, <1>5
<1> QED
  BY <1>4, <1>6

\* The days of Korea cut time where Midnight says.
LEMMA DayOf ==
  ASSUME R!RewardsAssumption, NEW s \in Nat, NEW t \in Nat
  PROVE  LET next == R!Midnight(R!KoreanDay(t) + 1) IN
         /\ next \in Int /\ t < next /\ next <= t + Day
         /\ s \in next - Day .. next - 1 <=> R!KoreanDay(s) = R!KoreanDay(t)
<1> DEFINE p == R!KoreanDay(s)
           q == R!KoreanDay(t)
<1>1. Day \in Nat /\ Day >= 1 /\ KoreaOffset \in Nat
  BY DEF R!RewardsAssumption
<1>2. /\ p \in Nat /\ p * Day <= s + KoreaOffset /\ s + KoreaOffset < (p + 1) * Day
      /\ q \in Nat /\ q * Day <= t + KoreaOffset /\ t + KoreaOffset < (q + 1) * Day
  BY DayBounds
<1>3. R!Midnight(q + 1) = (q + 1) * Day - KoreaOffset
  BY DEF R!Midnight
<1> HIDE DEF p, q
<1>4. /\ (q + 1) * Day = q * Day + Day /\ q * Day \in Int
      /\ (p + 1) * Day = p * Day + Day /\ p * Day \in Int
  BY <1>1, <1>2
<1>5. p < q => (p + 1) * Day <= q * Day
  BY <1>1, <1>2
<1>6. q < p => (q + 1) * Day <= p * Day
  BY <1>1, <1>2
<1>7. /\ R!Midnight(q + 1) \in Int /\ t < R!Midnight(q + 1) /\ R!Midnight(q + 1) <= t + Day
      /\ s \in R!Midnight(q + 1) - Day .. R!Midnight(q + 1) - 1 <=> p = q
  BY <1>1, <1>2, <1>3, <1>4, <1>5, <1>6
<1> QED
  BY <1>7 DEF p, q

LEMMA DailyFields ==
  ASSUME NEW t
  PROVE  LET c == R!DailyCharge(t) IN
         /\ c.source = "DAILY_REWARD" /\ c.source_id = R!KoreanDay(t)
         /\ c.created_at = t /\ c.expires_at = t + Validity
BY DEF R!DailyCharge, R!Charge

LEMMA ExperimentFields ==
  ASSUME NEW id, NEW t
  PROVE  R!ExperimentCharge(id, t).source = "EXPERIMENT" /\ R!ExperimentCharge(id, t).source_id = id
BY DEF R!ExperimentCharge, R!Charge

\* A daily reward is for the day it was given on.
LEMMA DailyCharges ==
  ASSUME NEW c \in R!Charges, c.source = "DAILY_REWARD"
  PROVE  /\ c.created_at \in 0 .. MaxTime /\ c = R!DailyCharge(c.created_at)
         /\ c.source_id = R!KoreanDay(c.created_at) /\ c.expires_at = c.created_at + Validity
<1>1. PICK t \in 0 .. MaxTime : c = R!DailyCharge(t)
  BY ExperimentFields DEF R!Charges
<1> QED
  BY <1>1, DailyFields

LEMMA BagOfSet ==
  ASSUME NEW S
  PROVE  R!BagToSet(R!SetToBag(S)) = S /\ \A c \in S : R!SetToBag(S)[c] = 1
BY DEF R!BagToSet, R!SetToBag

LEMMA ChargeAdded ==
  ASSUME NEW S, NEW c, c \notin S
  PROVE  R!Together(R!SetToBag(S), R!SetToBag({c})) = R!SetToBag(S \cup {c})
BY DEF R!SetToBag, R!Together, R!(+)

-----------------------------------------------------------------------------
(* What a step leaves.                                                     *)

Keys == {"response", "account"}

LocksKept(w) ==
  /\ lock' \in [Keys -> Requests \cup {Nobody}]
  /\ \A k \in Keys, v \in Requests \ {w} : lock[k] = v => lock'[k] = v

LEMMA LockKeeps ==
  ASSUME R!RewardsAssumption, R!Types, NEW w \in Requests, NEW key \in Keys, R!Free(w, key), R!Lock(w, key)
  PROVE  LocksKept(w) /\ lock'[key] = w /\ \A k \in Keys : lock[k] = w => lock'[k] = w
BY DEF R!RewardsAssumption, R!Types, R!Free, R!Lock, LocksKept, Keys

LEMMA NoLockKeeps ==
  ASSUME R!Types, NEW w \in Requests, UNCHANGED lock
  PROVE  LocksKept(w)
BY DEF R!Types, LocksKept, Keys

LEMMA EndKeeps ==
  ASSUME R!Types, NEW w \in Requests, R!End(w)
  PROVE  LocksKept(w) /\ claim' = [claim EXCEPT ![w] = R!Idle]
BY DEF R!Types, R!End, LocksKept, Keys

LEMMA SessionKept ==
  ASSUME R!Types, NEW w \in Requests, NEW s \in R!Session, claim' = [claim EXCEPT ![w] = s]
  PROVE  /\ claim' \in [Requests -> R!Session] /\ claim'[w] = s
         /\ \A v \in Requests \ {w} : claim'[v] = claim[v]
BY DEF R!Types

LEMMA IdleSession ==
  ASSUME R!RewardsAssumption
  PROVE  R!Idle \in R!Session /\ R!Idle.step = "idle" /\ R!Idle.kind = "none"
<1>1. 0 \in 0 .. MaxTime
  BY DEF R!RewardsAssumption
<1> QED
  BY <1>1 DEF R!Idle, R!Session, R!Steps

LEMMA IdleIsFine ==
  ASSUME R!RewardsAssumption, NEW w \in Requests, claim'[w] = R!Idle
  PROVE  R!RequestInv(w)'
BY IdleSession DEF R!RequestInv

\* The others know what they knew, as long as what they hold is left alone.
LEMMA OthersKnow ==
  ASSUME NEW v \in Requests, R!RequestInv(v), claim'[v] = claim[v],
         \A k \in Keys : lock[k] = v => lock'[k] = v,
         response' = response \/ (response' # R!NoRow /\ lock["response"] # v),
         charges' = charges \/ lock["account"] # v
  PROVE  R!RequestInv(v)'
<1> DEFINE s == claim[v]
<1>1. s.step = "saving" /\ s.kind = "claim" /\ R!Find("DAILY_REWARD", R!KoreanDay(s.at)) = {} =>
        R!Find("DAILY_REWARD", R!KoreanDay(s.at))' = {}
  BY DEF R!RequestInv, R!Find, R!Booked
<1> QED
  BY <1>1 DEF R!RequestInv, Keys

LEMMA TypesSuffice ==
  ASSUME R!RewardsAssumption, R!Types, R!ChargesFit
  PROVE  R!TypeOK
<1>1. R!IsABag(charges)
  BY DEF R!ChargesFit, R!SetToBag, R!Booked, R!BagToSet, R!IsABag
<1>2. \A c \in R!Booked : c.source \in R!Sources
  BY DailyFields, ExperimentFields DEF R!ChargesFit, R!Charges, R!Sources
<1>3. response.id \in Responses \cup {NoResponse} /\ response.form \in Forms \cup {NoForm}
  BY DEF R!Types, R!Row, R!NoRow
<1>4. \A w \in Requests : claim[w].step \in R!Steps
  BY DEF R!Types, R!Session
<1> QED
  BY <1>1, <1>2, <1>3, <1>4 DEF R!Types, R!TypeOK

\* Nothing is booked, answered or responded.
LEMMA BooksKept ==
  ASSUME R!RewardsAssumption, R!IInv, R!Types', UNCHANGED <<response, charges>>
  PROVE  R!SurveyRewardedOnce' /\ R!ChargesFit'
<1>1. R!ChargesFit'
  BY DEF R!IInv, R!ChargesFit, R!Booked
<1>2. R!TypeOK'
  BY <1>1, TypesSuffice, PTL
<1>3. R!SurveyRewardedOnce'
  BY <1>2 DEF R!IInv, R!SurveyRewardedOnce, R!Booked
<1> QED
  BY <1>1, <1>3

LEMMA AnswersKept ==
  ASSUME NEW w, R!AnswerFits(w), UNCHANGED answer, R!Booked \subseteq R!Booked'
  PROVE  R!AnswerFits(w)'
BY DEF R!AnswerFits, R!Find

LEMMA RequestStep ==
  ASSUME R!RewardsAssumption, R!IInv, NEW w \in Requests, NEW s \in R!Session,
         claim' = [claim EXCEPT ![w] = s], LocksKept(w), R!RequestInv(w)',
         UNCHANGED <<now, completed, account, response, charges, answer>>,
         attempts' \in 0 .. MaxAttempts
  PROVE  R!IInv'
<1>1. R!Types'
  BY SessionKept DEF R!IInv, R!Types, LocksKept, Keys
<1>2. ASSUME NEW v \in Requests
      PROVE  R!RequestInv(v)'
  <2>1. CASE v = w
    BY <2>1
  <2>2. CASE v # w
    BY <2>2, SessionKept, OthersKnow DEF R!IInv, LocksKept
  <2> QED
    BY <2>1, <2>2
<1>3. \A v \in Requests : R!AnswerFits(v)'
  BY AnswersKept DEF R!IInv, R!Booked
<1> QED
  BY <1>1, <1>2, <1>3, BooksKept DEF R!IInv

\* A request that ends, and what it answers.
LEMMA AnswerStep ==
  ASSUME R!RewardsAssumption, R!IInv, NEW w \in Requests, NEW t \in 0 .. MaxTime,
         answer' = [answer EXCEPT ![w] = R!Result(t, R!Find("DAILY_REWARD", R!KoreanDay(t)), FALSE)],
         \/ UNCHANGED <<claim, lock>>
         \/ claim' = [claim EXCEPT ![w] = R!Idle] /\ LocksKept(w),
         UNCHANGED <<now, completed, account, response, charges, attempts>>
  PROVE  R!IInv'
<1> DEFINE day == R!KoreanDay(t)
           claims == R!Find("DAILY_REWARD", day)
           a == R!Result(t, claims, FALSE)
<1>1. /\ a.claimed = (claims # {}) /\ a.granted = FALSE /\ a.server_now = t
      /\ a.next_claim_at = R!Midnight(day + 1)
      /\ a.expires_at = {c.created_at + Validity : c \in claims}
  BY DEF R!Result
<1>2. \A c \in claims : c \in R!Booked /\ c \in R!Charges /\ c.source = "DAILY_REWARD" /\ c.source_id = day
  BY DEF R!Find, R!IInv, R!ChargesFit
<1>3. \A c, d \in claims : c = d
  BY <1>2 DEF R!IInv, R!ChargesFit
<1>4. ASSUME claims # {}
      PROVE  \E c \in claims : a.expires_at = {c.expires_at}
  <2>1. PICK c \in claims : TRUE
    BY <1>4
  <2>2. c.expires_at = c.created_at + Validity
    BY <1>2, DailyCharges
  <2>3. claims = {c}
    BY <1>3, <2>1
  <2>4. {d.created_at + Validity : d \in claims} = {c.expires_at}
    BY <2>2, <2>3
  <2> QED
    BY <1>1, <2>3, <2>4
<1>5. a \in R!Answer
  <2>1. day \in Nat /\ R!Midnight(day + 1) \in Int /\ t \in Nat
    BY DayBounds, DayOf DEF R!RewardsAssumption
  <2>2. \A c \in claims : c.created_at + Validity \in Int
    BY <1>2, DailyCharges DEF R!RewardsAssumption
  <2>3. {c.created_at + Validity : c \in claims} \in SUBSET Int
    BY <2>2
  <2> QED
    BY <2>1, <2>3 DEF R!Result, R!Answer
<1>6. LocksKept(w) /\ claim' \in [Requests -> R!Session]
  BY NoLockKeeps, SessionKept, IdleSession DEF R!IInv, R!Types
<1>7. answer' \in [Requests -> R!Answer \cup {NoAnswer}] /\ answer'[w] = a
      /\ \A v \in Requests \ {w} : answer'[v] = answer[v]
  BY <1>5 DEF R!IInv, R!Types
<1>8. R!Types'
  BY <1>6, <1>7 DEF R!IInv, R!Types, LocksKept, Keys
<1>9. ASSUME NEW v \in Requests
      PROVE  R!RequestInv(v)'
  <2>1. CASE claim'[v] = claim[v] /\ \A k \in Keys : lock[k] = v => lock'[k] = v
    BY <2>1, OthersKnow DEF R!IInv
  <2>2. CASE v = w /\ claim'[v] = R!Idle
    BY <2>2, IdleIsFine
  <2> QED
    BY <2>1, <2>2, SessionKept, IdleSession DEF R!IInv, LocksKept
<1>10. ASSUME NEW v \in Requests
       PROVE  R!AnswerFits(v)'
  <2>1. CASE v # w
    BY <1>7, <2>1 DEF R!IInv, R!AnswerFits, R!Find, R!Booked
  <2>2. CASE v = w
    <3>1. PICK x : x = a
      OBVIOUS
    <3>2. /\ answer'[v] = x /\ ~x.granted /\ x.server_now = t /\ x.next_claim_at = R!Midnight(day + 1)
          /\ x.claimed => \E c \in claims : x.expires_at = {c.expires_at}
      BY <1>1, <1>4, <1>7, <2>2, <3>1
    <3>3. R!Find("DAILY_REWARD", day)' = claims
      BY DEF R!Find, R!Booked
    <3> QED
      BY <3>2, <3>3 DEF R!AnswerFits
  <2> QED
    BY <2>1, <2>2
<1> QED
  BY <1>8, <1>9, <1>10, BooksKept DEF R!IInv

-----------------------------------------------------------------------------
(* The requests, one step at a time.                                       *)

LEMMA SubmitStep ==
  ASSUME R!RewardsAssumption, R!IInv, NEW w \in Requests, NEW f \in Forms, R!Submit(w, f)
  PROVE  R!IInv'
<1> DEFINE s == [R!Idle EXCEPT !.step = "finding", !.kind = "submit", !.form = f]
<1>1. s \in R!Session /\ s.step = "finding" /\ s.kind = "submit" /\ s.form = f
  BY IdleSession DEF R!Session, R!Steps
<1>2. /\ claim' = [claim EXCEPT ![w] = s] /\ R!ExperimentSurveyAnswers(f)
      /\ UNCHANGED <<now, completed, account, response, charges, lock, answer>>
      /\ attempts' \in 0 .. MaxAttempts
  BY DEF R!Submit, R!Begin, R!IInv, R!Types, R!RewardsAssumption
<1> HIDE DEF s
<1>3. claim'[w] = s
  BY <1>1, <1>2, SessionKept DEF R!IInv
<1>4. R!RequestInv(w)'
  BY <1>1, <1>2, <1>3 DEF R!RequestInv
<1> QED
  BY <1>1, <1>2, <1>4, RequestStep, NoLockKeeps DEF R!IInv

LEMMA EndStep ==
  ASSUME R!RewardsAssumption, R!IInv, NEW w \in Requests, R!End(w),
         UNCHANGED <<now, completed, account, response, charges, answer, attempts>>
  PROVE  R!IInv'
<1>1. LocksKept(w) /\ claim' = [claim EXCEPT ![w] = R!Idle] /\ claim'[w] = R!Idle
  BY EndKeeps, IdleSession, SessionKept DEF R!IInv
<1>2. attempts' \in 0 .. MaxAttempts
  BY DEF R!IInv, R!Types
<1> QED
  BY <1>1, <1>2, IdleSession, IdleIsFine, RequestStep

LEMMA FindNoResponseStep ==
  ASSUME R!RewardsAssumption, R!IInv, NEW w \in Requests, R!FindNoResponse(w)
  PROVE  R!IInv'
<1> DEFINE s == [claim[w] EXCEPT !.step = "checking"]
<1>1. claim[w] \in R!Session /\ R!RequestInv(w) /\ claim[w].step = "finding"
  BY DEF R!IInv, R!Types, R!FindNoResponse
<1>2. s \in R!Session /\ s.step = "checking" /\ s.kind = claim[w].kind /\ s.form = claim[w].form
  BY <1>1 DEF R!Session, R!Steps
<1>3. /\ claim' = [claim EXCEPT ![w] = s]
      /\ UNCHANGED <<now, completed, account, response, charges, lock, answer, attempts>>
  BY DEF R!FindNoResponse, R!Goto
<1> HIDE DEF s
<1>4. claim'[w] = s
  BY <1>2, <1>3, SessionKept DEF R!IInv
<1>5. R!RequestInv(w)'
  BY <1>1, <1>2, <1>3, <1>4 DEF R!RequestInv
<1> QED
  BY <1>2, <1>3, <1>5, RequestStep, NoLockKeeps DEF R!IInv, R!Types

LEMMA CheckCompletionStep ==
  ASSUME R!RewardsAssumption, R!IInv, NEW w \in Requests, R!CheckCompletion(w)
  PROVE  R!IInv'
<1>1. PICK id \in R!Fresh :
        claim' = [claim EXCEPT ![w].step = "inserting", ![w].id = id, ![w].at = now]
  BY DEF R!CheckCompletion
<1> DEFINE s == [claim[w] EXCEPT !.step = "inserting", !.id = id, !.at = now]
<1>2. claim[w] \in R!Session /\ R!RequestInv(w) /\ claim[w].step = "checking" /\ id \in Responses
      /\ now \in 0 .. MaxTime
  BY <1>1 DEF R!IInv, R!Types, R!CheckCompletion, R!Fresh
<1>3. /\ s \in R!Session /\ s.step = "inserting" /\ s.kind = claim[w].kind
      /\ s.form = claim[w].form /\ s.id = id
  BY <1>2 DEF R!Session, R!Steps
<1>4. /\ claim' = [claim EXCEPT ![w] = s]
      /\ UNCHANGED <<now, completed, account, response, charges, lock, answer, attempts>>
  BY <1>1 DEF R!CheckCompletion
<1> HIDE DEF s
<1>5. claim'[w] = s
  BY <1>3, <1>4, SessionKept DEF R!IInv
<1>6. R!RequestInv(w)'
  BY <1>2, <1>3, <1>4, <1>5 DEF R!RequestInv
<1> QED
  BY <1>3, <1>4, <1>6, RequestStep, NoLockKeeps DEF R!IInv, R!Types

LEMMA AddIfAbsentStep ==
  ASSUME R!RewardsAssumption, R!IInv, NEW w \in Requests, R!AddIfAbsent(w)
  PROVE  R!IInv'
<1>1. CASE R!InsertedByOther(w)
  BY <1>1, EndStep DEF R!AddIfAbsent
<1>2. CASE ~R!InsertedByOther(w)
  <2> DEFINE s == [claim[w] EXCEPT !.step = "granting"]
  <2>1. claim[w] \in R!Session /\ R!RequestInv(w) /\ claim[w].step = "inserting"
    BY DEF R!IInv, R!Types, R!AddIfAbsent
  <2>2. /\ s \in R!Session /\ s.step = "granting" /\ s.kind = claim[w].kind
        /\ s.form = claim[w].form /\ s.id = claim[w].id
    BY <2>1 DEF R!Session, R!Steps
  <2>3. /\ claim' = [claim EXCEPT ![w] = s] /\ R!Free(w, "response") /\ R!Lock(w, "response")
        /\ UNCHANGED <<now, completed, account, response, charges, answer, attempts>>
    BY <1>2 DEF R!AddIfAbsent, R!Goto
  <2> HIDE DEF s
  <2>4. claim'[w] = s
    BY <2>2, <2>3, SessionKept DEF R!IInv
  <2>5. LocksKept(w) /\ lock'["response"] = w
    BY <2>3, LockKeeps DEF R!IInv, Keys
  <2>6. response = R!NoRow
    BY <1>2, RowsAreTold DEF R!InsertedByOther, R!IInv, R!Types
  <2>7. R!RequestInv(w)'
    BY <2>1, <2>2, <2>3, <2>4, <2>5, <2>6 DEF R!RequestInv
  <2>8. attempts' \in 0 .. MaxAttempts
    BY <2>3 DEF R!IInv, R!Types
  <2> QED
    BY <2>2, <2>3, <2>5, <2>7, <2>8, RequestStep
<1> QED
  BY <1>1, <1>2

\* Nobody has granted for a response that is only about to be stored.
LEMMA NoExperimentYet ==
  ASSUME R!IInv, response = R!NoRow
  PROVE  \A c \in R!Booked : c.source # "EXPERIMENT" /\ c.source # "DAILY_REWARD"
BY DEF R!IInv, R!SurveyRewardedOnce

LEMMA GrantRewardStep ==
  ASSUME R!RewardsAssumption, R!IInv, NEW w \in Requests, R!GrantReward(w)
  PROVE  R!IInv'
<1> DEFINE x == R!SetToBag({R!ExperimentCharge(claim[w].id, claim[w].at)})
           s == [claim[w] EXCEPT !.step = "saving", !.charge = x]
<1>1. claim[w] \in R!Session /\ R!RequestInv(w) /\ claim[w].step = "granting"
  BY DEF R!IInv, R!Types, R!GrantReward
<1>2. /\ claim[w].kind = "submit" /\ claim[w].id \in Responses /\ claim[w].at \in 0 .. MaxTime
      /\ lock["response"] = w /\ response = R!NoRow
  BY <1>1 DEF R!RequestInv, R!Session
<1>3. R!Find("EXPERIMENT", claim[w].id) = {}
  BY <1>2, NoExperimentYet DEF R!Find
<1>4. x \in {R!SetToBag({c}) : c \in R!Charges}
  <2>1. R!ExperimentCharge(claim[w].id, claim[w].at) \in R!Charges
    BY <1>2 DEF R!Charges
  <2> QED
    BY <2>1
<1>5. /\ s \in R!Session /\ s.step = "saving" /\ s.kind = "submit" /\ s.form = claim[w].form
      /\ s.id = claim[w].id /\ s.at = claim[w].at /\ s.charge = x
  BY <1>1, <1>2, <1>4 DEF R!Session, R!Steps
<1>6. /\ claim' = [claim EXCEPT ![w] = s] /\ R!Free(w, "account") /\ R!Lock(w, "account")
      /\ UNCHANGED <<now, completed, account, response, charges, answer, attempts>>
  BY <1>3 DEF R!GrantReward
<1>7. claim'[w] = s
  BY <1>5, <1>6, SessionKept DEF R!IInv
<1>8. LocksKept(w) /\ lock'["account"] = w /\ lock'["response"] = w
  BY <1>2, <1>6, LockKeeps DEF R!IInv, Keys
<1>9. /\ s.form \in Forms /\ R!ExperimentSurveyAnswers(s.form)
      /\ s.charge = R!SetToBag({R!ExperimentCharge(s.id, s.at)})
  BY <1>1, <1>2, <1>5 DEF R!RequestInv
<1> HIDE DEF s
<1>10. R!RequestInv(w)'
  BY <1>2, <1>5, <1>6, <1>7, <1>8, <1>9 DEF R!RequestInv
<1>11. attempts' \in 0 .. MaxAttempts
  BY <1>6 DEF R!IInv, R!Types
<1> QED
  BY <1>5, <1>6, <1>8, <1>10, <1>11, RequestStep

LEMMA ClaimStep ==
  ASSUME R!RewardsAssumption, R!IInv, NEW w \in Requests, R!Claim(w)
  PROVE  R!IInv'
<1> DEFINE s == [R!Idle EXCEPT !.step = "claiming", !.kind = "claim", !.at = now]
<1>1. now \in 0 .. MaxTime
  BY DEF R!IInv, R!Types
<1>2. s \in R!Session /\ s.step = "claiming" /\ s.kind = "claim"
  BY <1>1, IdleSession DEF R!Session, R!Steps
<1>3. /\ claim' = [claim EXCEPT ![w] = s] /\ response # R!NoRow
      /\ UNCHANGED <<now, completed, account, response, charges, lock, answer>>
      /\ attempts' \in 0 .. MaxAttempts
  BY RowsAreTold DEF R!Claim, R!Begin, R!IInv, R!Types, R!RewardsAssumption
<1> HIDE DEF s
<1>4. claim'[w] = s
  BY <1>2, <1>3, SessionKept DEF R!IInv
<1>5. R!RequestInv(w)'
  BY <1>2, <1>3, <1>4 DEF R!RequestInv
<1> QED
  BY <1>2, <1>3, <1>5, RequestStep, NoLockKeeps DEF R!IInv

LEMMA ClaimedBeforeStep ==
  ASSUME R!RewardsAssumption, R!IInv, NEW w \in Requests, R!ClaimedBefore(w)
  PROVE  R!IInv'
<1>1. claim[w].at \in 0 .. MaxTime
  BY DEF R!IInv, R!Types, R!Session
<1>2. LocksKept(w) /\ claim' = [claim EXCEPT ![w] = R!Idle]
  BY EndKeeps DEF R!ClaimedBefore, R!IInv
<1> QED
  BY <1>1, <1>2, AnswerStep DEF R!ClaimedBefore

LEMMA GetStatusStep ==
  ASSUME R!RewardsAssumption, R!IInv, NEW w \in Requests, R!GetStatus(w)
  PROVE  R!IInv'
<1>1. now \in 0 .. MaxTime
  BY DEF R!IInv, R!Types
<1> QED
  BY <1>1, AnswerStep DEF R!GetStatus

LEMMA GrantDailyStep ==
  ASSUME R!RewardsAssumption, R!IInv, NEW w \in Requests, R!GrantDaily(w)
  PROVE  R!IInv'
<1> DEFINE x == R!SetToBag({R!DailyCharge(claim[w].at)})
           s == [claim[w] EXCEPT !.step = "saving", !.charge = x]
<1>1. claim[w] \in R!Session /\ R!RequestInv(w) /\ claim[w].step = "claiming"
  BY DEF R!IInv, R!Types, R!GrantDaily
<1>2. claim[w].kind = "claim" /\ claim[w].at \in 0 .. MaxTime /\ response # R!NoRow
  BY <1>1 DEF R!RequestInv, R!Session
<1>3. x \in {R!SetToBag({c}) : c \in R!Charges}
  BY <1>2 DEF R!Charges
<1>4. /\ s \in R!Session /\ s.step = "saving" /\ s.kind = "claim" /\ s.at = claim[w].at
      /\ s.charge = R!SetToBag({R!DailyCharge(s.at)})
  BY <1>1, <1>2, <1>3 DEF R!Session, R!Steps
<1>5. /\ claim' = [claim EXCEPT ![w] = s] /\ R!Free(w, "account") /\ R!Lock(w, "account")
      /\ R!Find("DAILY_REWARD", R!KoreanDay(s.at)) = {}
      /\ UNCHANGED <<now, completed, account, response, charges, answer, attempts>>
  BY <1>4 DEF R!GrantDaily
<1> HIDE DEF s
<1>6. claim'[w] = s
  BY <1>4, <1>5, SessionKept DEF R!IInv
<1>7. LocksKept(w) /\ lock'["account"] = w
  BY <1>5, LockKeeps DEF R!IInv, Keys
<1>8. PICK d : d = R!KoreanDay(s.at)
  OBVIOUS
<1>9. R!RequestInv(w)'
  <2>1. R!Find("DAILY_REWARD", d)' = {}
    BY <1>5, <1>8 DEF R!Find, R!Booked
  <2> QED
    BY <1>2, <1>4, <1>5, <1>6, <1>7, <1>8, <2>1 DEF R!RequestInv
<1>10. attempts' \in 0 .. MaxAttempts
  BY <1>5 DEF R!IInv, R!Types
<1> QED
  BY <1>4, <1>5, <1>7, <1>9, <1>10, RequestStep

\* A commit books the charge of the request, which is new under its key.
LEMMA CommitBooks ==
  ASSUME R!RewardsAssumption, R!IInv, NEW w \in Requests, R!Commit(w)
  PROVE  \E x \in R!Charges :
           /\ x \notin R!Booked /\ charges' = R!SetToBag(R!Booked \cup {x}) /\ R!Booked' = R!Booked \cup {x}
           /\ \/ /\ claim[w].kind = "submit" /\ response = R!NoRow /\ lock["response"] = w
                 /\ x = R!ExperimentCharge(claim[w].id, claim[w].at)
              \/ /\ claim[w].kind = "claim" /\ response # R!NoRow
                 /\ x = R!DailyCharge(claim[w].at) /\ R!BagToSet(claim[w].charge) = {x}
                 /\ R!Find("DAILY_REWARD", R!KoreanDay(claim[w].at)) = {}
<1> DEFINE s == claim[w]
<1>1. s \in R!Session /\ R!RequestInv(w) /\ s.step = "saving"
  BY DEF R!IInv, R!Types, R!Commit
<1>2. PICK x : x = IF s.kind = "submit" THEN R!ExperimentCharge(s.id, s.at) ELSE R!DailyCharge(s.at)
  OBVIOUS
<1>3. s.charge = R!SetToBag({x}) /\ s.at \in 0 .. MaxTime /\ s.kind \in {"submit", "claim"}
  BY <1>1, <1>2 DEF R!RequestInv, R!Session
<1>4. CASE s.kind = "submit"
  <2>1. s.id \in Responses /\ response = R!NoRow /\ lock["response"] = w /\ x = R!ExperimentCharge(s.id, s.at)
    BY <1>1, <1>2, <1>4 DEF R!RequestInv
  <2>2. x \in R!Charges /\ x.source = "EXPERIMENT"
    BY <1>3, <2>1, ExperimentFields DEF R!Charges
  <2>3. x \notin R!Booked
    BY <2>1, <2>2, NoExperimentYet
  <2>4. charges' = R!SetToBag(R!Booked \cup {x})
    BY <1>3, <2>3, ChargeAdded DEF R!Commit, R!IInv, R!ChargesFit
  <2>5. R!Booked' = R!Booked \cup {x}
    BY <2>4, BagOfSet DEF R!Booked
  <2> QED
    BY <1>4, <2>1, <2>2, <2>3, <2>4, <2>5
<1>5. CASE s.kind = "claim"
  <2>1. /\ response # R!NoRow /\ x = R!DailyCharge(s.at)
        /\ R!Find("DAILY_REWARD", R!KoreanDay(s.at)) = {}
    BY <1>1, <1>2, <1>5 DEF R!RequestInv
  <2>2. x \in R!Charges
    BY <1>3, <2>1 DEF R!Charges
  <2>3. x \notin R!Booked
    BY <2>1, DailyFields DEF R!Find
  <2>4. charges' = R!SetToBag(R!Booked \cup {x})
    BY <1>3, <2>3, ChargeAdded DEF R!Commit, R!IInv, R!ChargesFit
  <2>5. R!Booked' = R!Booked \cup {x}
    BY <2>4, BagOfSet DEF R!Booked
  <2>6. R!BagToSet(s.charge) = {x}
    BY <1>3, BagOfSet
  <2> QED
    BY <1>5, <2>1, <2>2, <2>3, <2>4, <2>5, <2>6
<1> QED
  BY <1>3, <1>4, <1>5

LEMMA CommitStep ==
  ASSUME R!RewardsAssumption, R!IInv, NEW w \in Requests, R!Commit(w)
  PROVE  R!IInv'
<1> DEFINE s == claim[w]
<1>1. PICK x \in R!Charges :
        /\ x \notin R!Booked /\ charges' = R!SetToBag(R!Booked \cup {x}) /\ R!Booked' = R!Booked \cup {x}
        /\ \/ /\ s.kind = "submit" /\ response = R!NoRow /\ lock["response"] = w
              /\ x = R!ExperimentCharge(s.id, s.at)
           \/ /\ s.kind = "claim" /\ response # R!NoRow
              /\ x = R!DailyCharge(s.at) /\ R!BagToSet(s.charge) = {x}
              /\ R!Find("DAILY_REWARD", R!KoreanDay(s.at)) = {}
  BY CommitBooks
<1>2. s \in R!Session /\ R!RequestInv(w) /\ s.step = "saving" /\ lock["account"] = w
  BY DEF R!IInv, R!Types, R!Commit, R!RequestInv
<1>3. /\ R!End(w) /\ UNCHANGED <<now, completed, account, attempts>>
      /\ s.kind = "submit" => response' = R!Inserted(w) /\ answer' = answer
      /\ s.kind = "claim" => response' = response
           /\ answer' = [answer EXCEPT ![w] = R!Result(s.at, R!BagToSet(s.charge), TRUE)]
  BY DEF R!Commit
<1>4. LocksKept(w) /\ claim' = [claim EXCEPT ![w] = R!Idle] /\ s.at \in 0 .. MaxTime
  BY <1>2, <1>3, EndKeeps DEF R!IInv, R!Session
<1>5. /\ claim' \in [Requests -> R!Session] /\ claim'[w] = R!Idle
      /\ \A v \in Requests \ {w} : claim'[v] = claim[v]
  BY <1>4, IdleSession, SessionKept DEF R!IInv
<1>6. /\ s.kind = "submit" =>
           /\ response' \in R!Row /\ response' # R!NoRow /\ R!ToldUse(response'.form)
           /\ response'.id = s.id /\ response'.submitted_at = s.at
      /\ s.kind = "claim" => response' = response
  <2> SUFFICES ASSUME s.kind = "submit"
               PROVE  /\ response' \in R!Row /\ response' # R!NoRow /\ R!ToldUse(response'.form)
                      /\ response'.id = s.id /\ response'.submitted_at = s.at
    BY <1>3
  <2>1. s.id \in Responses /\ s.form \in Forms /\ R!ToldUse(s.form)
    BY <1>2, AnswersTellUse DEF R!RequestInv
  <2>2. response' = [id |-> s.id, form |-> s.form, submitted_at |-> s.at]
    BY <1>3 DEF R!Inserted
  <2> QED
    BY <1>4, <2>1, <2>2, RowsAreTold DEF R!Row
<1>7. PICK a : a = R!Result(s.at, {x}, TRUE)
  OBVIOUS
<1>8. s.kind = "claim" =>
        /\ a \in R!Answer /\ a.server_now = s.at /\ a.next_claim_at = R!Midnight(R!KoreanDay(s.at) + 1)
        /\ a.claimed = TRUE /\ a.granted = TRUE /\ a.expires_at = {x.expires_at}
  <2> SUFFICES ASSUME s.kind = "claim"
               PROVE  /\ a \in R!Answer /\ a.server_now = s.at
                      /\ a.next_claim_at = R!Midnight(R!KoreanDay(s.at) + 1)
                      /\ a.claimed = TRUE /\ a.granted = TRUE /\ a.expires_at = {x.expires_at}
    OBVIOUS
  <2>1. x.created_at = s.at /\ x.expires_at = s.at + Validity
    BY <1>1, DailyFields
  <2>2. R!KoreanDay(s.at) \in Nat /\ R!Midnight(R!KoreanDay(s.at) + 1) \in Int
    <3>1. s.at \in Nat
      BY <1>4 DEF R!RewardsAssumption
    <3> QED
      BY <3>1, DayBounds, DayOf
  <2>3. {c.created_at + Validity : c \in {x}} = {x.expires_at} /\ x.expires_at \in Int
    BY <1>4, <2>1 DEF R!RewardsAssumption
  <2>4. a = [claim_date |-> R!KoreanDay(s.at), claimed |-> TRUE, granted |-> TRUE, server_now |-> s.at,
             next_claim_at |-> R!Midnight(R!KoreanDay(s.at) + 1), expires_at |-> {x.expires_at}]
    BY <1>7, <2>3 DEF R!Result
  <2> QED
    BY <1>4, <2>2, <2>3, <2>4 DEF R!Answer
<1>9. /\ answer' \in [Requests -> R!Answer \cup {NoAnswer}]
      /\ \A v \in Requests \ {w} : answer'[v] = answer[v]
      /\ s.kind = "submit" => answer'[w] = answer[w]
      /\ s.kind = "claim" => answer'[w] = a
  <2>1. answer \in [Requests -> R!Answer \cup {NoAnswer}]
    BY DEF R!IInv, R!Types
  <2>2. CASE s.kind = "submit"
    BY <1>3, <2>1, <2>2
  <2>3. CASE s.kind = "claim"
    <3>1. answer' = [answer EXCEPT ![w] = a] /\ a \in R!Answer
      BY <1>1, <1>3, <1>7, <1>8, <2>3
    <3> QED
      BY <2>1, <2>3, <3>1
  <2> QED
    BY <1>1, <2>2, <2>3
<1>10. R!Types'
  BY <1>1, <1>3, <1>4, <1>5, <1>6, <1>9 DEF R!IInv, R!Types, LocksKept, Keys
<1>11. R!ChargesFit'
  <2>1. ASSUME NEW c \in R!Booked, c.source = "DAILY_REWARD", x.source = "DAILY_REWARD",
               c.source_id = x.source_id
        PROVE  FALSE
    BY <1>1, <2>1, DailyFields, ExperimentFields DEF R!Find
  <2> QED
    BY <1>1, <2>1 DEF R!IInv, R!ChargesFit
<1>12. R!SurveyRewardedOnce'
  <2>1. R!TypeOK'
    BY <1>10, <1>11, TypesSuffice, PTL
  <2>2. \A c \in R!Booked' : charges'[c] = 1
    BY <1>1, BagOfSet
  <2>3. CASE s.kind = "submit"
    <3>1. x.source = "EXPERIMENT" /\ x = R!ExperimentCharge(s.id, s.at) /\ response = R!NoRow
      BY <1>1, <2>3, ExperimentFields
    <3>2. {c \in R!Booked' : c.source = "EXPERIMENT"} = {x}
      BY <1>1, <3>1, NoExperimentYet
    <3> QED
      BY <1>6, <2>1, <2>2, <2>3, <3>1, <3>2 DEF R!SurveyRewardedOnce
  <2>4. CASE s.kind = "claim"
    <3>1. x.source = "DAILY_REWARD" /\ response # R!NoRow /\ response' = response
      BY <1>1, <1>6, <2>4, DailyFields
    <3>2. {c \in R!Booked' : c.source = "EXPERIMENT"} = {c \in R!Booked : c.source = "EXPERIMENT"}
      BY <1>1, <3>1
    <3> QED
      BY <2>1, <2>2, <3>1, <3>2 DEF R!IInv, R!SurveyRewardedOnce
  <2> QED
    BY <1>1, <2>3, <2>4
<1>13. ASSUME NEW v \in Requests
       PROVE  R!RequestInv(v)'
  <2>1. CASE v = w
    BY <1>5, <2>1, IdleIsFine
  <2>2. CASE v # w
    <3>1. lock["account"] # v /\ (response' = response \/ (response' # R!NoRow /\ lock["response"] # v))
      BY <1>1, <1>2, <1>6, <2>2
    <3> QED
      BY <1>4, <1>5, <2>2, <3>1, OthersKnow DEF R!IInv, LocksKept
  <2> QED
    BY <2>1, <2>2
<1>14. ASSUME NEW v \in Requests
       PROVE  R!AnswerFits(v)'
  <2>1. CASE answer'[v] = answer[v]
    BY <1>1, <2>1 DEF R!IInv, R!AnswerFits, R!Find
  <2>2. CASE v = w /\ s.kind = "claim"
    <3>1. /\ answer'[v] = a /\ a.claimed /\ a.granted /\ a.server_now = s.at
          /\ a.next_claim_at = R!Midnight(R!KoreanDay(s.at) + 1) /\ a.expires_at = {x.expires_at}
      BY <1>8, <1>9, <2>2
    <3>2. x \in R!Booked' /\ x = R!DailyCharge(s.at) /\ x.source = "DAILY_REWARD"
          /\ x.source_id = R!KoreanDay(s.at)
      BY <1>1, <2>2, DailyFields
    <3> QED
      BY <3>1, <3>2 DEF R!AnswerFits, R!Find
  <2> QED
    BY <1>1, <1>9, <2>1, <2>2
<1> QED
  BY <1>10, <1>11, <1>12, <1>13, <1>14 DEF R!IInv

-----------------------------------------------------------------------------
(* The invariant, and what follows from it.                                *)

\* The clock, the jobs and the account leave the requests alone.
LEMMA SystemStep ==
  ASSUME R!RewardsAssumption, R!IInv, now' \in 0 .. MaxTime, completed' \in BOOLEAN,
         account' \in BOOLEAN, UNCHANGED <<response, charges, lock, claim, answer, attempts>>
  PROVE  R!IInv'
<1>1. R!Types'
  BY DEF R!IInv, R!Types
<1>2. \A v \in Requests : R!RequestInv(v)'
  BY OthersKnow DEF R!IInv
<1>3. \A v \in Requests : R!AnswerFits(v)'
  BY AnswersKept DEF R!IInv, R!Booked
<1> QED
  BY <1>1, <1>2, <1>3, BooksKept DEF R!IInv

LEMMA StartIsFine ==
  ASSUME R!RewardsAssumption, R!Init
  PROVE  R!IInv
<1>1. R!EmptyBag = R!SetToBag({}) /\ R!BagToSet(R!EmptyBag) = {}
  BY DEF R!EmptyBag, R!SetToBag, R!BagToSet
<1>2. R!Types
  <2>1. 0 \in 0 .. MaxTime /\ 0 \in 0 .. MaxAttempts
    BY DEF R!RewardsAssumption
  <2> QED
    BY <2>1, IdleSession DEF R!Init, R!Types
<1>3. R!Booked = {} /\ R!ChargesFit
  BY <1>1 DEF R!Init, R!ChargesFit, R!Booked
<1>4. R!SurveyRewardedOnce
  BY <1>2, <1>3, TypesSuffice DEF R!Init, R!SurveyRewardedOnce
<1>5. \A w \in Requests : R!RequestInv(w) /\ R!AnswerFits(w)
  BY IdleSession DEF R!Init, R!RequestInv, R!AnswerFits
<1> QED
  BY <1>2, <1>3, <1>4, <1>5 DEF R!IInv

LEMMA EveryStepKeeps ==
  ASSUME R!RewardsAssumption, R!IInv, [R!Next]_(R!vars)
  PROVE  R!IInv'
<1>1. CASE R!Tick \/ R!SettleJob \/ R!OpenAccount \/ UNCHANGED R!vars
  <2>1. /\ now \in 0 .. MaxTime /\ completed \in BOOLEAN /\ account \in BOOLEAN /\ MaxTime \in Nat
    BY DEF R!IInv, R!Types, R!RewardsAssumption
  <2>2. R!Tick => now' \in 0 .. MaxTime
    BY <2>1 DEF R!Tick
  <2>3. /\ now' \in 0 .. MaxTime /\ completed' \in BOOLEAN /\ account' \in BOOLEAN
        /\ UNCHANGED <<response, charges, lock, claim, answer, attempts>>
    BY <1>1, <2>1, <2>2 DEF R!Tick, R!SettleJob, R!OpenAccount, R!vars
  <2> QED
    BY <2>3, SystemStep
<1>2. ASSUME NEW w \in Requests, R!Step(w)
      PROVE  R!IInv'
  <2>1. CASE \E f \in Forms : R!Submit(w, f)
    BY <2>1, SubmitStep
  <2>2. CASE R!AlreadySubmitted(w) \/ R!Fail(w)
    BY <2>2, EndStep DEF R!AlreadySubmitted, R!Fail, R!Rollback
  <2>3. CASE R!FindNoResponse(w) \/ R!CheckCompletion(w) \/ R!AddIfAbsent(w)
    BY <2>3, FindNoResponseStep, CheckCompletionStep, AddIfAbsentStep
  <2>4. CASE R!GrantReward(w) \/ R!Claim(w) \/ R!ClaimedBefore(w)
    BY <2>4, GrantRewardStep, ClaimStep, ClaimedBeforeStep
  <2>5. CASE R!GrantDaily(w) \/ R!GetStatus(w) \/ R!Commit(w)
    BY <2>5, GrantDailyStep, GetStatusStep, CommitStep
  <2> QED
    BY <1>2, <2>1, <2>2, <2>3, <2>4, <2>5 DEF R!Step
<1> QED
  BY <1>1, <1>2 DEF R!Next

\* The invariant holds in every reachable state: who holds a key still finds
\* what it found under it, and what clients were told rests on what is booked.
THEOREM RewardsInvariant ==
  ASSUME R!RewardsAssumption
  PROVE  R!Spec => []R!IInv
<1>1. R!Init => R!IInv
  BY StartIsFine
<1>2. R!IInv /\ [R!Next]_(R!vars) => R!IInv'
  BY EveryStepKeeps
<1> QED
  BY <1>1, <1>2, PTL DEF R!Spec

\* However often and concurrently a user submits the survey, and wherever the
\* requests fail, the reward is booked exactly with the response, once, and no
\* daily reward comes before it (SubmitExperimentSurveyService).
THEOREM SurveyTheorem ==
  ASSUME R!RewardsAssumption
  PROVE  R!Spec => []SurveyRewardedOnce
<1>1. R!IInv => SurveyRewardedOnce
  BY DEF R!IInv, SurveyRewardedOnce
<1> QED
  BY <1>1, RewardsInvariant, PTL

\* Between two midnights of Korea one daily reward is granted at most, and what
\* every client was told of its claim and of the next stays so (DailyRewardService).
THEOREM DailyTheorem ==
  ASSUME R!RewardsAssumption
  PROVE  R!Spec => []DailyRewardKept
<1>1. ASSUME R!IInv, NEW c \in R!Booked, NEW d \in R!Booked, c.source = "DAILY_REWARD",
             d.source = "DAILY_REWARD", c # d
      PROVE  \E midnight \in {n * Day - KoreaOffset : n \in 0 .. MaxTime + 1} :
               \/ c.created_at < midnight /\ midnight <= d.created_at
               \/ d.created_at < midnight /\ midnight <= c.created_at
  <2> DEFINE s == c.created_at
             t == d.created_at
  <2>1. /\ s \in 0 .. MaxTime /\ t \in 0 .. MaxTime
        /\ c.source_id = R!KoreanDay(s) /\ d.source_id = R!KoreanDay(t)
    BY <1>1, DailyCharges DEF R!IInv, R!ChargesFit
  <2>2. R!KoreanDay(s) # R!KoreanDay(t) /\ s \in Nat /\ t \in Nat
    BY <1>1, <2>1 DEF R!IInv, R!ChargesFit, R!RewardsAssumption
  <2>3. R!KoreanDay(s) \in Nat /\ R!KoreanDay(t) \in Nat
    BY <2>2, DayBounds
  <2>4. CASE R!KoreanDay(s) < R!KoreanDay(t)
    BY <2>1, <2>4, MidnightBetween
  <2>5. CASE R!KoreanDay(t) < R!KoreanDay(s)
    BY <2>1, <2>5, MidnightBetween
  <2> HIDE DEF s, t
  <2> QED
    BY <2>2, <2>3, <2>4, <2>5
<1>2. ASSUME R!IInv, NEW w \in Requests, answer[w] # NoAnswer
      PROVE  LET a == answer[w]
                 today == {c \in R!Booked : c.source = "DAILY_REWARD"
                             /\ c.created_at \in a.next_claim_at - Day .. a.next_claim_at - 1}
             IN  /\ a.server_now < a.next_claim_at /\ a.next_claim_at <= a.server_now + Day
                 /\ a.claimed => a.expires_at = {c.expires_at : c \in today} /\ today # {}
                 /\ a.granted => a.claimed /\ \E c \in today : c.created_at = a.server_now
  <2> DEFINE a == answer[w]
             t == a.server_now
             today == {c \in R!Booked : c.source = "DAILY_REWARD"
                         /\ c.created_at \in a.next_claim_at - Day .. a.next_claim_at - 1}
  <2>1. /\ t \in Nat /\ a.next_claim_at = R!Midnight(R!KoreanDay(t) + 1)
        /\ a.claimed => \E c \in R!Find("DAILY_REWARD", R!KoreanDay(t)) : a.expires_at = {c.expires_at}
        /\ a.granted => a.claimed /\ R!DailyCharge(t) \in R!Booked
    BY <1>2 DEF R!IInv, R!Types, R!Answer, R!AnswerFits, R!RewardsAssumption
  <2>2. t < a.next_claim_at /\ a.next_claim_at <= t + Day
    BY <2>1, DayOf
  <2>3. today = R!Find("DAILY_REWARD", R!KoreanDay(t))
    <3>1. ASSUME NEW c \in R!Booked, c.source = "DAILY_REWARD"
          PROVE  c.created_at \in a.next_claim_at - Day .. a.next_claim_at - 1
                   <=> c.source_id = R!KoreanDay(t)
      <4>1. c.created_at \in Nat /\ c.source_id = R!KoreanDay(c.created_at)
        BY <1>2, <3>1, DailyCharges DEF R!IInv, R!ChargesFit, R!RewardsAssumption
      <4> QED
        BY <2>1, <4>1, DayOf
    <3> QED
      BY <3>1 DEF R!Find
  <2>4. \A c, d \in today : c = d
    BY <1>2, <2>3 DEF R!IInv, R!ChargesFit, R!Find
  <2>5. a.claimed => a.expires_at = {c.expires_at : c \in today} /\ today # {}
    <3> SUFFICES ASSUME a.claimed
                 PROVE  a.expires_at = {c.expires_at : c \in today} /\ today # {}
      OBVIOUS
    <3>1. PICK c \in today : a.expires_at = {c.expires_at}
      BY <2>1, <2>3
    <3>2. today = {c}
      BY <2>4, <3>1
    <3>3. {d.expires_at : d \in today} = {c.expires_at}
      BY <3>2
    <3> QED
      BY <3>1, <3>2, <3>3
  <2>6. a.granted => a.claimed /\ \E c \in today : c.created_at = t
    <3>1. R!DailyCharge(t) \in R!Booked => R!DailyCharge(t) \in today
      BY <2>3, DailyFields DEF R!Find
    <3> QED
      BY <2>1, <3>1, DailyFields
  <2> QED
    BY <2>2, <2>5, <2>6
<1>3. R!IInv => DailyRewardKept
  BY <1>1, <1>2 DEF DailyRewardKept, R!DailyRewardKept
<1> QED
  BY <1>3, RewardsInvariant, PTL
==============================================================================
