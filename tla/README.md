# Verification of the gifgloo backend

TLA+ models of the gifgloo backend (FastAPI services, PostgreSQL, AWS Lambda),
the TLC runs that check them on small instances, and TLAPS proofs for every
value of the constants.  Paths below are relative to the repository, `src/`
here.

The program sells and spends *uses* of one product: the composition of an
object into a GIF.  A user owns an account of credit lots that expire; a
composition request reserves the one AI pipeline the system runs at a time,
pays with a use, and starts a Lambda that calls back as it works; whatever ends
the composition settles it once, with a result or with the use returned.  Money
enters through payment providers, surveys, daily rewards and administrators.

## 1. Inventory

| Component | State | Operations | Hard because of |
|---|---|---|---|
| Credit account (`credit_account/`) | `credit_accounts.balance`, `credit_lots`, `credit_transactions` | create, charge, deduct, refund; each first expires lots | time: refunds after expiry; sums against single lots; lots loaded partially; repeated refunds; concurrent transactions that read before they lock |
| Credit history (`credit_account/`, `shared/pagination_cursor.py`) | the cursor a client holds | pages of transactions and passes | rows committed out of the order of their times |
| Composition gate (`composition/domain/aggregates/composition_gate.py`) | the one row of `composition_gate`: job, run, lease, last edit | reserve, claim, ensure_run, record_edit, release | every actor writes it; leases; the pause between edits of different jobs is rebuilt from messages |
| Composition jobs (`composition/application/services/`) | `composition_jobs.status`, stage, draft and result | request, trigger and its compensation, start, checkpoint, edit-started, complete, fail, reconcile | two transactions around a remote call; unlocked first check; callbacks late, lost or repeated; crashes |
| AI pipeline (`lambda/ai_processor/handler.py`) | one invocation: how far it is, when it last sent an edit; targets, frames, drafts and results in buckets | the callbacks above, image edits | killed at its timeout; answers lost; invoked twice; threads; a staged upload that is deleted on the way |
| GIF processor (`lambda/gif_processor/`) | none | check, extract, build | rounding: frames and durations |
| Completion notifications | `composition_notifications`: status, attempts, next attempt, expiry | register, cancel, claim, send, settle, clean | several dispatchers, claims that time out, pushes that answer late |
| Status streams, feedback, uploads | `composition_feedbacks`; the bucket of uploads | watch a job, show and submit feedback, stage a file | status, settlement and answer read and written in separate transactions |
| Payments (`payment/`) | `payments`, `payment_inbox` | create order, confirm, callback, webhook, process verified payment | duplicated and concurrent provider events; failures half-way; administrators |
| Experiment and daily rewards (`experiment/`, `credit_account/`) | survey responses, rewarded days | submit survey, claim day | concurrent submissions; uniqueness by database constraint; midnight in Korea |
| Users and sessions (`user/`, `shared/session_token.py`) | user rows, session versions, signed tokens | anonymous sessions, logins, consent, deactivate | sign-up in two transactions; unlocked read-modify-write; revoked tokens |
| Assets and sharing (`asset/`, `tools/`) | asset rows, share tokens, two buckets | save, delete, share, download; the move of private files | unlocked read-modify-write; a move that is tried while the service writes |
| Administration (`admin/`) | audit rows, idempotency keys | grant credit, recheck a payment | acts on other components' rows without their locks |
| Audit log, wiring, monitoring, analytics | append-only or none | - | nothing to check; left out |

How they interact:

* the composition service calls the credit service *in its own database
  session*: a job's row, the gate and the account are written by one
  transaction.  The order of locks is gate, job, account;
* the server calls the Lambda once, asynchronously, after its transaction has
  committed; the Lambda calls the server over HTTP, synchronously, with a
  timeout of 30 s, and the GIF processor synchronously;
* each server process runs a dispatcher of web pushes, every five seconds; it
  reads the jobs' status, and nothing else depends on it;
* no other code runs in the background: an expired lease is noticed by the status
  streams of browsers that watch a composition
  (`composition_router.py:221`, every two seconds) and by the next request;
* payments, surveys, daily rewards and administrators reach the account only
  through `charge()`, with a `(source_type, source_id)` that is unique; each
  does so in the transaction of its own rows;
* a confirmation of a payment locks event, payment and account in this order, a
  grant by an administrator the account and then the payment.

What makes each component correct, and what could go wrong and a test would
hardly reach, is the list `hazards` of `PROJECT.json`.

## 2. Modules

| Module | Models |
|---|---|
| `CreditAccount` | one account: the aggregate, its repository's partial load, and the services that call it |
| `CreditTransactions` | the same account under concurrent database transactions |
| `CreditHistory` | pages of the history while rows are committed |
| `CompositionGate` | the gate aggregate and its queries, as operators |
| `CompositionLifecycle` | the abstract specification: what the composition service promises |
| `Composition` | requests, the gate, the jobs and their payment, Lambda invocations, callbacks, reconciliation |
| `PipelineRun` | what a run reads, writes, checkpoints and deletes; staged uploads; assets of the result |
| `GifTiming`, `GifProcessor` | frames and durations of GIFs as operators; the three actions of the GIF processor |
| `CompletionNotifications` | the table of web pushes, its registrations and dispatchers; its jobs are those of `CompositionLifecycle` |
| `CompositionViews` | status streams with their settlement, feedback; its jobs are those of `CompositionLifecycle` |
| `PaidOrder` | the abstract specification: what becomes of an order |
| `PaymentProcessing` | orders, confirmations, the inbox, grants by hand |
| `Rewards` | the survey and the daily rewards of one user |
| `UserSessions` | users, sign-ups, logins, session tokens |
| `AssetFiles` | assets, share links, and the move of private files |
| `CreditProofs`, `CompositionProofs`, `RecordProofs`, `NotificationProofs`, `PaymentProofs`, `UserSessionProofs`, `RewardsProofs`, `PipelineProofs` | theorems |
| `MCCredit`, `MCComposition`, `MCNotifications`, `MCPayment`, `MCPeople`, `MCUsers`, `MCRecords`, `MCAssetFiles`, `MCFiles` | instances for TLC |

`MCPeople`, `MCRecords` and `MCFiles` each hold several modules that share no
state.  A behaviour of theirs is one of one of the modules, chosen at its start
(`component`): an interleaving of modules that share nothing reaches nothing
more.  `MCCredit` holds the two forms of the account in the same way
(`stepwise`).

Common to all: a transaction that is one statement, or that takes its locks
before it reads what it decides on, is one step; one that reads first, or asks
another system in between, is several.  An error, a lost connection and the
death of the server are one action, the rollback.

### CreditAccount

One user's account, its lots and its ledger.  A lot is named by what granted it
(`source_type`, `source_id`: a unique pair), so "the transaction of this job
exists" is a function `deducted` (`refunded`) from jobs to lots rather than a
table.  An action is a whole service call, which the code runs under the lock of
the account row (`find_for_update`): `CreateAccount`, `Charge`, `Deduct`,
`Refund`; `Tick` moves the clock.  `ExpireLots` is part of each operation, as
`_expire_lots` is in the code.  `Loaded` is what the repository loads for the
aggregate: lots with credit left and the one a refund names; that the cut
books still balance is one of the things checked.  The grant services differ
only in the amount and in the time they count the validity from: `Charge` takes
any amount of `Amounts` and any past time.  Abstracted: texts, ids, the lot
columns nothing reads.  Credit is in units of which a composition costs
`COMPOSITION_COST`.

### CreditTransactions

The operators of `CreditAccount` in the steps of a database transaction.

| Code | Model |
|---|---|
| a request's session and its calls of the credit services | `session[s]`; `Plans`: one call, or a refund and a deduction, as a request makes that replaces a stale job |
| `find_transaction_by_source` of a refund, before the lock | `FindDeduction` |
| `find_for_update` | `Lock`: reads what is committed and what the session wrote itself |
| the aggregate's method, `save` and its flush | `CallCharge`, `CallDeduct`, `CallRefund`; `AlreadyDone` is a call that finds its transaction |
| commit, rollback | `Commit` writes what the session changed (`Save`), as absolute values; `Rollback` |

It starts from the accounts the migration left: none, or its balance in one
lot.  Balances are whole uses, which is what every grant gives; deductions from
before there were lots have no lot and are not modelled.  One account is
enough, as no code locks two.  It does not refine `CreditAccount` step by step:
a transaction reads the clock under its lock and commits later, so that
a lot may expire between the two.  `ExpiredLotsAreDead` and `RefundIsUsable`,
which are about the clock, are therefore claimed of whole calls only, and what
must hold of every commit is `LedgerHolds`.

### CreditHistory

Rows get their time when they are made and may be committed much later; a grant
has the time of what it is granted for, so `Record` takes any time up to now.
A page and its cursor (`ReadPage`) are one read.  Ids are random and stand for
the tie-break.

### CompositionGate and Composition

| Code | Model |
|---|---|
| the row of `composition_gate` | record `gate`; NULL times are `Never`, NULL ids `NoJob`, `NoRun` |
| its row lock, held over uploads by a request | `locker` (`entered`: the time the request read under it) |
| `composition_jobs.status` | `status[j]`; `ABSENT` before the row exists |
| the job's DEDUCT and REFUND transactions | `payment[j]` |
| `RequestCompositionService.execute` | `Check`, `EnterGate`, `Accept`, then `Triggered`, or `TriggerFails` and `Compensate`; `Abandon` is a refusal, an error or a crash between any two of them |
| the asynchronous invoke | `Invoke`, once per element of `Attempts`: the AWS client repeats a call whose answer it lost |
| one invocation, `handler()` and `run_pipeline()` | `lambda[r]`, with `born[r]` and `edited[r]`; one action per callback it sends and per edit; `Dies`, `TimesOut`, and its end at `AI_TIMEOUT` in `Tick` |
| a callback on its way | an element of `calls`; `Handle` may take it late or never |
| `PipelineCallbackService` | `HandleStart`, `HandleEdit`, `HandleComplete`, `HandleFail`, `Conflict` (409), `Rejected` (403, 500); `Answer` loses the answer or not |
| `reconcile_expired` | `PollReads`, which reads the time, and `PollSettles`, under the lock, with that old time |

Every handler locks the gate row first and commits last, so a handler that waits
for nothing else in between is one step; the request uploads to object storage
under the lock and takes two.  The feasibility check is a Lambda call before the
lock: between `Check` and `EnterGate` anything may happen.

Not in these modules: the checkpoint callback (it moves what `PipelineRun`
models; it makes a run that lost the gate fail, which `SendFail` allows at any
point); the second delivery of one event to the Lambda with the same request id
(AWS delivers at least once; it would be a second actor with the same name, and
`claim` refuses it, because the run id is already set).  A job is of one user
and its payment is two bits here, what they stand for is `CreditAccount`.

### CompositionLifecycle

Two functions, `status` and `payment`, and what may happen to them: one
composition at a time, each paid once, settled by a result that keeps the use or
a failure that returns it.  `Replace` (a request takes the gate of a silent
job) and `Retract` (a compensation fails a completed job) are named, so that a
reader sees that these are the only exceptions.

### PipelineRun

| Code | Model |
|---|---|
| a job's `current_stage`, durations and plan | `jobs[j].stage`, `.durations`, `.spec` |
| `_normalize_target` | `FetchTarget`, `StoreTarget` or `StoreFails`, and `Discard`, which deletes the staged upload whatever happened |
| the steps of `run_pipeline`, a checkpoint before each | `Extract`, `Analyze`, `Draft`, `CompositeFrame` per thread and `CompositeDone`, `Build` |
| the callbacks `checkpoint` and `complete` | `HandleCheckpoint`, `HandleComplete`, which saves the assets of the result |
| files by their keys | `staged`, `private`, `public`; a file is what it was made of (`FrameImage`, `DraftImage`), so that a mixed result is visible |
| the browser's upload to its signed URL | `Stage`, as often as it likes |

The gate is here without its clock: `LeaseRunsOut` may end any lease whose run
is not alive, which is what `StartedRunsHoldTheGate` of `Composition` shows.
Edits and their callbacks belong to `Composition`.  What a model answers is
arbitrary where the code accepts it, and an error otherwise (`Raise`); prompts,
masks, sizes and wording are left out.  The handler accepts an event that tells
it to resume from a stage, but no code sends one; `RunFindsItsFiles` says that
what such a run would read is there.  The lifecycle rule of the bucket of
uploads is configured outside the repository and not modelled.  The asset of a
staged upload is recorded when the job is accepted, and its file only follows
when the run stores it: it may never exist if the run does not get there.

### GifTiming and GifProcessor

Durations and delays are computed as the Lambda does, with Python's `round`:
`Indices` picks frames, `Durations` divides the time of a GIF that loses
frames, `GifDelays` rounds to the hundredths of a second GIFs count in, at most
655350 ms.  `OldDurations` are those of jobs recorded before the Lambda counted
in hundredths, which a comment of `build_gif` names.  Pixels are left out.

### CompletionNotifications

| Code | Model |
|---|---|
| a row of `composition_notifications`, unique by job and endpoint hash | `row[<<job, browser>>]`, or `NoRow`; `has_endpoint`: endpoint and keys are not erased |
| `CompletionNotificationService.register` | `RegisterReads`, which takes the lock of the job's row and reads the row of the table without one, and `RegisterWrites`; `RegisterFails` is an error, a crash, and the update of a row that is gone |
| `cancel` | `Cancel` |
| the dispatcher of a server process | `at[d]`; `Clean`, then `ClaimReady`, `Push`, `Settle` until nothing is ready (`EndRound`); `Stop` is an exception, a round of 20, or a restart |
| the copy of the row it has claimed | `task[d]`, and `outcome[d]` once the push has answered |
| the push service | `Push`: it may accept a push and its answer be lost |
| the jobs' status | `JobStep`, a step of `CompositionLifecycle` that changes no job a registration has locked |

A transaction that is one statement on the table and its commit is one step;
`SKIP LOCKED` then has nothing to skip (in the code a row that is locked waits
for the next round).  `pushes` and `accepted` record what has left and what the
push service took; they are in the model for the properties only.  The order by
`created_at` is the order of `expires_at`, as all rows live equally long.

### CompositionViews

A status stream (`Connect`, `ReadStatus`, `ReportResult`) reads the job in one
session and its settlement in another; a request for feedback (`CheckJob`, then
`ShowAnswer`, or `CreateOnce` and `CommitAnswer`, or `AlreadyAnswered`) reads
the job in one session and works on the feedback in another.  An insert that
conflicts with one in flight waits for it (`writer`).  `JobStep` is any step of
`CompositionLifecycle`; the reconciliation a stream runs each turn is among
them.  `events` and `told` record what clients were told, for the properties.

### PaidOrder and PaymentProcessing

| Code | Model |
|---|---|
| a row of `payments` | `payments[o]`: status, environment, the provider's transaction, `credit_granted_at` set or not |
| `payment_inbox`, unique by provider and event | `inbox[event]`.  RECEIVED is only ever seen inside its transaction: a committed row is PROCESSED |
| CHARGE transactions of source PAYMENT, ADMIN | `charges[o]`, `bonuses[k]` |
| audit rows, unique by idempotency key | `audits[k]` |
| row locks, and the insert that waits for a conflicting one | `lock` |
| `ConfirmPortOnePaymentService` (browser and webhook), `HandleTossPayCallbackService`, `AdminOpsService.recheck_payment` | `Confirm`, `Callback`, `Recheck`; `Ask` is the call of the provider |
| `ProcessVerifiedPaymentService` | `AcquireInbox` or `AlreadyProcessed`, `ApprovePayment`, `GrantCredit`, `CommitPayment` |
| `AdminOpsService.grant_credit` | `AdminGrantsPayment` or `AdminGrantsBonus` (the reads), `AdminCharges`, `AdminUpdatesPayment`, `AdminCommits` |
| a deadlock PostgreSQL ends | `DeadlockVictim` |
| the provider | `Pay` (again, with another transaction, for another amount), `CancelAtProvider` |
| the environment a deployment accepts | `expected`; `Redeploy` |

New orders are paid with KG INICIS through PortOne; rows of earlier versions
may be Toss Pay's, whose callback is still served.  Some of these start as
approved without their credit (`DueOrders`): the administrators' overview counts
them (`get_overview`), and the grant by hand exists for them.  The column
`provider_payment_id` follows the transaction and is not modelled; nor are the
statuses no code assigns any more, amounts (`exact` says whether the amount
and currency the provider names are the order's) and the checks of users
and products, which refuse a request before it touches a table.

`PaidOrder` is the promise for each order: it is settled once, and a live
payment's credit is given in the step that settles it, once.

### Rewards

The requests of one user, each a transaction: `Submit`, `FindNoResponse`,
`CheckCompletion`, `AddIfAbsent` (the insert that does nothing on conflict),
`GrantReward`, `Commit`; `Claim`, `GrantDaily` or `ClaimedBefore`; `GetStatus`.
The answers of a form and what makes them valid are modelled, texts only by
their kind.  The clock counts in ticks of which `Day` make a day, and Korea is
`KoreaOffset` ahead.  `charges` is a bag, so that a double grant is visible.

### UserSessions

| Code | Model |
|---|---|
| a row of `users` | `users[u]`: social account, session version, status, consent |
| advisory locks of sign-ups | `locks` |
| `prepare_anonymous_session`, `CreateAnonymousSessionService` | `SeedSession`, `Prepare`, `CreateAnonymous`, `RenewSession` |
| `SocialLoginService` | `SocialCallback`, then `LoginKnown`, `LoginNew`, or `LoginAnonymous` and `ConnectAnonymous`; `CommitLogin` |
| `ReviewLoginService` | `ReviewLogin`, `CreateReviewer`, `FundReviewer`: user and account are committed one after the other |
| `RecordSignupConsentService`, `DeactivateUserService` | `RecordConsent` or `Deactivate`, `ReadUser`, `WriteUser` |
| a signed session token | `tokens`; `Accepts` is the middleware |

The session of the database holds its objects weakly, so `save` reads the row
again and writes whatever differs from the user in memory: the whole row, as
old as it was read.  `undone` records the users whose connection such a save has
taken back; it is in the model for the properties only, and lets
`ConnectionsHold` say that nothing *else* takes one back.  The reviewer's login is
excepted from `UsersAreFunded`, as its user is committed before its account.
Tokens of earlier versions, which name neither kind nor version, are accepted
for members as long as they are signed, as a test of the repository expects.
Roles and e-mail addresses, which no wired service changes, are left out.

### AssetFiles

Assets are read without a lock and written back whole (`Read`, then `Share` or
`Delete`).  Two shares of one asset may each create a link, of which one is
lost; the code makes no promise about it and none is claimed.  The move of photographs
and drafts from the public bucket to the private one is the operators'
procedure of `ops/r2-composition-upload-setup.md` (`Pause`, `Deploy`, `Retire`,
`Reopen`) around `tools/migrate_private_composition_files.py` (`inventory`,
`Run`, `CopyItem`, `VerifyItem`, `Report`, `Stop`), which may be tried while the
service still writes.  `Resume`, giving up a pause, is not in the procedure: it
is there because operators may.

## 3. Runs

| Run | Question | Instance |
|---|---|---|
| `credit` | do the books balance after any order of operations and any interleaving of transactions, and can every failed composition be refunded, usefully | 3 jobs, 2 grants, costs 2, passes of 3 and compensations of 1 tick, 5 ticks; 2 sessions, with one job and one grant less, 3 ticks and charges of one use |
| `composition` | gate, jobs, payment, pause and refinement under competition, repeated triggers, lost and late messages, crashes | 2 jobs with one invocation each, or one with 2; requests in the first 2 of 4 instants |
| `composition_liveness` | is every accepted job settled | 2 jobs, one invocation each, no symmetry, from the first one's entry into the gate; one callback of each on its way at a time; 4 instants |
| `composition_lost_answer` | is the use of a composition with a result never returned: it is, a finding | 1 job |
| `notifications` | can a push be repeated, a late answer be taken for another claim or another registration, an endpoint survive, a registration never end | 1 browser, 2 dispatchers, 3 attempts, 2 registrations, 6 ticks |
| `payment` | are payment, event, credit and key settled together and once | 1 order of each provider, the second one due, 2 transactions, 1 key, 2 requests; one order at a time paid at its provider |
| `payment_liveness` | does every request end, although two of them lock in opposite orders | 1 due order, 1 transaction, 1 key, 2 requests |
| `people` | sign-ups and sessions; rewards | 2 new users, 1 old one, 2 requests, 2 logins begun or users deactivated; 10 forms, days of 3 ticks, 5 ticks, 3 requests in all, 2 at a time |
| `users_revoked` | is a revoked session rejected for good: no, a finding | 2 new users, 1 old one, 2 requests |
| `records` | is what users are shown so, while it changes | 2 jobs, 2 streams, 2 forms, 2 of them at a time; 2 photographs, 1 result, 2 writes of each, 1 request; 4 rows, pages of 2, 2 writers |
| `assets_deleted` | can a deleted asset be shared: yes, a finding | 1 photograph, 1 result, 2 requests |
| `files` | is a completed result whole, are recorded stages backed by files, does a result play as long as its source | 2 jobs, 1 upload, 1 picture, 2 callbacks at a time, 5 stages in all, GIFs of 3 frames cut to 2; GIFs of up to 23 frames cut to up to 20 |

Bounds.  They are chosen so that every hazard in question can happen and every
run ends in minutes; the theorems of section 4 have none of them.

* `MaxTime` bounds the clock, `LastRequest` the time of the last request, so that
  everything a request starts can run out before the clock stops.  A request in
  the second instant finds the first one's reservation expired.
* The leases are scaled: 4 min, 11 min, 15 s and the Lambda's 10 min
  (`composition_gate.py:8`, `lambda/deploy.sh:39`) become 1, 2, 1 and 1 ticks.
  What the scale keeps is the inequality the design rests on,
  `RUNNING_LEASE >= AI_TIMEOUT + COOLDOWN` (660 >= 600 + 15 s), with equality, the
  worst case; it is an assumption of the module.
* Two jobs are one holder and one competitor; a third would be another
  competitor.  `CompeteOrRetry` lets either both jobs compete or one be invoked
  twice.  `composition_liveness` starts where the first job enters the gate: all
  that can happen before is that requests look at a free gate and give up.  Its
  `OneCallEach` leaves calls that outlive several others to `composition`.
* In the account, every lot can expire before and after the refund of the job it
  paid for, and a compensation lot can pay for a third job; `FewTransactions`
  cuts the concurrent form to two jobs, one grant and charges of one use, enough
  for a session that refunds and deducts against one that charges.
* A notification's claim of 2 min and retry of 30 s become 2 and 1 ticks, its 24 h
  become 6: long enough for all three attempts and for the last claim to run out
  before the row does.  `MaxId` bounds the registrations: two are one and its
  renewal, at any point of the first one's attempts in the first instant
  (`LastRegistration`).
* Two requests for a payment are one and the one it races with; two transactions
  are an order paid again.  Orders share the account only, so `OneSale` lets one
  at a time be paid at its provider, while requests for the other may still run.
* `FewChanges` lets two anonymous users log in, or one while another user is
  deactivated.  `MaxAttempts` lets a submission and two claims run in any order,
  across two midnights.
* Streams and forms share only the jobs, which is why `FewClients` has two of them
  at a time.
* `FewCalls` keeps two callbacks on their way at a time, one of which nobody waits
  for any more.  `FewStages` lets one job go through all stages before the other
  records its first, or both go half of the way.

The runs do not check deadlock: a clock that has reached its bound stops, and so
does a move of files that is done.  That requests which wait for each other end
is a liveness property (`RequestsEnd`).

Symmetry is used for safety properties only.

Fairness (`Composition!Fairness`): the clock ticks; a request that holds the
gate ends, by commit or rollback (a dead connection releases its locks);
streams poll, which the code does every two seconds for as long as a browser
watches.  Nothing is assumed of the Lambda, of callbacks, of the trigger or of
compensations.  Without a watching browser and without another request the
code settles nothing: then the liveness property does not hold, and is not
claimed.

`CompletionNotifications!Fairness`: the clock ticks, and some dispatcher keeps
taking steps of its loop.  It may stop at any point, but it starts again, as the
loop of `config/web_push.py` does after any exception.

`PaymentProcessing!Fairness`: a session that can go on again and again does
(strong fairness: PostgreSQL queues those that wait for a row, so none is passed
over for ever), and a deadlock is found.  Nothing makes a request begin or fail.

### Findings

`composition_lost_answer`: `trigger()` raises although the Lambda was invoked
(its answer was lost).  The pipeline runs and completes the job; the
compensation then fails and refunds it, as it never looks at the status
(`request_composition_service.py:192`).  The user has the result and the use.
A second consequence is visible in `EditsAreSpaced`, which has to exempt
compensated jobs: their orphan run may edit while another job has the gate.

`users_revoked`: a consent reads the user, a social account is connected, the
consent saves the whole user it read (`record_signup_consent_service.py:24`):
the member is anonymous again, and the sessions the connection revoked are
accepted.

`assets_deleted`: a share reads the asset, it is deleted, the share writes back
the status it read with its new token (`create_share_link_service.py:31`): the
deleted asset is active and shared.

## 4. Proofs

Every invariant and action property that a run checks, and both refinements, are
theorems.  A theorem is about the component's own specification, for every value
of its constants; where a run puts components side by side (`MCPeople`,
`MCRecords`, `MCFiles`), its proof module extends the module of the run, so that
what is proved is the definition that is checked.

`CreditProofs`, for any finite sets of jobs and grants, any cost and
validities (`CreditAssumption`): the inductive invariant `IInv`, and from
it the type invariant, `BalanceIsSumOfLots`, `LotAccounting` and
`RefundAlwaysHonoured`.  Balance and accounting alone are not inductive: that a
refund fits rests on what a lot has spent (`Accounted`), on where a job's
deduction and refund point (`Provenance`), and on a lot expiring once, with
nothing left (`ExpiredOnce`).  Sums are cardinalities of sets of units, so that
the library's theorems on finite sets do the arithmetic.  `EnoughMeansPayable`
compares a sum over lots with a single one: every usable lot that is not used up
holds whole uses, so that a sum of one use needs a lot that has it.
`DeadLotsTheorem` and `UsableTheorem` are action properties, by one lemma per
call (`DeadStep`, `RefundPays`); the run states them as `ExpiredLotsAreDead` and
`RefundIsUsable`.

For the transactions of any sessions: `LedgerHolds`.  The invariant
`TInv` says that whoever holds the lock works on a copy of the rows that are
committed, that the copy satisfies the account's own invariant, and that no
deduction leaves it; who does not hold the lock has written nothing.  Each call
then keeps the copy's invariant by the lemmas about the account, and a
commit of the holder replaces the rows by its copy, although `Save` writes them
one by one.  `LedgerGrowsTheorem` adds what no sum shows: no commit undoes
another's.  A deduction, a refund, an expiration and a lot that are committed keep
the lot they name, the amount and the time; so a job is paid once and returned
once, as `Composition` has it in `payment`.  It follows from `HoldersExtend`: the
copy extends the committed rows after every call (`CallExtends`).

`CompositionProofs`, for any jobs and invocations, any leases that satisfy
`CompositionAssumption`, any bound of the clock: the inductive invariant
`IInv`, one lemma per action, and from it every safety property the runs
check, and the refinement `Spec => Lifecycle!Spec`.  The argument for the pause:

1. an invocation lives `AI_TIMEOUT` at most (`LivesAreBounded`), and the lease it
   claimed is at least `RUNNING_LEASE` longer than its birth, so as long as it
   lives it has the gate, unless its request compensated
   (`StartedRunsHoldTheGate`);
2. when it gives the gate back itself, its last call tells the gate of its last
   edit, and no edit follows (`LastCallsAreLast`); when its lease runs out, its
   last edit is older than the pause.  So every recent edit is known to the gate
   or was sent by its holder (`EditsAreKnown`);
3. a gate that can be reserved is therefore quiet for every run, and stays so
   for all runs but those of the holder (`OthersAreQuiet`).

`OneRunClaims` is the same for two invocations of one job.

`LivingRunTheorem` puts the first step the other way round: the lease of a run
that has claimed the gate cannot run out, with the pause to spare, while that run
is alive, even one whose last call is on its way or was lost.  It needs that who
claims has been invoked (`ClaimsAreBorn`), late start calls included.
`ExpiredRunsAreDead`, a part of it, is what `LeaseRunsOut` of `PipelineRun` has
for a guard.

`RecordProofs`, three components:

* `ViewsAreHonest`, for any jobs, streams and forms.  A job's payment follows its
  status (`PaymentFollowsStatus`), a status that was read as terminal can since
  only have become FAILED (`ReadsWereTrue`), and one form at a time inserts for a
  job, where there is no answer (`OneWriter`).
* `AssetsAreThere`, for any assets, tokens and requests (`AssetAssumption`).  What
  was last written is in the bucket the running version reads (`FilesAreWritten`).
  That this survives the deployment is `ReviewHolds`: an inventory of this pause
  is complete, what a verify run has passed is still equal, as nothing writes in
  a pause, and a review of such a run has passed every key.  Links are
  `LinksLead`: a token leads to one asset for good, in rows and in the copies of
  them that handlers will write back.
* `HistoryIsWhole`, for any page size and any writers (`HistoryAssumption`).  The
  place of a row in the order of time and id is the number of newer rows, which
  is what a page is cut by; and a cursor splits the rows the reader started with
  into those it has shown and those older than the last one shown
  (`ReaderGoesOn`), rows committed late with an old time included.

`NotificationProofs`, for any jobs, browsers and dispatchers, any lease, delay,
lifetime and number of attempts: the invariant `IInv`, and from it every safety
property of the run.  `OverlapsAreLate` and `EachAttemptOnce` are not inductive
alone: they rest on `AttemptsAreCounted`, which says that at most the claim a
row's columns describe can still be running, and all others have run out, and
on `IdsAreUnique`, which keeps the answers to an old registration from its
renewal.  Steps that neither make an id nor claim nor push share one lemma
(`KeptStep`).

`PaymentProofs`, for any orders, transactions, keys and requests
(`PaymentAssumption`): every safety property of the run, and the refinement of
`PaidOrder`.  The invariant says what each session knows:

1. a confirmation has its payment locked from the moment it has changed it in
   memory, so the row it writes is an approval of the row that is there
   (`ConfirmInv`);
2. a grant by hand has read its row without a lock, but the row is out of date
   only if the payment was credited meanwhile, and then its charge is in the
   account; the lock of the account and the check under it exclude this, and
   keep confirmations that grant away until the commit (`GrantInv`);
3. `OthersKeep` is what a step leaves to the other sessions: rows and locks they
   rely on.  Each action's lemma shows it, and one lemma turns it into the
   invariant of all other sessions.

A commit changes one order (`OneOrderChanges`), from which the refinement
follows: it is a step of `PaidOrder` for that order, or a stutter.

`WaitTheorem` is about the locks themselves.  A session holds only locks of the
steps it has passed (`LocksAreOwn`), so whoever it waits for is further on the
way from the event over the payment to the account.  The exception is a grant by
hand, which has the account first: it and a confirmation of the same order may
wait for each other (`Collide`).  There is no other circle of any length, which is
why `DeadlockVictim` looks at two sessions only.

`UserSessionProofs`, for any users, social accounts and requests
(`UserAssumption`): `UsersAreFunded`, `SessionsTellTheKind` and
`ConnectionsHold`.  The invariant separates the ids that were ever in a bootstrap
cookie (`seeds`): only they can be anonymous, and their version tells whether
they have been connected (`FitsUser`, `FitsToken`).  What a request that has read
a user without a lock still knows when it writes it back is `LoginInv`; a late
save that undoes a connection, the finding of `users_revoked`, is the exception
`undone` names.

`RewardsProofs`, for any requests, responses, bodies and any division of time
into days (`RewardsAssumption`): `SurveyRewardedOnce`, `DailyRewardKept`.  A
request that is about to commit still holds the key it looked under, so what it
found there is so (`RequestInv`); a charge of a day is between two midnights of
Korea, by the arithmetic of `DayOf` and `MidnightBetween`.

`PipelineProofs`, for any jobs, attempts, uploads, pictures and GIFs
(`PipelineAssumption`): `RunFindsItsFiles`, `ResultIsWhole`.  The first run that
claims the gate is the only one of its job that writes (`OneRun`), so a stage
with its durations and its plan, once backed by the files (`Backed`), stays
backed.  Callbacks may be handled after their run has died: each carries what
the files back (`CallInv`), and what the server had recorded before it
(`Known`).  That a working run's gate has not run out, or that its request
compensated, is `RunInv`; what this module takes as the guard of
`LeaseRunsOut` is `ExpiredRunsAreDead`, which `CompositionProofs` shows from the
clock.

`RecordTheorem` is the action property `NothingIsTakenBack`: what the server has
recorded of a job at work is only replaced by a later stage that keeps the
durations and the plan, and the file of a completed job is not written again.
The code compares no stages when it takes a checkpoint; that a callback which
still can be handled is ahead of the record is `CallsAreAhead`, which with `IInv`
is inductive.  TLC has checked both on the instance of `files`, but no run of
the project states them.

The same module proves the arithmetic of the GIFs, and with it `TimingIsKept` of
`GifProcessor` for GIFs of any length (`GifAssumption`):

1. delays are differences of neighbouring boundaries, so their sum telescopes to
   the last boundary less the first, whatever the rounding in between did
   (`Telescopes`, `ResultKeepsTime`);
2. a rounded quotient is within half a unit, ties go to the even side
   (`RoundNear`), so boundaries that are more than a unit apart stay apart
   (`RoundApart`), and those at most `k` units apart stay so (`RoundClose`):
   no frame is shown for no time, none longer than the format holds if they can
   share the time (`DurationsFit`), no frame is taken twice (`IndicesSpread`);
3. the induction over a GIF's delays is about a set of numbers
   (`NatInductionSet`, from the library's theorem on finite sets), as induction
   over a predicate is out of the provers' reach.

TLC has checked these additions, `ClaimsAreBorn`, `LivingRunsHaveTime`,
`HoldersExtend`, `LedgerGrows`, `LocksAreOwn` and `WaitsGoUp`, on the instances of
`composition`, `credit` and `payment`; no run of the project states them.

The invariants' own conjuncts were found with TLC; the runs check the
properties, the proofs their strengthening.

What is assumed of the constants is named (`...Assumption`), and TLC evaluates it
in every run: sets that are disjoint, null values that are no values, times that
are natural numbers, and what the code guarantees: the leases of the gate; uses
that are whole; survey bodies that are lists of the values their types allow;
delays of a GIF that the format can hold, and recorded durations that are natural
numbers.  The bounds (`MaxTime`, `MaxAttempts`, `MaxWrites`, `MaxId`) may have
any value, so the theorems hold without them.

Model-checked only: liveness and the fair refinement (`EveryJobSettles`,
`EveryRegistrationEnds`, `ImplementsFairLifecycle`, `RequestsEnd`), as the prover
has neither fairness nor ENABLED; and the findings, which are counterexamples.

## 5. Plan

1. `PipelineRun` composed with `Composition` in one module.  The two agree on
   when a lease runs out (`LivingRunTheorem`); the composition would show it of
   the same variables.
2. `Composition` composed with `CreditAccount` in place of `payment`, with
   `LedgerGrowsTheorem` as the step from one to the other.

### Not modelled

* Statistics, monitoring, logging and the administrators' queries, except the
  one for missing credit: they only read.
* The synchronous services of earlier versions (`charge_credit_service.py` and
  its neighbours, `save_asset_service.py`): nothing constructs them.
* The server's own OpenAI and Lambda adapters for analysis and inpainting: they
  are not wired, the pipeline Lambda calls OpenAI itself.
* The validation of request bodies, except the survey's, whose answers decide
  about each other; it refuses a request before anything is written.
* Pixels, prompts, e-mail texts, reports: no protocol.

`components` in `PROJECT.json` has the details.
