------------------------------ MODULE PipelineRun ------------------------------
(***************************************************************************)
(* What a run of the AI Lambda reads, writes and records: the target       *)
(* image from where the request put it, the frames, the draft and the      *)
(* composited frames in the private bucket, the result in the public one,  *)
(* and the job's stage on the server, between invocations that are         *)
(* repeated, callbacks that are lost or late, image edits that fail and    *)
(* invocations that die.  The gate is here without its clock: a lease runs *)
(* out while its run is not alive, which is what Composition shows.        *)
(***************************************************************************)
EXTENDS GifTiming, Integers, FiniteSets

CONSTANTS
  Jobs,       \* compositions of one user, requested one after another
  Attempts,   \* the trigger may invoke the Lambda again
  Uploads,    \* ids of uploads the user may stage
  Pictures,   \* images the user uploads
  Gifs,       \* delays of the GIFs
  MAX_FRAMES,
  NoJob, NoRun, NoFile, Inline

Runs == Jobs \X Attempts

\* What the buckets hold of a job, by the kind of file.
TargetFile == [png : Pictures]
DraftFile == [target : TargetFile, reference : Nat]
CompositedFile == [frame : Nat, draft : DraftFile]
ResultFile == [frames : Seq(CompositedFile), delays : Seq(Nat)]

ASSUME PipelineAssumption ==
  /\ NoJob \notin Jobs /\ NoRun \notin Runs
  /\ Inline \notin Uploads
  /\ NoFile \notin Pictures \cup TargetFile \cup Nat \cup DraftFile \cup CompositedFile \cup ResultFile
  /\ Gifs \subseteq Seq(Nat)
  /\ MAX_FRAMES \in 1..20

VARIABLES
  jobs,      \* composition_jobs
  gate,      \* composition_gate: the active job, its run, whether the lease is over
  assets,    \* the table assets
  staged,    \* the bucket of uploads
  private,   \* the private bucket: targets, frames, drafts, composited frames
  public,    \* the public bucket: results
  request,   \* the request of each job
  locker,    \* the request that holds the gate while it asks the storage
  lambda,    \* the invocations
  calls      \* callbacks on their way to the server

server == <<jobs, gate, assets>>
buckets == <<staged, private, public>>
cloud == <<lambda, calls>>
vars == <<server, buckets, request, locker, cloud>>

\* A stage is its place in STAGE_ORDER; a new job has none.
NoStage == 0
Extracting == 1
Analyzing == 2
Drafting == 3
Compositing == 4
Building == 5

NoSpec == 0       \* else the frame the draft is drawn after, from 1
Positions == 1..MAX_FRAMES

NewJob == [status |-> "ABSENT", stage |-> NoStage, durations |-> <<>>, spec |-> NoSpec,
           target |-> Inline, gif |-> <<>>]

NoFiles == [target |-> NoFile, frame |-> [i \in Positions |-> NoFile], draft |-> NoFile,
            composited |-> [i \in Positions |-> NoFile]]

FreeGate == [active |-> NoJob, run |-> NoRun, expired |-> FALSE]

Idle == [at |-> "none", stage |-> NoStage, picture |-> NoFile, durations |-> <<>>,
         spec |-> NoSpec, left |-> {}, broken |-> FALSE]
Over == [Idle EXCEPT !.at = "ended"]
Alive(r) == lambda[r].at \notin {"none", "queued", "ended"}

\* What _normalize_target writes, whatever format it was given.
Png(picture) == [png |-> picture]

Init ==
  /\ jobs = [j \in Jobs |-> NewJob]
  /\ gate = FreeGate
  /\ assets = {}
  /\ staged = [u \in Uploads |-> NoFile]
  /\ private = [j \in Jobs |-> NoFiles]
  /\ public = [j \in Jobs |-> NoFile]
  /\ request = [j \in Jobs |-> "new"]
  /\ locker = NoJob
  /\ lambda = [r \in Runs |-> Idle]
  /\ calls = {}

-----------------------------------------------------------------------------
(* The gate and the request.                                               *)

Reserve(j) == [active |-> j, run |-> NoRun, expired |-> FALSE]
Release(j) == IF gate.active = j THEN FreeGate ELSE gate
Claimable(r) == gate.active = r[1] /\ gate.run = NoRun /\ ~gate.expired
Owns(r) == gate.active = r[1] /\ gate.run = r /\ ~gate.expired

Failed(job) == [job EXCEPT !.status = "FAILED"]

\* update() of the repository writes the job whole.
Update(j, job) == jobs' = [jobs EXCEPT ![j] = job]

SaveAssets(j, categories) == assets' = assets \cup ({j} \X categories)

\* Nobody has claimed the gate in time, or its run is no more.
LeaseRunsOut ==
  /\ gate.active # NoJob /\ ~gate.expired
  /\ gate.run # NoRun => ~Alive(gate.run)
  /\ gate' = [gate EXCEPT !.expired = TRUE]
  /\ UNCHANGED <<jobs, assets, buckets, request, locker, cloud>>

\* The browser sends a file to the URL it was given, as often as it likes
\* while the URL is good.
Stage(u) ==
  /\ \E file \in Pictures : staged' = [staged EXCEPT ![u] = file]
  /\ UNCHANGED <<server, private, public, request, locker, cloud>>

Resolves(u) == staged[u] # NoFile

\* With the gate locked the target is stored, or its upload is looked up.
EnterGate(j, gif, target) ==
  /\ request[j] = "new"
  /\ locker = NoJob /\ locker' = j
  /\ gate.active = NoJob \/ gate.expired
  /\ gif # <<>>
  /\ jobs' = [jobs EXCEPT ![j].gif = gif, ![j].target = target]
  /\ IF target = Inline
     THEN \E file \in Pictures : private' = [private EXCEPT ![j].target = file]
     ELSE Resolves(target) /\ UNCHANGED private
  /\ request' = [request EXCEPT ![j] = "uploading"]
  /\ UNCHANGED <<gate, assets, staged, public, cloud>>

\* The transaction fails the stale job and commits the new one.
Accept(j) ==
  /\ request[j] = "uploading"
  /\ jobs' = [i \in Jobs |->
                IF i = j THEN [jobs[j] EXCEPT !.status = "PROCESSING"]
                ELSE IF i = gate.active /\ jobs[i].status = "PROCESSING"
                     THEN Failed(jobs[i]) ELSE jobs[i]]
  /\ gate' = Reserve(j)
  /\ SaveAssets(j, {"KLIPY_GIF", "USER_UPLOAD"})
  /\ request' = [request EXCEPT ![j] = "triggering"] /\ locker' = NoJob
  /\ UNCHANGED <<buckets, cloud>>

Invoke(r) ==
  /\ request[r[1]] = "triggering" /\ lambda[r].at = "none"
  /\ lambda' = [lambda EXCEPT ![r].at = "queued"]
  /\ UNCHANGED <<server, buckets, request, locker, calls>>

\* trigger() returns or the server crashes; or it raises, whatever was invoked.
Triggered(j) ==
  /\ request[j] = "triggering"
  /\ \E outcome \in {"done", "compensating"} : request' = [request EXCEPT ![j] = outcome]
  /\ UNCHANGED <<server, buckets, locker, cloud>>

Compensate(j) ==
  /\ request[j] = "compensating" /\ locker = NoJob
  /\ Update(j, Failed(jobs[j])) /\ gate' = Release(j)
  /\ request' = [request EXCEPT ![j] = "compensated"]
  /\ UNCHANGED <<assets, buckets, locker, cloud>>

Abandon(j) ==
  /\ request[j] = "uploading" /\ locker' = NoJob
  /\ jobs' = [jobs EXCEPT ![j] = NewJob]
  /\ request' = [request EXCEPT ![j] = "done"]
  /\ UNCHANGED <<gate, assets, buckets, cloud>>

\* A status stream settles a job whose lease is over.
Reconcile ==
  /\ gate.expired /\ locker = NoJob
  /\ IF jobs[gate.active].status = "PROCESSING"
     THEN Update(gate.active, Failed(jobs[gate.active]))
     ELSE UNCHANGED jobs
  /\ gate' = FreeGate
  /\ UNCHANGED <<assets, buckets, request, locker, cloud>>

-----------------------------------------------------------------------------
(* The Lambda.  It waits for the answer of each callback; the callbacks    *)
(* that record edits are Composition's.                                    *)

Waiting == {"start", "checkpoint", "complete", "fail"}

Goto(r, at) == lambda' = [lambda EXCEPT ![r].at = at]

Call(r, kind, run) ==
  /\ lambda' = [lambda EXCEPT ![r] = [run EXCEPT !.at = kind]]
  /\ calls' = calls \cup {[run |-> r, kind |-> kind, stage |-> run.stage,
                           durations |-> run.durations, spec |-> run.spec]}

\* The stage is recorded before its work begins.
Checkpoint(r, stage, run) == Call(r, "checkpoint", [run EXCEPT !.stage = stage])

Deliver(r) ==
  /\ lambda[r].at = "queued"
  /\ Call(r, "start", lambda[r])
  /\ UNCHANGED <<server, buckets, request, locker>>

Target(r) == jobs[r[1]].target

\* What fails while the target is normalised fails before it is deleted.
Break(r) ==
  lambda' = [lambda EXCEPT ![r].broken = TRUE,
                           ![r].at = IF Target(r) = Inline THEN "raised" ELSE "discarding"]

\* _normalize_target: read ...
FetchTarget(r) ==
  /\ lambda[r].at = "fetching"
  /\ LET file == IF Target(r) = Inline THEN private[r[1]].target ELSE staged[Target(r)] IN
       IF file = NoFile THEN Break(r)
       ELSE lambda' = [lambda EXCEPT ![r].at = "storing", ![r].picture = file]
  /\ UNCHANGED <<server, buckets, request, locker, calls>>

\* ... write as PNG, ...
StoreTarget(r) ==
  /\ lambda[r].at = "storing"
  /\ private' = [private EXCEPT ![r[1]].target = Png(lambda[r].picture)]
  /\ IF Target(r) = Inline THEN Checkpoint(r, Extracting, lambda[r])
                           ELSE Goto(r, "discarding") /\ UNCHANGED calls
  /\ UNCHANGED <<server, staged, public, request, locker>>

\* ... unless it is too large, no image, or cannot be written ...
StoreFails(r) ==
  /\ lambda[r].at = "storing"
  /\ Break(r)
  /\ UNCHANGED <<server, buckets, request, locker, calls>>

\* ... and, whatever happened, delete what was staged.
Discard(r) ==
  /\ lambda[r].at = "discarding"
  /\ staged' = [staged EXCEPT ![Target(r)] = NoFile]
  /\ IF lambda[r].broken THEN Goto(r, "raised") /\ UNCHANGED calls
                         ELSE Checkpoint(r, Extracting, lambda[r])
  /\ UNCHANGED <<server, private, public, request, locker>>

At(r, stage) == lambda[r].at = "working" /\ lambda[r].stage = stage
Frames(r) == DOMAIN lambda[r].durations

\* The GIF processor stores all frames before it answers.
Extract(r) ==
  /\ At(r, Extracting)
  /\ LET gif == jobs[r[1]].gif  indices == Indices(Len(gif), MAX_FRAMES) IN
       /\ Readable(gif)
       /\ private' = [private EXCEPT ![r[1]].frame =
                        [i \in Positions |-> IF i \in DOMAIN indices THEN indices[i] ELSE @[i]]]
       /\ Checkpoint(r, Analyzing, [lambda[r] EXCEPT !.durations = Durations(gif, MAX_FRAMES)])
  /\ UNCHANGED <<server, staged, public, request, locker>>

\* Of the plan: the frame it names for the draft is one of those it was shown.
ValidSpec(spec, n) == n \in 1..20 /\ spec \in 1..n

\* The language model answers with a plan, or with one that is refused.
Analyze(r) ==
  /\ At(r, Analyzing)
  /\ \E spec \in Positions :
       /\ ValidSpec(spec, Len(lambda[r].durations))
       /\ Checkpoint(r, Drafting, [lambda[r] EXCEPT !.spec = spec])
  /\ UNCHANGED <<server, buckets, request, locker>>

DraftImage(files, spec) == [target |-> files.target, reference |-> files.frame[spec]]

Draft(r) ==
  /\ At(r, Drafting) /\ ValidSpec(lambda[r].spec, Len(lambda[r].durations))
  /\ private' = [private EXCEPT ![r[1]].draft = DraftImage(private[r[1]], lambda[r].spec)]
  /\ Checkpoint(r, Compositing, lambda[r])
  /\ UNCHANGED <<server, staged, public, request, locker>>

FrameImage(files, i) == [frame |-> files.frame[i], draft |-> files.draft]

\* Mutant: frames are named as they are finished.
CompositedKey_Finished(r, i) == 1 + Cardinality(Frames(r) \ lambda[r].left)

CompositedKey(r, i) == i

\* One of the threads finishes its frame, or fails; the others go on.
CompositeFrame(r, i) ==
  /\ At(r, Compositing) /\ i \in lambda[r].left
  /\ \/ /\ private' = [private EXCEPT ![r[1]].composited[CompositedKey(r, i)] =
                         FrameImage(private[r[1]], i)]
        /\ lambda' = [lambda EXCEPT ![r].left = @ \ {i}]
     \/ /\ lambda' = [lambda EXCEPT ![r].left = @ \ {i}, ![r].broken = TRUE]
        /\ UNCHANGED private
  /\ UNCHANGED <<server, staged, public, request, locker, calls>>

\* All futures are done; the first that failed raises.
CompositeDone(r) ==
  /\ At(r, Compositing) /\ lambda[r].left = {}
  /\ IF lambda[r].broken THEN Goto(r, "raised") /\ UNCHANGED calls
                         ELSE Checkpoint(r, Building, lambda[r])
  /\ UNCHANGED <<server, buckets, request, locker>>

Build(r) ==
  /\ At(r, Building)
  /\ LET composited == private[r[1]].composited  durations == lambda[r].durations IN
       /\ Buildable(durations)
       /\ \A i \in Frames(r) : composited[i] # NoFile
       /\ public' = [public EXCEPT ![r[1]] = [frames |-> [i \in Frames(r) |-> composited[i]],
                                              delays |-> GifDelays(durations)]]
  /\ Call(r, "complete", lambda[r])
  /\ UNCHANGED <<server, staged, private, request, locker>>

\* A download, an edit, an answer of the model or the GIF Lambda is an error.
Raise(r) ==
  /\ lambda[r].at = "working"
  /\ lambda[r].stage = Compositing => lambda[r].left = Frames(r)
  /\ Goto(r, "raised")
  /\ UNCHANGED <<server, buckets, request, locker, calls>>

SendFail(r) ==
  /\ lambda[r].at = "raised"
  /\ Call(r, "fail", Idle)
  /\ UNCHANGED <<server, buckets, request, locker>>

\* Where an answer takes the run: success, 409, any other error or none.
AfterOk(run) ==
  CASE run.at = "start"      -> [run EXCEPT !.at = "fetching"]
    [] run.at = "checkpoint" -> [run EXCEPT !.at = "working",
                                            !.left = IF run.stage = Compositing
                                                     THEN DOMAIN run.durations ELSE {}]
    [] OTHER                 -> Over

\* Mutant: an invocation the server refuses works on.
AfterConflict_WorksOn(run) ==
  CASE run.at = "start"      -> [run EXCEPT !.at = "fetching"]
    [] run.at = "checkpoint" -> [run EXCEPT !.at = "raised"]
    [] OTHER                 -> Over

AfterConflict(run) == IF run.at = "checkpoint" THEN [run EXCEPT !.at = "raised"] ELSE Over

AfterError(run) ==
  IF run.at \in {"checkpoint", "complete"} THEN [run EXCEPT !.at = "raised"] ELSE Over

TimesOut(r) ==
  /\ lambda[r].at \in Waiting
  /\ lambda' = [lambda EXCEPT ![r] = AfterError(@)]
  /\ UNCHANGED <<server, buckets, request, locker, calls>>

Dies(r) ==
  /\ lambda[r].at = "queued" \/ Alive(r)
  /\ lambda' = [lambda EXCEPT ![r] = Over]
  /\ UNCHANGED <<server, buckets, request, locker, calls>>

-----------------------------------------------------------------------------
(* The callbacks.                                                          *)

Answer(c, After(_)) ==
  /\ calls' = calls \ {c}
  /\ \/ UNCHANGED lambda
     \/ /\ lambda[c.run].at = c.kind
        /\ lambda' = [lambda EXCEPT ![c.run] = After(@)]
  /\ UNCHANGED <<buckets, request, locker>>

HandleStart(c) ==
  /\ c.kind = "start" /\ Claimable(c.run)
  /\ gate' = [gate EXCEPT !.run = c.run]
  /\ Answer(c, AfterOk)
  /\ UNCHANGED <<jobs, assets>>

\* The methods stage_extracting_frames to stage_building_gif of the job.
Recorded(job, c) ==
  [job EXCEPT !.stage = c.stage,
              !.durations = IF c.stage = Analyzing THEN c.durations ELSE @,
              !.spec = IF c.stage = Drafting THEN c.spec ELSE @]

HandleCheckpoint(c) ==
  /\ c.kind = "checkpoint" /\ Owns(c.run)
  /\ IF jobs[c.run[1]].status = "PROCESSING"
     THEN Update(c.run[1], Recorded(jobs[c.run[1]], c))
     ELSE UNCHANGED jobs
  /\ Answer(c, AfterOk)
  /\ UNCHANGED <<gate, assets>>

HandleComplete(c) ==
  /\ c.kind = "complete" /\ Owns(c.run)
  /\ LET j == c.run[1] IN
       IF jobs[j].status = "PROCESSING"
       THEN /\ SaveAssets(j, {"COMPOSITION_DRAFT", "COMPOSITION_RESULT"})
            /\ Update(j, [jobs[j] EXCEPT !.status = "COMPLETED"])
            /\ gate' = Release(j)
       ELSE UNCHANGED server
  /\ Answer(c, AfterOk)

HandleFail(c) ==
  /\ c.kind = "fail" /\ Owns(c.run)
  /\ IF jobs[c.run[1]].status = "PROCESSING"
     THEN Update(c.run[1], Failed(jobs[c.run[1]])) /\ gate' = Release(c.run[1])
     ELSE UNCHANGED <<jobs, gate>>
  /\ Answer(c, AfterOk)
  /\ UNCHANGED assets

Conflict(c) ==
  /\ IF c.kind = "start" THEN ~Claimable(c.run) ELSE ~Owns(c.run)
  /\ Answer(c, AfterConflict)
  /\ UNCHANGED server

Rejected(c) ==
  /\ Answer(c, AfterError)
  /\ UNCHANGED server

Handle(c) ==
  /\ locker = NoJob
  /\ \/ HandleStart(c) \/ HandleCheckpoint(c) \/ HandleComplete(c) \/ HandleFail(c)
     \/ Conflict(c) \/ Rejected(c)

-----------------------------------------------------------------------------
RequestStep(j) ==
  \/ \E gif \in Gifs, target \in Uploads \cup {Inline} : EnterGate(j, gif, target)
  \/ Accept(j) \/ Triggered(j) \/ Compensate(j) \/ Abandon(j)

LambdaStep(r) ==
  \/ Invoke(r) \/ Deliver(r)
  \/ FetchTarget(r) \/ StoreTarget(r) \/ StoreFails(r) \/ Discard(r)
  \/ Extract(r) \/ Analyze(r) \/ Draft(r)
  \/ \E i \in Frames(r) : CompositeFrame(r, i)
  \/ CompositeDone(r) \/ Build(r)
  \/ Raise(r) \/ SendFail(r) \/ TimesOut(r) \/ Dies(r)

Next ==
  \/ \E j \in Jobs : RequestStep(j)
  \/ \E u \in Uploads : Stage(u)
  \/ \E r \in Runs : LambdaStep(r)
  \/ \E c \in calls : Handle(c)
  \/ LeaseRunsOut \/ Reconcile

Spec == Init /\ [][Next]_vars

-----------------------------------------------------------------------------
(* Properties                                                              *)

Whole(j) ==
  LET indices == Indices(Len(jobs[j].gif), MAX_FRAMES)  result == public[j] IN
    /\ {<<j, "COMPOSITION_DRAFT">>, <<j, "COMPOSITION_RESULT">>} \subseteq assets
    /\ result # NoFile
    /\ result.frames = [i \in DOMAIN indices |-> [frame |-> indices[i], draft |-> private[j].draft]]
    /\ private[j].draft = DraftImage(private[j], jobs[j].spec)
    /\ \E p \in Pictures : private[j].target = Png(p)
    /\ Total(result.delays) = Total(jobs[j].gif)

\* A completed job has a whole result where its assets say it is: every frame
\* taken of the GIF, in its order, composited with the one draft the plan asked
\* for of the one target, played in the time of the GIF; however the threads,
\* repeated invocations and lost callbacks went.
ResultIsWhole == \A j \in Jobs : jobs[j].status = "COMPLETED" => Whole(j)

\* The request failed a job whose run it could not see start.
Compensated(u) == \E j \in Jobs : jobs[j].target = u /\ request[j] \in {"compensating", "compensated"}

\* No other run takes the upload a job was accepted with before its own does.
Untouched(j) ==
  \A r \in Runs : r[1] = j => lambda[r].at \in {"none", "queued", "start", "fetching"}
UploadWaits(j) ==
  LET u == jobs[j].target IN
    jobs[j].status = "PROCESSING" /\ u \in Uploads /\ Untouched(j) /\ ~Compensated(u)
      => staged[u] # NoFile

\* Whenever a run stops, what is recorded of its job is backed by the files a
\* run from that stage on reads, with the durations and the plan that go with
\* them; before that, its target is still where it was put.
RunFindsItsFiles ==
  \A j \in Jobs : LET job == jobs[j]  files == private[j]  n == Len(job.durations) IN
    /\ UploadWaits(j)
    /\ job.stage >= Extracting => \E p \in Pictures : files.target = Png(p)
    /\ job.stage >= Analyzing => n > 0 /\ \A i \in 1..n : files.frame[i] # NoFile
    /\ job.stage >= Drafting => job.spec \in 1..n
    /\ job.stage >= Compositing => files.draft = DraftImage(files, job.spec)
    /\ job.stage = Building => \A i \in 1..n : files.composited[i] # NoFile

\* What is recorded of a job stays so: no callback, however late it is handled,
\* takes the stage back or replaces the durations or the plan that the files
\* were made with; and once a result is announced its file is not written again.
NothingIsTakenBack ==
  [][\A j \in Jobs :
       /\ jobs[j].status = "PROCESSING" =>
            /\ jobs'[j].stage >= jobs[j].stage
            /\ jobs[j].stage >= Analyzing => jobs'[j].durations = jobs[j].durations
            /\ jobs[j].stage >= Drafting => jobs'[j].spec = jobs[j].spec
       /\ jobs[j].status = "COMPLETED" => public'[j] = public[j]]_vars

-----------------------------------------------------------------------------
(* The inductive invariant: the first run that claims the gate is the only *)
(* run of its job that writes anything, and each of its callbacks carries  *)
(* what the files back, however late it is handled.                        *)

File == Pictures \cup {NoFile}
Job ==
  [ status : {"ABSENT", "PROCESSING", "COMPLETED", "FAILED"}, stage : NoStage..Building,
    durations : Seq(Int), spec : Nat, target : Uploads \cup {Inline}, gif : Seq(Nat) ]
Files ==
  [ target : File \cup TargetFile, frame : [Positions -> Nat \cup {NoFile}],
    draft : DraftFile \cup {NoFile}, composited : [Positions -> CompositedFile \cup {NoFile}] ]
Run ==
  [ at : {"none", "queued", "start", "fetching", "storing", "discarding", "checkpoint",
          "working", "complete", "raised", "fail", "ended"},
    stage : NoStage..Building, picture : File, durations : Seq(Int), spec : Nat,
    left : SUBSET Nat, broken : BOOLEAN ]
Callback == [run : Runs, kind : Waiting, stage : NoStage..Building, durations : Seq(Int), spec : Nat]

Types ==
  /\ jobs \in [Jobs -> Job]
  /\ gate \in [active : Jobs \cup {NoJob}, run : Runs \cup {NoRun}, expired : BOOLEAN]
  /\ staged \in [Uploads -> File]
  /\ private \in [Jobs -> Files]
  /\ public \in [Jobs -> ResultFile \cup {NoFile}]
  /\ request \in [Jobs -> {"new", "uploading", "triggering", "compensating", "compensated", "done"}]
  /\ locker \in Jobs \cup {NoJob}
  /\ lambda \in [Runs -> Run]
  /\ calls \subseteq Callback

\* A run that has claimed the gate and writes the files of its job, ...
Working(r) == lambda[r].at \in {"fetching", "storing", "discarding", "checkpoint", "working"}

\* ... or that was one, as long as anything is left of it.
Claimed(r) ==
  \/ Working(r) \/ lambda[r].at \in {"complete", "raised", "fail"}
  \/ \E c \in calls : c.run = r /\ c.kind # "start"

GateInv ==
  /\ gate.active = NoJob => gate.run = NoRun /\ ~gate.expired
  /\ gate.active # NoJob => request[gate.active] \notin {"new", "uploading"}
  /\ gate.run # NoRun => gate.run[1] = gate.active /\ lambda[gate.run].at \notin {"none", "queued"}
  /\ gate.expired /\ gate.run # NoRun => lambda[gate.run].at = "ended"
  /\ locker # NoJob => request[locker] = "uploading" /\ (gate.active = NoJob \/ gate.expired)

OneRun ==
  /\ \A r \in Runs : Claimed(r) /\ gate.active = r[1] => gate.run = r
  /\ \A r, q \in Runs : Claimed(r) /\ Claimed(q) /\ r[1] = q[1] => r = q
  /\ \A c, d \in calls :
       c.run = d.run /\ (c.kind = d.kind \/ {c.kind, d.kind} \subseteq {"checkpoint", "complete"})
         => c = d

\* What the files back of a stage with its durations and its plan.
Backed(j, stage, durations, spec) ==
  LET files == private[j]  gif == jobs[j].gif  indices == Indices(Len(gif), MAX_FRAMES) IN
    /\ stage >= Extracting => files.target \in TargetFile
    /\ stage >= Analyzing => /\ gif # <<>> /\ Readable(gif)
                             /\ durations = Durations(gif, MAX_FRAMES)
                             /\ \A i \in DOMAIN indices : files.frame[i] = indices[i]
    /\ stage >= Drafting => spec \in DOMAIN indices
    /\ stage >= Compositing => files.draft = DraftImage(files, spec)
    /\ stage = Building => \A i \in DOMAIN indices : files.composited[i] = FrameImage(files, i)

\* What the server knows once it has recorded a stage.
Known(j, stage, durations, spec) ==
  jobs[j].status = "PROCESSING" =>
    /\ stage >= Analyzing => jobs[j].durations = durations
    /\ stage >= Drafting => jobs[j].spec = spec

\* The result of the files and the durations of a whole run.
ResultOf(j) ==
  LET gif == jobs[j].gif  indices == Indices(Len(gif), MAX_FRAMES) IN
    [ frames |-> [i \in DOMAIN indices |-> [frame |-> indices[i], draft |-> private[j].draft]],
      delays |-> GifDelays(Durations(gif, MAX_FRAMES)) ]

\* A job, its request and the gate.
JobGate(j) ==
  /\ request[j] \in {"new", "uploading"} => jobs[j].status = "ABSENT"
  /\ request[j] \in {"triggering", "compensating", "compensated"} => jobs[j].status # "ABSENT"
  /\ request[j] = "uploading" => locker = j
  /\ jobs[j].status # "ABSENT" \/ request[j] = "uploading" => jobs[j].gif # <<>>
  /\ jobs[j].status = "PROCESSING" => gate.active = j
  /\ jobs[j].status = "COMPLETED" => gate.active # j
  /\ jobs[j].status = "ABSENT" \/ (gate.active = j /\ gate.run = NoRun)
       => jobs[j].stage = NoStage /\ private[j].target \in File

\* A job and its files.
JobFiles(j) ==
  /\ Backed(j, jobs[j].stage, jobs[j].durations, jobs[j].spec)
  /\ jobs[j].status = "COMPLETED" => Whole(j)

\* A job and its upload.
JobUpload(j) ==
  /\ request[j] = "uploading" /\ jobs[j].target \in Uploads
       => staged[jobs[j].target] # NoFile \/ Compensated(jobs[j].target)
  /\ UploadWaits(j)

JobInv(j) == JobGate(j) /\ JobFiles(j) /\ JobUpload(j)

RunInv(r) ==
  LET run == lambda[r]  j == r[1] IN
    /\ run.at # "none" => jobs[j].status # "ABSENT"
    /\ Working(r) =>
         /\ \/ gate.active = j /\ gate.run = r /\ ~gate.expired
            \/ request[j] = "compensated"
         /\ jobs[j].status # "COMPLETED"
         /\ jobs[j].stage <= run.stage
    /\ run.at \in {"none", "queued", "start", "fetching", "storing", "discarding"} => run.stage = NoStage
    /\ run.at = "fetching" => private[j].target \in File
    /\ run.at = "storing" => run.picture \in Pictures
    /\ run.at = "discarding" => Target(r) # Inline /\ (~run.broken => private[j].target \in TargetFile)
    /\ run.at \in {"checkpoint", "working"} =>
         /\ run.stage >= Extracting
         /\ Backed(j, run.stage, run.durations, run.spec)
         /\ Known(j, IF run.at = "working" THEN run.stage ELSE run.stage - 1, run.durations, run.spec)
    /\ run.at = "working" /\ run.stage = Compositing =>
         /\ run.left \subseteq Frames(r)
         /\ ~run.broken => \A i \in Frames(r) \ run.left :
                             private[j].composited[i] = FrameImage(private[j], i)

CallInv(c) ==
  LET run == lambda[c.run]  j == c.run[1] IN
    /\ c.kind = "start" => run.at \in {"start", "ended"}
    /\ c.kind = "checkpoint" =>
         /\ run.at \in {"checkpoint", "raised", "fail", "ended"}
         /\ run.at = "checkpoint" =>
              run.stage = c.stage /\ run.durations = c.durations /\ run.spec = c.spec
         /\ c.stage >= Extracting
         /\ Backed(j, c.stage, c.durations, c.spec)
         /\ Known(j, c.stage - 1, c.durations, c.spec)
    /\ c.kind = "complete" =>
         /\ run.at \in {"complete", "raised", "fail", "ended"}
         /\ Backed(j, Building, c.durations, c.spec)
         /\ Known(j, Building, c.durations, c.spec)
         /\ public[j] # NoFile /\ public[j] = ResultOf(j)
    /\ c.kind = "fail" => run.at \in {"fail", "ended"}

IInv ==
  /\ Types /\ GateInv /\ OneRun
  /\ \A j \in Jobs : JobInv(j)
  /\ \A r \in Runs : RunInv(r)
  /\ \A c \in calls : CallInv(c)

\* A checkpoint on its way is ahead of what is recorded.
CallsAreAhead == \A c \in calls : c.kind = "checkpoint" => jobs[c.run[1]].stage < c.stage
=============================================================================
