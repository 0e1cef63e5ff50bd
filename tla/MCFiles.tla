------------------------------- MODULE MCFiles -------------------------------
(* Instances of PipelineRun and GifProcessor for TLC, side by side: of the   *)
(* GIF processor's work the pipeline only needs what GifTiming says.         *)
EXTENDS PipelineRun, TLC

CONSTANTS ProcessorGifs, FrameLimits, OldDurations

VARIABLES source, max_frames, feasible, taken, shown_for, built

processor == <<source, max_frames, feasible, taken, shown_for, built>>

VARIABLE component   \* the one that takes steps

G == INSTANCE GifProcessor WITH Gifs <- ProcessorGifs, gif <- source, frames <- taken,
                                durations <- shown_for, result <- built

ASSUME G!GifAssumption

\* A GIF that loses a frame in the pipeline.
PipelineGifs == {<<10, 10, 30>>}

\* GIFs around the limit of twenty frames, one of whose frames may be shown
\* longer than the others, up to the longest the format knows; a file that is
\* no GIF; and delays no GIF has.
LimitGifs ==
  {<<>>, <<10, 15>>, <<0, 10>>} \cup
  {[i \in 1..n |-> IF i = odd THEN long ELSE short] :
     n \in 1..23, odd \in {1, 2, 5, 19, 23}, long \in {20, 70, 655350}, short \in {10, 20, 30, 110}}

RecordedDurations == UNION {[1..n -> {3, 5, 8, 15, 20, 33}] : n \in 1..4}

Symmetry == Permutations(Jobs) \cup Permutations(Attempts)

MCInit ==
  /\ Init /\ G!Init
  /\ \/ component = "processor"
     \/ component = "pipeline" /\ source = <<>> /\ max_frames = 0 /\ shown_for = <<3>>

MCNext ==
  \/ component = "processor" /\ G!Next /\ UNCHANGED <<vars, component>>
  \/ component = "pipeline" /\ Next /\ UNCHANGED <<processor, component>>

\* Bounds: two callbacks on their way at a time, one of which nobody waits for
\* any more, and as many stages recorded in all as one composition has.
Late == {c \in calls : lambda[c.run].at # c.kind}
FewCalls == Cardinality(calls) <= 2 /\ Cardinality(Late) <= 1
FewStages == \A i, j \in Jobs : i # j => jobs[i].stage + jobs[j].stage <= Building

MCSpec == MCInit /\ [][MCNext]_<<vars, processor, component>>

\* The property of GifProcessor, for the instance above.
TimingIsKept == G!TimingIsKept
=============================================================================
