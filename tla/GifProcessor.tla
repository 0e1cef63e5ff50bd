----------------------------- MODULE GifProcessor -----------------------------
(***************************************************************************)
(* The three actions of the GIF processor Lambda on one GIF: is it one,    *)
(* take its frames, build the result of them.  The durations travel        *)
(* between the last two through the AI Lambda and the recorded stage of    *)
(* the job; jobs of before the Lambda counted in centiseconds recorded     *)
(* others.                                                                 *)
(***************************************************************************)
EXTENDS Integers, GifTiming

CONSTANTS
  Gifs,         \* delays of the GIFs at the URLs
  FrameLimits,  \* the max_frames asked for
  OldDurations  \* durations recorded before GIFs were counted in centiseconds

\* What the constants have to be; the module that instantiates this one assumes it.
GifAssumption ==
  /\ Gifs \subseteq Seq(0..LongestDelay)
  /\ FrameLimits \subseteq Nat
  /\ OldDurations \subseteq Seq(Nat)

VARIABLES
  gif,          \* the GIF at the URL
  max_frames,   \* how many frames are asked for
  feasible,     \* what check_feasibility said: its frames, 0 if it is none
  frames,       \* the frames stored, as indices into the GIF
  durations,    \* the durations returned or recorded
  result        \* the delays of the GIF that was built

vars == <<gif, max_frames, feasible, frames, durations, result>>

None == <<>>
Unknown == -1

\* A job to be run from its start, or one whose durations were recorded before.
Init ==
  /\ \/ gif \in Gifs /\ max_frames \in FrameLimits /\ durations = None
     \/ gif = None /\ max_frames = 0 /\ durations \in OldDurations
  /\ frames = [i \in DOMAIN durations |-> i - 1]
  /\ feasible = Unknown /\ result = None

check_feasibility ==
  /\ feasible = Unknown /\ durations = None
  /\ feasible' = Len(gif)
  /\ UNCHANGED <<gif, max_frames, frames, durations, result>>

\* Any exception leaves nothing recorded: the AI Lambda fails the job.
extract_frames ==
  /\ feasible > 0 /\ durations = None
  /\ max_frames \in 1..20
  /\ Len(gif) >= 1 /\ Readable(gif)
  /\ frames' = Indices(Len(gif), max_frames)
  /\ durations' = Durations(gif, max_frames)
  /\ UNCHANGED <<gif, max_frames, feasible, result>>

build_gif ==
  /\ durations # None /\ result = None
  /\ Len(frames) = Len(durations) /\ Buildable(durations)
  /\ result' = GifDelays(durations)
  /\ UNCHANGED <<gif, max_frames, feasible, frames, durations>>

Next == check_feasibility \/ extract_frames \/ build_gif

Spec == Init /\ [][Next]_vars

-----------------------------------------------------------------------------
(* Properties                                                              *)

Increasing(s) == \A i \in 1..Len(s) - 1 : s[i] < s[i + 1]

\* What extract_frames returns is what build_gif can use: frames in order from
\* the first, and from two on to the last, none twice, each shown for some
\* time, and none too long for the format if the frames can share the time.
FramesAreBuildable ==
  feasible > 0 /\ durations # None =>
    /\ Len(frames) = Len(durations)
    /\ Increasing(frames) /\ frames[1] = 0
    /\ Len(frames) > 1 => frames[Len(frames)] = Len(gif) - 1
    /\ Total(gif) <= Len(frames) * LongestDelay => Buildable(durations)

\* The result plays as long as the GIF it was made of, whatever frames it lost
\* and however both were rounded; an old job's to the next hundredth of a
\* second.  No frame of it is shown for no time.
TimingIsKept ==
  /\ FramesAreBuildable
  /\ result # None =>
       /\ \A i \in DOMAIN result : result[i] > 0 /\ result[i] % 10 = 0
       /\ IF feasible > 0 THEN Total(result) = Total(gif)
                          ELSE Total(result) = 10 * Round(Total(durations), 10)

-----------------------------------------------------------------------------
(* The inductive invariant: what was computed of which GIF.                *)

Computed ==
  /\ gif \in Gifs \cup {None}
  /\ feasible \in {Unknown, Len(gif)}
  /\ feasible > 0 /\ durations # None =>
       /\ Readable(gif) /\ max_frames \in 1..20
       /\ frames = Indices(Len(gif), max_frames)
       /\ durations = Durations(gif, max_frames)
  /\ ~(feasible > 0) /\ durations # None => durations \in OldDurations
  /\ durations = None => result = None
  /\ result # None => Buildable(durations) /\ result = GifDelays(durations)

IInv == Computed /\ TimingIsKept
=============================================================================
