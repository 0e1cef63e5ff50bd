------------------------------ MODULE GifTiming ------------------------------
(***************************************************************************)
(* Which frames of a GIF are composited, and how long each is shown: the   *)
(* arithmetic of the GIF processor Lambda.  A GIF is the sequence of the   *)
(* delays of its frames in milliseconds.                                   *)
(***************************************************************************)
EXTENDS Naturals, Sequences

\* Python's round() of n / d: a tie goes to the even neighbour.
Round(n, d) ==
  LET q == n \div d  r == 2 * (n % d)
  IN IF r > d \/ (r = d /\ q % 2 = 1) THEN q + 1 ELSE q

Total(delays) ==
  LET sum[n \in 0..Len(delays)] == IF n = 0 THEN 0 ELSE sum[n - 1] + delays[n]
  IN  sum[Len(delays)]

\* The times between which consecutive frames are shown.
Between(boundaries) ==
  [i \in 1..Len(boundaries) - 1 |-> boundaries[i + 1] - boundaries[i]]

Centiseconds(delays) == [i \in DOMAIN delays |-> 10 * delays[i]]

\* The frames taken of a GIF of `total`, from 0: the first, the last, and as
\* evenly as can be in between.
Indices(total, max_frames) ==
  CASE max_frames = 1     -> <<0>>
    [] total > max_frames /\ max_frames # 1 ->
         [i \in 1..max_frames |-> Round((i - 1) * (total - 1), max_frames - 1)]
    [] OTHER              -> [i \in 1..total |-> i - 1]

\* GIFs count in hundredths of a second.
Readable(delays) == \A i \in DOMAIN delays : delays[i] > 0 /\ delays[i] % 10 = 0

\* The delays of the frames taken: a GIF that loses frames is divided evenly.
Durations(delays, max_frames) ==
  IF Len(delays) > max_frames
  THEN LET total_cs == Total(delays) \div 10
       IN Centiseconds(Between([i \in 1..max_frames + 1 |->
                                  Round((i - 1) * total_cs, max_frames)]))
  ELSE delays

\* Mutant: each delay is rounded on its own.
GifDelays_Each(durations) == [i \in DOMAIN durations |-> 10 * Round(durations[i], 10)]

\* What is written: the boundaries, not the delays, are rounded to the clock.
GifDelays(durations) ==
  Centiseconds(Between([i \in 1..Len(durations) + 1 |->
                          Round(Total(SubSeq(durations, 1, i - 1)), 10)]))

\* What the format can hold: 65535 hundredths of a second.
LongestDelay == 655350

Buildable(durations) ==
  /\ durations # <<>>
  /\ \A i \in DOMAIN durations : durations[i] > 0 /\ GifDelays(durations)[i] \in 1..LongestDelay
=============================================================================
