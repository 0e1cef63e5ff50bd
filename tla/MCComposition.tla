---------------------------- MODULE MCComposition ----------------------------
(* Compositions compete for the gate; jobs are interchangeable, so their    *)
(* permutations are symmetries of the safety properties.                    *)
EXTENDS Composition, TLC

Symmetry == Permutations(Jobs)

\* Either both jobs compete, each invoked once, or a single job may be invoked
\* twice.
Competing == \E i, j \in Jobs : i # j /\ request[i] # "new" /\ request[j] # "new"
InvokedOnce == \A r \in Runs : lambda[r] # "none" => r[2] = CHOOSE a \in Attempts : TRUE
CompeteOrRetry == Competing => InvokedOnce

-----------------------------------------------------------------------------
(* Liveness is checked without symmetry, from where the first job enters   *)
(* the gate: before that only jobs are looked at and given up.             *)

First == CHOOSE j \in Jobs : TRUE

Entered ==
  /\ now = 0
  /\ gate = FreeGate /\ locker = First /\ entered = now
  /\ status = [j \in Jobs |-> "ABSENT"] /\ payment = [j \in Jobs |-> "NONE"]
  /\ request = [j \in Jobs |-> IF j = First THEN "uploading" ELSE "new"]
  /\ polled = Never
  /\ lambda = [r \in Runs |-> "none"] /\ calls = {}
  /\ born = [r \in Runs |-> Never] /\ edited = [r \in Runs |-> Never]

\* In the fair run an invocation has one callback on its way at a time.
OneCallEach == \A c, d \in calls : c.run = d.run => c = d

EnteredFairSpec == Entered /\ [][Next]_vars /\ Fairness
=============================================================================
