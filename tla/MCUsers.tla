------------------------------- MODULE MCUsers -------------------------------
(* An instance of UserSessions for TLC.                                    *)
EXTENDS UserSessions, TLC

CONSTANTS w1, w2, u1, u2, google, kakao

Symmetry == Permutations({w1, w2}) \cup Permutations({u1, u2}) \cup Permutations({google, kakao})
=============================================================================
