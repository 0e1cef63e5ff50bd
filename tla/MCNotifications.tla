--------------------------- MODULE MCNotifications ---------------------------
(* One browser and two dispatchers: an instance for TLC, without symmetry,   *)
(* as a liveness property is among what is checked.                          *)
EXTENDS CompletionNotifications, TLC
=============================================================================
