------------------------------ MODULE PaidOrder ------------------------------
(***************************************************************************)
(* What the payment services promise for each order: it is settled once,   *)
(* and a live payment's credit is given in the step that settles it, once. *)
(* An order may also start as DUE: paid and approved, credit missing, as   *)
(* the administrators' overview counts them.                               *)
(***************************************************************************)
EXTENDS Naturals

CONSTANT Orders

VARIABLES
  order,     \* what has become of each order
  credits    \* how many times its credit was given

vars == <<order, credits>>

Init ==
  /\ order \in [Orders -> {"ABSENT", "OPEN", "DUE"}]
  /\ credits = [o \in Orders |-> 0]

Create(o) ==
  /\ order[o] = "ABSENT"
  /\ order' = [order EXCEPT ![o] = "OPEN"]
  /\ UNCHANGED credits

\* A payment in the test environment is approved and never credited.
Test(o) ==
  /\ order[o] = "OPEN"
  /\ order' = [order EXCEPT ![o] = "TESTED"]
  /\ UNCHANGED credits

Credit(o) ==
  /\ order[o] \in {"OPEN", "DUE"}
  /\ order' = [order EXCEPT ![o] = "CREDITED"]
  /\ credits' = [credits EXCEPT ![o] = @ + 1]

Next == \E o \in Orders : Create(o) \/ Test(o) \/ Credit(o)

Spec == Init /\ [][Next]_vars
=============================================================================
