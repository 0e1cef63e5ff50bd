------------------------------ MODULE MCPayment ------------------------------
(* Instances of PaymentProcessing for TLC.                                 *)
EXTENDS PaymentProcessing, TLC

CONSTANTS r1, r2, t1, t2

Symmetry == Permutations({r1, r2}) \cup Permutations({t1, t2})

\* Bound: one order at a time is paid at its provider.
OneSale == Cardinality({o \in Orders : sale[o] # NoSale}) <= 1
=============================================================================
