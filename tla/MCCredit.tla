------------------------------- MODULE MCCredit -------------------------------
(* The instance of the credit account for TLC, in two ways: every service    *)
(* call as one step, or in the steps of concurrent transactions.  A use      *)
(* costs 2, a pass lasts 3 ticks and a compensation lot 1, so every lot can  *)
(* expire before its refund.                                                 *)
EXTENDS CreditTransactions, TLC

VARIABLE stepwise   \* FALSE: every call is one step

MCInit ==
  \/ stepwise = FALSE /\ Init /\ holder = Nobody /\ session = [s \in Sessions |-> Idle]
  \/ stepwise = TRUE /\ TInit

MCNext ==
  \/ ~stepwise /\ Next /\ UNCHANGED <<holder, session, stepwise>>
  \/ stepwise /\ TNext /\ UNCHANGED stepwise

MCSpec == MCInit /\ [][MCNext]_<<tvars, stepwise>>

\* Transactions are checked with one job and one grant less, less time
\* and charges of one use.
Called == UNION {{session[s].calls[i] : i \in DOMAIN session[s].calls} : s \in Sessions}
CalledFor == {c.of : c \in Called}

FewTransactions ==
  stepwise =>
    /\ now <= 3
    /\ \E j \in Jobs \ CalledFor : account.deducted[j] = NoLot
    /\ \E g \in Grants \ CalledFor : account.granted[g] = 0
    /\ \A c \in Called : c.op = "charge" => c.amount = 2

\* Jobs, grants and sessions are interchangeable.
Symmetry == Permutations(Jobs) \cup Permutations(Grants) \cup Permutations(Sessions)

\* After its expiration a lot is only ever emptied, all of it into the one
\* EXPIRATION transaction its unique source allows.  This is about the calls:
\* a transaction commits what was true when it read the clock.
ExpiredLotsAreDead == [][~stepwise => DeadLotsStayDead]_vars

\* Right after a refund the user can pay for another composition, however
\* late the failure came.
RefundIsUsable == [][~stepwise => RefundedIsPayable]_vars
=============================================================================
