SPECIFICATION MCSpec
CONSTANTS
  Jobs = {j1, j2, j3}
  Grants = {g1, g2}
  Welcome = welcome
  NoLot = NoLot
  Amounts = {0, 2, 3, 4}
  COMPOSITION_COST = 2
  WELCOME_CREDIT = 4
  PASS_VALIDITY = 3
  COMPENSATION_VALIDITY = 1
  MaxTime = 5
  Sessions = {s1, s2}
  Nobody = Nobody
SYMMETRY Symmetry
CONSTRAINT FewTransactions
INVARIANTS
  BalanceIsSumOfLots
  LotAccounting
  RefundAlwaysHonoured
  EnoughMeansPayable
  LedgerHolds
PROPERTIES
  ExpiredLotsAreDead
  RefundIsUsable
CHECK_DEADLOCK FALSE
