SPECIFICATION Spec
CONSTANTS
  r1 = r1
  r2 = r2
  t1 = t1
  t2 = t2
  KgOrders = {kg}
  TossOrders = {due}
  DueOrders = {due}
  Txns = {t1, t2}
  Keys = {k1}
  Requests = {r1, r2}
  NoRow = NoRow
  NoSale = NoSale
  NoTxn = NoTxn
  NoOrder = NoOrder
  NoKey = NoKey
  Nobody = Nobody
  Account = Account
SYMMETRY Symmetry
CONSTRAINT OneSale
INVARIANTS
  CreditIsBookedOnce
  EventsAreSettled
  KeyPaysOnce
PROPERTIES
  MissingCreditNeverGrows
  ApprovalsAreFinal
  ImplementsPaidOrder
CHECK_DEADLOCK FALSE
