SPECIFICATION FairSpec
CONSTANTS
  r1 = r1
  r2 = r2
  t1 = t1
  t2 = t2
  KgOrders = {}
  TossOrders = {due}
  DueOrders = {due}
  Txns = {t1}
  Keys = {k1}
  Requests = {r1, r2}
  NoRow = NoRow
  NoSale = NoSale
  NoTxn = NoTxn
  NoOrder = NoOrder
  NoKey = NoKey
  Nobody = Nobody
  Account = Account
PROPERTIES
  RequestsEnd
CHECK_DEADLOCK FALSE
