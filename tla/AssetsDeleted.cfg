SPECIFICATION Spec
CONSTANTS
  Photos = {p1}
  Results = {r1}
  Tokens = {t1, t2}
  Requests = {w1, w2}
  MaxWrites = 2
  NoToken = NoToken
  NoAsset = NoAsset
PROPERTIES
  DeletedIsNotShared
CHECK_DEADLOCK FALSE
