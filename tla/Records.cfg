SPECIFICATION MCSpec
CONSTANTS
  Jobs = {j1, j2}
  Streams = {v1, v2}
  Forms = {f1, f2}
  Nobody = Nobody
  Photos = {j1, j2}
  Results = {r1}
  Tokens = {v1, v2}
  Requests = {w1}
  MaxWrites = 2
  NoToken = NoToken
  NoAsset = NoAsset
  RowIds = {1, 2, 3, 4}
  Writers = {f1, f2}
  Limit = 2
  MaxTime = 1
SYMMETRY Symmetry
CONSTRAINT FewClients
INVARIANTS
  ViewsAreHonest
  AssetsAreThere
  HistoryIsWhole
CHECK_DEADLOCK FALSE
