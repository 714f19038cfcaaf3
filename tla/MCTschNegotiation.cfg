CONSTANTS
  Nbrs = {1, 2}
  NMax = 2
  IncN = 100
  ThresConsecutive = 2
  Requests = {1, 2, 101}
  RxNbrs = {2}
  TxNbrs = {1}
  InitSf <- MCInitSf
  InitMyN = 1
  EackValues = {0, 3, 5, 65535}
  MaxRouteChanges = 2
  MoreUnderProvision = 1
  ThresNInc = 2
  TrafficLoads = {0, 2, 4}
SPECIFICATION Spec
VIEW MCView
INVARIANTS TypeOK
PROPERTIES GrantAvoidsInstalled TxPlacementAvoidsInstalled
