SPECIFICATION LightSpec
CONSTANTS
  o1 = o1
  o2 = o2
  s1 = s1
  r1 = r1
  r2 = r2
  None = None
  Free = Free
  Retired = Retired
  Owner <- OneOwner
  Session <- OneSession
  Route <- OneRoute
  TxLimit = 2
  TxRouteLimit = 2
  RxLimit = 2
  RxRouteLimit = 1
  MaxTx = 2
  MaxFrames = 2
  MaxChannel = 1
PROPERTIES
  EveryWriteSettles
  StreamMoves
  DrainCompletes
CHECK_DEADLOCK FALSE
