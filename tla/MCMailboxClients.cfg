SPECIFICATION Spec
CONSTANTS
  o1 = o1
  o2 = o2
  castMsg = castMsg
  callMsg = callMsg
  Owner <- MCOwner
  Message <- MCMessage
  ClauseLists <- MCClauseLists
  Capacity = 2
  MaxReservations = 4
  MaxGeneration = 1
  MaxId = 1
  MaxSelections = 1
SYMMETRY Symmetry
INVARIANTS
  OneTokenPerReservedSlot
  SelectionIsReceive
PROPERTIES
  DeadTokensStayDead
  ImplementsQueue
CHECK_DEADLOCK FALSE
