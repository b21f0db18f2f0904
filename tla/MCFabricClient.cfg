SPECIFICATION LightSpec
CONSTANTS
  c1 = c1
  c2 = c2
  None = None
  Caller <- Callers
  Capacity = 2
  CastId = 2
  SendLimit = 2
  MaxSubmissions = 3
  MaxStray = 1
INVARIANTS
  RepliesMatch
  SlotHeldWhileOpen
PROPERTIES
  EveryCallAnswered
  AbandonedSlotsReturn
CHECK_DEADLOCK FALSE
