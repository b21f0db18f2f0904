SPECIFICATION FairSpec
CONSTANTS
  k1 = k1
  k2 = k2
  None = None
  Padding = Padding
  Width = 2
  MaxParticipants = 2
  PendingCalls = 1
  HandleLimit = 3
  Capacity = 3
  Phase <- MCPhase
  InitialPhase = "gathering"
  Key <- MCKey
  InputKind <- MCInputKind
  Entry <- MCEntry
  Offers <- MCOffers
  MaxMessages = 4
  MaxEpochs = 2
INVARIANTS
  InputsAccounted
  NothingStranded
  ContinuationKept
  CompletionExact
PROPERTIES
  KeepsOwnership
CHECK_DEADLOCK FALSE
