SPECIFICATION PartsSpec
CONSTANTS
  t1 = t1
  t2 = t2
  t3 = t3
  t255 = t255
  None = None
  Txid <- MCTxid
  CastId = t255
  Slots = 2
  SequenceLimit = 4
  Depth = 1
  MaxFrames = 4
  MaxFaults = 1
  PendingCalls = 2
  HandleLimit = 5
  MaxMessages = 5
  l1 = l1
  l2 = l2
  e1 = e1
  c1 = c1
  Nothing = Nothing
  Lease <- TwoLeases
  Endpoint <- OneEndpoint
  Caller <- OneCaller
  NoOffer = NoOffer
  Ports = 3
  Address <- MCAddress
  Endpoints <- MCEndpoints
  Wanted <- MCWanted
  MaxLength = 3
INVARIANTS
  CallsBalance
  PacketsWhole
  BypassBound
  ExclusiveDescriptors
  ConfirmedIsClosed
PROPERTIES
  KeepsOwnership
  FailureReachesAll
  OffersTaken
  StoppedIsSettled
CHECK_DEADLOCK FALSE
