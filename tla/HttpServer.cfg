CONSTANTS
  Kinds <- AllKinds
  MaxRequests = 2
  Setups <- MCSetups
  Disk <- MCDisk
SPECIFICATION FairSpec
INVARIANTS RequestsAsSent
PROPERTIES EveryBlockIsSent GetsResponse
CHECK_DEADLOCK FALSE
