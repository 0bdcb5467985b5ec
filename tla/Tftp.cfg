SPECIFICATION FairSpec
CONSTANTS
  c1 = c1
  c2 = c2
  NoClient = NoClient
  Stranger = Stranger
  Clients = {c1, c2}
  Blocks = 3
  MaxSends = 3
  Networks <- SomeNetworks
  Capacity = 3
  MaxTransfers = 4
  MaxAsks = 2
INVARIANTS TypeOK CopyIsPrefix OneBlockAhead
PROPERTIES ImplementsFileTransfer ServerReturns EveryReadCompletes
CHECK_DEADLOCK FALSE
