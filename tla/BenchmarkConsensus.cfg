SPECIFICATION FairSpec
CONSTANTS
  n1 = n1
  n2 = n2
  n3 = n3
  b1 = b1
  b2 = b2
  Node <- Nodes
  Block <- Blocks
  Leader = n1
  Genesis = Genesis
  NoNode = NoNode
  Quorum = 1
  Batch = 2
  Chunk = 1
  MaxHeight = 2
  MaxFaults = 1
  MaxSyncing = 1
CHECK_DEADLOCK FALSE
INVARIANTS
  TypeOK
  Prefix
  QuorumFollows
PROPERTIES
  ImplementsLedger
  Progress
