SPECIFICATION ApiSpec
CONSTANTS
  n1 = n1
  n2 = n2
  t1 = t1
  Node <- Nodes
  Tx <- Transactions
  Timestamp <- Timestamps
  NoNode = NoNode
  Gateway = n1
  Sent = t1
  Window = 1
  FutureGrace = 1
  IgnoreAge = 2
  SyncReject = 2
  Jitter = 1
  QueryGrace = 0
  SyncWarning = 3
  BlockSize = 1
  Quorum = 2
  MaxTime = 3
  MaxHeight = 2
CHECK_DEADLOCK FALSE
INVARIANT ReceiptFound
