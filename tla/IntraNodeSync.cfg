SPECIFICATION FairSpec
CONSTANTS
  Service = {StateStorage, TransactionPool}
  StateStorage = StateStorage
  Persistent = {StateStorage}
  Key = {k1}
  Value = {v1}
  Null = Null
  Reader = {r1}
  History = 1
  Grace = 1
  WakeUpKept = TRUE
  MaxHeight = 4
  MaxRestarts = 1
INVARIANT SyncTypeOK
INVARIANT InOrder
INVARIANT SleepsOnlyInSync
INVARIANT ReadsExact
PROPERTY CatchesUp
