SPECIFICATION Spec
CONSTANTS
  n1 = n1
  n2 = n2
  token = token
  swap = swap
  count = count
  Initialized = Initialized
  Deployments = Deployments
  Node <- Nodes
  Leader = {n1}
  Gateway = {n2}
  Service = {token, swap}
  Native = {token}
  Method <- Methods
  Key <- Keys
  Values = 3
  Code <- Codes
  TransactionSet <- TransactionSets
  Query <- Queries
  FailedEmit = TRUE
  History = 1
  Quorum = 1
  MaxHeight = 2
  Fuel = 20
INVARIANTS
  VMTypeOK
  SerialResults
  ValidatesEverywhere
  QueriesOneHeight
  InitializedOnce
