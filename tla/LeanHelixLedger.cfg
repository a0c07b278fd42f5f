SPECIFICATION FairSpec
CONSTANTS
  n1 = n1
  n2 = n2
  n3 = n3
  n4 = n4
  Node <- Committee
  OrderedCommittee <- Rotation
  Live = {n1, n2, n3, n4}
  Connected = {n1, n2, n3}
  F = 1
  Block = {b1, b2}
  NoBlock = NoBlock
  MaxView = 0
  MaxHeight = 2
\* The bounds stop the system: no timeout beyond MaxView, no term beyond
\* MaxHeight.
CHECK_DEADLOCK FALSE
INVARIANT TermFollowsStorage
PROPERTY ImplementsLedger
PROPERTY OnlyForward
PROPERTY Progress
