SPECIFICATION Spec
CONSTANTS
  Given <- GivenBuilders
  Around <- OuterBuilders
  Depth = 4
  Natives <- NativeArguments
  NewNumbers <- OtherNumbers
  NewCells <- OtherCells
  MaxBuffers = 2
  MaxMutations = 1
  MaxCells = 10
\* The bounds stop the program.
CHECK_DEADLOCK FALSE
INVARIANT ReadsBack
INVARIANT Canonical
INVARIANT ArgumentsArrive
PROPERTY OriginalForm
