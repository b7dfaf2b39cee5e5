SPECIFICATION Spec
CONSTANTS
  Slots = {"s1", "s2"}
  s1 = "s1"
  Blocks <- RawBlocks
  OwnCodeOnly = FALSE
  MaxIncarnation = 2
CHECK_DEADLOCK FALSE
INVARIANTS
  FinalReadsSequential
