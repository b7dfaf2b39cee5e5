SPECIFICATION Spec
CONSTANTS
  Addr <- ContractAndFresh
  Slot <- OneSlot
  MaxVal = 1
  DbInfo <- MCDbInfo
  DbStorage <- MCDbStorage
  Readers = {r1, r2}
  None = None
  Cancun = FALSE
  MaxCommits = 3
SYMMETRY Symmetric
VIEW ReadView
INVARIANTS RecreatedIsCleared
