SPECIFICATION AllSpec
CONSTANTS
  Addr <- ContractAndFresh
  Slot <- OneSlot
  MaxVal = 1
  DbInfo <- MCDbInfo
  DbStorage <- MCDbStorage
  Readers = {r1, r2}
  None = None
  Cancun = TRUE
  MaxCommits = 3
SYMMETRY Symmetric
VIEW PartView
INVARIANTS
  CancunReadsCurrent
  AccountsServePrefix
  TransitionsRebuild
  ChangesAreTracked
  MatchesCanonical
  RevertsUndo
