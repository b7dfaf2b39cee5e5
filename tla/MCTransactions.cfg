SPECIFICATION AllSpec
CONSTANTS
  Addr = {a1, a2}
  Key = {k1}
  Val = {0, 1}
  Zero = 0
  NoFault = NoFault
  MaxOps = 3
  Workers = {w1, w2, w3}
  None = None
  N = 2
SYMMETRY Symmetry
INVARIANTS
  FirstFaultDecides
  LaterTxsStayValid
  SettlementIsExact
  LivesAreSequential
  NoLockCycle
  NothingStranded
PROPERTIES
  OnlyDelegatedStopped
