SPECIFICATION AllSpec
CONSTANTS
  N = 2
  Workers = {w1, w2}
  StoreBuffer = TRUE
  BlockSize = 4
  Callers = {"c1", "c2"}
  WorkerNames <- OneWorker
  block_size = 2
  MaxPanics = 2
INVARIANTS
  AnswerIsCurrent
  NeverSleepsOnWork
  ReturnIsSound
  AnswerIsLaterCost
  FetchIsExact
  ReplayedInOrder
PROPERTIES
  FrontierCatchesUp
  CommitCatchesUp
  EveryCallReturns
  FetchEnds
  PipelineEnds
