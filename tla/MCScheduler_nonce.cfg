SPECIFICATION Spec
CONSTANTS
  N = 3
  Loc <- MCLoc
  Ben <- coinbase
  Val <- MCVal
  MaxVal = 3
  Evm <- Rejections
  NonceOk <- NonceUsed
  InitStore <- MCInitStore
  NoTx = NoTx
  NoOne = NoOne
  Workers = {w1, w2}
  DbFail = {2}
SYMMETRY Symmetric
VIEW RankedView
PROPERTIES
  BlockOrder
