SPECIFICATION Spec
CONSTANTS
  N = 2
  Loc <- MCLoc
  Ben <- coinbase
  Val <- MCVal
  MaxVal = 3
  Evm <- StaleFatal
  NonceOk <- AnyNonce
  InitStore <- MCInitStore
  NoTx = NoTx
  NoOne = NoOne
  Workers = {w1, w2}
  DbFail = {}
SYMMETRY Symmetric
VIEW RankedView
INVARIANTS ErrorInBlockOrder
