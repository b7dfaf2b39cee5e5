SPECIFICATION AllSpec
CONSTANTS
  x = x
  y = y
SYMMETRY Symmetry
INVARIANTS
  NothingHidden
  
