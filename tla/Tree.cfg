SPECIFICATION Spec
CONSTANTS
  NoOne = NoOne
  library = library
  shelf = shelf
  shelf2 = shelf2
  book = book
  page = page
  Nodes <- ShelfNodes
  Grown <- ShelfTree
  Sessions = {s1, s2}
  Moves = {"move", "childless"}
  MaxMoves = 2
SYMMETRY Symmetry
INVARIANTS
  TypeOK
  NoDanglingParent
  PathIsChain
PROPERTIES
  NoPopulatedMove
  MovesAsForest
CHECK_DEADLOCK FALSE
