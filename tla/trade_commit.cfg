SPECIFICATION OSpec
CONSTANTS
  Slots = 2
  Item = {x, y}
  MaxAmount <- MaxBoth
  NoItem = NoItem
  MaxOffer = 3
  x = x
  y = y
INVARIANTS EverythingFits
PROPERTIES ExactlyTheTerms
CHECK_DEADLOCK FALSE
