SPECIFICATION Spec
INVARIANTS PersistenceConsistent LoadedRowIsCurrent
PROPERTIES ImplementsStore
CONSTANTS
  p1 = p1
  p2 = p2
  a = a
  b = b
  Player = {p1, p2}
  Char = {a, b}
  Owner <- OwnerEach
  Custom = {}
  Hardcore = {b}
  Coins <- OneCoin
  BatchId = {1, 2}
  NoChar = NoChar
  NoAction = NoAction
  MaxBacklog = 2
  MaxEvents = 2
  MayFail = FALSE
  MayCrash = TRUE
