SPECIFICATION Spec
INVARIANTS NoDuplication

CONSTANTS
  p1 = p1
  p2 = p2
  a = a
  b = b
  Player = {p1, p2}
  Char = {a, b}
  Owner <- OwnerEach
  Custom = {}
  Hardcore = {}
  Coins <- OneCoin
  BatchId = {1, 2, 3}
  NoChar = NoChar
  NoAction = NoAction
  MaxBacklog = 2
  MaxEvents = 1
  MayFail = TRUE
  MayCrash = FALSE
