SPECIFICATION FairSpec
INVARIANTS  BatchesAreWritable
PROPERTIES PendingActionsEnd LoadingEnds DisconnectAllEndsSessions DeletionReachesBatch
CONSTANTS
  p1 = p1
  p2 = p2
  a = a
  b = b
  Player = {p1, p2}
  Char = {a}
  Owner <- OwnerOne
  Custom = {p1, p2}
  Hardcore = {a}
  Coins <- NoCoins
  BatchId = {1, 2}
  NoChar = NoChar
  NoAction = NoAction
  MaxBacklog = 2
  MaxEvents = 2
  MayFail = TRUE
  MayCrash = TRUE
