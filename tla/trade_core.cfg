SPECIFICATION Spec
CONSTANTS
  Slots = 1
  Item = {coin}
  MaxAmount <- MaxStacks
  NoItem = NoItem
  Entity = {alice, bob, carol}
  None = None
  FirstInv <- OneCoin
  Deltas = {1}
  Npcs = {alice}
  Gifts <- Coin
  Ungated = TRUE
  Disturbed = {bob, carol}
  MaxTrades = 2
  alice = alice
  bob = bob
  carol = carol
  coin = coin
  sword = sword
INVARIANTS TypeOK TradesConsistent InvitesConsistent
SYMMETRY Others
CHECK_DEADLOCK FALSE
