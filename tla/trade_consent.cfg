SPECIFICATION TimelySpec
CONSTANTS
  Slots = 2
  Item = {coin, sword}
  MaxAmount <- MaxStacks
  NoItem = NoItem
  Entity = {alice, bob}
  None = None
  FirstInv <- FirstSlots
  Deltas = {1}
  Npcs = {}
  Gifts <- NoGift
  Ungated = FALSE
  Disturbed = {alice}
  MaxTrades = 1
  alice = alice
  bob = bob
  carol = carol
  coin = coin
  sword = sword
PROPERTIES TradesAreConsented TermsFrozen AcceptanceIsFresh ListedInvitesExpire
CHECK_DEADLOCK FALSE
