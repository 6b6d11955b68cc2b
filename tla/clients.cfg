SPECIFICATION CSpec
CONSTANTS
  Slots = 1
  Item = {coin}
  MaxAmount <- MaxStacks
  NoItem = NoItem
  Entity = {alice, bob}
  None = None
  FirstInv <- FirstSlots
  Deltas = {1}
  Npcs = {}
  Gifts <- NoGift
  Ungated = FALSE
  Disturbed = {}
  MaxTrades = 1
  MaxPressed <- Queues
  MaxShown <- Single
  alice = alice
  bob = bob
  coin = coin
INVARIANTS ShownTermsAreCurrent
PROPERTIES InformedConsent
CONSTRAINT OneInvite
CHECK_DEADLOCK FALSE
