SPECIFICATION FairSpec
CONSTANTS
  a = a
  b = b
  c = c
  u = u
  v = v
  w = w
  x = x
  admin = admin
  Client = {a, b, c}
  Uuid = {u, v, w, x, admin}
  Role <- MC_Role
  Whitelist = {}
  BadAlias = {x}
  MaxPlayers = 1
  MaxBans = 1
  Types <- MC_Types
  Account <- MC_Account
  None = None
INVARIANTS SessionsConsistent BannedAreLeaving PlayersFit ListsAreCurrent
PROPERTIES BannedStayOut LoginsAreAnswered
CHECK_DEADLOCK FALSE
