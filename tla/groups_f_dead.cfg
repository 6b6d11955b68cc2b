SPECIFICATION Spec
CONSTANTS
  Player = {a, b, c, d}
  Pet = {x}
  None = None
  Gone = Gone
  MaxSize = 3
  Scopes <- MC_Screens
  MaxGroups = 3
INVARIANTS NobodyInDeadGroup
SYMMETRY Alike
CHECK_DEADLOCK FALSE
