SPECIFICATION Spec
CONSTANTS
  Player = {a, b, c, d}
  Pet = {x, y}
  None = None
  Gone = Gone
  MaxSize = 3
  Scopes <- MC_Scopes
  MaxGroups = 2
INVARIANTS GroupsConsistent SizeLimit ClientsKnowGroup LeadersAreMembers NoStrayPets
SYMMETRY Alike
CHECK_DEADLOCK FALSE
