SPECIFICATION FairSpec
CONSTANTS
  c1 = c1
  Client = {c1}
  Places <- MC_Places
  dirt = dirt
  sand = sand
  wood = wood
  Block = {dirt, wood}
  Generated <- Stable
  None = None
  MaxJobs = 2
  MaxSerial = 1
  MaxOut = 1
  Placeable = {wood}
  MaxEdits = 1
  MaxReloads = 1
  global_limit = 1
  Configs <- MC_Configs
INVARIANTS ChunksConsistent EditsSurvive
PROPERTIES ChunksFollowClients
