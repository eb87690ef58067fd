SPECIFICATION FairSpec
CONSTANTS
  w1 = w1
  w2 = w2
  f1 = f1
  f2 = f2
  NoEdge = NoEdge
  Nobody = Nobody
  Owners = {w1, w2, f1, f2}
  TicksPerSecond = 100
  Steps <- OneTick
  Desktops <- OneDesktop
  OptionSets <- HastyOnly
  SpawnPoints <- MCSpawnPoints
  MaxPets = 1
  ElapsedCap = 2
  OutOfTheWorld = 9
  BelowFloor = 2
  AboveTop = 1
PROPERTIES
  WalkingGetsSomewhere
