SPECIFICATION FairSpec
CONSTANTS
  Screens = {s1, s2}
  Areas = {bounds, panel}
  Bounds = bounds
  NoArea = none
  AtFirst = {s1}
  MaxChanges = 2
  MaxQueue = 2
  MaxBeats = 1
PROPERTIES
  TheWorldFollowsKWin
  ImplementsProvider
  CatchesUp
  StopReturns
