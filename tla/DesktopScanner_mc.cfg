SPECIFICATION ScannerSpec
CONSTANTS
  Windows <- MCWindows
  Frames <- MCFrames
  Kinds <- AnyKind
  Screens <- MCScreens
  Taskbar <- MCTaskbar
  MinimumWidth = 2
  MinimumHeight = 2
  NoEdge = NoEdge
INVARIANTS
  LedgesAreTheLongestVisible
  LandingIsTheHighest
  EveryWorkAreaHasAFloor
