SPECIFICATION FairSpec
CONSTANTS
  Shells = {1, 2}
  MaxClicks = 2
  MaxOutside = 1
INVARIANTS
  OneMenuPerClick
  MenuIsRight
PROPERTIES
  ClickOpensAMenu
  SettingsAreShown
  ShellsEnd
CHECK_DEADLOCK FALSE
