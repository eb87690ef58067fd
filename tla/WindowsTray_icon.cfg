SPECIFICATION FairSpec
CONSTANTS
  Shells = {1}
  MaxClicks = 1
  MaxOutside = 1
PROPERTIES
  IconComesBack
CHECK_DEADLOCK FALSE
