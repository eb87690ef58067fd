SPECIFICATION Spec
CONSTANTS
  Loop = loop
  Publisher = publisher
  Host = host
  None = None
  MaxVersion = 4
INVARIANTS
  NoCallIntoADeadHost
  CaughtUpAfterFirstHandover
PROPERTIES
  WorldNeverGoesBack
