SPECIFICATION FairSpec
CONSTANTS
  AwkwardFiles <- MCAwkwardFiles
  HandWritten <- MCHandWritten
  Known <- MCKnown
  Packs <- MCPacks
  Outputs <- MCOutputs
  Offered <- MCOffered
  SliderEnd <- MCSliderEnd
  PetsOptions = {0, 2}
  Cuts = {0, 3}
  MaxEdits = 2
  MaxCalls = 1
INVARIANTS
  PetsAreTheCast
  TicksAreHeeded
  ParsersAgreeOnPlainValues
  SavingSettles
PROPERTIES
  SpeedAloneMovesNobody
  SaveReachesThePets
