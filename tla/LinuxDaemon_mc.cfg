SPECIFICATION FairSpec
CONSTANTS
  Outputs = {1, 2}
  Nowhere = 0
  MaxInbox = 2
  SettingsAvailable = TRUE
  MaxEvents = 2
INVARIANTS
  OneFrameCallback
  MappedOnlyAsConfigured
  NobodyIsCalledTooLate
PROPERTIES
  StopIsObeyed
  LostOverlayEnds
  ItemIsListed
