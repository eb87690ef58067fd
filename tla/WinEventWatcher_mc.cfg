SPECIFICATION FairSpec
CONSTANTS
  Windows = {w1, w2}
  MaxChanges = 2
  EarlyDestruction = FALSE
INVARIANTS
  OneNoticeMendsAll
PROPERTIES
  ImplementsProvider
  NoticedIsSeen
  DestructorReturns
