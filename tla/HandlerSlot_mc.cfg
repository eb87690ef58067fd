SPECIFICATION FairSpec
CONSTANTS
  Setters = {s1, s2}
  Callers = {c1, c2}
  Handlers = {h1, h2, h3}
  None = None
INVARIANTS
  NoCallAfterClear
PROPERTIES
  ImplementsContract
  ClearReturns
