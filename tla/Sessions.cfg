CONSTANTS
  Primary = home
  Others = {a, b}
  None = None
  Polling = {a}
  MaxOps = 2
  Pane = {p, q}
  Size = {s1, s2}
  NoPane = NoPane
  MaxObservers = 2
  MaxLines = 1
SPECIFICATION MCSpec
INVARIANTS OneEngineEach ClosedUnlessReached NoProcessLeaks
PROPERTIES RegistryFollowsSockets SpeaksForWatch EndIsReported
CHECK_DEADLOCK FALSE
