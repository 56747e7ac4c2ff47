SPECIFICATION Spec
CONSTANTS
  Primary = home
  Others = {a}
  None = None
  Polling = {home, a}
  MaxOps = 1
INVARIANT GoneIsClosed
CHECK_DEADLOCK FALSE
