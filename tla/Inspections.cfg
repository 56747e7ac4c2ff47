CONSTANTS
  PaneSets <- MCPaneSets
  Debounce = 1
  Backoff <- MCBackoff
  BackoffSteps = 2
  AckTimeout = 3
  PollMs = 3
  PollIdleMs = 4
  PollMax = 3
  MaxLosses = 2
  Request = {r1, r2}
  Op = {"file", "diff", "summary"}
  MaxActive = 1
  MaxQueued = 1
  MaxRounds = 1
  File = {f1, f2}
  Absent = Absent
SPECIFICATION MCSpec
INVARIANTS StreamSupervised NetPerLoss SlotsAreHeld
PROPERTIES EventIsRead InspectionAnswered
CHECK_DEADLOCK FALSE
