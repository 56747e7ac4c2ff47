SPECIFICATION Spec
CONSTANTS
  PaneSets <- MCPaneSets
  Debounce = 1
  Backoff <- MCBackoff
  BackoffSteps = 2
  AckTimeout = 3
  PollMs = 3
  PollIdleMs = 4
  PollMax = 3
  MaxLosses = 2
INVARIANT SafetyNet
