SPECIFICATION FairSpec
CONSTANTS
  Panes = {p1, p2}
  Statuses <- MCStatuses
  Attention <- MCAttention
  NoAgent = "none"
  PollId = {1, 2}
  MaxEpoch = 2
  MaxOutages = 1
  MaxStops = 1
INVARIANTS SingleFlight NoPokeLost ListenersMatchSnapshot
PROPERTIES SnapshotsMoveForward QuietAfterStop Converges
