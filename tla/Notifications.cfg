SPECIFICATION FairSpec
CONSTANTS
  Panes = {p1, p2}
  Quiet <- MCQuiet
  None = "none"
INVARIANTS SlotShowsOutstanding AlertsMatchHerd BlockedNotForgotten OneBuzzPerBlock
PROPERTIES SnoozeIsSilent BlockReachesPhone
