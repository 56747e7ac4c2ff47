CONSTANTS
  Flushes = {f1, f2}
  None = None
  MaxSeq = 4
  b1 = b1
  Bridge = {b1, b2}
  Session = {s1}
  Primary = Primary
  Pane = {p}
  MaxSwitches = 1
SPECIFICATION MCSpec
INVARIANTS BuzzSurvives FlushCovers OnScreenIsHere
PROPERTIES MovesForward CreatedStays KeepsUp
CHECK_DEADLOCK FALSE
