SPECIFICATION Spec
CONSTANTS
  p = p
  q = q
  hello = hello
  other = other
  enter = enter
  esc = esc
  scope = scope
  bad = bad
  tabA = tabA
  tabB = tabB
  Wish <- MCWish
  Want <- MCWant
  Target <- MCTarget
  Script <- MCScript
  NoText = NoText
  NoId = NoId
  MaxPosts = 3
  MaxEntries = 1
  MaxRestarts = 1
INVARIANTS OnceUntilForgotten FailureIsHonest ReplyIsWhole
PROPERTY EveryPostAnswered
CHECK_DEADLOCK FALSE
