CONSTANTS
  localhost = localhost
  example = example
  owner = owner
  phone = phone
  tablet = tablet
  k1 = k1
  k2 = k2
  None = None
  NoKey = NoKey
  Loopback = {localhost}
  Config <- MCConfig
  Me <- MCMe
  InitialFile <- MCInitialFile
  MaxEndpoints = 2
  MaxSubs = 2
  MaxFlows = 3
  MaxFaults = 1
  MaxCasts = 1
  MaxRestarts = 1
  Ino = {i1, i2}
  FileCap = 7
  Sample = 1
  Reader = {r1, r2}
  Contents <- MCContents
  MaxWrites = 2
  a = a
  b = b
SPECIFICATION MCSpec
INVARIANT NoMixedGenerations
CHECK_DEADLOCK FALSE
