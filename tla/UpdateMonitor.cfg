SPECIFICATION FairSpec
CONSTANTS
  Versions <- MCVersions
  DiskFails = TRUE
  Killed = TRUE
  MaxQueue = 2
INVARIANTS AnnouncedOnce OptOutCloses CleanStopCloses
PROPERTY ReleaseAnnounced
