CONSTANTS
  MaxSessions = 2
SPECIFICATION FairSpec
INVARIANT NothingInherited
PROPERTY HangUpReleases
CHECK_DEADLOCK FALSE
