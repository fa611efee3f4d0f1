CONSTANTS
  Values = {a, b}
  MaxPush = 4
SPECIFICATION FairShutdownSpec
INVARIANTS SafeUntilHeadIsDeleted NothingLeaks
PROPERTY ExitEnds
CHECK_DEADLOCK FALSE
