CONSTANTS
  Values = {a, b}
  MaxPush = 4
SPECIFICATION FairSpec
INVARIANTS QueueInv NoUseAfterFree SizeNeverNegative
PROPERTIES ImplementsFifo OnlyOverlapsHide
CHECK_DEADLOCK FALSE
