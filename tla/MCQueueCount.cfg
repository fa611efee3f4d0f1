CONSTANTS
  Values = {a}
  MaxPush = 3
SPECIFICATION Spec
INVARIANT QueuedIsCounted
CHECK_DEADLOCK FALSE
