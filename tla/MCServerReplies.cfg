CONSTANTS
  Conns = {c1, c2}
  Broadcasters = {input}
  MaxBroadcasts = 1
  MaxMessages = 1
SPECIFICATION FairSpec
INVARIANTS ServerInv HelloBeforeEchoes
PROPERTIES HelloArrives ClosedIsForgotten
CHECK_DEADLOCK FALSE
