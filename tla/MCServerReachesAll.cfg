CONSTANTS
  Conns = {c1, c2}
  Broadcasters = {input}
  MaxBroadcasts = 1
  MaxMessages = 0
SPECIFICATION Spec
INVARIANT BroadcastReachesAll
CHECK_DEADLOCK FALSE
