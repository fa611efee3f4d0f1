CONSTANTS
  Conns = {c1, c2}
  Broadcasters = {input, tunnel}
  MaxBroadcasts = 2
  MaxMessages = 0
SPECIFICATION Spec
INVARIANTS ListIsExact BroadcastsWithoutGap
SYMMETRY Symmetry
CHECK_DEADLOCK FALSE
