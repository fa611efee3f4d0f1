CONSTANTS
  Values = {a}
  MaxPush = 1
  Side = "linux"
  stay_alive = TRUE
  client_address = TRUE
  BufferSize = 2
  MaxSessions = 1
  MaxBytes = 1
  MaxDropped = 0
  Conns = {c1}
  MaxBroadcasts = 1
  MaxInputs = 1
  MaxMessages = 0
SPECIFICATION FairProgramSpec
PROPERTIES HangUpEndsSession IgnoredSocketDrainsQueue ByteReachesClients
CHECK_DEADLOCK FALSE
