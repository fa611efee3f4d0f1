CONSTANTS
  Values = {a}
  MaxPush = 1
  Side = "windows"
  stay_alive = TRUE
  client_address = FALSE
  BufferSize = 2
  MaxSessions = 1
  MaxBytes = 2
  MaxDropped = 1
  Conns = {c1}
  MaxBroadcasts = 2
  MaxInputs = 0
  MaxMessages = 1
SPECIFICATION ProgramSpec
INVARIANTS AllHandedOn 
CHECK_DEADLOCK FALSE
