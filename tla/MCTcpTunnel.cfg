CONSTANTS
  Values = {a, b}
  MaxPush = 2
  Side = "linux"
  stay_alive = TRUE
  client_address = TRUE
  BufferSize = 2
  MaxSessions = 2
  MaxBytes = 2
  MaxDropped = 1
SPECIFICATION TunnelSpec
INVARIANTS TunnelInv NullCallOnlyAtStart NoStaleDescriptor LeaksOnlyAfterFailure WrittenOnceInOrder FewLateSends
PROPERTY DropsPrecedePushes
CHECK_DEADLOCK FALSE
