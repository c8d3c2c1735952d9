CONSTANTS
  Conns = {c1}
  Threads = {main}
  Values = {v1}
  Nobody = Nobody
  NoSocket = NoSocket
  Backlog = 1
  SockBuf = 1
  MaxSends = 1
  AllowRestart = FALSE
  Main = main
  MaxSignals = 0
  NotifyMayFail = TRUE
SPECIFICATION ProxyFairSpec
CHECK_DEADLOCK FALSE
PROPERTY ActiveClientGetsLink
