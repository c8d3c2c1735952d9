CONSTANTS
  Conns = {c1}
  Threads = {main, p1}
  Values = {v1}
  Nobody = Nobody
  NoSocket = NoSocket
  Backlog = 1
  SockBuf = 1
  MaxSends = 0
  AllowRestart = FALSE
  Ids = {d1, d2, d3}
  Named = {d1, d2}
  NoId = NoId
  Base = 2
  MaxTyped = 2
  Main = main
  MaxEvents = 1
  ServiceLists <- MCServiceLists
SPECIFICATION WinFairSpec
CHECK_DEADLOCK FALSE
PROPERTY LostSessionIsNoticed
