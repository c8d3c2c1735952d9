CONSTANTS
  Conns = {c1}
  Threads = {t1}
  Values = {v1}
  Nobody = Nobody
  NoSocket = NoSocket
  Backlog = 1
  SockBuf = 1
  MaxSends = 2
  AllowRestart = FALSE
SPECIFICATION FairSpec
PROPERTY DisconnectIsNoticed
