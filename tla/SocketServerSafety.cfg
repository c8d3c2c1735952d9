CONSTANTS
  Conns = {c1, c2}
  Threads = {t1, t2}
  Values = {v1, v2}
  Nobody = Nobody
  NoSocket = NoSocket
  Backlog = 1
  SockBuf = 2
  MaxSends = 3
  AllowRestart = FALSE
SPECIFICATION Spec
SYMMETRY Symmetry
INVARIANT LockDiscipline
INVARIANT SocketAccounting
INVARIANT StreamsAgree
INVARIANT ShutdownIsComplete
INVARIANT StartedMeansListening
PROPERTY HealthyClientsStay
PROPERTY ImplementsFeed
