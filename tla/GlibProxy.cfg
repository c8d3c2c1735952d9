CONSTANTS
  Conns = {c1}
  Threads = {main}
  Values = {v1}
  Nobody = Nobody
  NoSocket = NoSocket
  Backlog = 1
  SockBuf = 1
  MaxSends = 2
  AllowRestart = FALSE
  Main = main
  MaxSignals = 2
  NotifyMayFail = TRUE
SPECIFICATION ProxyFairSpec
CHECK_DEADLOCK FALSE
INVARIANT NoForgottenLink
INVARIANT ExitClosesSockets
INVARIANT ExitClosesLink
PROPERTY LinkFollowsClient
PROPERTY IdleLinkIsDropped
PROPERTY OrdinaryInterruptQuits
