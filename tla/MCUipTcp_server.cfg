\* One connection (UIP_CONNS of uip-conf.h), opened from either side, an
\* application that may do anything in a callback, uip_stop() in the last one
\* included, and fair ticks.
SPECIFICATION FairSpec
CONSTANTS
  UIP_CONNS = 1
  UIP_LISTENPORTS = 1
  UIP_TCP_MSS = 1
  UIP_RTO = 1
  UIP_MAXRTX = 2
  UIP_MAXSYNRTX = 1
  UIP_TIME_WAIT_TIMEOUT = 2
  SeqMod = 2
  TimerMod = 17
  p1 = p1
  p2 = p2
  nobody = nobody
  Peers = {p1}
  NoPeer = nobody
  Ports = {1}
  EphemeralPorts = {1}
  Rtos = {1, 3}
  MaxLen = 1
  MssOpts = {1}
  Wnds = {0, 1}
  ReplySlens = {0, 2}
  ReplyActs = {"none", "stop", "restart", "close", "abort"}
  EndActs = {"none", "stop"}
  Segments <- MCSegments
  Replies <- MCReplies
INVARIANTS
  TypeOK
  LenCoupling
  RetryBudget
  TimerArmed
PROPERTIES
  StoppedTakesNothing
  SessionSpec
  NoHalfOpen
