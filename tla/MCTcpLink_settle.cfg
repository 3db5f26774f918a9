\* Fair ticks only; one byte each way.
SPECIFICATION LinkFair
CONSTANTS
  UIP_CONNS = 1
  UIP_LISTENPORTS = 1
  UIP_TCP_MSS = 1
  UIP_RTO = 0
  UIP_MAXRTX = 1
  UIP_MAXSYNRTX = 1
  UIP_TIME_WAIT_TIMEOUT = 1
  SeqMod = 4
  TimerMod = 2
  p1 = p1
  nobody = nobody
  Peers = {p1}
  NoPeer = nobody
  Ports = {1}
  EphemeralPorts = {1}
  Rtos = {0}
  Segments = {}
  Replies <- MCReplies
  ReplySlens = {0, 1}
  ReplyActs = {"none", "stop", "restart"}
  EndActs = {"none"}
  PeerBytes = 1
  AppBytes = 1
  PeerIss = 3
  MssOpts = {1}
  Wnds = {1}
  Urgps = {}
  Careful = TRUE
PROPERTIES
  Settles
