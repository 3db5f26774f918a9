\* A careful application and a peer that sends no urgent data.
SPECIFICATION LinkSpec
CONSTANTS
  UIP_CONNS = 1
  UIP_LISTENPORTS = 1
  UIP_TCP_MSS = 2
  UIP_RTO = 0
  UIP_MAXRTX = 1
  UIP_MAXSYNRTX = 1
  UIP_TIME_WAIT_TIMEOUT = 1
  SeqMod = 5
  TimerMod = 2
  p1 = p1
  nobody = nobody
  Peers = {p1}
  NoPeer = nobody
  Ports = {1}
  EphemeralPorts = {1}
  Rtos = {0}
  Segments = {}
  Replies <- MCReplies
  ReplySlens = {0, 2}
  ReplyActs = {"none", "stop", "restart", "close"}
  EndActs = {"none"}
  PeerBytes = 2
  AppBytes = 2
  PeerIss = 3
  MssOpts = {1, 2}
  Wnds = {1, 2}
  Urgps = {}
  Careful = TRUE
VIEW LinkView
INVARIANTS
  OneInFlight
  CloseHeard
PROPERTIES
  AppStream
  PeerStream
