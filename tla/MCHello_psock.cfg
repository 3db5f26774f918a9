\* A greeting of more than one segment.
SPECIFICATION HelloSpec
CONSTANTS
  UIP_CONNS = 1
  UIP_LISTENPORTS = 1
  UIP_TCP_MSS = 3
  UIP_RTO = 0
  UIP_MAXRTX = 2
  UIP_MAXSYNRTX = 1
  UIP_TIME_WAIT_TIMEOUT = 1
  SeqMod = 11
  TimerMod = 2
  p1 = p1
  nobody = nobody
  Peers = {p1}
  NoPeer = nobody
  Ports = {1}
  EphemeralPorts = {}
  Rtos = {0}
  Segments = {}
  Replies <- MCReplies
  ReplySlens = {0, 1, 2, 3}
  EndActs = {"none"}
  PeerBytes = 4
  AppBytes = 8
  PeerIss = 6
  MssOpts = {3}
  Wnds = {3}
  Urgps = {}
  Careful = FALSE
  BufSize = 3
  EndMarkers = {3}
  GreetLen = 4
  Scripts <- MCScripts
  Polite = TRUE
VIEW HelloView
INVARIANTS
  SentIsReceived
