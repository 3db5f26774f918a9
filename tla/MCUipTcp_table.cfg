\* Two connections, two peers, two local ports: who gets which slot.
SPECIFICATION Spec
CONSTANTS
  UIP_CONNS = 2
  UIP_LISTENPORTS = 1
  UIP_TCP_MSS = 1
  UIP_RTO = 0
  UIP_MAXRTX = 0
  UIP_MAXSYNRTX = 0
  UIP_TIME_WAIT_TIMEOUT = 2
  SeqMod = 1
  TimerMod = 3
  p1 = p1
  p2 = p2
  nobody = nobody
  Peers = {p1, p2}
  NoPeer = nobody
  Ports = {1, 2}
  EphemeralPorts = {2}
  Rtos = {0}
  MaxLen = 0
  MssOpts = {1}
  Wnds = {1}
  ReplySlens = {0}
  ReplyActs = {"none","close"}
  EndActs = {"none"}
  Segments <- MCSegments
  Replies <- MCReplies
SYMMETRY Symmetry
INVARIANTS
  UniqueTuple
