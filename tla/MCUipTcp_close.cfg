\* uip_close() called in any callback of an established connection.
SPECIFICATION Spec
CONSTANTS
  UIP_CONNS = 1
  UIP_LISTENPORTS = 1
  UIP_TCP_MSS = 1
  UIP_RTO = 1
  UIP_MAXRTX = 2
  UIP_MAXSYNRTX = 1
  UIP_TIME_WAIT_TIMEOUT = 2
  SeqMod = 2
  TimerMod = 17
  p1 = p1
  p2 = p2
  nobody = nobody
  Peers = {p1}
  NoPeer = nobody
  Ports = {1}
  EphemeralPorts = {}
  Rtos = {3}
  MaxLen = 1
  MssOpts = {1}
  Wnds = {0, 1}
  ReplySlens = {0, 2}
  ReplyActs = {"none", "close"}
  EndActs = {"none"}
  Segments <- MCSegments
  Replies <- MCReplies
PROPERTIES
  CloseTaken
