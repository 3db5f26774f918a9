\* As MCParts.cfg: more packets within one tick than the cache of uip-fw.c holds.
SPECIFICATION PartsSpec
CONSTANTS
  ByteMod = 8
  Intervals <- MCIntervals
  MaxLag = 5
  MaxTick = 150
  OctetMod = 256
  RTO = 3
  MAXRTX = 2
  MaxRtt = 31
  Base = 4
  MsgLens = {4, 6, 7}
  ICMP_ECHO = 2
  Adds = {1, 3, 5, 15}
  Datagrams = {1, 2}
  PayloadLen <- MCPayloadLen
  Ours = {1}
  Unit = 2
  Width = 2
  BufSize = 12
  IPH_LEN = 1
  REASS_MAXAGE = 1
  UIP_ARPTAB_SIZE = 2
  UIP_ARP_MAXAGE = 3
  TimeMod = 5
  Hosts = {h1, h2, far}
  LocalNet = {h1, h2}
  HalfZero = {h2}
  Unset = unset
  OurIp = us
  BroadcastIp = all
  uip_draddr = unset
  Macs = {m1, m2}
  NoMac = zero
  BroadcastMac = ff
  MaxAge = 3
  ENTRIES = 3
  MAX_TIME = 2
  IPs = {"ip1", "ip2"}
  NoIp = "zero"
  LinkAddrs = {"a1", "a2"}
  NoAddr = "none"
  FirstBytes <- MCFirstBytes
  FWCACHE_SIZE = 2
  FW_TIME = 2
  UIP_TTL = 3
  TtlMod = 4
  Host = "host"
  Broadcast = "all"
  Netifs <- MCNetifs
  NoNetif = {}
  Received <- MCReceived
  Own <- MCOwn
  FullLen = 3
  nopacket = nopacket
  NoPacket = nopacket
PROPERTIES
  RemembersLast
CHECK_DEADLOCK FALSE
