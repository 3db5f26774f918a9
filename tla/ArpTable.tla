----------------------------- MODULE ArpTable ------------------------------
(***************************************************************************)
(* The address resolution table of uip_arp.c: arp_table and its 8 bit      *)
(* clock arptime, the packets that fill it, the timer that ages it and the *)
(* lookup that puts an Ethernet address on an outgoing IP packet.          *)
(*                                                                         *)
(* An IP address is a value; what the code tells apart is which addresses  *)
(* are on the local network, which are 0.0.0.0 (Unset) and which have one  *)
(* of their two 16 bit halves zero (HalfZero).                             *)
(***************************************************************************)
EXTENDS Integers

CONSTANTS
  UIP_ARPTAB_SIZE, UIP_ARP_MAXAGE,
  TimeMod,               \* 2^8 in the program
  Hosts,                 \* addresses other than ours, 0.0.0.0 and broadcast
  LocalNet,              \* those of our network
  HalfZero,
  Unset, OurIp, BroadcastIp,
  uip_draddr,            \* the default router
  Macs, NoMac, BroadcastMac

Slots == 1..UIP_ARPTAB_SIZE
Addrs == Hosts \cup {Unset}
Entry == [ip: Addrs, mac: Macs \cup {NoMac}, time: 0..(TimeMod - 1)]

ASSUME ArpAssumption ==
  /\ UIP_ARPTAB_SIZE \in Nat \ {0} /\ TimeMod \in Nat \ {0}
  /\ UIP_ARP_MAXAGE \in 1..(TimeMod - 1)
  /\ LocalNet \subseteq Hosts /\ HalfZero \subseteq Hosts
  /\ Unset \notin Hosts /\ OurIp \notin Addrs /\ BroadcastIp \notin Hosts
  /\ uip_draddr \in Addrs
  /\ NoMac \notin Macs /\ BroadcastMac \notin Macs

VARIABLES
  arp_table, arptime,
  sent           \* the frame this call hands to the driver: none or one

avars == <<arp_table, arptime, sent>>

\* hop: the address the frame is meant for; mac: where it goes.
Frame(kind, hop, mac) == [kind |-> kind, hop |-> hop, mac |-> mac]

\* The timer and the search for a free slot test for 0.0.0.0 only, the
\* search for an entry to refresh wants both halves non-zero.
InUse(e)   == e.ip # Unset
Checked(e) == e.ip # Unset /\ e.ip \notin HalfZero
Age(e)     == arptime - e.time          \* as int: negative after a wrap

-----------------------------------------------------------------------------
(* uip_arp_update: refresh the entry of this address, or take the first    *)
(* unused slot, or the first of the oldest.                                *)
Known(ip) == {i \in Slots : Checked(arp_table[i]) /\ arp_table[i].ip = ip}
Unused    == {i \in Slots : ~InUse(arp_table[i])}
Aged      == {i \in Slots : Age(arp_table[i]) > 0}
\* mutant: the comparison with the oldest so far is reversed
Youngest == {i \in Aged : \A j \in Aged : Age(arp_table[j]) >= Age(arp_table[i])}

Oldest    == {i \in Aged : \A j \in Aged : Age(arp_table[j]) <= Age(arp_table[i])}

First(i, S) == i \in S /\ \A j \in S : i <= j

\* mutant: a free slot is taken before the table is searched for the address
PlaceUnusedFirst(i, ip) ==
  CASE Unused # {} -> First(i, Unused)
    [] Unused = {} /\ Known(ip) # {} -> First(i, Known(ip))
    [] Unused = {} /\ Known(ip) = {} /\ Aged # {} -> First(i, Oldest)
    [] OTHER -> i = 1

Place(i, ip) ==
  CASE Known(ip) # {} -> First(i, Known(ip))
    [] Known(ip) = {} /\ Unused # {} -> First(i, Unused)
    [] Known(ip) = {} /\ Unused = {} /\ Aged # {} -> First(i, Oldest)
    [] OTHER -> i = 1

\* mutant: a known entry gets a new time but keeps its Ethernet address
UpdateTimeOnly(ip, mac) ==
  \E i \in Slots :
    /\ Place(i, ip)
    /\ arp_table' = [arp_table EXCEPT ![i] =
                       [ip |-> ip, time |-> arptime,
                        mac |-> IF Known(ip) # {} THEN arp_table[i].mac ELSE mac]]

Update(ip, mac) ==
  \E i \in Slots : /\ Place(i, ip)
                   /\ arp_table' = [arp_table EXCEPT ![i] =
                                      [ip |-> ip, mac |-> mac, time |-> arptime]]

(* uip_arp_arpin: only packets that ask for us, or answer us, count.       *)
ArpRequest(ip, mac, dip) ==
  /\ IF dip = OurIp
     THEN Update(ip, mac) /\ sent' = {Frame("reply", ip, mac)}
     ELSE UNCHANGED arp_table /\ sent' = {}
  /\ UNCHANGED arptime

ArpReply(ip, mac, dip) ==
  /\ IF dip = OurIp THEN Update(ip, mac) ELSE UNCHANGED arp_table
  /\ sent' = {} /\ UNCHANGED arptime

\* Too short, or another opcode.
ArpOther == sent' = {} /\ UNCHANGED <<arp_table, arptime>>

(* uip_arp_timer                                                           *)
\* mutant: an entry may live one tick longer
ExpiredLate(e, now) == InUse(e) /\ now - e.time > UIP_ARP_MAXAGE

Expired(e, now) == InUse(e) /\ now - e.time >= UIP_ARP_MAXAGE

\* mutant: a clock that does not wrap
ArpTimerWide ==
  /\ arptime' = arptime + 1
  /\ arp_table' = [i \in Slots |-> IF Expired(arp_table[i], arptime')
                                   THEN [arp_table[i] EXCEPT !.ip = Unset]
                                   ELSE arp_table[i]]
  /\ sent' = {}

ArpTimer ==
  /\ arptime' = (arptime + 1) % TimeMod
  /\ arp_table' = [i \in Slots |-> IF Expired(arp_table[i], arptime')
                                   THEN [arp_table[i] EXCEPT !.ip = Unset]
                                   ELSE arp_table[i]]
  /\ sent' = {}

(* uip_arp_out: the first entry that holds the address, in use or not.     *)
NextHop(dst) == IF dst \in LocalNet THEN dst ELSE uip_draddr
Holds(ip)    == {i \in Slots : arp_table[i].ip = ip}

ArpOut(dst) ==
  /\ IF dst = BroadcastIp THEN sent' = {Frame("ip", dst, BroadcastMac)}
     ELSE LET hop == NextHop(dst)
          IN IF Holds(hop) = {}
             THEN sent' = {Frame("request", hop, BroadcastMac)}
             ELSE \E i \in Slots : /\ First(i, Holds(hop))
                                   /\ sent' = {Frame("ip", hop, arp_table[i].mac)}
  /\ UNCHANGED <<arp_table, arptime>>

-----------------------------------------------------------------------------
ArpInit ==
  /\ arp_table = [i \in Slots |-> [ip |-> Unset, mac |-> NoMac, time |-> 0]]
  /\ arptime = 0 /\ sent = {}

\* A host that probes for our address says that its own is 0.0.0.0.
ArpIn ==
  \/ \E ip \in Addrs, mac \in Macs, dip \in Addrs \cup {OurIp} :
       ArpRequest(ip, mac, dip)
  \/ \E ip \in Hosts, mac \in Macs, dip \in Addrs \cup {OurIp} :
       ArpReply(ip, mac, dip)
  \/ ArpOther

ArpNext == \/ ArpIn \/ ArpTimer
           \/ \E dst \in Hosts \cup {BroadcastIp} : ArpOut(dst)

ArpSpec == ArpInit /\ [][ArpNext]_avars

-----------------------------------------------------------------------------
(* Type invariant of the table.                                            *)
ArpTypeOK ==
  /\ arp_table \in [Slots -> Entry]
  /\ arptime \in 0..(TimeMod - 1)
  /\ \A f \in sent : /\ f.kind \in {"ip", "request", "reply"}
                     /\ f.hop \in Addrs \cup {BroadcastIp}
                     /\ f.mac \in Macs \cup {NoMac, BroadcastMac}

(* A host whose address has no zero half has one entry, so that a lookup   *)
(* cannot find an outdated second one (uip_arp_update against              *)
(* uip_arp_timer and replacement).                                         *)
OneEntryPerHost ==
  \A i, j \in Slots :
    Checked(arp_table[i]) /\ arp_table[i].ip = arp_table[j].ip => i = j

(* uip_arp.c:161 "Walk through the ARP mapping table and try to find an    *)
(* entry to update.  If none is found, the IP -> MAC address mapping is    *)
(* inserted": no address in use is in the table twice, whatever address.   *)
InsertedIfNotFound ==
  \A i, j \in Slots :
    InUse(arp_table[i]) /\ arp_table[i].ip = arp_table[j].ip => i = j

(* uip_arp.h:96 "The Ethernet header will have the correct Ethernet MAC    *)
(* destination address filled in if an ARP table entry for the destination *)
(* IP address (or the IP address of the default router) is present": an IP *)
(* packet goes where an entry in use says, or to all.                      *)
CorrectMac ==
  \A f \in sent : f.kind = "ip" =>
    \/ f.hop = BroadcastIp
    \/ \E i \in Slots : /\ InUse(arp_table[i]) /\ arp_table[i].ip = f.hop
                         /\ arp_table[i].mac = f.mac
=============================================================================
