------------------------------ MODULE Forward ------------------------------
(***************************************************************************)
(* Packet forwarding (uip-fw.c) and the splitting of outgoing segments     *)
(* (uip-split.c): the interface list, the cache that tells duplicates, and *)
(* the three ways into it, a packet received (uip_fw_forward), one of our  *)
(* own (uip_fw_output) and a full segment sent as two (uip_split_output).  *)
(*                                                                         *)
(* An interface is the set of addresses its netmask matches.  An interface *)
(* always accepts a packet.  The checksum of a packet is left out: it is   *)
(* adjusted as that of an echo reply is (Checksum), or computed anew.      *)
(***************************************************************************)
EXTENDS Naturals, Sequences, FiniteSets

CONSTANTS
  FWCACHE_SIZE, FW_TIME,
  UIP_TTL, TtlMod,         \* a u8_t
  Host, Broadcast,         \* uip_hostaddr; 255.255.255.255
  Netifs, NoNetif,         \* interfaces, each a set of addresses; NULL
  Received, Own,           \* packets that may come in; our own
  FullLen, NoPacket        \* uip_len of a full segment's payload

ASSUME ForwardAssumption ==
  /\ FWCACHE_SIZE \in Nat \ {0} /\ FW_TIME \in Nat \ {0}
  /\ TtlMod \in Nat /\ UIP_TTL \in 1..(TtlMod - 1) /\ FullLen \in Nat /\ NoNetif \notin Netifs
  /\ \A p \in Received \cup Own :
       /\ p = [ipid |-> p.ipid, src |-> p.src, dst |-> p.dst, proto |-> p.proto,
               ttl |-> p.ttl, at |-> p.at, len |-> p.len]
       /\ p.ttl \in 0..(TtlMod - 1)
  /\ \A p \in Received : p.src # Host

VARIABLES
  fwcache,          \* [timer, id]
  netifs,           \* the registered interfaces, first to be asked first
  defaultnetif,
  heard,            \* the packet uip_fw_forward() was called for, if it was
  out,              \* the packets this call has put out, in order
  recent            \* the last packets registered, newest first, and their age

fwvars == <<fwcache, netifs, defaultnetif, heard, out, recent>>
Cache == 1..FWCACHE_SIZE

(* What tells packets apart: not the payload, nor which half of a segment. *)
Id(p) == [ipid |-> p.ipid, src |-> p.src, dst |-> p.dst, proto |-> p.proto]

ForwardInit ==
  /\ fwcache = [i \in Cache |-> [timer |-> 0, id |-> NoPacket]]
  /\ netifs = <<>> /\ defaultnetif = NoNetif
  /\ heard = NoPacket /\ out = <<>> /\ recent = <<>>

-----------------------------------------------------------------------------
(* fwcache_register(): the first unused entry, else the last of those that *)
(* have the least time left.                                               *)
ReplacesFirst(c, i) == i = 1                          \* mutant
Replaced(c, i) ==
  \/ c[i].timer = 0 /\ \A j \in 1..(i - 1) : c[j].timer # 0
  \/ \A j \in Cache : /\ c[j].timer # 0 /\ c[i].timer <= c[j].timer
                      /\ j > i => c[i].timer < c[j].timer
Register(c, p) ==
  LET i == CHOOSE k \in Cache : Replaced(c, k)
  IN [c EXCEPT ![i] = [timer |-> FW_TIME, id |-> Id(p)]]
Noted(r, p) == SubSeq(<<[id |-> Id(p), age |-> 0]>> \o r, 1,
                      IF Len(r) <= FWCACHE_SIZE THEN Len(r) + 1 ELSE FWCACHE_SIZE + 1)

(* find_netif(): the first that matches, else the default.                 *)
FindNetif(p) ==
  LET match == {i \in DOMAIN netifs : p.dst \in netifs[i]}
  IN IF match = {} THEN defaultnetif ELSE netifs[CHOOSE i \in match : \A j \in match : i <= j]

(* uip_fw_output() for one packet or the two halves of one: each is        *)
(* registered, also if there is no route for it.                           *)
Output(ps) ==
  LET Into(c, k) == Register(c, ps[k])
      Known(r, k) == Noted(r, ps[k])
  IN /\ out' = IF FindNetif(ps[1]) = NoNetif THEN <<>> ELSE ps
     /\ fwcache' = IF Len(ps) = 1 THEN Into(fwcache, 1) ELSE Into(Into(fwcache, 1), 2)
     /\ recent' = IF Len(ps) = 1 THEN Known(recent, 1) ELSE Known(Known(recent, 1), 2)
     /\ UNCHANGED <<netifs, defaultnetif>>

Ignored(p) == out' = <<>> /\ UNCHANGED <<fwcache, netifs, defaultnetif, recent>>

(* time_exceeded(): the packet in the buffer becomes an answer to its      *)
(* sender, with its ipid.                                                  *)
TimeExceeded(p) == [ipid |-> p.ipid, src |-> Host, dst |-> p.src, proto |-> "icmp",
                    ttl |-> UIP_TTL, at |-> 0, len |-> 0]
OneHopLess(p) == [p EXCEPT !.ttl = (@ + TtlMod - 1) % TtlMod]

Duplicate(p) == \E i \in Cache : fwcache[i].timer # 0 /\ fwcache[i].id = Id(p)

LocalPacket(p) == \/ p.dst = Host
                  \/ p.dst = Broadcast /\ p.ttl <= 1 /\ ~Duplicate(p)

ExpiresAtZero(p) == p.ttl = 0                         \* mutant
Expires(p) == p.ttl <= 1

(* uip_fw_forward(): LOCAL, a duplicate, an expired packet or one to pass  *)
(* on.  No answer is made to an expired ICMP packet (uip_len = 0).         *)
FwForward(p) ==
  /\ heard' = p
  /\ IF LocalPacket(p) \/ Duplicate(p) THEN Ignored(p)
     ELSE IF ~Expires(p) THEN Output(<<OneHopLess(p)>>)
     ELSE IF p.proto = "icmp" THEN Ignored(p)
     ELSE Output(<<OneHopLess(TimeExceeded(p))>>)

FwOutput(p) == heard' = NoPacket /\ Output(<<p>>)

(* uip_split_output(): a full segment leaves as two of the same ipid, the  *)
(* second the longer one if they differ.                                   *)
Halves(p) == LET h == p.len \div 2 IN <<h, p.len - h>>
FwSplit(p) ==
  /\ heard' = NoPacket
  /\ IF p.proto = "tcp" /\ p.len = FullLen
     THEN Output(<<[p EXCEPT !.len = Halves(p)[1]],
                   [p EXCEPT !.at = @ + Halves(p)[1], !.len = Halves(p)[2]]>>)
     ELSE Output(<<p>>)

(* uip_fw_periodic()                                                       *)
FwPeriodic ==
  /\ fwcache' = [i \in Cache |-> [fwcache[i] EXCEPT !.timer = IF @ > 0 THEN @ - 1 ELSE 0]]
  /\ recent' = [k \in DOMAIN recent |->
                  [recent[k] EXCEPT !.age = IF @ < FW_TIME THEN @ + 1 ELSE @]]
  /\ heard' = NoPacket /\ out' = <<>> /\ UNCHANGED <<netifs, defaultnetif>>

(* uip_fw_register(), uip_fw_default(), uip_fw_init()                      *)
FwRegister(n) == n \notin {netifs[i] : i \in DOMAIN netifs} /\ netifs' = <<n>> \o netifs
                 /\ UNCHANGED defaultnetif
FwDefault(n) == defaultnetif' = n /\ UNCHANGED netifs
FwInit == netifs' = <<>> /\ defaultnetif' = NoNetif
FwSetup == /\ FwInit \/ \E n \in Netifs : FwRegister(n) \/ FwDefault(n)
           /\ heard' = NoPacket /\ out' = <<>> /\ UNCHANGED <<fwcache, recent>>

ForwardNext ==
  \/ \E p \in Received : FwForward(p)
  \/ \E p \in Own : FwOutput(p) \/ FwSplit(p)
  \/ FwPeriodic \/ FwSetup
ForwardSpec == ForwardInit /\ [][ForwardNext]_fwvars

-----------------------------------------------------------------------------
(* fwcache_register() "so that it won't be forwarded again" (uip-fw.c:277):*)
(* a packet that comes back within FW_TIME is not put out again, whatever  *)
(* was forwarded, sent or dropped meanwhile, as long as no more packets    *)
(* than the cache has entries were registered in its tick or later.        *)
Remembered(k) ==
  /\ recent[k].age < FW_TIME
  /\ Cardinality({j \in DOMAIN recent : recent[j].age <= recent[k].age}) <= FWCACHE_SIZE
ForwardsOnce ==
  [][\A k \in DOMAIN recent :
       Remembered(k) /\ heard' # NoPacket /\ Id(heard') = recent[k].id
         => out' = <<>>]_fwvars

(* uip-fw.c:156 "The number of packets to remember when looking for        *)
(* duplicates" is FWCACHE_SIZE: none of the last FWCACHE_SIZE packets that *)
(* were registered is put out when it comes again within FW_TIME.          *)
RemembersLast ==
  [][\A k \in DOMAIN recent :
       /\ k <= FWCACHE_SIZE /\ recent[k].age < FW_TIME
       /\ heard' # NoPacket /\ Id(heard') = recent[k].id
       => out' = <<>>]_fwvars

(* What a forwarder puts out dies out: a packet passed on has a lower time *)
(* to live than it came with, across the wrap of the u8_t, and only a      *)
(* packet that is itself no ICMP and no broadcast is answered.             *)
TtlFalls ==
  heard # NoPacket =>
    \A k \in DOMAIN out :
      \/ Id(out[k]) = Id(heard) /\ out[k].ttl < heard.ttl /\ out[k].ttl > 0
      \/ /\ out[k].src = Host /\ out[k].dst = heard.src /\ out[k].proto = "icmp"
         /\ heard.proto # "icmp" /\ heard.dst # Broadcast
=============================================================================
