---------------------------- MODULE ArpHistory -----------------------------
(* ArpTable with what an observer of the network knows: how long ago each  *)
(* entry was written and what every host last said its address was.        *)
EXTENDS ArpTable

VARIABLES
  age,        \* [Slots -> ticks since the entry was written], up to MaxAge
  latest      \* [LocalNet -> the address last announced to us]

hvars == <<avars, age, latest>>

CONSTANT MaxAge      \* bound on age
ASSUME HistoryAssumption == MaxAge \in Nat /\ MaxAge >= UIP_ARP_MAXAGE

Older(n) == IF n < MaxAge THEN n + 1 ELSE n

\* The announcement of this step, if it is addressed to us.
Announce(ip, mac) ==
  /\ latest' = [h \in LocalNet |-> IF h = ip THEN mac ELSE latest[h]]
  /\ age' = [i \in Slots |-> IF Place(i, ip) THEN 0 ELSE age[i]]

HistoryInit == /\ ArpInit /\ age = [i \in Slots |-> 0]
               /\ latest = [h \in LocalNet |-> NoMac]

HistoryIn ==
  \/ \E ip \in Addrs, mac \in Macs : ArpRequest(ip, mac, OurIp) /\ Announce(ip, mac)
  \/ \E ip \in Hosts, mac \in Macs : ArpReply(ip, mac, OurIp) /\ Announce(ip, mac)
  \/ /\ \E ip \in Hosts, mac \in Macs, dip \in Addrs :
          ArpRequest(ip, mac, dip) \/ ArpReply(ip, mac, dip)
     /\ UNCHANGED <<age, latest>>
  \/ ArpOther /\ UNCHANGED <<age, latest>>

HistoryNext ==
  \/ HistoryIn
  \/ /\ ArpTimer
     /\ age' = [i \in Slots |-> Older(age[i])] /\ UNCHANGED latest
  \/ /\ \E dst \in Hosts \cup {BroadcastIp} : ArpOut(dst)
     /\ UNCHANGED <<age, latest>>

HistorySpec == HistoryInit /\ [][HistoryNext]_hvars

-----------------------------------------------------------------------------
(* An IP packet for a host of the local network leaves with the Ethernet   *)
(* address that host announced last, or not at all (uip_arp_out).          *)
ReachesOwner ==
  \A f \in sent : f.kind = "ip" /\ f.hop \in LocalNet \ HalfZero
                    => f.mac = latest[f.hop]

(* The timer flushes every entry that reaches UIP_ARP_MAXAGE before the    *)
(* clock wraps: no others survive it.                                      *)
FlushedUnlessWrapped ==
  \A i \in Slots :
    InUse(arp_table[i]) /\ age[i] >= UIP_ARP_MAXAGE
      => arp_table[i].time + UIP_ARP_MAXAGE >= TimeMod

(* While the clock has not wrapped under an entry, an entry is thrown away *)
(* only for want of an unused one and only if none is older                *)
(* (uip_arp_update, its third loop).                                       *)
ReplacesOldest ==
  \A i \in Slots :
    /\ \A j \in Slots : InUse(arp_table[j]) => Age(arp_table[j]) = age[j]
    /\ InUse(arp_table[i]) /\ arp_table'[i].ip # arp_table[i].ip
    /\ arptime' = arptime
    => \A j \in Slots : InUse(arp_table[j]) /\ age[j] <= age[i]
OldestReplaced == [][ReplacesOldest]_hvars

(* uip_arp.c:197 "If no unused entry is found, we try to find the oldest   *)
(* entry and throw it away": no entry is thrown away for a new one while   *)
(* an older one is kept, also across a wrap of the clock.                  *)
ThrowsOldestAway ==
  [][\A i, j \in Slots :
       /\ InUse(arp_table[i]) /\ arp_table'[i].ip # arp_table[i].ip
       /\ arptime' = arptime
       => age[j] <= age[i]]_hvars
=============================================================================
