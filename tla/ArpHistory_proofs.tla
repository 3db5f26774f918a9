------------------------- MODULE ArpHistory_proofs -------------------------
(* The table holds one entry per host, the entry of a local host is the    *)
(* latest it announced, and what survives the timer has outlived a wrap of *)
(* the clock: for any number of entries, hosts and ticks.                  *)
EXTENDS ArpHistory, TLAPS

\* What the entry of a host holds, so that the frames sent can rely on it.
Current ==
  \A i \in Slots : arp_table[i].ip \in LocalNet \ HalfZero
                     => arp_table[i].mac = latest[arp_table[i].ip]

\* The clock tells the age of an entry, or will wrap before its time is up.
ClockTells ==
  \A i \in Slots :
    InUse(arp_table[i]) =>
      \/ Age(arp_table[i]) = age[i] /\ age[i] < UIP_ARP_MAXAGE
      \/ arp_table[i].time + UIP_ARP_MAXAGE >= TimeMod

HistoryTypeOK == /\ age \in [Slots -> 0..MaxAge]
                 /\ latest \in [LocalNet -> Macs \cup {NoMac}]

ArpInv == /\ ArpTypeOK /\ HistoryTypeOK
          /\ OneEntryPerHost /\ Current /\ ClockTells /\ ReachesOwner

-----------------------------------------------------------------------------
(* uip_arp_update: the slot is determined, and a known host keeps its own. *)
LEMMA FirstUnique == ASSUME NEW S \in SUBSET Slots, NEW i, NEW j, First(i, S), First(j, S)
                     PROVE i = j
BY DEF First, Slots

LEMMA PlaceUnique ==
  ASSUME NEW ip, NEW i \in Slots, NEW j \in Slots, Place(i, ip), Place(j, ip)
  PROVE i = j
<1>1. /\ Known(ip) \in SUBSET Slots /\ Unused \in SUBSET Slots /\ Oldest \in SUBSET Slots
  BY DEF Known, Unused, Oldest, Aged
<1>2. CASE Known(ip) # {}
  BY <1>1, <1>2, FirstUnique DEF Place
<1>3. CASE Known(ip) = {} /\ Unused # {}
  BY <1>1, <1>3, FirstUnique DEF Place
<1>4. CASE Known(ip) = {} /\ Unused = {} /\ Aged # {}
  BY <1>1, <1>4, FirstUnique DEF Place
<1>5. CASE Known(ip) = {} /\ Unused = {} /\ Aged = {}
  BY <1>5 DEF Place
<1> QED BY <1>2, <1>3, <1>4, <1>5

LEMMA PlaceKnown ==
  ASSUME NEW ip, NEW i \in Slots, Place(i, ip), NEW j \in Slots,
         Checked(arp_table[j]), arp_table[j].ip = ip, OneEntryPerHost
  PROVE i = j
<1>1. j \in Known(ip) BY DEF Known
<1>2. i \in Known(ip) BY <1>1 DEF Place, First
<1> QED BY <1>2 DEF Known, OneEntryPerHost

-----------------------------------------------------------------------------
LEMMA InitArpInv == HistoryInit => ArpInv
<1> SUFFICES ASSUME HistoryInit PROVE ArpInv OBVIOUS
<1> USE ArpAssumption, HistoryAssumption DEF HistoryInit, ArpInit
<1>1. ArpTypeOK BY DEF ArpTypeOK, Entry, Addrs
<1>2. HistoryTypeOK BY DEF HistoryTypeOK
<1>3. \A i \in Slots : arp_table[i].ip = Unset OBVIOUS
<1>4. OneEntryPerHost /\ ClockTells BY <1>3 DEF OneEntryPerHost, ClockTells, Checked, InUse
<1>5. Current BY <1>3 DEF Current
<1>6. ReachesOwner BY DEF ReachesOwner
<1> QED BY <1>1, <1>2, <1>4, <1>5, <1>6 DEF ArpInv

(* An announcement to us, request or reply.                                *)
LEMMA AnnounceInv ==
  ASSUME ArpInv, NEW ip \in Addrs, NEW mac \in Macs,
         Update(ip, mac), Announce(ip, mac), UNCHANGED arptime,
         sent' \in SUBSET {Frame("reply", ip, mac)}
  PROVE ArpInv'
<1> USE ArpAssumption, HistoryAssumption
<1>1. PICK n \in Slots :
        /\ Place(n, ip)
        /\ arp_table' = [arp_table EXCEPT ![n] = [ip |-> ip, mac |-> mac, time |-> arptime]]
  BY DEF Update
<1>2. /\ arp_table \in [Slots -> Entry] /\ arptime \in 0..(TimeMod - 1)
      /\ age \in [Slots -> 0..MaxAge]
  BY DEF ArpInv, ArpTypeOK, HistoryTypeOK
<1>3. /\ arp_table'[n] = [ip |-> ip, mac |-> mac, time |-> arptime]
      /\ \A i \in Slots : i # n => arp_table'[i] = arp_table[i]
  BY <1>1, <1>2
<1>4. [ip |-> ip, mac |-> mac, time |-> arptime] \in Entry BY <1>2 DEF Entry
<1>5. ArpTypeOK'
  <2>1. arp_table' \in [Slots -> Entry] BY <1>1, <1>2, <1>4
  <2> QED BY <1>2, <2>1 DEF ArpTypeOK, Frame
<1>6. HistoryTypeOK' BY <1>2 DEF HistoryTypeOK, Announce, ArpInv
<1>7. OneEntryPerHost /\ Current /\ ClockTells BY DEF ArpInv
<1>8. OneEntryPerHost'
  <2> SUFFICES ASSUME NEW i \in Slots, NEW j \in Slots, Checked(arp_table'[i]),
                      arp_table'[i].ip = arp_table'[j].ip
               PROVE i = j
    BY DEF OneEntryPerHost
  <2>1. CASE i # n /\ j # n BY <1>3, <1>7, <2>1 DEF OneEntryPerHost
  <2>2. CASE i = n /\ j # n
    <3>1. Checked(arp_table[j]) /\ arp_table[j].ip = ip BY <1>3, <2>2 DEF Checked
    <3> QED BY <1>1, <1>7, <2>2, <3>1, PlaceKnown
  <2>3. CASE i # n /\ j = n
    <3>1. Checked(arp_table[i]) /\ arp_table[i].ip = ip BY <1>3, <2>3 DEF Checked
    <3> QED BY <1>1, <1>7, <2>3, <3>1, PlaceKnown
  <2> QED BY <2>1, <2>2, <2>3
<1>9. Current'
  <2> SUFFICES ASSUME NEW i \in Slots, arp_table'[i].ip \in LocalNet \ HalfZero
               PROVE arp_table'[i].mac = latest'[arp_table'[i].ip]
    BY DEF Current
  <2>1. latest' = [h \in LocalNet |-> IF h = ip THEN mac ELSE latest[h]] BY DEF Announce
  <2>2. CASE i = n BY <1>3, <2>1, <2>2
  <2>3. CASE i # n
    <3>1. arp_table'[i] = arp_table[i] BY <1>3, <2>3
    <3>2. arp_table[i].ip # ip
      <4>1. Checked(arp_table[i]) BY <3>1 DEF Checked
      <4> QED BY <1>1, <1>7, <2>3, <4>1, PlaceKnown
    <3> QED BY <1>7, <2>1, <3>1, <3>2 DEF Current
  <2> QED BY <2>2, <2>3
<1>10. ClockTells'
  <2> SUFFICES ASSUME NEW i \in Slots, InUse(arp_table'[i])
               PROVE \/ arptime' - arp_table'[i].time = age'[i] /\ age'[i] < UIP_ARP_MAXAGE
                     \/ arp_table'[i].time + UIP_ARP_MAXAGE >= TimeMod
    BY DEF ClockTells, Age
  <2>1. age' = [k \in Slots |-> IF Place(k, ip) THEN 0 ELSE age[k]] BY DEF Announce
  <2>2. CASE i = n
    <3>1. age'[i] = 0 BY <1>1, <2>1, <2>2
    <3>2. arp_table'[i].time = arptime BY <1>3, <2>2
    <3> QED BY <1>2, <3>1, <3>2
  <2>3. CASE i # n
    <3>1. ~Place(i, ip) BY <1>1, <2>3, PlaceUnique
    <3>2. age'[i] = age[i] /\ arp_table'[i] = arp_table[i] BY <1>3, <2>1, <2>3, <3>1
    <3> QED BY <1>7, <3>2 DEF ClockTells, Age
  <2> QED BY <2>2, <2>3
<1>11. ReachesOwner' BY DEF ReachesOwner, Frame
<1> QED BY <1>5, <1>6, <1>8, <1>9, <1>10, <1>11 DEF ArpInv

(* A step that leaves the table and its clock alone.                       *)
LEMMA SameTable ==
  ASSUME ArpInv, UNCHANGED <<arp_table, arptime, age, latest>>,
         \A f \in sent' : /\ f.kind \in {"ip", "request", "reply"}
                          /\ f.hop \in Addrs \cup {BroadcastIp}
                          /\ f.mac \in Macs \cup {NoMac, BroadcastMac},
         ReachesOwner'
  PROVE ArpInv'
<1>1. ArpTypeOK' /\ HistoryTypeOK' BY DEF ArpInv, ArpTypeOK, HistoryTypeOK
<1>2. OneEntryPerHost' BY DEF ArpInv, OneEntryPerHost
<1>3. Current' BY DEF ArpInv, Current
<1>4. ClockTells' BY DEF ArpInv, ClockTells, Age
<1> QED BY <1>1, <1>2, <1>3, <1>4 DEF ArpInv

LEMMA OutInv ==
  ASSUME ArpInv, NEW dst \in Hosts \cup {BroadcastIp}, ArpOut(dst), UNCHANGED <<age, latest>>
  PROVE ArpInv'
<1> USE ArpAssumption
<1>1. UNCHANGED <<arp_table, arptime>> BY DEF ArpOut
<1>2. arp_table \in [Slots -> Entry] /\ Current BY DEF ArpInv, ArpTypeOK
<1>3. CASE dst = BroadcastIp
  <2>1. sent' = {[kind |-> "ip", hop |-> dst, mac |-> BroadcastMac]} BY <1>3 DEF ArpOut, Frame
  <2>2. ReachesOwner' BY <1>3, <2>1 DEF ReachesOwner
  <2> QED BY <1>1, <1>3, <2>1, <2>2, SameTable
<1>4. CASE dst # BroadcastIp
  <2> DEFINE hop == NextHop(dst)
  <2>1. hop \in Addrs BY <1>4 DEF NextHop, Addrs
  <2>2. CASE Holds(hop) = {}
    <3>1. sent' = {[kind |-> "request", hop |-> hop, mac |-> BroadcastMac]}
      BY <1>4, <2>2 DEF ArpOut, Frame
    <3>2. ReachesOwner' BY <3>1 DEF ReachesOwner
    <3> QED BY <1>1, <2>1, <3>1, <3>2, SameTable
  <2>3. CASE Holds(hop) # {}
    <3>1. PICK i \in Slots : /\ First(i, Holds(hop))
                             /\ sent' = {[kind |-> "ip", hop |-> hop, mac |-> arp_table[i].mac]}
      BY <1>4, <2>3 DEF ArpOut, Frame
    <3>2. arp_table[i].ip = hop BY <3>1 DEF First, Holds
    <3>3. arp_table[i].mac \in Macs \cup {NoMac} BY <1>2 DEF Entry
    <3>4. ReachesOwner' BY <1>2, <3>1, <3>2 DEF ReachesOwner, Current
    <3> QED BY <1>1, <2>1, <3>1, <3>3, <3>4, SameTable
  <2> QED BY <2>2, <2>3
<1> QED BY <1>3, <1>4

(* uip_arp_timer                                                           *)
LEMMA TimerInv ==
  ASSUME ArpInv, ArpTimer, age' = [i \in Slots |-> Older(age[i])], UNCHANGED latest
  PROVE ArpInv'
<1> USE ArpAssumption, HistoryAssumption
<1>1. /\ arp_table \in [Slots -> Entry] /\ arptime \in 0..(TimeMod - 1)
      /\ age \in [Slots -> 0..MaxAge]
  BY DEF ArpInv, ArpTypeOK, HistoryTypeOK
<1>2. /\ arptime' \in 0..(TimeMod - 1)
      /\ arptime + 1 < TimeMod => arptime' = arptime + 1
      /\ arptime + 1 = TimeMod => arptime' = 0
  BY <1>1 DEF ArpTimer
<1>3. \A i \in Slots : \/ /\ Expired(arp_table[i], arptime')
                          /\ arp_table'[i] = [arp_table[i] EXCEPT !.ip = Unset]
                       \/ /\ ~Expired(arp_table[i], arptime')
                          /\ arp_table'[i] = arp_table[i]
  BY DEF ArpTimer
<1>4. \A i \in Slots :
        /\ arp_table'[i] \in Entry
        /\ arp_table'[i].mac = arp_table[i].mac /\ arp_table'[i].time = arp_table[i].time
        /\ arp_table'[i].ip # Unset => /\ arp_table'[i] = arp_table[i]
                                       /\ ~Expired(arp_table[i], arptime')
  BY <1>1, <1>3, ZenonT(40) DEF Entry, Addrs
<1>5. ArpTypeOK'
  <2>1. arp_table' \in [Slots -> Entry]
    <3>1. arp_table' = [i \in Slots |-> arp_table'[i]] BY DEF ArpTimer
    <3> QED BY <1>4, <3>1
  <2> QED BY <1>2, <2>1 DEF ArpTypeOK, ArpTimer
<1>6. HistoryTypeOK' BY <1>1 DEF HistoryTypeOK, ArpInv, Older
<1>7. OneEntryPerHost' BY <1>4 DEF ArpInv, OneEntryPerHost, Checked
<1>8. Current' BY <1>4 DEF ArpInv, Current
<1>9. ClockTells'
  <2> SUFFICES ASSUME NEW i \in Slots, InUse(arp_table'[i])
               PROVE \/ arptime' - arp_table'[i].time = age'[i] /\ age'[i] < UIP_ARP_MAXAGE
                     \/ arp_table'[i].time + UIP_ARP_MAXAGE >= TimeMod
    BY DEF ClockTells, Age
  <2> DEFINE e == arp_table[i]
  <2>1. /\ arp_table'[i] = e /\ InUse(e) /\ arptime' - e.time < UIP_ARP_MAXAGE
        /\ e.time \in 0..(TimeMod - 1)
    BY <1>1, <1>2, <1>4 DEF InUse, Expired, Entry
  <2>2. \/ arptime - e.time = age[i] /\ age[i] < UIP_ARP_MAXAGE
        \/ e.time + UIP_ARP_MAXAGE >= TimeMod
    BY <2>1 DEF ArpInv, ClockTells, Age
  <2>3. age[i] \in 0..MaxAge /\ (age[i] < MaxAge => age'[i] = age[i] + 1)
    BY <1>1 DEF Older
  <2> HIDE DEF e
  <2> QED BY <1>1, <1>2, <2>1, <2>2, <2>3
<1>10. ReachesOwner' BY DEF ReachesOwner, ArpTimer
<1> QED BY <1>5, <1>6, <1>7, <1>8, <1>9, <1>10 DEF ArpInv

-----------------------------------------------------------------------------
LEMMA HistoryInInv == ASSUME ArpInv, HistoryIn PROVE ArpInv'
<1>1. CASE \E ip \in Addrs, mac \in Macs : ArpRequest(ip, mac, OurIp) /\ Announce(ip, mac)
  <2>1. PICK ip \in Addrs, mac \in Macs : ArpRequest(ip, mac, OurIp) /\ Announce(ip, mac)
    BY <1>1
  <2>2. Update(ip, mac) /\ UNCHANGED arptime /\ sent' \in SUBSET {Frame("reply", ip, mac)}
    BY <2>1 DEF ArpRequest
  <2> QED BY <2>1, <2>2, AnnounceInv
<1>2. CASE \E ip \in Hosts, mac \in Macs : ArpReply(ip, mac, OurIp) /\ Announce(ip, mac)
  <2>1. PICK ip \in Hosts, mac \in Macs : ArpReply(ip, mac, OurIp) /\ Announce(ip, mac)
    BY <1>2
  <2>2. Update(ip, mac) /\ UNCHANGED arptime /\ sent' \in SUBSET {Frame("reply", ip, mac)}
    BY <2>1 DEF ArpReply
  <2>3. ip \in Addrs BY DEF Addrs
  <2> QED BY <2>1, <2>2, <2>3, AnnounceInv
<1>3. CASE /\ \E ip \in Hosts, mac \in Macs, dip \in Addrs :
                ArpRequest(ip, mac, dip) \/ ArpReply(ip, mac, dip)
           /\ UNCHANGED <<age, latest>>
  <2>1. OurIp \notin Addrs
    BY ArpAssumption DEF Addrs
  <2>2. UNCHANGED <<arp_table, arptime>> /\ sent' = {}
    BY <1>3, <2>1 DEF ArpRequest, ArpReply
  <2> QED BY <1>3, <2>2, SameTable DEF ReachesOwner
<1>4. CASE ArpOther /\ UNCHANGED <<age, latest>>
  BY <1>4, SameTable DEF ArpOther, ReachesOwner
<1> QED BY <1>1, <1>2, <1>3, <1>4 DEF HistoryIn

LEMMA HistoryNextInv == ArpInv /\ [HistoryNext]_hvars => ArpInv'
<1> SUFFICES ASSUME ArpInv, [HistoryNext]_hvars PROVE ArpInv' OBVIOUS
<1>1. CASE HistoryIn BY <1>1, HistoryInInv
<1>2. CASE ArpTimer /\ age' = [i \in Slots |-> Older(age[i])] /\ UNCHANGED latest
  BY <1>2, TimerInv
<1>3. CASE (\E dst \in Hosts \cup {BroadcastIp} : ArpOut(dst)) /\ UNCHANGED <<age, latest>>
  BY <1>3, OutInv
<1>4. CASE UNCHANGED hvars
  <2>1. UNCHANGED <<arp_table, arptime, age, latest, sent>> BY <1>4 DEF hvars, avars
  <2>2. ReachesOwner' BY <2>1 DEF ArpInv, ReachesOwner
  <2> QED BY <2>1, <2>2, SameTable DEF ArpInv, ArpTypeOK
<1> QED BY <1>1, <1>2, <1>3, <1>4 DEF HistoryNext

(* The strengthened invariant of the table and its history.                *)
THEOREM ArpInvariance == HistorySpec => []ArpInv
BY InitArpInv, HistoryNextInv, PTL DEF HistorySpec

(* The table keeps its type: the clock stays in 8 bits.                    *)
THEOREM ArpTypeCorrect == HistorySpec => []ArpTypeOK
<1>1. ArpInv => ArpTypeOK BY DEF ArpInv
<1> QED BY <1>1, ArpInvariance, PTL

(* uip_arp_update never enters a host twice, if no half of its address is  *)
(* zero (others it enters again: InsertedIfNotFound).                      *)
THEOREM OneEntry == HistorySpec => []OneEntryPerHost
<1>1. ArpInv => OneEntryPerHost BY DEF ArpInv
<1> QED BY <1>1, ArpInvariance, PTL

(* uip_arp_out sends to the address a local host announced last.           *)
THEOREM OwnerReached == HistorySpec => []ReachesOwner
<1>1. ArpInv => ReachesOwner BY DEF ArpInv
<1> QED BY <1>1, ArpInvariance, PTL

(* uip_arp_timer flushes all that do not outlive a wrap of its clock.      *)
THEOREM TimerFlushes == HistorySpec => []FlushedUnlessWrapped
<1>1. ArpInv => FlushedUnlessWrapped
  <2> SUFFICES ASSUME ArpInv, NEW i \in Slots, InUse(arp_table[i]), age[i] >= UIP_ARP_MAXAGE
               PROVE arp_table[i].time + UIP_ARP_MAXAGE >= TimeMod
    BY DEF FlushedUnlessWrapped
  <2>1. age[i] \in 0..MaxAge BY DEF ArpInv, HistoryTypeOK
  <2> QED BY <2>1, ArpAssumption, HistoryAssumption DEF ArpInv, ClockTells
<1> QED BY <1>1, ArpInvariance, PTL

-----------------------------------------------------------------------------
(* Who loses its slot to an announcement: nobody, unless all are in use,   *)
(* and then one of the oldest.                                             *)
LEMMA UpdateReplacesOldest ==
  ASSUME ArpInv, NEW ip, NEW mac, Update(ip, mac) PROVE ReplacesOldest
<1> SUFFICES ASSUME NEW i \in Slots,
                    \A j \in Slots : InUse(arp_table[j]) => Age(arp_table[j]) = age[j],
                    InUse(arp_table[i]), arp_table'[i].ip # arp_table[i].ip,
                    NEW j \in Slots
             PROVE  InUse(arp_table[j]) /\ age[j] <= age[i]
  BY DEF ReplacesOldest
<1>1. PICK n \in Slots :
        /\ Place(n, ip)
        /\ arp_table' = [arp_table EXCEPT ![n] = [ip |-> ip, mac |-> mac, time |-> arptime]]
  BY DEF Update
<1>2. arp_table \in [Slots -> Entry] /\ age \in [Slots -> 0..MaxAge] /\ MaxAge \in Nat
  BY HistoryAssumption DEF ArpInv, ArpTypeOK, HistoryTypeOK
<1>3. n = i /\ Place(i, ip) /\ arp_table[i].ip # ip
  BY <1>1, <1>2
<1>4. Known(ip) = {} /\ Unused = {}
  BY <1>3 DEF Place, First, Known, Unused
<1>5. InUse(arp_table[j]) /\ Age(arp_table[j]) = age[j] /\ Age(arp_table[i]) = age[i]
  BY <1>4 DEF Unused
<1>6. age[j] \in Nat /\ age[i] \in Nat
  BY <1>2
<1>7. CASE Aged = {}
  <2>1. ~(age[j] > 0) /\ ~(age[i] > 0)
    BY <1>5, <1>7 DEF Aged
  <2> QED
    BY <1>5, <1>6, <2>1
<1>8. CASE Aged # {}
  <2>1. i \in Oldest
    BY <1>3, <1>4, <1>8 DEF Place, First
  <2>2. CASE j \in Aged
    BY <1>5, <2>1, <2>2 DEF Oldest
  <2>3. CASE j \notin Aged
    <3>1. ~(age[j] > 0)
      BY <1>5, <2>3 DEF Aged
    <3> QED
      BY <1>5, <1>6, <3>1
  <2> QED
    BY <2>2, <2>3
<1> QED
  BY <1>7, <1>8

LEMMA StepReplacesOldest == ArpInv /\ [HistoryNext]_hvars => [ReplacesOldest]_hvars
<1> SUFFICES ASSUME ArpInv, HistoryNext PROVE ReplacesOldest
  OBVIOUS
<1>1. CASE \E ip, mac : Update(ip, mac)
  BY <1>1, UpdateReplacesOldest
<1>2. CASE UNCHANGED arp_table
  BY <1>2 DEF ReplacesOldest
<1>3. CASE ArpTimer
  <2>1. arptime \in 0..(TimeMod - 1) /\ TimeMod \in Nat /\ TimeMod > 1
    BY ArpAssumption DEF ArpInv, ArpTypeOK
  <2>2. arptime' # arptime
    BY <1>3, <2>1 DEF ArpTimer
  <2> QED
    BY <2>2 DEF ReplacesOldest
<1>4. HistoryIn => (\E ip, mac : Update(ip, mac)) \/ UNCHANGED arp_table
  BY DEF HistoryIn, ArpRequest, ArpReply, ArpOther
<1> QED
  BY <1>1, <1>2, <1>3, <1>4 DEF HistoryNext, ArpOut

(* While the clock tells the ages, an entry makes room for another address *)
(* only if there is no unused slot and no older entry, for any size of the *)
(* table.                                                                  *)
THEOREM OldestGoes == HistorySpec => OldestReplaced
BY ArpInvariance, StepReplacesOldest, PTL DEF HistorySpec, OldestReplaced
=============================================================================
