--------------------------- MODULE Tables_proofs ---------------------------
(***************************************************************************)
(* The two tables with entries that age and are replaced.  A lookup in the *)
(* neighbor table finds the address added last, for every size of the      *)
(* table and any choice among the entries to replace.  The forwarder puts  *)
(* out nothing that lives longer than what it heard, for every width of    *)
(* the time to live, every cache and every interface; and it does not put  *)
(* out again what it registered within FW_TIME, for every size of the      *)
(* cache, as long as no more packets than that came since.                 *)
(***************************************************************************)
EXTENDS Neighbor, Forward, FiniteSetTheorems, SequenceTheorems, Numbers_proofs

(* The shape of the table, whatever the ages.                              *)
NShape ==
  /\ entries \in [Index -> [ipaddr: IPs \cup {NoIp}, addr: LinkAddrs \cup {NoAddr}, time: Nat]]
  /\ newest \in [IPs -> LinkAddrs \cup {NoAddr}]
  /\ doubled \in [IPs -> BOOLEAN]

(* LookupNewest is not inductive: the first of two entries of an address   *)
(* may be replaced, and then the other is found.  Unless doubled there is  *)
(* one only.                                                               *)
OneNewest ==
  \A ip \in IPs : ~doubled[ip] =>
    \A i \in Index : entries[i].ipaddr = ip =>
      /\ entries[i].addr = newest[ip]
      /\ \A j \in Index : entries[j].ipaddr = ip => j = i

NInv == NShape /\ OneNewest

-----------------------------------------------------------------------------
(* The empty table has no entry for any address.                           *)
LEMMA NInitInv == NeighborInit => NInv
<1> SUFFICES ASSUME NeighborInit PROVE NInv
  OBVIOUS
<1>1. NShape
  <2>1. \A i \in Index : entries[i] \in [ipaddr: IPs \cup {NoIp},
                                          addr: LinkAddrs \cup {NoAddr}, time: Nat]
    BY NeighborAssumption DEF NeighborInit
  <2>2. entries \in [Index -> [ipaddr: IPs \cup {NoIp}, addr: LinkAddrs \cup {NoAddr}, time: Nat]]
    BY <2>1 DEF NeighborInit
  <2> QED
    BY <2>2 DEF NeighborInit, NShape
<1>2. OneNewest
  <2>1. \A i \in Index : entries[i].ipaddr = NoIp
    BY DEF NeighborInit
  <2> QED
    BY <2>1, NeighborAssumption DEF OneNewest
<1> QED
  BY <1>1, <1>2 DEF NInv

(* An entry that gets older stays what it is.                              *)
LEMMA OlderKeeps ==
  ASSUME NEW e \in [ipaddr: IPs \cup {NoIp}, addr: LinkAddrs \cup {NoAddr}, time: Nat]
  PROVE  /\ NextAge(e) \in [ipaddr: IPs \cup {NoIp}, addr: LinkAddrs \cup {NoAddr}, time: Nat]
         /\ NextAge(e).ipaddr = e.ipaddr /\ NextAge(e).addr = e.addr
BY DEF NextAge

(* uip_neighbor_periodic() changes the ages only.                          *)
LEMMA NPeriodicInv == NInv /\ NeighborPeriodic => NInv'
<1> SUFFICES ASSUME NInv, NeighborPeriodic PROVE NInv'
  OBVIOUS
<1>1. \A i \in Index : /\ entries'[i] \in [ipaddr: IPs \cup {NoIp},
                                           addr: LinkAddrs \cup {NoAddr}, time: Nat]
                       /\ entries'[i].ipaddr = entries[i].ipaddr
                       /\ entries'[i].addr = entries[i].addr
  <2>1. \A i \in Index : entries'[i] = NextAge(entries[i])
    BY DEF NeighborPeriodic
  <2>2. \A i \in Index : entries[i] \in [ipaddr: IPs \cup {NoIp},
                                          addr: LinkAddrs \cup {NoAddr}, time: Nat]
    BY DEF NInv, NShape
  <2> QED
    BY <2>1, <2>2, OlderKeeps
<1>2. NShape'
  BY <1>1 DEF NInv, NShape, NeighborPeriodic
<1>3. OneNewest'
  BY <1>1 DEF NInv, OneNewest, NeighborPeriodic
<1> QED
  BY <1>2, <1>3 DEF NInv

(* uip_neighbor_update() changes one age only.                             *)
LEMMA NUpdateInv == NInv /\ NeighborUpdate => NInv'
<1> SUFFICES ASSUME NInv, NeighborUpdate PROVE NInv'
  OBVIOUS
<1>1. \A i \in Index : /\ entries'[i] \in [ipaddr: IPs \cup {NoIp},
                                           addr: LinkAddrs \cup {NoAddr}, time: Nat]
                       /\ entries'[i].ipaddr = entries[i].ipaddr
                       /\ entries'[i].addr = entries[i].addr
  BY DEF NInv, NShape, NeighborUpdate
<1>2. NShape'
  BY <1>1 DEF NInv, NShape, NeighborUpdate
<1>3. OneNewest'
  BY <1>1 DEF NInv, OneNewest, NeighborUpdate
<1> QED
  BY <1>2, <1>3 DEF NInv

(* uip_neighbor_add(), whichever entry it replaces: an address that has no *)
(* other entry has one afterwards at most, the new one.                    *)
LEMMA NAddInv == NInv /\ NeighborAdd => NInv'
<1> SUFFICES ASSUME NInv, NeighborAdd PROVE NInv'
  OBVIOUS
<1>1. PICK ip \in IPs, addr \in LinkAddrs, i \in Index :
        /\ Replaces(i, addr) /\ entries' = NewEntries(i, ip, addr)
        /\ newest' = [newest EXCEPT ![ip] = addr]
        /\ doubled' = [x \in IPs |->
             IF \A j \in Index \ {i} : entries[j].ipaddr # x THEN FALSE
             ELSE x = ip \/ doubled[x]]
  BY Zenon DEF NeighborAdd
<1>2. /\ entries'[i] = [ipaddr |-> ip, addr |-> addr, time |-> 0]
      /\ \A j \in Index \ {i} : entries'[j] = entries[j]
  BY <1>1 DEF NewEntries, NInv, NShape
<1>3. NShape'
  <2>1. entries' \in [Index -> [ipaddr: IPs \cup {NoIp},
                                addr: LinkAddrs \cup {NoAddr}, time: Nat]]
    BY <1>1 DEF NewEntries, NInv, NShape
  <2>2. newest' \in [IPs -> LinkAddrs \cup {NoAddr}]
    BY <1>1 DEF NInv, NShape
  <2>3. doubled' \in [IPs -> BOOLEAN]
    BY <1>1, Zenon DEF NInv, NShape
  <2> QED
    BY <2>1, <2>2, <2>3 DEF NShape
<1>4. OneNewest'
  <2> SUFFICES ASSUME NEW x \in IPs, ~doubled'[x],
                      NEW k \in Index, entries'[k].ipaddr = x
               PROVE  /\ entries'[k].addr = newest'[x]
                      /\ \A j \in Index : entries'[j].ipaddr = x => j = k
    BY DEF OneNewest
  <2>1. CASE \A j \in Index \ {i} : entries[j].ipaddr # x
    BY <1>1, <1>2, <2>1 DEF NInv, NShape
  <2>2. CASE ~\A j \in Index \ {i} : entries[j].ipaddr # x
    <3>1. x # ip /\ ~doubled[x]
      BY <1>1, <2>2
    <3>2. newest'[x] = newest[x]
      BY <1>1, <3>1 DEF NInv, NShape
    <3> QED
      BY <1>2, <3>1, <3>2 DEF NInv, OneNewest
  <2> QED
    BY <2>1, <2>2
<1> QED
  BY <1>3, <1>4 DEF NInv

-----------------------------------------------------------------------------
(* uip_neighbor_lookup() returns the link address with which the IP        *)
(* address was added last, unless it was added while it had an entry.      *)
THEOREM NewestFound == NeighborSpec => []LookupNewest
<1>1. NInv /\ [NeighborNext]_neighborvars => NInv'
  <2> SUFFICES ASSUME NInv, [NeighborNext]_neighborvars PROVE NInv'
    OBVIOUS
  <2>1. CASE UNCHANGED neighborvars
    BY <2>1 DEF neighborvars, NInv, NShape, OneNewest
  <2> QED
    BY <2>1, NPeriodicInv, NUpdateInv, NAddInv DEF NeighborNext
<1>2. NInv => LookupNewest
  BY DEF NInv, OneNewest, LookupNewest, HasEntry
<1> QED
  BY NInitInv, <1>1, <1>2, PTL DEF NeighborSpec

-----------------------------------------------------------------------------
(* The new time to live is one less: the u8_t does not wrap for a packet   *)
(* that has not expired, and the rest of the header is kept.               *)
LEMMA AgedFalls ==
  ASSUME NEW p \in Received, ~Expires(p)
  PROVE  Id(OneHopLess(p)) = Id(p) /\ OneHopLess(p).ttl < p.ttl /\ OneHopLess(p).ttl > 0
<1>1. /\ p.ttl \in 0..(TtlMod - 1) /\ TtlMod \in Nat
      /\ p = [ipid |-> p.ipid, src |-> p.src, dst |-> p.dst, proto |-> p.proto,
              ttl |-> p.ttl, at |-> p.at, len |-> p.len]
  BY ForwardAssumption
<1>2. p.ttl > 1
  BY <1>1 DEF Expires
<1>3. (p.ttl + TtlMod - 1) % TtlMod = p.ttl - 1
  <2>1. p.ttl - 1 \in 0..(TtlMod - 1)
    BY <1>1, <1>2
  <2>2. p.ttl + TtlMod - 1 = (p.ttl - 1) + TtlMod
    BY <1>1
  <2> QED
    BY <1>1, <2>1, <2>2
<1>4. /\ OneHopLess(p).ttl = p.ttl - 1 /\ OneHopLess(p).ipid = p.ipid /\ OneHopLess(p).src = p.src
      /\ OneHopLess(p).dst = p.dst /\ OneHopLess(p).proto = p.proto
  BY <1>1, <1>3 DEF OneHopLess
<1> QED
  BY <1>1, <1>2, <1>4 DEF Id

(* The answer to an expired packet is an ICMP packet to its sender.        *)
LEMMA AnswerIsIcmp ==
  ASSUME NEW p \in Received
  PROVE  LET a == OneHopLess(TimeExceeded(p))
         IN a.src = Host /\ a.dst = p.src /\ a.proto = "icmp"
<1> DEFINE x == TimeExceeded(p)
<1>2. x = [ipid |-> p.ipid, src |-> Host, dst |-> p.src, proto |-> "icmp",
           ttl |-> UIP_TTL, at |-> 0, len |-> 0]
  BY DEF TimeExceeded
<1>3. OneHopLess(x) = [ipid |-> p.ipid, src |-> Host, dst |-> p.src, proto |-> "icmp",
                 ttl |-> (UIP_TTL + TtlMod - 1) % TtlMod, at |-> 0, len |-> 0]
  <2> HIDE DEF x
  <2> QED
    BY <1>2 DEF OneHopLess
<1> HIDE DEF x
<1> QED
  BY <1>3 DEF x

(* What uip_fw_output() puts out of one packet: that packet or nothing.    *)
LEMMA OutputOne ==
  ASSUME NEW q, Output(<<q>>)
  PROVE  \A k \in DOMAIN out' : out'[k] = q
BY DEF Output

LEMMA ForwardTtl == (\E p \in Received : FwForward(p)) => TtlFalls'
<1> SUFFICES ASSUME NEW p \in Received, FwForward(p) PROVE TtlFalls'
  OBVIOUS
<1>1. heard' = p
  BY DEF FwForward
<1>2. CASE out' = <<>>
  BY <1>2 DEF TtlFalls
<1>3. CASE ~Expires(p) /\ Output(<<OneHopLess(p)>>)
  <2>1. \A k \in DOMAIN out' : out'[k] = OneHopLess(p)
    BY <1>3, OutputOne
  <2> QED
    BY <1>1, <1>3, <2>1, AgedFalls DEF TtlFalls, Id
<1>4. CASE /\ ~LocalPacket(p) /\ ~Duplicate(p) /\ Expires(p) /\ p.proto # "icmp"
           /\ Output(<<OneHopLess(TimeExceeded(p))>>)
  <2>1. p.dst # Broadcast
    BY <1>4 DEF LocalPacket, Expires
  <2>2. \A k \in DOMAIN out' : out'[k] = OneHopLess(TimeExceeded(p))
    BY <1>4, OutputOne
  <2> QED
    BY <1>1, <1>4, <2>1, <2>2, AnswerIsIcmp DEF TtlFalls
<1> QED
  BY <1>2, <1>3, <1>4 DEF FwForward, Ignored

-----------------------------------------------------------------------------
(* A packet passed on has a lower time to live than it came with, and only *)
(* a packet that is no ICMP and no broadcast is answered: what forwarders  *)
(* do with a packet comes to an end, for every width of the time to live.  *)
THEOREM TtlAlwaysFalls == ForwardSpec => []TtlFalls
<1>1. ForwardInit => TtlFalls
  BY DEF ForwardInit, TtlFalls
<1>2. TtlFalls /\ [ForwardNext]_fwvars => TtlFalls'
  <2> SUFFICES ASSUME TtlFalls, [ForwardNext]_fwvars PROVE TtlFalls'
    OBVIOUS
  <2>1. CASE \E p \in Received : FwForward(p)
    BY <2>1, ForwardTtl
  <2>2. CASE (\E p \in Own : FwOutput(p) \/ FwSplit(p)) \/ FwPeriodic \/ FwSetup
    BY <2>2 DEF FwOutput, FwSplit, FwPeriodic, FwSetup, TtlFalls
  <2>3. CASE UNCHANGED fwvars
    BY <2>3 DEF fwvars, TtlFalls, Id
  <2> QED
    BY <2>1, <2>2, <2>3 DEF ForwardNext
<1> QED
  BY <1>1, <1>2, PTL DEF ForwardSpec

-----------------------------------------------------------------------------
(* The time since an entry in use was registered.                          *)
Age(c, i) == FW_TIME - c[i].timer

(* The cache after an entry is taken for a packet.                         *)
Taken(c, i, p) ==
  [j \in Cache |-> IF j = i THEN [timer |-> FW_TIME, id |-> Id(p)] ELSE c[j]]

(* The entries and the record of what was registered, newest first.        *)
Entries(c) ==
  /\ c = [i \in Cache |-> [timer |-> c[i].timer, id |-> c[i].id]]
  /\ \A i \in Cache : c[i].timer \in 0..FW_TIME
Shape(c, r) ==
  /\ Entries(c)
  /\ r \in Seq({r[k] : k \in DOMAIN r}) /\ Len(r) <= FWCACHE_SIZE + 1
  /\ \A k \in DOMAIN r : r[k] = [id |-> r[k].id, age |-> r[k].age] /\ r[k].age \in 0..FW_TIME
  /\ \A j, k \in DOMAIN r : j <= k => r[j].age <= r[k].age

(* w[i] is the place in the record of the packet that entry i tells, 0 if  *)
(* it is no longer there.  What is not older than FW_TIME is still told,   *)
(* unless every entry is in use for a packet that came no earlier.         *)
Tells(c, r, w) ==
  /\ \A i \in Cache : c[i].timer > 0 /\ w[i] # 0 =>
        /\ w[i] \in DOMAIN r /\ r[w[i]].id = c[i].id /\ r[w[i]].age = Age(c, i)
        /\ \A j \in Cache : c[j].timer > 0 /\ w[j] = w[i] => j = i
  /\ \A i \in Cache : c[i].timer > 0 /\ w[i] = 0 =>
        Len(r) = FWCACHE_SIZE + 1 /\ r[FWCACHE_SIZE + 1].age <= Age(c, i)
  /\ \A k \in DOMAIN r : r[k].age < FW_TIME =>
        \/ \E i \in Cache : c[i].timer > 0 /\ w[i] = k
        \/ \A i \in Cache : c[i].timer > 0 /\ Age(c, i) <= r[k].age

History(c, r) ==
  Shape(c, r) /\ \E w \in [Cache -> 0..(FWCACHE_SIZE + 1)] : Tells(c, r, w)

-----------------------------------------------------------------------------
(* The cache has a place and a time.                                        *)
LEMMA SizesKnown == FWCACHE_SIZE \in Nat /\ FWCACHE_SIZE > 0 /\ FW_TIME \in Nat /\ FW_TIME > 0
BY ForwardAssumption

(* There is always an entry to replace.                                    *)
LEMMA ReplacedExists ==
  ASSUME NEW c, \A i \in Cache : c[i].timer \in 0..FW_TIME
  PROVE  \E k \in Cache : Replaced(c, k)
<1>1. CASE \E i \in Cache : c[i].timer = 0
  <2> DEFINE T == {i \in Cache : c[i].timer = 0}
  <2>1. T \subseteq Nat /\ T # {}
    BY <1>1, SizesKnown DEF Cache
  <2>2. PICK x \in T : \A y \in T : x <= y
    BY <2>1, LeastNumber
  <2>3. \A j \in 1..(x - 1) : c[j].timer # 0
    <3>1. \A j \in 1..(x - 1) : j \in Cache /\ ~(x <= j)
      BY SizesKnown DEF Cache
    <3> QED
      BY <2>2, <3>1
  <2> QED
    BY <2>3 DEF Replaced
<1>2. CASE \A i \in Cache : c[i].timer # 0
  <2> DEFINE T == {c[i].timer : i \in Cache}
  <2>1. T \subseteq Nat /\ T # {}
    <3>1. 1 \in Cache
      BY SizesKnown DEF Cache
    <3>2. \A i \in Cache : c[i].timer \in Nat
      BY SizesKnown
    <3> QED
      BY <3>1, <3>2
  <2>2. PICK t \in T : \A y \in T : t <= y
    BY <2>1, LeastNumber
  <2> DEFINE L == {FWCACHE_SIZE - i : i \in {m \in Cache : c[m].timer = t}}
  <2>3. L \subseteq Nat /\ L # {}
    BY <2>2, SizesKnown DEF Cache
  <2>4. PICK l \in L : \A y \in L : l <= y
    BY <2>3, LeastNumber
  <2>5. PICK i \in Cache : c[i].timer = t /\ l = FWCACHE_SIZE - i
    BY <2>4
  <2>6. ASSUME NEW j \in Cache PROVE c[i].timer <= c[j].timer
    BY <2>2, <2>5
  <2>7. ASSUME NEW j \in Cache, j > i PROVE c[i].timer < c[j].timer
    <3>1. c[j].timer # t
      <4>1. SUFFICES ASSUME c[j].timer = t PROVE FALSE
        OBVIOUS
      <4>2. FWCACHE_SIZE - j \in L
        BY <4>1
      <4> HIDE DEF L
      <4>3. FWCACHE_SIZE - i <= FWCACHE_SIZE - j
        BY <4>2, <2>4, <2>5
      <4>4. i \in Int /\ j \in Int /\ FWCACHE_SIZE \in Int
        BY SizesKnown DEF Cache
      <4> QED
        BY <4>3, <4>4, <2>7
    <3>2. c[i].timer \in Int /\ c[j].timer \in Int
      OBVIOUS
    <3> QED
      BY <3>1, <3>2, <2>5, <2>6
  <2> QED
    BY <1>2, <2>6, <2>7 DEF Replaced
<1> QED
  BY <1>1, <1>2

(* What fwcache_register() does to the cache.                              *)
LEMMA RegisterIs ==
  ASSUME NEW c, Entries(c), NEW p
  PROVE  \E i \in Cache : Replaced(c, i) /\ Register(c, p) = Taken(c, i, p)
<1> DEFINE i == CHOOSE k \in Cache : Replaced(c, k)
<1>1. i \in Cache /\ Replaced(c, i)
  BY ReplacedExists DEF Entries
<1>2. Register(c, p) = [c EXCEPT ![i] = [timer |-> FW_TIME, id |-> Id(p)]]
  BY DEF Register
<1> HIDE DEF i
<1>3. c = [j \in Cache |-> c[j]]
  <2>1. \A j \in Cache : c[j] = [timer |-> c[j].timer, id |-> c[j].id]
    BY DEF Entries
  <2> QED
    BY <2>1, Zenon DEF Entries
<1> DEFINE e == [timer |-> FW_TIME, id |-> Id(p)]
<1> HIDE DEF e
<1>4. [c EXCEPT ![i] = e] = [j \in Cache |-> IF j = i THEN e ELSE c[j]]
  BY <1>1, <1>3
<1> QED
  BY <1>1, <1>2, <1>4 DEF e, Taken

(* The record after a packet: it comes first, the last one may fall out.   *)
LEMMA NotedIs ==
  ASSUME NEW r, r \in Seq({r[k] : k \in DOMAIN r}), Len(r) <= FWCACHE_SIZE + 1, NEW p
  PROVE  LET s == Noted(r, p)
         IN /\ s \in Seq({s[k] : k \in DOMAIN s}) /\ DOMAIN s = 1..Len(s)
            /\ Len(s) = IF Len(r) <= FWCACHE_SIZE THEN Len(r) + 1 ELSE FWCACHE_SIZE + 1
            /\ s[1] = [id |-> Id(p), age |-> 0]
            /\ \A k \in 2..Len(s) : s[k] = r[k - 1]
<1> DEFINE x == [id |-> Id(p), age |-> 0]
           S == {r[k] : k \in DOMAIN r} \cup {x}
           one == <<x>>
           m == IF Len(r) <= FWCACHE_SIZE THEN Len(r) + 1 ELSE FWCACHE_SIZE + 1
           s == SubSeq(one \o r, 1, m)
<1>1. r \in Seq(S) /\ Len(r) \in Nat
  <2>1. Len(r) \in Nat /\ r \in [1..Len(r) -> {r[k] : k \in DOMAIN r}] /\ DOMAIN r = 1..Len(r)
    BY LenProperties
  <2> QED
    BY <2>1, SeqDef
<1>2. one \in Seq(S) /\ Len(one) = 1 /\ one[1] = x
  OBVIOUS
<1> HIDE DEF S, x
<1>3. m \in 1..(Len(r) + 1) /\ m \in Nat
  BY <1>1, SizesKnown
<1>4. Noted(r, p) = s
  BY DEF Noted, x
<1> HIDE DEF one, m
<1> DEFINE t == one \o r
<1>5. /\ t \in Seq(S) /\ Len(t) = 1 + Len(r)
      /\ \A i \in 1..(1 + Len(r)) : t[i] = IF i <= 1 THEN one[i] ELSE r[i - 1]
  <2>1. /\ t \in Seq(S) /\ Len(t) = Len(one) + Len(r)
        /\ \A i \in 1..(Len(one) + Len(r)) :
             t[i] = IF i <= Len(one) THEN one[i] ELSE r[i - Len(one)]
    BY <1>1, <1>2, ConcatProperties
  <2> QED
    BY <2>1, <1>2
<1>6. \A i \in 1..m : t[i] \in S
  <2>1. t \in [1..Len(t) -> S]
    BY <1>5, LenProperties
  <2> QED
    BY <1>1, <1>3, <1>5, <2>1
<1> HIDE DEF t
<1>7. /\ SubSeq(t, 1, m) \in Seq(S)
      /\ Len(SubSeq(t, 1, m)) = m
      /\ \A i \in 1..m : SubSeq(t, 1, m)[i] = t[i]
  <2>1. 1 \in Int /\ m \in Int /\ 1 <= m
    BY <1>1, <1>3
  <2>2. /\ SubSeq(t, 1, m) \in Seq(S)
        /\ Len(SubSeq(t, 1, m)) = IF 1 <= m THEN m - 1 + 1 ELSE 0
        /\ \A i \in 1..(m - 1 + 1) : SubSeq(t, 1, m)[i] = t[1 + i - 1]
    BY <2>1, <1>6, SubSeqProperties
  <2>3. m - 1 + 1 = m /\ \A i \in 1..m : 1 + i - 1 = i
    BY <2>1
  <2> QED
    BY <2>1, <2>2, <2>3
<1>8. s = SubSeq(t, 1, m)
  BY DEF t
<1> HIDE DEF s
<1>9. s \in Seq(S) /\ Len(s) = m /\ \A i \in 1..m : s[i] = t[i]
  BY <1>7, <1>8
<1>10. DOMAIN s = 1..Len(s) /\ s \in [1..Len(s) -> S]
  BY <1>9, LenProperties
<1>11. s \in Seq({s[k] : k \in DOMAIN s})
  <2>1. s \in [1..Len(s) -> {s[k] : k \in DOMAIN s}]
    BY <1>10
  <2> QED
    <3>1. Len(s) \in Nat
      BY <1>3, <1>9
    <3> QED
      BY <2>1, <3>1, SeqDef
<1>12. s[1] = x
  BY <1>2, <1>3, <1>5, <1>9
<1>13. \A k \in 2..Len(s) : s[k] = r[k - 1]
  BY <1>1, <1>3, <1>5, <1>9
<1>14. Len(s) = IF Len(r) <= FWCACHE_SIZE THEN Len(r) + 1 ELSE FWCACHE_SIZE + 1
  BY <1>9 DEF m
<1> QED
  BY <1>4, <1>10, <1>11, <1>12, <1>13, <1>14 DEF x

-----------------------------------------------------------------------------
(* Where a packet is in the record after one more.                         *)
Shift(k) == IF k = 0 \/ k = FWCACHE_SIZE + 1 THEN 0 ELSE k + 1

(* A packet registered: the entry it takes tells it, the others tell what  *)
(* they told, and if one in use was replaced, no other is older.           *)
LEMMA RegisterHistory ==
  ASSUME NEW c, NEW r, History(c, r), NEW p
  PROVE  History(Register(c, p), Noted(r, p))
<1>0. /\ Entries(c)
      /\ r \in Seq({r[k] : k \in DOMAIN r}) /\ Len(r) <= FWCACHE_SIZE + 1
  BY DEF History, Shape, Entries
<1>1. PICK w \in [Cache -> 0..(FWCACHE_SIZE + 1)] : Tells(c, r, w)
  BY DEF History
<1>2. PICK i \in Cache : Replaced(c, i) /\ Register(c, p) = Taken(c, i, p)
  BY <1>0, RegisterIs
<1> DEFINE d == Register(c, p)
           s == Noted(r, p)
           N == FWCACHE_SIZE
<1>3. /\ s \in Seq({s[k] : k \in DOMAIN s}) /\ DOMAIN s = 1..Len(s)
      /\ Len(s) = IF Len(r) <= N THEN Len(r) + 1 ELSE N + 1
      /\ s[1] = [id |-> Id(p), age |-> 0]
      /\ \A k \in 2..Len(s) : s[k] = r[k - 1]
  BY <1>0, NotedIs
<1>4. /\ d = [j \in Cache |-> IF j = i THEN [timer |-> FW_TIME, id |-> Id(p)] ELSE c[j]]
      /\ d[i].timer = FW_TIME /\ d[i].id = Id(p)
      /\ \A j \in Cache : j # i => d[j] = c[j]
  BY <1>2 DEF Taken
<1>5. s[1].id = Id(p) /\ s[1].age = 0
  BY <1>3
<1> HIDE DEF d, s
<1>6. /\ N \in Nat /\ N > 0 /\ FW_TIME \in Nat /\ FW_TIME > 0
      /\ Len(r) \in 0..(N + 1) /\ DOMAIN r = 1..Len(r)
  BY SizesKnown, LenProperties DEF History, Shape, Entries
<1>7. /\ \A j \in Cache : c[j].timer \in 0..FW_TIME
      /\ \A k \in 1..Len(r) : r[k].age \in 0..FW_TIME
      /\ \A j, k \in 1..Len(r) : j <= k => r[j].age <= r[k].age
  BY <1>6 DEF History, Shape, Entries
<1>8. Len(s) \in 1..(N + 1) /\ \A k \in 2..Len(s) : k - 1 \in 1..Len(r)
  BY <1>3, <1>6
<1> DEFINE v == [j \in Cache |-> IF j = i THEN 1 ELSE Shift(w[j])]
<1>9. v \in [Cache -> 0..(N + 1)]
  BY <1>6 DEF Shift
<1>10. Shape(d, s)
  <2>1. d = [j \in Cache |-> [timer |-> d[j].timer, id |-> d[j].id]]
    <3>1. \A j \in Cache : d[j] = [timer |-> d[j].timer, id |-> d[j].id]
      BY <1>4 DEF History, Shape, Entries
    <3>2. d = [j \in Cache |-> d[j]]
      BY <1>4
    <3> QED
      BY <3>1, <3>2, Zenon
  <2>2. \A j \in Cache : d[j].timer \in 0..FW_TIME
    BY <1>4, <1>6, <1>7
  <2>3. \A k \in DOMAIN s : s[k] = [id |-> s[k].id, age |-> s[k].age] /\ s[k].age \in 0..FW_TIME
    <3>1. ASSUME NEW k \in 2..Len(s)
          PROVE  s[k] = [id |-> s[k].id, age |-> s[k].age] /\ s[k].age \in 0..FW_TIME
      BY <1>3, <1>6, <1>8 DEF History, Shape, Entries
    <3>2. s[1] = [id |-> s[1].id, age |-> s[1].age] /\ s[1].age \in 0..FW_TIME
      BY <1>3, <1>5, <1>6
    <3>3. \A k \in DOMAIN s : k = 1 \/ k \in 2..Len(s)
      BY <1>3, <1>8
    <3> QED
      BY <3>1, <3>2, <3>3
  <2>4. ASSUME NEW j \in DOMAIN s, NEW k \in DOMAIN s, j <= k
        PROVE  s[j].age <= s[k].age
    <3>1. CASE j = 1
      <4>1. s[k].age \in 0..FW_TIME
        BY <2>3
      <4> QED
        BY <3>1, <4>1, <1>5
    <3>2. CASE j # 1
      <4>1. j \in 2..Len(s) /\ k \in 2..Len(s)
        BY <3>2, <2>4, <1>3, <1>8
      <4>2. s[j] = r[j - 1] /\ s[k] = r[k - 1]
        BY <4>1, <1>3
      <4>3. j - 1 \in 1..Len(r) /\ k - 1 \in 1..Len(r) /\ j - 1 <= k - 1
        BY <4>1, <2>4, <1>8
      <4> QED
        BY <4>2, <4>3, <1>7
    <3> QED
      BY <3>1, <3>2
  <2> QED
    BY <2>1, <2>2, <2>3, <2>4, <1>3, <1>8 DEF Shape, Entries
<1>11. ASSUME NEW j \in Cache, j # i, d[j].timer > 0, v[j] # 0
       PROVE  /\ w[j] \in 1..N /\ v[j] = w[j] + 1 /\ v[j] \in 2..Len(s) /\ w[j] \in DOMAIN r
              /\ s[v[j]] = r[w[j]] /\ c[j].timer > 0 /\ d[j] = c[j] /\ w[j] # 0
  <2>1. w[j] \in 1..N /\ v[j] = w[j] + 1
    BY <1>6, <1>11 DEF Shift
  <2>2. c[j].timer > 0 /\ d[j] = c[j]
    BY <1>4, <1>11
  <2>3. w[j] \in DOMAIN r
    BY <2>1, <2>2, <1>1 DEF Tells
  <2>4. v[j] \in 2..Len(s)
    BY <2>1, <2>3, <1>3, <1>6, SMTT(30)
  <2> QED
    BY <2>1, <2>2, <2>3, <2>4, <1>3
<1>12. ASSUME NEW j \in Cache, d[j].timer > 0, v[j] # 0
       PROVE  /\ v[j] \in DOMAIN s /\ s[v[j]].id = d[j].id /\ s[v[j]].age = Age(d, j)
              /\ \A l \in Cache : d[l].timer > 0 /\ v[l] = v[j] => l = j
  <2>1. CASE j = i
    <3>1. v[j] = 1 /\ 1 \in DOMAIN s
      BY <2>1, <1>3, <1>8
    <3>2. s[1].age = Age(d, j)
      BY <2>1, <1>4, <1>5, <1>6 DEF Age
    <3>3. ASSUME NEW l \in Cache, d[l].timer > 0, v[l] = v[j] PROVE l = j
      <4>1. l # i => v[l] \in 2..Len(s)
        BY <3>1, <3>3, <1>11
      <4> QED
        BY <4>1, <3>1, <3>3, <2>1
    <3> QED
      BY <3>1, <3>2, <3>3, <2>1, <1>4, <1>5
  <2>2. CASE j # i
    <3>1. /\ v[j] = w[j] + 1 /\ v[j] \in 2..Len(s) /\ s[v[j]] = r[w[j]] /\ w[j] \in 1..N
          /\ c[j].timer > 0 /\ d[j] = c[j] /\ w[j] # 0
      BY <2>2, <1>11, <1>12
    <3>2. /\ r[w[j]].id = c[j].id /\ r[w[j]].age = Age(c, j)
          /\ \A l \in Cache : c[l].timer > 0 /\ w[l] = w[j] => l = j
      BY <3>1, <1>1 DEF Tells
    <3>3. ASSUME NEW l \in Cache, d[l].timer > 0, v[l] = v[j] PROVE l = j
      <4>1. CASE l = i
        BY <4>1, <3>1, <3>3
      <4>2. CASE l # i
        <5>1. v[l] = w[l] + 1 /\ w[l] \in 1..N /\ c[l].timer > 0
          BY <4>2, <3>3, <1>11, <1>12
        <5>2. w[l] = w[j]
          BY <5>1, <3>1, <3>3, <1>6
        <5> QED
          BY <5>1, <5>2, <3>2
      <4> QED
        BY <4>1, <4>2
    <3> QED
      BY <3>1, <3>2, <3>3, <1>3, <1>8 DEF Age
  <2> QED
    BY <2>1, <2>2
<1>13. ASSUME NEW j \in Cache, d[j].timer > 0, v[j] = 0
       PROVE  Len(s) = N + 1 /\ s[N + 1].age <= Age(d, j)
  <2>1. j # i /\ d[j] = c[j] /\ c[j].timer > 0 /\ (w[j] = 0 \/ w[j] = N + 1)
    BY <1>4, <1>6, <1>13 DEF Shift
  <2>2. Len(r) = N + 1 /\ r[N + 1].age <= Age(c, j)
    <3>1. CASE w[j] = 0
      BY <3>1, <2>1, <1>1 DEF Tells
    <3>2. CASE w[j] = N + 1
      <4>1. N + 1 \in DOMAIN r /\ r[N + 1].age = Age(c, j)
        <5>1. w[j] # 0
          BY <3>2, <1>6
        <5> QED
          BY <5>1, <3>2, <2>1, <1>1 DEF Tells
      <4>2. Age(c, j) \in Int
        BY <1>6, <1>7 DEF Age
      <4> QED
        BY <4>1, <4>2, <1>6
    <3> QED
      BY <3>1, <3>2, <2>1
  <2>3. Len(s) = N + 1 /\ s[N + 1] = r[N]
    <3>1. Len(s) = N + 1 /\ N + 1 \in 2..Len(s) /\ (N + 1) - 1 = N
      BY <2>2, <1>3, <1>6
    <3> QED
      BY <3>1, <1>3
  <2>4. r[N].age <= r[N + 1].age /\ r[N].age \in Int /\ r[N + 1].age \in Int
    BY <2>2, <1>6, <1>7
  <2>5. Age(d, j) = Age(c, j) /\ Age(c, j) \in Int
    BY <2>1, <1>6, <1>7 DEF Age
  <2> QED
    BY <2>2, <2>3, <2>4, <2>5
<1>14. ASSUME NEW k \in DOMAIN s, s[k].age < FW_TIME
       PROVE  \/ \E j \in Cache : d[j].timer > 0 /\ v[j] = k
              \/ \A j \in Cache : d[j].timer > 0 /\ Age(d, j) <= s[k].age
  <2>1. CASE k = 1
    BY <2>1, <1>4, <1>6
  <2>2. CASE k # 1
    <3>1. k \in 2..Len(s) /\ k - 1 \in 1..Len(r) /\ s[k] = r[k - 1] /\ k - 1 <= N
      <4>1. k \in 2..Len(s)
        BY <2>2, <1>3, <1>8
      <4>2. k - 1 \in 1..Len(r) /\ s[k] = r[k - 1]
        BY <4>1, <1>3, <1>8
      <4> QED
        BY <4>1, <4>2, <1>8, <1>6
    <3>2. r[k - 1].age \in 0..FW_TIME /\ Age(d, i) = 0 /\ d[i].timer > 0
      BY <3>1, <1>4, <1>6, <1>7 DEF Age
    <3>3. \/ \E j \in Cache : c[j].timer > 0 /\ w[j] = k - 1
          \/ \A j \in Cache : c[j].timer > 0 /\ Age(c, j) <= r[k - 1].age
      <4>1. k - 1 \in DOMAIN r /\ r[k - 1].age < FW_TIME
        BY <3>1, <1>6, <1>14
      <4> QED
        BY <4>1, <1>1 DEF Tells
    <3>4. ASSUME \A j \in Cache : c[j].timer > 0 /\ Age(c, j) <= r[k - 1].age
          PROVE  \A j \in Cache : d[j].timer > 0 /\ Age(d, j) <= s[k].age
      <4>1. ASSUME NEW j \in Cache, j # i PROVE d[j].timer > 0 /\ Age(d, j) <= s[k].age
        BY <4>1, <3>1, <3>4, <1>4 DEF Age
      <4>2. d[i].timer > 0 /\ Age(d, i) <= s[k].age
        BY <3>1, <3>2
      <4> QED
        BY <4>1, <4>2
    <3>5. ASSUME NEW j \in Cache, c[j].timer > 0, w[j] = k - 1, j # i
          PROVE  d[j].timer > 0 /\ v[j] = k
      <4>1. d[j].timer > 0
        BY <3>5, <1>4
      <4>2. Shift(w[j]) = k
        <5>1. w[j] # 0 /\ w[j] # N + 1 /\ w[j] + 1 = k
          BY <3>1, <3>5, <1>6
        <5> QED
          BY <5>1 DEF Shift
      <4> QED
        BY <4>1, <4>2, <3>5
    <3>6. ASSUME c[i].timer > 0, w[i] = k - 1
          PROVE  \A j \in Cache : c[j].timer > 0 /\ Age(c, j) <= r[k - 1].age
      <4>1. \A j \in Cache : c[j].timer # 0 /\ c[i].timer <= c[j].timer
        BY <3>6, <1>2 DEF Replaced
      <4>2. r[k - 1].age = Age(c, i)
        <5>1. w[i] # 0
          BY <3>1, <3>6
        <5> QED
          BY <5>1, <3>6, <1>1 DEF Tells
      <4> QED
        BY <4>1, <4>2, <1>6, <1>7 DEF Age
    <3> QED
      BY <3>3, <3>4, <3>5, <3>6
  <2> QED
    BY <2>1, <2>2
<1>15. Tells(d, s, v)
  <2> HIDE DEF v
  <2> QED
    BY <1>12, <1>13, <1>14 DEF Tells
<1> QED
  BY <1>9, <1>10, <1>15 DEF History, d, s

(* Two stretches from 1 that are the same end at the same number.          *)
LEMMA SameLength ==
  ASSUME NEW m \in Nat, NEW n \in Nat, 1..m = 1..n
  PROVE  m = n
<1>1. (m \in 1..m <=> m \in 1..n) /\ (n \in 1..m <=> n \in 1..n)
  OBVIOUS
<1> QED
  BY <1>1

(* The history in the next state.                                          *)
LEMMA NextHistory == History(fwcache', recent') => History(fwcache, recent)'
BY DEF History, Shape, Entries, Tells, Age, Cache

(* A tick ages both: an entry that runs out told a packet that is FW_TIME  *)
(* old now.                                                                *)
LEMMA PeriodicHistory == History(fwcache, recent) /\ FwPeriodic => History(fwcache, recent)'
<1> SUFFICES ASSUME History(fwcache, recent), FwPeriodic
             PROVE  History(fwcache', recent')
  BY NextHistory
<1>1. PICK w \in [Cache -> 0..(FWCACHE_SIZE + 1)] : Tells(fwcache, recent, w)
  BY DEF History
<1>2. PICK c : c = fwcache
  OBVIOUS
<1>3. PICK r : r = recent
  OBVIOUS
<1>4. PICK d : d = fwcache'
  OBVIOUS
<1>5. PICK s : s = recent'
  OBVIOUS
<1>6. /\ d = [i \in Cache |-> [c[i] EXCEPT !.timer = IF @ > 0 THEN @ - 1 ELSE 0]]
      /\ s = [k \in DOMAIN r |-> [r[k] EXCEPT !.age = IF @ < FW_TIME THEN @ + 1 ELSE @]]
  BY <1>2, <1>3, <1>4, <1>5 DEF FwPeriodic
<1>7. Shape(c, r) /\ Tells(c, r, w)
  BY <1>1, <1>2, <1>3 DEF History
<1>8. /\ FWCACHE_SIZE \in Nat /\ FWCACHE_SIZE > 0 /\ FW_TIME \in Nat /\ FW_TIME > 0
      /\ Len(r) \in Nat /\ DOMAIN r = 1..Len(r)
  BY <1>7, SizesKnown, LenProperties DEF Shape
<1>9. ASSUME NEW i \in Cache
      PROVE  /\ c[i].timer \in 0..FW_TIME
             /\ c[i].timer > 0 => d[i].timer = c[i].timer - 1
             /\ c[i].timer = 0 => d[i].timer = 0
             /\ d[i].id = c[i].id
  <2>1. c[i].timer \in 0..FW_TIME /\ c[i] = [timer |-> c[i].timer, id |-> c[i].id]
    BY <1>7 DEF Shape, Entries
  <2> QED
    BY <2>1, <1>6
<1>10. ASSUME NEW k \in DOMAIN r
       PROVE  /\ r[k].age \in 0..FW_TIME
              /\ r[k].age < FW_TIME => s[k].age = r[k].age + 1
              /\ r[k].age = FW_TIME => s[k].age = r[k].age
              /\ s[k].id = r[k].id
  <2>1. r[k].age \in 0..FW_TIME /\ r[k] = [id |-> r[k].id, age |-> r[k].age]
    BY <1>7 DEF Shape
  <2> QED
    BY <2>1, <1>6
<1>11. DOMAIN s = DOMAIN r /\ s \in Seq({s[k] : k \in DOMAIN s}) /\ Len(s) = Len(r)
  <2>1. s = [k \in 1..Len(r) |-> s[k]] /\ DOMAIN s = 1..Len(r)
    BY <1>6, <1>8
  <2>2. s \in [1..Len(r) -> {s[k] : k \in DOMAIN s}]
    BY <2>1
  <2>3. s \in Seq({s[k] : k \in DOMAIN s})
    BY <2>2, <1>8, SeqDef
  <2>4. DOMAIN s = 1..Len(s) /\ Len(s) \in Nat
    BY <2>3, LenProperties
  <2>5. Len(s) = Len(r)
    <3>1. 1..Len(s) = 1..Len(r)
      BY <2>1, <2>4
    <3> QED
      BY <3>1, <2>4, <1>8, SameLength
  <2> QED
    BY <2>1, <2>3, <2>5, <1>8
<1>12. Shape(d, s)
  <2>1. Entries(d)
    <3>1. \A i \in Cache : d[i] = [timer |-> d[i].timer, id |-> d[i].id]
      <4>1. \A i \in Cache : c[i] = [timer |-> c[i].timer, id |-> c[i].id]
        BY <1>7 DEF Shape, Entries
      <4> QED
        BY <4>1, <1>6
    <3>2. d = [i \in Cache |-> d[i]]
      BY <1>6
    <3>3. d = [i \in Cache |-> [timer |-> d[i].timer, id |-> d[i].id]]
      BY <3>1, <3>2, Zenon
    <3>4. \A i \in Cache : d[i].timer \in 0..FW_TIME
      BY <1>8, <1>9
    <3> QED
      BY <3>3, <3>4 DEF Entries
  <2>2. \A k \in DOMAIN s : s[k] = [id |-> s[k].id, age |-> s[k].age] /\ s[k].age \in 0..FW_TIME
    <3>1. \A k \in DOMAIN r : r[k] = [id |-> r[k].id, age |-> r[k].age]
      BY <1>7 DEF Shape
    <3>2. \A k \in DOMAIN s : s[k] = [id |-> s[k].id, age |-> s[k].age]
      BY <3>1, <1>6, <1>11
    <3>3. ASSUME NEW k \in DOMAIN s PROVE s[k].age \in 0..FW_TIME
      <4>1. k \in DOMAIN r
        BY <1>11
      <4>2. r[k].age \in 0..FW_TIME /\ (r[k].age < FW_TIME \/ r[k].age = FW_TIME)
        BY <4>1, <1>8, <1>10
      <4>3. (r[k].age < FW_TIME /\ s[k].age = r[k].age + 1) \/ s[k].age = r[k].age
        BY <4>1, <4>2, <1>10
      <4> QED
        BY <4>2, <4>3, <1>8
    <3> QED
      BY <3>2, <3>3
  <2>3. ASSUME NEW j \in DOMAIN s, NEW k \in DOMAIN s, j <= k PROVE s[j].age <= s[k].age
    <3>1. r[j].age <= r[k].age
      BY <2>3, <1>7, <1>11 DEF Shape
    <3>2. j \in DOMAIN r /\ k \in DOMAIN r
      BY <1>11
    <3>3. r[j].age \in 0..FW_TIME /\ r[k].age \in 0..FW_TIME
      BY <3>2, <1>10
    <3>4. (r[j].age < FW_TIME => s[j].age = r[j].age + 1)
          /\ (r[j].age = FW_TIME => s[j].age = r[j].age)
      BY <3>2, <1>10
    <3>5. (r[k].age < FW_TIME => s[k].age = r[k].age + 1)
          /\ (r[k].age = FW_TIME => s[k].age = r[k].age)
      BY <3>2, <1>10
    <3> QED
      BY <3>1, <3>3, <3>4, <3>5, <1>8
  <2>4. Len(s) <= FWCACHE_SIZE + 1
    BY <1>7, <1>11 DEF Shape
  <2> QED
    BY <2>1, <2>2, <2>3, <2>4, <1>11 DEF Shape
<1>13. ASSUME NEW i \in Cache, d[i].timer > 0
       PROVE  c[i].timer > 0 /\ Age(d, i) = Age(c, i) + 1 /\ Age(c, i) \in 0..(FW_TIME - 1)
  <2>1. c[i].timer \in 0..FW_TIME
    BY <1>9
  <2>2. c[i].timer > 0 /\ d[i].timer = c[i].timer - 1
    <3>1. c[i].timer # 0
      <4>1. c[i].timer = 0 => d[i].timer = 0
        BY <1>9
      <4> QED
        BY <4>1, <1>13
    <3> QED
      BY <2>1, <3>1, <1>9
  <2>3. Age(c, i) = FW_TIME - c[i].timer /\ Age(d, i) = FW_TIME - d[i].timer
    BY DEF Age
  <2>4. FW_TIME \in Nat
    BY <1>8
  <2> DEFINE t == c[i].timer
  <2>5. t \in 0..FW_TIME /\ t > 0 /\ d[i].timer = t - 1
    BY <2>1, <2>2
  <2> HIDE DEF t
  <2>6. /\ FW_TIME - (t - 1) = (FW_TIME - t) + 1
        /\ FW_TIME - t \in 0..(FW_TIME - 1)
    BY <2>4, <2>5
  <2> QED
    BY <2>2, <2>3, <2>5, <2>6, Zenon DEF t
<1>14. ASSUME NEW i \in Cache, d[i].timer > 0, w[i] # 0
       PROVE  /\ w[i] \in DOMAIN s /\ s[w[i]].id = d[i].id /\ s[w[i]].age = Age(d, i)
              /\ \A j \in Cache : d[j].timer > 0 /\ w[j] = w[i] => j = i
  <2>1. /\ w[i] \in DOMAIN r /\ r[w[i]].id = c[i].id /\ r[w[i]].age = Age(c, i)
        /\ \A j \in Cache : c[j].timer > 0 /\ w[j] = w[i] => j = i
    BY <1>7, <1>13, <1>14 DEF Tells
  <2>2. s[w[i]].age = r[w[i]].age + 1 /\ s[w[i]].id = r[w[i]].id
    BY <2>1, <1>8, <1>10, <1>13, <1>14
  <2> QED
    BY <2>1, <2>2, <1>9, <1>11, <1>13, <1>14
<1>15. ASSUME NEW i \in Cache, d[i].timer > 0, w[i] = 0
       PROVE  Len(s) = FWCACHE_SIZE + 1 /\ s[FWCACHE_SIZE + 1].age <= Age(d, i)
  <2>1. Len(r) = FWCACHE_SIZE + 1 /\ r[FWCACHE_SIZE + 1].age <= Age(c, i)
    BY <1>7, <1>13, <1>15 DEF Tells
  <2>2. FWCACHE_SIZE + 1 \in DOMAIN r
    BY <2>1, <1>8
  <2>3. s[FWCACHE_SIZE + 1].age <= r[FWCACHE_SIZE + 1].age + 1
        /\ s[FWCACHE_SIZE + 1].age \in Int /\ r[FWCACHE_SIZE + 1].age \in Int
    BY <2>2, <1>8, <1>10
  <2> QED
    BY <2>1, <2>3, <1>11, <1>13, <1>15
<1>16. ASSUME NEW k \in DOMAIN s, s[k].age < FW_TIME
       PROVE  \/ \E i \in Cache : d[i].timer > 0 /\ w[i] = k
              \/ \A i \in Cache : d[i].timer > 0 /\ Age(d, i) <= s[k].age
  <2>1. k \in DOMAIN r /\ r[k].age \in Nat /\ s[k].age = r[k].age + 1 /\ r[k].age + 1 < FW_TIME
    BY <1>8, <1>10, <1>11, <1>16
  <2>2. ASSUME NEW i \in Cache, c[i].timer > 0, Age(c, i) <= r[k].age
        PROVE  d[i].timer > 0 /\ Age(d, i) <= s[k].age
    <3>1. c[i].timer \in 0..FW_TIME /\ d[i].timer = c[i].timer - 1
      BY <2>2, <1>9
    <3>2. FW_TIME - c[i].timer <= r[k].age
      BY <2>2 DEF Age
    <3>3. d[i].timer > 0 /\ FW_TIME - d[i].timer <= s[k].age
      BY <3>1, <3>2, <2>1, <1>8, SMTT(30)
    <3> QED
      BY <3>3 DEF Age
  <2>3. CASE \E i \in Cache : c[i].timer > 0 /\ w[i] = k
    <3>1. PICK i \in Cache : c[i].timer > 0 /\ w[i] = k
      BY <2>3
    <3>2. w[i] # 0
      BY <2>1, <3>1, <1>8
    <3>3. r[k].age = Age(c, i) /\ Age(c, i) <= r[k].age
      <4>1. r[w[i]].age = Age(c, i)
        BY <3>1, <3>2, <1>7 DEF Tells
      <4> QED
        BY <4>1, <3>1, <2>1
    <3> QED
      BY <2>2, <3>1, <3>3
  <2>4. CASE \A i \in Cache : c[i].timer > 0 /\ Age(c, i) <= r[k].age
    BY <2>2, <2>4
  <2>5. r[k].age < FW_TIME
    BY <2>1, <1>8
  <2> QED
    BY <2>1, <2>3, <2>4, <2>5, <1>7 DEF Tells
<1>17. Tells(d, s, w)
  BY <1>14, <1>15, <1>16 DEF Tells
<1> QED
  BY <1>4, <1>5, <1>12, <1>17 DEF History

(* The cache is empty and nothing was registered.                          *)
LEMMA HistoryInit == ForwardInit => History(fwcache, recent)
<1> SUFFICES ASSUME ForwardInit PROVE History(fwcache, recent)
  OBVIOUS
<1>1. \A i \in Cache : fwcache[i] = [timer |-> 0, id |-> NoPacket]
  BY DEF ForwardInit
<1>2. Entries(fwcache)
  <2>1. \A i \in Cache : fwcache[i] = [timer |-> fwcache[i].timer, id |-> fwcache[i].id]
    BY <1>1
  <2>2. fwcache = [i \in Cache |-> fwcache[i]]
    BY DEF ForwardInit
  <2>3. fwcache = [i \in Cache |-> [timer |-> fwcache[i].timer, id |-> fwcache[i].id]]
    BY <2>1, <2>2, Zenon
  <2> QED
    BY <1>1, <2>3, SizesKnown DEF Entries
<1>3. /\ recent \in Seq({recent[k] : k \in DOMAIN recent}) /\ Len(recent) = 0
      /\ DOMAIN recent = {}
  <2>1. recent = <<>>
    BY DEF ForwardInit
  <2> QED
    BY <2>1, EmptySeq
<1>4. Shape(fwcache, recent)
  BY <1>2, <1>3, SizesKnown DEF Shape
<1> DEFINE w == [i \in Cache |-> 0]
<1>5. w \in [Cache -> 0..(FWCACHE_SIZE + 1)]
  BY SizesKnown
<1>6. Tells(fwcache, recent, w)
  BY <1>1, <1>3 DEF Tells
<1> QED
  BY <1>4, <1>5, <1>6 DEF History

-----------------------------------------------------------------------------
(* A packet that is remembered is in the cache: if no entry told it, more  *)
(* packets than the cache has entries were registered in its tick or later.*)
LEMMA RememberedIsCached ==
  ASSUME NEW c, NEW r, History(c, r), NEW k \in DOMAIN r, r[k].age < FW_TIME,
         Cardinality({j \in DOMAIN r : r[j].age <= r[k].age}) <= FWCACHE_SIZE
  PROVE  \E i \in Cache : c[i].timer # 0 /\ c[i].id = r[k].id
<1>1. PICK w \in [Cache -> 0..(FWCACHE_SIZE + 1)] : Tells(c, r, w)
  BY DEF History
<1>2. /\ FWCACHE_SIZE \in Nat /\ FWCACHE_SIZE > 0 /\ FW_TIME \in Nat /\ FW_TIME > 0
      /\ Len(r) \in Nat /\ Len(r) <= FWCACHE_SIZE + 1 /\ DOMAIN r = 1..Len(r)
      /\ \A i \in Cache : c[i].timer \in 0..FW_TIME
      /\ \A j \in DOMAIN r : r[j].age \in 0..FW_TIME
      /\ \A j, m \in DOMAIN r : j <= m => r[j].age <= r[m].age
  BY SizesKnown, LenProperties DEF History, Shape, Entries
<1>3. CASE \E i \in Cache : c[i].timer > 0 /\ w[i] = k
  <2>1. PICK i \in Cache : c[i].timer > 0 /\ w[i] = k
    BY <1>3
  <2>2. w[i] # 0
    BY <2>1, <1>2
  <2>3. r[w[i]].id = c[i].id
    BY <2>1, <2>2, <1>1 DEF Tells
  <2> QED
    BY <2>1, <2>3, <1>2
<1>4. CASE /\ ~\E i \in Cache : c[i].timer > 0 /\ w[i] = k
           /\ \A i \in Cache : c[i].timer > 0 /\ Age(c, i) <= r[k].age
  <2> DEFINE M == {j \in DOMAIN r : r[j].age <= r[k].age}
  <2>1. M \subseteq 1..Len(r) /\ k \in M
    BY <1>2
  <2>2. IsFiniteSet(M) /\ Cardinality(M) \in Nat
    <3>1. IsFiniteSet(1..Len(r))
      <4>1. 1 \in Int /\ Len(r) \in Int
        BY <1>2
      <4> QED
        BY <4>1, FS_Interval
    <3> HIDE DEF M
    <3>2. IsFiniteSet(M)
      BY <2>1, <3>1, FS_Subset
    <3> QED
      BY <3>2, FS_CardinalityType
  <2>3. Cardinality(M) <= FWCACHE_SIZE
    OBVIOUS
  <2>4. CASE \E i \in Cache : w[i] = 0
    <3>1. PICK i \in Cache : w[i] = 0
      BY <2>4
    <3>2. Len(r) = FWCACHE_SIZE + 1 /\ r[FWCACHE_SIZE + 1].age <= Age(c, i)
      BY <3>1, <1>1, <1>4 DEF Tells
    <3>3. FWCACHE_SIZE + 1 \in DOMAIN r
      BY <3>2, <1>2
    <3>4. r[FWCACHE_SIZE + 1].age <= r[k].age
      <4>1. /\ Age(c, i) <= r[k].age /\ Age(c, i) \in Int
            /\ r[k].age \in Int /\ r[FWCACHE_SIZE + 1].age \in Int
        BY <3>3, <1>2, <1>4 DEF Age
      <4> QED
        BY <3>2, <4>1
    <3>5. ASSUME NEW j \in 1..(FWCACHE_SIZE + 1) PROVE j \in M
      <4>1. j \in DOMAIN r /\ j <= FWCACHE_SIZE + 1
        BY <3>2, <1>2
      <4>2. r[j].age <= r[FWCACHE_SIZE + 1].age
        BY <4>1, <3>3, <1>2
      <4>3. r[j].age \in Int /\ r[FWCACHE_SIZE + 1].age \in Int /\ r[k].age \in Int
        BY <4>1, <3>3, <1>2
      <4>4. r[j].age <= r[k].age
        BY <4>2, <4>3, <3>4
      <4> QED
        BY <4>1, <4>4
    <3> HIDE DEF M
    <3>6. M = 1..(FWCACHE_SIZE + 1)
      BY <2>1, <3>2, <3>5
    <3>7. Cardinality(M) = FWCACHE_SIZE + 1
      <4>1. 1 \in Int /\ FWCACHE_SIZE + 1 \in Int /\ ~(1 > FWCACHE_SIZE + 1)
        BY <1>2
      <4>2. Cardinality(1..(FWCACHE_SIZE + 1)) = (FWCACHE_SIZE + 1) - 1 + 1
        BY <4>1, FS_Interval
      <4> QED
        BY <3>6, <4>2, <1>2
    <3> QED
      BY <3>7, <2>3, <1>2
  <2>5. CASE \A i \in Cache : w[i] # 0
    <3> DEFINE T == M \ {k}
               f == [i \in Cache |-> w[i]]
    <3>1. ASSUME NEW i \in Cache PROVE w[i] \in T
      <4>1. w[i] \in DOMAIN r /\ r[w[i]].age = Age(c, i)
        BY <2>5, <1>1, <1>4 DEF Tells
      <4>2. w[i] # k /\ Age(c, i) <= r[k].age
        BY <1>4
      <4> QED
        BY <4>1, <4>2
    <3>2. \A i, j \in Cache : w[i] = w[j] => i = j
      BY <2>5, <1>1, <1>4 DEF Tells
    <3> HIDE DEF M
    <3>3. IsFiniteSet(T) /\ Cardinality(T) = Cardinality(M) - 1
      BY <2>1, <2>2, FS_RemoveElement
    <3>4. IsFiniteSet(Cache) /\ Cardinality(Cache) = FWCACHE_SIZE
      <4>1. 1 \in Int /\ FWCACHE_SIZE \in Int /\ ~(1 > FWCACHE_SIZE)
        BY <1>2
      <4>2. IsFiniteSet(1..FWCACHE_SIZE) /\ Cardinality(1..FWCACHE_SIZE) = FWCACHE_SIZE - 1 + 1
        BY <4>1, FS_Interval
      <4> QED
        BY <4>2, <1>2 DEF Cache
    <3>5. Cardinality(T) < Cardinality(Cache)
      BY <3>3, <3>4, <2>2, <2>3, <1>2
    <3>6. f \in [Cache -> T]
      BY <3>1
    <3> HIDE DEF T
    <3>7. PICK i, j \in Cache : i # j /\ f[i] = f[j]
      <4> HIDE DEF f
      <4> QED
        BY <3>3, <3>4, <3>5, <3>6, FS_PigeonHole
    <3> QED
      BY <3>2, <3>7
  <2> QED
    BY <2>4, <2>5
<1> QED
  BY <1>1, <1>3, <1>4 DEF Tells

(* One packet registered, or the two halves of one.                        *)
LEMMA OutputHistory ==
  ASSUME NEW ps, Output(ps), History(fwcache, recent)
  PROVE  History(fwcache, recent)'
<1>1. History(Register(fwcache, ps[1]), Noted(recent, ps[1]))
  BY RegisterHistory
<1>2. History(Register(Register(fwcache, ps[1]), ps[2]), Noted(Noted(recent, ps[1]), ps[2]))
  BY <1>1, RegisterHistory
<1>3. History(fwcache', recent')
  BY <1>1, <1>2 DEF Output
<1> QED
  BY <1>3, NextHistory

(* A packet that comes back within FW_TIME is not put out again, as long   *)
(* as no more packets than the cache has entries were registered since.    *)
THEOREM NothingForwardedTwice == ForwardSpec => ForwardsOnce
<1> DEFINE H == History(fwcache, recent)
<1>1. H /\ [ForwardNext]_fwvars => H'
  <2> SUFFICES ASSUME H, [ForwardNext]_fwvars PROVE H'
    OBVIOUS
  <2>1. CASE \E ps : Output(ps)
    BY <2>1, OutputHistory
  <2>2. CASE FwPeriodic
    BY <2>2, PeriodicHistory
  <2>3. CASE UNCHANGED <<fwcache, recent>>
    <3>1. fwcache' = fwcache /\ recent' = recent
      BY <2>3
    <3>2. History(fwcache', recent')
      BY <3>1
    <3> QED
      BY <3>2, NextHistory
  <2> QED
    BY <2>1, <2>2, <2>3
    DEF ForwardNext, FwForward, FwOutput, FwSplit, FwSetup, Ignored, fwvars
<1>2. H /\ [ForwardNext]_fwvars =>
        [\A k \in DOMAIN recent :
           Remembered(k) /\ heard' # NoPacket /\ Id(heard') = recent[k].id
             => out' = <<>>]_fwvars
  <2> SUFFICES ASSUME H, ForwardNext, NEW k \in DOMAIN recent, Remembered(k),
                      heard' # NoPacket, Id(heard') = recent[k].id
               PROVE  out' = <<>>
    BY Zenon
  <2>1. PICK p \in Received : FwForward(p)
    BY DEF ForwardNext, FwOutput, FwSplit, FwPeriodic, FwSetup
  <2>2. Duplicate(p)
    <3>1. \E i \in Cache : fwcache[i].timer # 0 /\ fwcache[i].id = recent[k].id
      BY RememberedIsCached DEF Remembered
    <3> QED
      BY <3>1, <2>1 DEF Duplicate, FwForward
  <2> QED
    BY <2>1, <2>2 DEF FwForward, Ignored
<1>3. ForwardInit => H
  BY HistoryInit
<1> HIDE DEF H
<1> QED
  BY <1>1, <1>2, <1>3, PTL DEF ForwardSpec, ForwardsOnce
=============================================================================
