------------------------------ MODULE Neighbor ------------------------------
(***************************************************************************)
(* The neighbor table (uip-neighbor.c): which link address an IP address   *)
(* has.  uip_neighbor_add() looks for the entry to replace by comparing    *)
(* the IP address of each with the link address it was given, of which the *)
(* first four bytes count.  A lookup does not ask how old an entry is.     *)
(***************************************************************************)
EXTENDS Naturals

CONSTANTS ENTRIES, MAX_TIME,
          IPs, NoIp, LinkAddrs, NoAddr, \* addresses of both kinds; all zero
          FirstBytes                    \* the first four bytes of a link address

ASSUME NeighborAssumption ==
  /\ ENTRIES \in Nat \ {0} /\ MAX_TIME \in Nat \ {0}
  /\ NoIp \notin IPs /\ NoAddr \notin LinkAddrs /\ FirstBytes \in [LinkAddrs -> IPs \cup {NoIp}]

VARIABLES entries,       \* [ipaddr, addr, time]
          newest,        \* the link address an IP address was added with last
          doubled        \* it was added while the table still had it

neighborvars == <<entries, newest, doubled>>
Index == 1..ENTRIES

NeighborInit ==
  /\ entries = [i \in Index |-> [ipaddr |-> NoIp, addr |-> NoAddr, time |-> MAX_TIME]]
  /\ newest = [ip \in IPs |-> NoAddr] /\ doubled = [ip \in IPs |-> FALSE]

(* uip_neighbor_periodic()                                                 *)
NextAge(e) == IF e.time < MAX_TIME THEN [e EXCEPT !.time = @ + 1] ELSE e
NeighborPeriodic == /\ entries' = [i \in Index |-> NextAge(entries[i])]
                    /\ UNCHANGED <<newest, doubled>>

(* The entry uip_neighbor_add() writes: the first that is unused or looks  *)
(* like the address, else the first of the oldest.                         *)
Stops(i, addr) == \/ entries[i].time = MAX_TIME
                  \/ entries[i].ipaddr = FirstBytes[addr]
OldestUsed(i) == \A j \in Index : \/ entries[j].time < entries[i].time
                                  \/ entries[j].time = entries[i].time /\ i <= j
Replaces(i, addr) ==
  IF \E j \in Index : Stops(j, addr)
  THEN Stops(i, addr) /\ \A j \in 1..(i - 1) : ~Stops(j, addr)
  ELSE OldestUsed(i)

NewEntriesKeepAddr(i, ip, addr) ==                    \* mutant
  [entries EXCEPT ![i].ipaddr = ip, ![i].time = 0]
NewEntries(i, ip, addr) ==
  [entries EXCEPT ![i] = [ipaddr |-> ip, addr |-> addr, time |-> 0]]
NeighborAdd == \E ip \in IPs, addr \in LinkAddrs, i \in Index :
  /\ Replaces(i, addr) /\ entries' = NewEntries(i, ip, addr)
  /\ newest' = [newest EXCEPT ![ip] = addr]
  /\ doubled' = [x \in IPs |->
       IF \A j \in Index \ {i} : entries[j].ipaddr # x THEN FALSE
       ELSE x = ip \/ doubled[x]]

(* find_entry(): the first with that IP address.                           *)
HasEntry(i, ip) == /\ entries[i].ipaddr = ip
                   /\ \A j \in 1..(i - 1) : entries[j].ipaddr # ip
NeighborUpdate == \E ip \in IPs, i \in Index :
  /\ HasEntry(i, ip) /\ entries' = [entries EXCEPT ![i].time = 0]
  /\ UNCHANGED <<newest, doubled>>

NeighborNext == NeighborPeriodic \/ NeighborAdd \/ NeighborUpdate
NeighborSpec == NeighborInit /\ [][NeighborNext]_neighborvars

-----------------------------------------------------------------------------
(* uip_neighbor_lookup() finds the link address an IP address was added    *)
(* with last, through ageing, updates and replaced entries, unless that    *)
(* was while the table still had an entry for it: then there may be two.   *)
LookupNewest ==
  \A ip \in IPs, i \in Index :
    HasEntry(i, ip) /\ ~doubled[ip] => entries[i].addr = newest[ip]
=============================================================================
