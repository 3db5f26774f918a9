------------------------------ MODULE MCParts ------------------------------
(***************************************************************************)
(* The parts of the program that share no state with each other, on small  *)
(* instances.  A behaviour is one of a single part, chosen at the start;   *)
(* the others stay where they begin.                                       *)
(***************************************************************************)
EXTENDS SysTimer, RttEst, Checksum, Reassembly, ArpHistory, Neighbor, Forward, TLC

CONSTANTS nopacket

VARIABLE part

parts == <<part, timervars, rttvars, sumvars, reassvars, hvars, neighborvars, fwvars>>

MCIntervals  == <<9, 13>>                 \* periodic_timer, arp_timer: not in phase
MCPayloadLen == [d \in Datagrams |-> 6 + 4 * d]
MCFirstBytes == "a1" :> "zero" @@ "a2" :> "ip2"

Packet(i, s, d, pr, t, n) ==
  [ipid |-> i, src |-> s, dst |-> d, proto |-> pr, ttl |-> t, at |-> 0, len |-> n]
MCReceived ==
  {Packet(1, "a", "b", "tcp", 1, 1), Packet(1, "a", "b", "tcp", 2, 1),
   Packet(2, "a", "b", "icmp", 0, 1), Packet(1, "b", "host", "tcp", 1, 1),
   Packet(3, "b", "all", "tcp", 1, 1), Packet(3, "b", "all", "tcp", 2, 1)}
MCOwn    == {Packet(1, "host", "b", "tcp", 3, 3), Packet(2, "host", "c", "tcp", 3, 2)}
MCNetifs == {{"a", "b"}}

\* Ethernet addresses are interchangeable.
MacSymmetry == Permutations(Macs)

PartsInit ==
  /\ part \in {"timer", "rtt", "sum", "reass", "arp", "neighbor", "forward"}
  /\ TimerInit /\ RttInit /\ SumInit /\ ReassInit
  /\ HistoryInit /\ NeighborInit /\ ForwardInit
  /\ part # "rtt" => sv = 16
  /\ part # "sum" => msg = <<ICMP_ECHO, 0, 0, 0>>

Only(p) ==
  /\ part = p /\ UNCHANGED part
  /\ p # "timer"    => UNCHANGED timervars
  /\ p # "rtt"      => UNCHANGED rttvars
  /\ p # "sum"      => UNCHANGED sumvars
  /\ p # "reass"    => UNCHANGED reassvars
  /\ p # "arp"      => UNCHANGED hvars
  /\ p # "neighbor" => UNCHANGED neighborvars
  /\ p # "forward"  => UNCHANGED fwvars

PartsNext ==
  \/ Only("timer") /\ TimerNext
  \/ Only("rtt") /\ RttNext
  \/ Only("sum") /\ SumNext
  \/ Only("reass") /\ ReassNext
  \/ Only("arp") /\ HistoryNext
  \/ Only("neighbor") /\ NeighborNext
  \/ Only("forward") /\ ForwardNext

PartsSpec == PartsInit /\ [][PartsNext]_parts

-----------------------------------------------------------------------------
(* Every variable keeps the width and every array the bounds it has in the *)
(* code: system time and its bytes, the estimator's u8_t, the sums, the    *)
(* reassembly buffer and its bitmap until they are first overrun.          *)
PartsTypeOK == TimerTypeOK /\ RttTypeOK /\ SumTypeOK /\ ReassTypeOK
=============================================================================
