------------------------------- MODULE RttEst -------------------------------
(***************************************************************************)
(* The retransmission timer of one connection and the round trip estimator *)
(* that sets it (uip.c): u8_t timer, rto, sa, sv and nrtx, and the sample  *)
(* m, a signed char.  UipTcp lets the estimator return anything; here its  *)
(* arithmetic is the code's, of width OctetMod (256).  One segment is in   *)
(* flight at a time.                                                       *)
(***************************************************************************)
EXTENDS Integers

CONSTANTS OctetMod,         \* values of a u8_t
          RTO, MAXRTX,      \* UIP_RTO, UIP_MAXRTX
          MaxRtt            \* ticks a segment and its ACK may take (bound)

ASSUME RttAssumption ==
  /\ OctetMod \in Nat /\ RTO \in Nat \ {0} /\ MAXRTX \in Nat
  /\ RTO * 16 < OctetMod /\ MaxRtt \in Nat

\* Round trips that eight times their length are still in one octet.
ShortTrips == 8 * MaxRtt + 7 < OctetMod

VARIABLES
  timer, rto, sa, sv, nrtx,
  flying,           \* a segment is outstanding
  since,            \* ticks since it was sent first
  forgot,           \* nrtx was cleared though it had been sent again
  exact             \* [sa, sv, rto] by the same formula in whole numbers

rttvars == <<timer, rto, sa, sv, nrtx, flying, since, forgot, exact>>

U8(x) == x % OctetMod
S8(x) == ((x + (OctetMod \div 2)) % OctetMod) - (OctetMod \div 2)
Shifted(n) == RTO * 2 ^ (IF n > 4 THEN 4 ELSE n)
Magnitude(m) == IF m < 0 THEN -m ELSE m

RttTypeOK ==
  /\ {timer, rto, sa, sv} \subseteq 0..(OctetMod - 1) /\ nrtx \in 0..MAXRTX
  /\ flying \in BOOLEAN /\ forgot \in BOOLEAN /\ since \in 0..(MaxRtt + 1)

RttInit ==
  /\ timer = RTO /\ rto = RTO /\ sa = 0 /\ sv \in {4, 16} /\ nrtx = 0
  /\ flying = FALSE /\ since = 0 /\ forgot = FALSE
  /\ exact = [sa |-> 0, sv |-> sv, rto |-> RTO]

(* appsend: a segment goes out; the timer is where it was left.  A         *)
(* connection is followed up to the first sample of a segment sent twice.  *)
Transmit == /\ ~flying /\ ~forgot /\ flying' = TRUE /\ since' = 0
            /\ nrtx' = 0 /\ UNCHANGED <<timer, rto, sa, sv, forgot, exact>>

(* The periodic timer, with the segment outstanding: count, or back off    *)
(* and send it again.                                                      *)
Countdown == timer # 0 /\ timer' = timer - 1 /\ UNCHANGED nrtx
BackOff   == timer = 0 /\ nrtx < MAXRTX /\ timer' = Shifted(nrtx) /\ nrtx' = nrtx + 1
RttTick == /\ flying /\ (since < MaxRtt \/ nrtx > 0 \/ forgot)
           /\ since' = (IF since > MaxRtt THEN since ELSE since + 1)
           /\ (Countdown \/ BackOff)
           /\ UNCHANGED <<rto, sa, sv, flying, forgot, exact>>

(* New data from the peer: the callback goes through appsend, which clears *)
(* nrtx though the segment is still outstanding.                           *)
PeerData == /\ flying /\ forgot' = (forgot \/ nrtx > 0) /\ nrtx' = 0
            /\ UNCHANGED <<timer, rto, sa, sv, flying, since, exact>>

(* The estimator in the widths of the code, and in whole numbers.          *)
Estimate(m0) ==
  LET m1 == S8(S8(m0) - (sa \div 8))
      a  == U8(sa + m1)
      m2 == S8(S8(Magnitude(m1)) - (sv \div 4))
      v  == U8(sv + m2)
  IN [sa |-> a, sv |-> v, rto |-> U8((a \div 8) + v)]
Jacobson(m0, e) ==
  LET err == m0 - (e.sa \div 8)
      v   == e.sv + Magnitude(err) - (e.sv \div 4)
  IN [sa |-> e.sa + err, sv |-> v, rto |-> ((e.sa + err) \div 8) + v]

(* The segment is acknowledged: measured unless it was sent again.         *)
MeasuresAlways == TRUE                                \* mutant
Measures == nrtx = 0
RttAck ==
  LET n == IF Measures THEN Estimate(rto - timer) ELSE [sa |-> sa, sv |-> sv, rto |-> rto]
  IN /\ flying /\ flying' = FALSE /\ since' = 0
     /\ sa' = n.sa /\ sv' = n.sv /\ rto' = n.rto /\ timer' = n.rto
     /\ exact' = IF Measures THEN Jacobson(since, exact) ELSE exact
     /\ UNCHANGED <<nrtx, forgot>>

RttNext == Transmit \/ RttTick \/ PeerData \/ RttAck
RttSpec == RttInit /\ [][RttNext]_rttvars

-----------------------------------------------------------------------------
(* Van Jacobson's estimator, which the code is "taken directly" from       *)
(* (uip.c:1440), in whole numbers: as long as new data does not clear nrtx *)
(* in between, every sample is the time since the segment was sent, and 8  *)
(* bits lose nothing of the estimate.  That is so of ShortTrips.           *)
RttExact == ~forgot => exact = [sa |-> sa, sv |-> sv, rto |-> rto]

(* uip.c:1436 "Do RTT estimation, unless we have done retransmissions":    *)
(* the estimate is always that of the times since a segment was sent first,*)
(* also when new data comes in between.                                    *)
RttMeasured == exact = [sa |-> sa, sv |-> sv, rto |-> rto]
=============================================================================
