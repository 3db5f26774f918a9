------------------------- MODULE Arithmetic_proofs -------------------------
(***************************************************************************)
(* Numbers in few bits.  The round trip estimator computes in 8 bits what  *)
(* it would in whole numbers, if round trips are short enough for them,    *)
(* and the software timers keep their schedule across the wrap of a clock  *)
(* that is read byte by byte.  The sums of uip.c are those of whole        *)
(* numbers, for every width of a byte and every message.  A datagram put   *)
(* together from fragments holds nothing of another one where its bitmap   *)
(* is looked at, for every size of the buffer, of the units of its bitmap  *)
(* and of the bytes of that, as long as no fragment was written outside of *)
(* the two.  And what a field holds in these components fits into it.      *)
(***************************************************************************)
EXTENDS MCParts, SequenceTheorems, Numbers_proofs

(***************************************************************************)
(* Part 1.  The round trip estimator (RttEst).                             *)
(***************************************************************************)
\* What a variance is bounded by: what samples make it, or its start.
SvOK(v) == v \in Nat /\ (v <= 4 * MaxRtt + 3 \/ v <= 16)

\* Until nrtx is cleared under a segment that was sent again, the estimate is
\* exact and small, and the timer tells the age of the segment.
RttInv ==
  /\ nrtx \in Nat /\ flying \in BOOLEAN /\ forgot \in BOOLEAN
  /\ ~forgot =>
       /\ sa \in 0..(8 * MaxRtt) /\ SvOK(sv) /\ rto \in Nat
       /\ exact = [sa |-> sa, sv |-> sv, rto |-> rto]
       /\ ~flying => timer = rto
       /\ flying /\ nrtx = 0 => /\ since \in 0..MaxRtt /\ timer \in Nat
                                /\ since + timer = rto

-----------------------------------------------------------------------------
(* A number that fits is not changed by the conversion to u8_t ...         *)
LEMMA FitsU8 == \A x \in 0..(OctetMod - 1) : U8(x) = x
BY RttAssumption DEF U8

(* ... nor to signed char.                                                 *)
LEMMA FitsS8 ==
  \A x \in Int : 0 <= x + (OctetMod \div 2) /\ x + (OctetMod \div 2) < OctetMod => S8(x) = x
<1> TAKE x \in Int
<1> HAVE 0 <= x + (OctetMod \div 2) /\ x + (OctetMod \div 2) < OctetMod
<1> DEFINE y == x + (OctetMod \div 2)
<1>1. OctetMod \in Nat /\ OctetMod \div 2 \in Int BY RttAssumption
<1>2. y \in 0..(OctetMod - 1) BY <1>1
<1>3. y % OctetMod = y BY FitsU8, <1>2 DEF U8
<1> QED BY <1>1, <1>3 DEF S8

(* A sample of an estimate that is small enough leaves it so, and every    *)
(* intermediate result fits: the code computes Jacobson's formula.         *)
LEMMA EstimateExact ==
  ASSUME ShortTrips, NEW m \in 0..MaxRtt, NEW e,
         e.sa = sa, e.sv = sv, sa \in 0..(8 * MaxRtt), SvOK(sv)
  PROVE  /\ Estimate(m) = Jacobson(m, e)
         /\ Estimate(m).sa \in 0..(8 * MaxRtt) /\ SvOK(Estimate(m).sv)
         /\ Estimate(m).rto \in Nat
<1> DEFINE half == OctetMod \div 2
           q == sa \div 8
           p == sv \div 4
           err == m - q
           mag == IF err < 0 THEN -err ELSE err
           a == sa + err
           v == sv + mag - p
<1>1. /\ OctetMod \in Nat /\ MaxRtt \in Nat /\ 8 * MaxRtt + 7 < OctetMod /\ 16 < OctetMod
  BY RttAssumption DEF ShortTrips
<1>2. /\ half \in Nat /\ 2 * half <= OctetMod /\ OctetMod <= 2 * half + 1
  BY <1>1
<1>3. /\ sa \in Nat /\ q \in Nat /\ q <= MaxRtt /\ 8 * q <= sa /\ sa <= 8 * q + 7
      /\ sa <= 8 * MaxRtt
  BY <1>1
<1>4. /\ sv \in Nat /\ p \in Nat /\ 4 * p <= sv /\ sv <= 4 * p + 3
      /\ sv <= 4 * MaxRtt + 3 \/ sv <= 16
  BY DEF SvOK
<1>5. /\ err \in Int /\ -MaxRtt <= err /\ err <= MaxRtt
      /\ mag \in Nat /\ mag <= MaxRtt /\ mag = Magnitude(err)
  BY <1>1, <1>3 DEF Magnitude
<1>6. a \in 0..(8 * MaxRtt)
  BY <1>1, <1>3
<1>7. v \in Nat /\ (v <= 4 * MaxRtt + 3 \/ v <= 12 + MaxRtt)
  <2>1. v \in Nat
    BY <1>1, <1>4, <1>5
  <2>2. CASE sv <= 4 * MaxRtt + 3
    BY <1>1, <1>4, <1>5, <2>1, <2>2
  <2>3. CASE sv <= 16
    BY <1>1, <1>4, <1>5, <2>1, <2>3
  <2> QED
    BY <1>4, <2>2, <2>3
<1>8. (a \div 8) \in Nat /\ a \div 8 <= MaxRtt
  BY <1>1, <1>6
<1>9. /\ S8(m) = m /\ S8(m - q) = err
      /\ S8(mag) = mag /\ S8(mag - p) = mag - p
  <2>1. /\ 0 <= m + half /\ m + half < OctetMod
    BY <1>1, <1>2
  <2>2. /\ 0 <= err + half /\ err + half < OctetMod
    BY <1>1, <1>2, <1>5
  <2>3. /\ 0 <= mag + half /\ mag + half < OctetMod
    BY <1>1, <1>2, <1>5
  <2>4. /\ 0 <= (mag - p) + half /\ (mag - p) + half < OctetMod
    BY <1>1, <1>2, <1>4, <1>5
  <2> QED
    BY <2>1, <2>2, <2>3, <2>4, <1>1, <1>4, <1>5, FitsS8
<1>10. /\ U8(a) = a /\ U8(v) = v /\ U8((a \div 8) + v) = (a \div 8) + v
  <2>1. a \in 0..(OctetMod - 1) /\ v \in 0..(OctetMod - 1)
    BY <1>1, <1>6, <1>7
  <2>2. (a \div 8) + v \in 0..(OctetMod - 1)
    <3> HIDE DEF a, v
    <3>1. (a \div 8) + v <= 5 * MaxRtt + 3 \/ (a \div 8) + v <= 12 + 2 * MaxRtt
      BY <1>1, <1>7, <1>8
    <3> QED
      BY <1>1, <1>7, <1>8, <3>1
  <2> QED
    BY <2>1, <2>2, FitsU8
<1> HIDE DEF half, a, v, mag, err
<1>11. Estimate(m) = [sa |-> a, sv |-> v, rto |-> (a \div 8) + v]
  <2>1. S8(S8(m) - (sa \div 8)) = err
    BY <1>9
  <2>2. U8(sa + err) = a
    BY <1>10 DEF a
  <2>3. S8(S8(Magnitude(err)) - (sv \div 4)) = mag - p
    BY <1>9, <1>5
  <2>4. sv + (mag - p) = v
    BY <1>4, <1>5 DEF v
  <2> QED
    BY <2>1, <2>2, <2>3, <2>4, <1>10 DEF Estimate
<1>12. Jacobson(m, e) = [sa |-> a, sv |-> v, rto |-> (a \div 8) + v]
  <2>1. m - (e.sa \div 8) = err /\ e.sa + err = a
    BY DEF err, a
  <2>2. e.sv + Magnitude(err) - (e.sv \div 4) = v
    BY <1>5 DEF v
  <2> QED
    BY <2>1, <2>2 DEF Jacobson
<1>13. /\ a \in 0..(8 * MaxRtt) /\ SvOK(v) /\ (a \div 8) + v \in Nat
  <2>1. v <= 4 * MaxRtt + 3 \/ v <= 16
    BY <1>1, <1>7
  <2> QED
    BY <1>6, <1>7, <1>8, <1>1, <2>1 DEF SvOK
<1> QED
  BY <1>11, <1>12, <1>13

-----------------------------------------------------------------------------
(* A new connection: nothing in flight and the timer at its start.         *)
LEMMA RttInitInv == RttInit => RttInv
<1> SUFFICES ASSUME RttInit PROVE RttInv
  OBVIOUS
<1>1. /\ nrtx = 0 /\ flying = FALSE /\ forgot = FALSE
      /\ timer = rto /\ rto = RTO /\ sa = 0 /\ exact = [sa |-> sa, sv |-> sv, rto |-> rto]
  BY DEF RttInit
<1>2. SvOK(sv)
  BY DEF RttInit, SvOK
<1>3. RTO \in Nat /\ 0 \in 0..(8 * MaxRtt)
  BY RttAssumption
<1> QED
  BY <1>1, <1>2, <1>3 DEF RttInv

(* A segment goes out with the timer at rto.                               *)
LEMMA TransmitInv == RttInv /\ Transmit => RttInv'
BY RttAssumption DEF RttInv, SvOK, Transmit

(* The timer counts down as the segment ages; once it is sent again, only  *)
(* the next segment is timed by it.                                        *)
LEMMA RttTickInv == RttInv /\ RttTick => RttInv'
<1> SUFFICES ASSUME RttInv, RttTick PROVE RttInv'
  OBVIOUS
<1>1. CASE Countdown
  BY <1>1, RttAssumption DEF RttInv, SvOK, RttTick, Countdown
<1>2. CASE BackOff
  BY <1>2, RttAssumption DEF RttInv, SvOK, RttTick, BackOff
<1> QED
  BY <1>1, <1>2 DEF RttTick

(* New data: nrtx is cleared, which is remembered if it was not zero.      *)
LEMMA PeerDataInv == RttInv /\ PeerData => RttInv'
<1> SUFFICES ASSUME RttInv, PeerData PROVE RttInv'
  OBVIOUS
<1>1. /\ flying /\ flying' = flying /\ nrtx' = 0
      /\ UNCHANGED <<timer, rto, sa, sv, since, exact>> /\ SvOK(sv)' = SvOK(sv)
  BY DEF PeerData, SvOK
<1>2. CASE nrtx > 0
  <2>1. forgot' = TRUE
    BY <1>2 DEF PeerData
  <2> QED
    BY <1>1, <2>1 DEF RttInv
<1>3. CASE nrtx = 0
  <2>1. forgot' = forgot
    BY <1>3 DEF PeerData, RttInv
  <2> QED
    BY <1>1, <1>3, <2>1 DEF RttInv
<1> QED
  BY <1>2, <1>3 DEF RttInv

(* An acknowledgement: the sample is the age of the segment.               *)
LEMMA RttAckInv == ASSUME ShortTrips, RttInv, RttAck PROVE RttInv'
<1>1. CASE forgot \/ nrtx # 0
  BY <1>1 DEF RttInv, SvOK, RttAck, Measures
<1>2. CASE ~forgot /\ nrtx = 0
  <2>1. /\ since \in 0..MaxRtt /\ rto - timer = since
        /\ exact.sa = sa /\ exact.sv = sv /\ sa \in 0..(8 * MaxRtt) /\ SvOK(sv)
    BY <1>2 DEF RttInv, RttAck
  <2> DEFINE n == Estimate(since)
  <2>2. /\ n = Jacobson(since, exact)
        /\ n.sa \in 0..(8 * MaxRtt) /\ SvOK(n.sv) /\ n.rto \in Nat
    BY <2>1, EstimateExact
  <2>3. /\ sa' = n.sa /\ sv' = n.sv /\ rto' = n.rto /\ timer' = n.rto
        /\ exact' = Jacobson(since, exact) /\ ~flying' /\ flying' \in BOOLEAN
        /\ nrtx' = nrtx /\ forgot' = forgot
    BY <1>2, <2>1 DEF RttAck, Measures
  <2>4. n = [sa |-> n.sa, sv |-> n.sv, rto |-> n.rto]
    BY DEF Estimate
  <2> HIDE DEF n
  <2> QED
    BY <2>2, <2>3, <2>4 DEF RttInv, SvOK
<1> QED
  BY <1>1, <1>2 DEF RttInv

-----------------------------------------------------------------------------
(* As long as new data does not clear nrtx under a segment sent again, the *)
(* timeout is the one of Jacobson's formula over the true round trips, for *)
(* every width of a byte, if eight times a round trip, in ticks, is still  *)
(* less than a byte holds.                                                 *)
THEOREM EstimateIsExact == ASSUME ShortTrips PROVE RttSpec => []RttExact
<1>1. RttInv /\ [RttNext]_rttvars => RttInv'
  <2> SUFFICES ASSUME RttInv, [RttNext]_rttvars PROVE RttInv'
    OBVIOUS
  <2>1. CASE UNCHANGED rttvars
    BY <2>1 DEF rttvars, RttInv, SvOK
  <2> QED
    BY <2>1, TransmitInv, RttTickInv, PeerDataInv, RttAckInv DEF RttNext
<1>2. RttInv => RttExact
  BY DEF RttInv, RttExact
<1> QED
  BY RttInitInv, <1>1, <1>2, PTL DEF RttSpec

-----------------------------------------------------------------------------
(***************************************************************************)
(* Part 2.  The software timers (SysTimer).                                *)
(***************************************************************************)
(* Remainders of a number and of its multiples.                            *)
LEMMA Remainder ==
  ASSUME NEW C \in Nat, C > 0, NEW k \in Int, NEW y \in 0..(C - 1)
  PROVE  (y + k * C) % C = y
  OBVIOUS

LEMMA Division ==
  ASSUME NEW C \in Nat, C > 0, NEW x \in Int
  PROVE  \E q \in Int, y \in 0..(C - 1) : /\ x = y + q * C /\ x % C = y
                                         /\ x \div C = q /\ (x \in Nat => q \in Nat)
<1> DEFINE q == x \div C  y == x % C
<1>1. q \in Int /\ y \in 0..(C - 1)
  OBVIOUS
<1>2. y = x - C * q
  OBVIOUS
<1> HIDE DEF q, y
<1>3. x = y + q * C
  BY <1>1, <1>2
<1>4. x \in Nat => q \in Nat
  BY <1>1, <1>3
<1> QED
  BY <1>1, <1>3, <1>4 DEF q, y

LEMMA SumRemainder ==
  ASSUME NEW C \in Nat, C > 0, NEW x \in Int, NEW z \in Int
  PROVE  ((x % C) + z) % C = (x + z) % C
<1>1. PICK q \in Int, y \in 0..(C - 1) : x = y + q * C /\ x % C = y
  BY Division
<1>2. PICK p \in Int, w \in 0..(C - 1) : y + z = w + p * C /\ (y + z) % C = w
  <2> DEFINE u == y + z
  <2>1. u \in Int
    BY <1>1
  <2> HIDE DEF u
  <2>2. \E p \in Int, w \in 0..(C - 1) : u = w + p * C /\ u % C = w
    BY <2>1, Division
  <2> QED
    BY <2>2 DEF u
<1>3. x + z = w + (q + p) * C
  BY <1>1, <1>2
<1>4. (w + (q + p) * C) % C = w
  BY Remainder
<1> QED
  BY <1>1, <1>2, <1>3, <1>4

-----------------------------------------------------------------------------
(* What timer_get_system_tick() returns: the tick before the interrupt     *)
(* that tore the read or, where the interrupt carried into the high byte,  *)
(* almost one high byte too much.                                          *)
ReadAt == IF torn THEN tick - 1 ELSE tick
Now == HighByte(tick) * ByteMod + low

LEMMA ClockIs == /\ ByteMod \in Nat /\ ByteMod > 0 /\ Clock = ByteMod * ByteMod
                 /\ Clock \in Nat /\ Clock > 0
  BY ClockAssumption DEF Clock

LEMMA TwoBytes ==
  ASSUME NEW q \in Nat, NEW y \in 0..(ByteMod - 1)
  PROVE  (q % ByteMod) * ByteMod + y = (q * ByteMod + y) % Clock
<1> DEFINE B == ByteMod
<1>1. B \in Nat /\ B > 0
  BY ClockIs
<1>2. PICK p \in Int, h \in 0..(B - 1) : q = h + p * B /\ q % B = h
  BY <1>1, Division
<1> HIDE DEF B
<1>3. h * B + y \in 0..(B * B - 1)
  <2>1. h <= B - 1 /\ y <= B - 1 /\ y \in Nat /\ h \in Nat
    BY <1>1 DEF B
  <2>2. h * B <= (B - 1) * B
    BY <1>1, <2>1
  <2> QED
    BY <1>1, <2>1, <2>2
<1>4. q * B + y = (h * B + y) + p * (B * B)
  BY <1>1, <1>2 DEF B
<1>5. (q * B + y) % (B * B) = h * B + y
  <2>1. B * B \in Nat /\ B * B > 0
    BY <1>1
  <2> QED
    BY <1>3, <1>4, <2>1, Remainder, ZenonT(40)
<1> QED
  BY <1>2, <1>5 DEF B, Clock

LEMMA ReadTick ==
  ASSUME tick \in Nat, torn \in BOOLEAN, torn => tick > 0, low = LowByte(ReadAt)
  PROVE  \E t \in Nat : /\ Now = t % Clock /\ ReadAt <= t
                        /\ t <= tick \/ (torn /\ t <= tick + ByteMod - 1)
<1> DEFINE B == ByteMod
<1>1. B \in Nat /\ B > 0
  BY ClockIs
<1>2. PICK q \in Int, y \in 0..(B - 1) : tick = y + q * B /\ tick % B = y /\ tick \div B = q /\ q \in Nat
  BY <1>1, Division
<1>3. /\ low \in 0..(B - 1)
      /\ low = y \/ (torn /\ low = y - 1) \/ (torn /\ y = 0 /\ low = B - 1)
      /\ torn => (low = y - 1 \/ (y = 0 /\ low = B - 1))
  <2>1. CASE ~torn
    BY <1>2, <2>1 DEF LowByte, ReadAt
  <2>2. CASE torn /\ y > 0
    <3>1. tick - 1 = (y - 1) + q * B /\ y - 1 \in 0..(B - 1)
      BY <1>1, <1>2, <2>2
    <3>2. (tick - 1) % B = y - 1
      BY <1>1, <1>2, <3>1, Remainder
    <3> QED
      BY <2>2, <3>1, <3>2 DEF LowByte, ReadAt
  <2>3. CASE torn /\ y = 0
    <3>1. tick - 1 = (B - 1) + (q - 1) * B /\ B - 1 \in 0..(B - 1)
      BY <1>1, <1>2, <2>3
    <3>2. (tick - 1) % B = B - 1
      BY <1>1, <1>2, <3>1, Remainder
    <3> QED
      BY <2>3, <3>1, <3>2 DEF LowByte, ReadAt
  <2> QED
    BY <1>2, <2>1, <2>2, <2>3
<1> DEFINE t == q * B + low
<1>4. Now = t % Clock
  BY <1>2, <1>3, TwoBytes DEF Now, HighByte
<1>5. t \in Nat
  BY <1>1, <1>2, <1>3
<1>6. ReadAt <= t /\ (t <= tick \/ (torn /\ t <= tick + B - 1))
  <2>1. CASE ~torn
    BY <1>1, <1>2, <1>3, <2>1 DEF ReadAt
  <2>2. CASE torn /\ low = y - 1
    BY <1>1, <1>2, <2>2 DEF ReadAt
  <2>3. CASE torn /\ y = 0 /\ low = B - 1
    BY <1>1, <1>2, <2>3 DEF ReadAt
  <2> QED
    BY <1>3, <2>1, <2>2, <2>3
<1> HIDE DEF t
<1> QED
  BY <1>4, <1>5, <1>6

(* The difference of two clock readings that are less than half a turn     *)
(* apart, as clock_time_t has it.                                          *)
LEMMA SignedDifference ==
  ASSUME NEW t \in Int, NEW s \in Int, 2 * (t - s) < Clock, 2 * (t - s) >= -Clock
  PROVE  Signed((t % Clock) - (s % Clock)) = t - s
<1> DEFINE C == Clock  d == t - s
<1>1. C \in Nat /\ C > 0
  BY ClockIs
<1>2. PICK q \in Int, y \in 0..(C - 1) : t = y + q * C /\ t % C = y
  BY <1>1, Division
<1>3. PICK p \in Int, w \in 0..(C - 1) : s = w + p * C /\ s % C = w
  BY <1>1, Division
<1>4. d \in Int /\ 2 * d < C /\ 2 * d >= -C
  BY <1>1
<1>5. y - w = d + (p - q) * C
  BY <1>1, <1>2, <1>3
<1> HIDE DEF C, d
<1>6. CASE d >= 0
  <2>1. d \in 0..(C - 1)
    BY <1>1, <1>4, <1>6
  <2>2. (y - w) % C = d
    BY <1>1, <1>5, <2>1, Remainder
  <2> QED
    BY <1>1, <1>2, <1>3, <1>4, <2>2 DEF Signed, C, d
<1>7. CASE d < 0
  <2>1. d + C \in 0..(C - 1) /\ y - w = (d + C) + (p - q - 1) * C
    BY <1>1, <1>4, <1>5, <1>7
  <2>2. (y - w) % C = d + C
    BY <1>1, <2>1, Remainder
  <2>3. 2 * (d + C) >= C
    BY <1>1, <1>4
  <2> QED
    BY <1>1, <1>2, <1>3, <1>4, <2>2, <2>3 DEF Signed, C, d
<1> QED
  BY <1>4, <1>6, <1>7

-----------------------------------------------------------------------------
(* start is the tick the timer was due at last, in the bits of the clock;  *)
(* a look never comes after the tick of the next expiry but one, and a     *)
(* torn read makes a timer expire less than one high byte early.           *)
TimerInv ==
  /\ tick \in Nat /\ turn \in Timers /\ torn \in BOOLEAN
  /\ torn => low # -1 /\ tick > 0
  /\ low # -1 => low = LowByte(ReadAt)
  /\ looked \in [Timers -> Nat] /\ due \in [Timers -> Nat] /\ start \in [Timers -> Int]
  /\ \A i \in Timers :
       /\ looked[i] <= tick /\ tick <= looked[i] + MaxLag /\ looked[i] <= due[i]
       /\ due[i] - Intervals[i] <= tick + ByteMod - 1
       /\ start[i] = (due[i] - Intervals[i]) % Clock

LEMMA IntervalIs ==
  ASSUME NEW i \in Timers
  PROVE  /\ Intervals[i] \in Nat /\ Intervals[i] > 0 /\ MaxLag \in Nat
         /\ MaxLag <= Intervals[i] /\ 2 * (Intervals[i] + MaxLag + ByteMod) < Clock
  BY ClockAssumption DEF Timers

(* A timer found expired is due, or the read was torn; one that is not     *)
(* found expired was not due when the low byte was read.                   *)
Early(i) == torn /\ due[i] - tick < ByteMod

LEMMA ExpiredIsDue ==
  ASSUME TimerInv, low # -1, NEW i \in Timers
  PROVE  /\ TimerExpired(Now, i) => /\ tick >= due[i] \/ Early(i)
                                    /\ due[i] <= tick + ByteMod - 1
         /\ ~TimerExpired(Now, i) => ReadAt < due[i]
<1> DEFINE I == Intervals[i]  L == looked[i]  D == due[i]  B == ByteMod
<1>1. /\ I \in Nat /\ I > 0 /\ MaxLag \in Nat /\ 2 * (I + MaxLag + B) < Clock
      /\ B \in Nat /\ B > 0 /\ Clock \in Nat
  BY IntervalIs, ClockIs
<1>2. /\ L \in Nat /\ D \in Nat /\ tick \in Nat /\ L <= tick /\ tick <= L + MaxLag /\ L <= D
      /\ D - I <= tick + B - 1 /\ start[i] = (D - I) % Clock
  BY DEF TimerInv
<1>3. torn \in BOOLEAN /\ (torn => tick > 0) /\ low = LowByte(ReadAt)
  BY DEF TimerInv
<1>4. PICK t \in Nat : /\ Now = t % Clock /\ ReadAt <= t
                       /\ t <= tick \/ (torn /\ t <= tick + B - 1)
  BY <1>2, <1>3, ReadTick
<1>5. tick - 1 <= t /\ t <= tick + B - 1
  <2>1. tick - 1 <= ReadAt /\ ReadAt \in Int
    BY <1>2 DEF ReadAt
  <2> HIDE DEF B
  <2> QED
    BY <1>1, <1>2, <1>4, <2>1
<1>6. Signed(Now - start[i]) = t - (D - I)
  <2> DEFINE s == D - I
  <2>1. s \in Int /\ 2 * (t - s) < Clock /\ 2 * (t - s) >= -Clock
    <3> HIDE DEF D, I, B, L
    <3>1. t - s <= MaxLag + B - 1 + I /\ t - s >= -B
      BY <1>1, <1>2, <1>5
    <3> QED
      BY <1>1, <1>2, <3>1
  <2> HIDE DEF s
  <2>2. Signed((t % Clock) - (s % Clock)) = t - s
    BY <2>1, SignedDifference
  <2> QED
    BY <1>2, <1>4, <2>2 DEF s
<1>7. TimerExpired(Now, i) <=> t >= D
  <2>1. TimerExpired(Now, i) <=> t - (D - I) >= I
    BY <1>6 DEF TimerExpired
  <2> HIDE DEF D, I
  <2> QED
    BY <1>1, <1>2, <2>1
<1>8. t >= D => /\ tick >= D \/ (torn /\ D - tick < B)
                /\ D <= tick + B - 1
  <2> HIDE DEF D, B
  <2> QED
    BY <1>1, <1>2, <1>4, <1>5
<1>9. ~(t >= D) => ReadAt < D
  <2>1. ReadAt \in Int
    BY <1>2 DEF ReadAt
  <2> HIDE DEF D
  <2> QED
    BY <1>2, <1>4, <2>1
<1> QED
  BY <1>7, <1>8, <1>9 DEF Early

LEMMA TimerInitInv == TimerInit => TimerInv
<1> SUFFICES ASSUME TimerInit PROVE TimerInv
  OBVIOUS
<1>1. 1 \in Timers /\ Timers = 1..Len(Intervals)
  BY ClockAssumption DEF Timers
<1>2. \A i \in Timers : Intervals[i] \in Nat /\ MaxLag \in Nat
  BY IntervalIs
<1>3. ByteMod \in Nat /\ ByteMod > 0 /\ Clock \in Nat /\ Clock > 0
  BY ClockIs
<1>4. 0 % Clock = 0
  BY <1>3
<1>5. ASSUME NEW i \in Timers
      PROVE  /\ looked[i] = 0 /\ start[i] = 0 /\ due[i] \in Nat /\ due[i] - Intervals[i] = 0
             /\ tick = 0
    BY <1>2 DEF TimerInit
<1>6. \A i \in Timers :
       /\ looked[i] <= tick /\ tick <= looked[i] + MaxLag /\ looked[i] <= due[i]
       /\ due[i] - Intervals[i] <= tick + ByteMod - 1
       /\ start[i] = (due[i] - Intervals[i]) % Clock
  BY <1>2, <1>3, <1>4, <1>5
<1>7. looked \in [Timers -> Nat] /\ due \in [Timers -> Nat] /\ start \in [Timers -> Int]
  BY <1>2 DEF TimerInit
<1> QED
  BY <1>1, <1>6, <1>7 DEF TimerInit, TimerInv

LEMMA InterruptInv == TimerInv /\ Interrupt => TimerInv'
<1> SUFFICES ASSUME TimerInv, Interrupt PROVE TimerInv'
  OBVIOUS
<1>1. /\ tick \in Nat /\ tick' = tick + 1 /\ ~torn /\ torn' = (low # -1)
      /\ UNCHANGED <<start, turn, low, looked, due>>
      /\ \A i \in Timers : tick - looked[i] < MaxLag
  BY DEF Interrupt, TimerInv
<1>2. ReadAt' = IF torn' THEN tick ELSE tick + 1
  BY <1>1 DEF ReadAt
<1>3. low # -1 => low = LowByte(tick)
  BY <1>1 DEF TimerInv, ReadAt
<1>4. low' # -1 => low' = LowByte(ReadAt')
  BY <1>1, <1>2, <1>3
<1>5. low' # -1 => low' = LowByte(ReadAt)'
  BY <1>4 DEF LowByte
<1>6. ASSUME NEW i \in Timers
      PROVE  /\ looked[i] <= tick + 1 /\ tick + 1 <= looked[i] + MaxLag
             /\ due[i] - Intervals[i] <= (tick + 1) + ByteMod - 1
  <2>1. /\ looked[i] \in Nat /\ looked[i] <= tick /\ tick - looked[i] < MaxLag
        /\ due[i] - Intervals[i] <= tick + ByteMod - 1 /\ due[i] \in Nat
    BY <1>1 DEF TimerInv
  <2> QED
    BY <1>1, <2>1, IntervalIs, ClockIs
<1> QED
  BY <1>1, <1>5, <1>6 DEF TimerInv

LEMMA ReadLowInv == TimerInv /\ ReadLow => TimerInv'
<1> SUFFICES ASSUME TimerInv, ReadLow PROVE TimerInv'
  OBVIOUS
<1>1. ~torn /\ low' = LowByte(tick) /\ UNCHANGED <<tick, start, turn, looked, torn, due>>
  BY DEF ReadLow, TimerInv
<1>2. low' = LowByte(ReadAt)'
  BY <1>1 DEF ReadAt, LowByte
<1> QED
  BY <1>1, <1>2 DEF TimerInv

LEMMA LookInv == TimerInv /\ Look => TimerInv'
<1> SUFFICES ASSUME TimerInv, Look PROVE TimerInv'
  OBVIOUS
<1> DEFINE k == turn
<1>1. /\ low # -1 /\ low' = -1 /\ torn' = FALSE /\ tick' = tick
      /\ looked' = [looked EXCEPT ![k] = tick] /\ turn' = (turn % Len(Intervals)) + 1
      /\ \/ /\ TimerExpired(Now, k) /\ due' = [due EXCEPT ![k] = @ + Intervals[k]]
            /\ start' = [start EXCEPT ![k] = (@ + Intervals[k]) % Clock]
         \/ ~TimerExpired(Now, k) /\ UNCHANGED <<start, due>>
  BY DEF Look, Now, TimerReset
<1>2. /\ k \in Timers /\ tick \in Nat /\ looked \in [Timers -> Nat]
      /\ due \in [Timers -> Nat] /\ start \in [Timers -> Int]
  BY DEF TimerInv
<1>3. turn' \in Timers
  <2>1. Timers = 1..Len(Intervals) /\ Len(Intervals) \in Nat
    BY ClockAssumption DEF Timers
  <2>2. Len(Intervals) > 0 /\ turn \in Nat
    BY <1>2, <2>1
  <2>3. turn % Len(Intervals) \in 0..(Len(Intervals) - 1)
    BY <2>1, <2>2
  <2> QED
    BY <1>1, <2>1, <2>3
<1>4. ASSUME NEW i \in Timers
      PROVE  /\ looked'[i] \in Nat /\ due'[i] \in Nat /\ start'[i] \in Int
             /\ looked'[i] <= tick /\ tick <= looked'[i] + MaxLag /\ looked'[i] <= due'[i]
             /\ due'[i] - Intervals[i] <= tick + ByteMod - 1
             /\ start'[i] = (due'[i] - Intervals[i]) % Clock
  <2> DEFINE I == Intervals[i]  L == looked[i]  D == due[i]
  <2>1. /\ I \in Nat /\ I > 0 /\ MaxLag \in Nat /\ MaxLag <= I
        /\ ByteMod \in Nat /\ ByteMod > 0 /\ Clock \in Nat /\ Clock > 0
    BY IntervalIs, ClockIs
  <2>2. /\ L \in Nat /\ D \in Nat /\ start[i] \in Int
        /\ L <= tick /\ tick <= L + MaxLag /\ L <= D
        /\ D - I <= tick + ByteMod - 1 /\ start[i] = (D - I) % Clock
    BY <1>2 DEF TimerInv
  <2>3. CASE i # k
    BY <1>1, <1>2, <2>2, <2>3
  <2>4. CASE i = k /\ TimerExpired(Now, k)
    <3>1. looked'[i] = tick /\ due'[i] = D + I /\ start'[i] = (start[i] + I) % Clock
      BY <1>1, <1>2, <2>4
    <3>2. D <= tick + ByteMod - 1
      BY <1>1, <2>4, ExpiredIsDue
    <3> HIDE DEF I, L, D
    <3>3. (((D - I) % Clock) + I) % Clock = ((D - I) + I) % Clock
      <4>1. D - I \in Int /\ I \in Int
        BY <2>1, <2>2
      <4> QED
        BY <2>1, <4>1, SumRemainder
    <3>4. (D - I) + I = D /\ (D + I) - I = D
      BY <2>1, <2>2
    <3>5. start'[i] = D % Clock
      BY <2>2, <3>1, <3>3, <3>4
    <3>6. D % Clock \in Int
      BY <2>1, <2>2
    <3>7. /\ looked'[i] \in Nat /\ due'[i] \in Nat
          /\ tick <= tick + MaxLag /\ tick <= D + I
      BY <1>2, <2>1, <2>2, <3>1
    <3> QED
      BY <1>2, <3>1, <3>2, <3>4, <3>5, <3>6, <3>7 DEF I
  <2>5. CASE i = k /\ ~TimerExpired(Now, k)
    <3>1. looked'[i] = tick /\ due'[i] = D /\ start'[i] = start[i]
      BY <1>1, <1>2, <2>5
    <3>2. ReadAt < D
      BY <1>1, <2>5, ExpiredIsDue
    <3>3. tick <= D
      BY <1>2, <2>2, <3>2 DEF ReadAt
    <3> HIDE DEF I, L, D
    <3> QED
      BY <1>2, <2>1, <2>2, <3>1, <3>3 DEF I, D
  <2> QED
    BY <1>1, <2>3, <2>4, <2>5
<1>5. /\ looked' \in [Timers -> Nat] /\ due' \in [Timers -> Nat] /\ start' \in [Timers -> Int]
  BY <1>1, <1>2, <1>4
<1> QED
  BY <1>1, <1>2, <1>3, <1>4, <1>5 DEF TimerInv

LEMMA TimerStepInv == TimerInv /\ [TimerNext]_timervars => TimerInv'
<1>1. TimerInv /\ UNCHANGED timervars => TimerInv'
  BY DEF TimerInv, timervars, LowByte, ReadAt
<1> QED
  BY <1>1, InterruptInv, ReadLowInv, LookInv DEF TimerNext

-----------------------------------------------------------------------------
(* What Schedule says of a step.                                           *)
Scheduled ==
  \A i \in Timers :
    /\ due'[i] # due[i] => \/ tick >= due[i]
                           \/ torn /\ due[i] - tick < ByteMod
    /\ looked'[i] # looked[i] /\ due'[i] = due[i] =>
         (IF torn THEN tick - 1 ELSE tick) < due[i]

LEMMA ScheduleStep == TimerInv /\ [TimerNext]_timervars => Scheduled
<1> SUFFICES ASSUME TimerInv, TimerNext \/ UNCHANGED timervars PROVE Scheduled
  OBVIOUS
<1>1. CASE Interrupt \/ ReadLow \/ UNCHANGED timervars
  BY <1>1 DEF Interrupt, ReadLow, timervars, Scheduled
<1>2. CASE Look
  <2> SUFFICES ASSUME NEW i \in Timers
               PROVE  /\ due'[i] # due[i] => tick >= due[i] \/ Early(i)
                      /\ looked'[i] # looked[i] /\ due'[i] = due[i] => ReadAt < due[i]
    BY DEF Scheduled, Early, ReadAt
  <2>1. /\ low # -1 /\ looked' = [looked EXCEPT ![turn] = tick]
        /\ \/ TimerExpired(Now, turn) /\ due' = [due EXCEPT ![turn] = @ + Intervals[turn]]
           \/ ~TimerExpired(Now, turn) /\ due' = due
    BY <1>2 DEF Look, Now
  <2>2. turn \in Timers /\ looked \in [Timers -> Nat] /\ due \in [Timers -> Nat]
    BY DEF TimerInv
  <2>3. CASE i # turn
    BY <2>1, <2>2, <2>3
  <2>4. CASE i = turn /\ TimerExpired(Now, turn)
    <3>1. due'[i] = due[i] + Intervals[i] /\ Intervals[i] \in Nat /\ Intervals[i] > 0
      BY <2>1, <2>2, <2>4, IntervalIs
    <3>2. due'[i] # due[i]
      BY <2>2, <3>1
    <3> QED
      BY <2>1, <2>4, <3>2, ExpiredIsDue
  <2>5. CASE i = turn /\ ~TimerExpired(Now, turn)
    BY <2>1, <2>5, ExpiredIsDue
  <2> QED
    BY <2>1, <2>3, <2>4, <2>5
<1> QED
  BY <1>1, <1>2 DEF TimerNext

(* A software timer expires once per interval, never later than the first  *)
(* look at it after it is due, and early only by a torn read, less than    *)
(* one high byte; errors do not accumulate across the wrap of the clock,   *)
(* for every width of its bytes, any timers and any number of ticks.       *)
THEOREM ScheduleKept == TimerSpec => Schedule
<1>1. TimerInv /\ [TimerNext]_timervars => [Scheduled]_timervars
  BY ScheduleStep
<1> QED
  BY TimerInitInv, TimerStepInv, <1>1, PTL DEF TimerSpec, Schedule, Scheduled

-----------------------------------------------------------------------------
(***************************************************************************)
(* Part 3.  Datagrams put together from fragments (Reassembly).            *)
(***************************************************************************)
(* A place before the end of the last byte of the bitmap is in a unit that *)
(* the bitmap has.                                                         *)
LEMMA UnitInBitmap ==
  ASSUME NEW e \in Nat, e \div (Unit * Width) < MapBytes
  PROVE  /\ MapBytes \in Nat /\ e \div Unit \in Nat
         /\ e \div Unit <= MapBytes * Width - 1
<1>1. Unit \in Nat \ {0} /\ Width \in Nat \ {0} /\ BufSize \in Nat
  BY ReassAssumption
<1>2. PICK w \in Nat \ {0} : w = Unit * Width
  BY <1>1
<1>3. PICK k \in Nat : k = MapBytes
  BY <1>1, <1>2, Quot DEF MapBytes
<1>4. PICK b \in Nat : b = e \div Unit
  BY <1>1, Quot
<1>5. PICK i \in Nat : i = b \div Width
  BY <1>1, Quot
<1>6. e \div (Unit * Width) = i
  BY <1>1, <1>4, <1>5, QuotQuot
<1>7. i + 1 <= k
  BY <1>3, <1>6
<1>8. b < Width * i + Width /\ Width * i \in Nat
  BY <1>1, <1>5, Quot
<1>9. Width * (i + 1) <= Width * k
  BY <1>1, <1>7, TimesLeq
<1>10. b < k * Width /\ k * Width \in Nat
  BY <1>1, <1>8, <1>9
<1> QED
  BY <1>3, <1>4, <1>10

(* What the test for a complete datagram sees: the units of every byte of  *)
(* the bitmap but the last but one.                                        *)
LEMMA CompleteCovers ==
  ASSUME NEW map, NEW len \in Nat, NEW p \in Nat, Complete(map, len),
         p \div Unit < len \div Unit,
         p \div (Unit * Width) # (len \div (Unit * Width)) - 1
  PROVE  p \div Unit \in map
<1>1. Unit \in Nat \ {0} /\ Width \in Nat \ {0}
  BY ReassAssumption
<1>2. PICK u \in Nat, m \in Nat : u = p \div Unit /\ m = len \div Unit
  BY <1>1, Quot
<1>3. PICK i \in Nat, n \in Nat : i = u \div Width /\ n = m \div Width
  BY <1>1, Quot
<1>4. p \div (Unit * Width) = i /\ len \div (Unit * Width) = n
  BY <1>1, <1>2, <1>3, QuotQuot, ZenonT(40)
<1>5. u < m /\ i # n - 1
  BY <1>2, <1>4
<1>6. i <= n
  BY <1>1, <1>3, <1>5, QuotLeq
<1>7. \A k \in 0..n : k + 1 < n => FullByte(map, k)
  BY <1>4 DEF Complete
<1>8. {v \in map : v \div Width = n} = (n * Width)..(m - 1)
  BY <1>2, <1>4 DEF Complete, LastByteOK
<1>9. i * Width <= u /\ u < i * Width + Width /\ i * Width \in Nat
  BY <1>1, <1>3, Quot
<1>10. CASE i < n
  <2>1. FullByte(map, i)
    BY <1>5, <1>7, <1>10
  <2>2. u \in (i * Width)..(i * Width + Width - 1)
    BY <1>1, <1>9
  <2> QED
    BY <1>2, <2>1, <2>2 DEF FullByte
<1>11. CASE i = n
  <2>1. u \in (n * Width)..(m - 1)
    BY <1>5, <1>9, <1>11
  <2> QED
    BY <1>2, <1>8, <2>1
<1> QED
  BY <1>6, <1>10, <1>11

(* A datagram of Unit * Width bytes or more that is all there passes it.   *)
LEMMA AllThere ==
  ASSUME NEW len \in Nat, len >= Unit * Width
  PROVE  Complete(0..((len \div Unit) - 1), len)
<1>1. Unit \in Nat \ {0} /\ Width \in Nat \ {0}
  BY ReassAssumption
<1>2. PICK m \in Nat : m = len \div Unit
  BY <1>1, Quot
<1>3. PICK n \in Nat : n = m \div Width
  BY <1>1, Quot
<1>4. len \div (Unit * Width) = n
  BY <1>1, <1>2, <1>3, QuotQuot
<1>5. n * Width <= m /\ m < n * Width + Width /\ n * Width \in Nat
  BY <1>1, <1>3, Quot
<1>6. n # 0
  <2>1. Unit * Width \in Nat \ {0}
    BY <1>1
  <2>2. len < (Unit * Width) * n + Unit * Width
    BY <1>4, <2>1, Quot
  <2> QED
    BY <2>1, <2>2
<1>7. ASSUME NEW k \in 0..n, k + 1 < n
      PROVE  FullByte(0..(m - 1), k)
  <2>1. Width * (k + 1) <= Width * n
    BY <1>1, <1>7, TimesLeq
  <2>2. k * Width + Width <= n * Width /\ k * Width \in Nat
    BY <1>1, <2>1
  <2> QED
    BY <1>1, <1>5, <2>2 DEF FullByte
<1>8. {v \in 0..(m - 1) : v \div Width = n} = (n * Width)..(m - 1)
  <2>1. ASSUME NEW v \in 0..(m - 1), v \div Width = n
        PROVE  v \in (n * Width)..(m - 1)
    BY <1>1, <1>5, <2>1, Quot
  <2>2. ASSUME NEW v \in (n * Width)..(m - 1)
        PROVE  v \in 0..(m - 1) /\ v \div Width = n
    <3>1. v \in Nat /\ Width * n <= v /\ v < Width * n + Width
      BY <1>1, <1>5
    <3> QED
      BY <1>1, <1>5, <3>1, QuotIs
  <2> QED
    BY <2>1, <2>2
<1> QED
  BY <1>2, <1>4, <1>6, <1>7, <1>8 DEF Complete, LastByteOK

-----------------------------------------------------------------------------
(* A unit that is marked, and the end of the datagram that is shorter than *)
(* a unit, hold bytes of the datagram whose header is in the buffer: a new *)
(* datagram starts with a clear bitmap, and finds its place taken          *)
(* otherwise.                                                              *)
MarkedIsOwners == \A p \in Places : p \div Unit \in bitmap => reassbuf[p] = owner
EndIsOwners ==
  lastfrag => \A p \in Places :
                Unit * (reasslen \div Unit) <= p /\ p < reasslen => reassbuf[p] = owner
ReassInv == ReassTypeOK /\ MarkedIsOwners /\ EndIsOwners /\ ReassPrompt /\ ReassUnmixed

LEMMA ReassInitInv == ReassInit => ReassInv
<1> SUFFICES ASSUME ReassInit PROVE ReassInv
  OBVIOUS
<1>1. ReassTypeOK
  <2>1. [p \in Places |-> 0] \in [Places -> Datagrams \cup {0}]
    OBVIOUS
  <2>2. 0 \in 0..(BufSize - IPH_LEN) /\ 0 \in 0..REASS_MAXAGE
    BY ReassAssumption
  <2> QED
    BY <2>1, <2>2 DEF ReassInit, ReassTypeOK
<1> QED
  BY <1>1 DEF ReassInit, ReassInv, MarkedIsOwners, EndIsOwners, ReassPrompt, ReassUnmixed

\* A step that leaves the buffer alone and passes nothing on, or one datagram
\* that came whole.
LEMMA KeepsBuffer ==
  ASSUME ReassInv, UNCHANGED <<reassbuf, bitmap, owner, reasslen, lastfrag>>,
         overran' \in BOOLEAN, reasstmr' \in 0..REASS_MAXAGE, reasstmr' > 0 => reasstmr > 0,
         ReassUnmixed'
  PROVE  ReassInv'
BY DEF ReassInv, ReassTypeOK, MarkedIsOwners, EndIsOwners, ReassPrompt, Places, MapBytes

LEMMA NothingUnmixed == delivered' = {} => ReassUnmixed'
BY DEF ReassUnmixed

LEMMA WholeInv == ReassInv /\ Whole => ReassInv'
<1> SUFFICES ASSUME ReassInv, Whole PROVE ReassInv'
  OBVIOUS
<1>1. PICK d \in Datagrams, intact \in BOOLEAN :
        /\ IF intact /\ PayloadLen[d] <= BufSize
           THEN PassOn(d, PayloadLen[d] + IPH_LEN, [p \in 0..(PayloadLen[d] - 1) |-> d])
           ELSE delivered' = {}
        /\ UNCHANGED <<reassbuf, bitmap, owner, reasslen, lastfrag, reasstmr, overran>>
  BY DEF Whole
<1>2. PayloadLen[d] \in Nat \ {0} /\ IPH_LEN \in Nat
  BY ReassAssumption
<1>3. PICK l \in Nat : l = PayloadLen[d]
  BY <1>2
<1>4. (l + IPH_LEN) - IPH_LEN - 1 = l - 1
  BY <1>2
<1>5. CASE delivered' = {}
  BY <1>1, <1>5, KeepsBuffer, NothingUnmixed DEF ReassInv, ReassTypeOK
<1>6. CASE PassOn(d, l + IPH_LEN, [p \in 0..(l - 1) |-> d])
  <2>1. \A x \in delivered' : x.of = d /\ x.bytes = [p \in 0..(l - 1) |-> d]
    BY <1>4, <1>6 DEF PassOn
  <2>2. ReassUnmixed'
    BY <2>1 DEF ReassUnmixed
  <2> QED
    BY <1>1, <2>2, KeepsBuffer DEF ReassInv, ReassTypeOK
<1> QED
  BY <1>1, <1>3, <1>5, <1>6

LEMMA TickInv == ReassInv /\ ReassTick => ReassInv'
<1> SUFFICES ASSUME ReassInv, ReassTick PROVE ReassInv'
  OBVIOUS
<1>1. reasstmr' \in 0..REASS_MAXAGE /\ overran' \in BOOLEAN
  BY ReassAssumption DEF ReassInv, ReassTypeOK, ReassTick
<1> QED
  BY <1>1, KeepsBuffer, NothingUnmixed DEF ReassTick

-----------------------------------------------------------------------------
(* A fragment that fits: the units it marks are those it fills.            *)
LEMMA MarksWhatItFills ==
  ASSUME NEW off \in Nat, NEW n \in Nat, off % Unit = 0, NEW p \in Nat,
         p \div Unit \in (off \div Unit)..(((off + n) \div Unit) - 1)
  PROVE  p \in off..(off + n - 1)
<1>1. Unit \in Nat \ {0}
  BY ReassAssumption
<1>2. PICK a \in Nat, b \in Nat, u \in Nat :
        a = off \div Unit /\ b = (off + n) \div Unit /\ u = p \div Unit
  BY <1>1, Quot
<1>3. off = Unit * a
  BY <1>1, <1>2
<1>4. a <= u /\ u < b
  BY <1>2
<1>5. Unit * a <= Unit * u /\ Unit * u + Unit <= Unit * b
  BY <1>1, <1>4, TimesLeq, TimesLess
<1>6. Unit * u <= p /\ p < Unit * u + Unit /\ Unit * b <= off + n
  BY <1>1, <1>2, Quot
<1>7. Unit * a \in Nat /\ Unit * u \in Nat /\ Unit * b \in Nat
  BY <1>1
<1> QED
  BY <1>1, <1>3, <1>5, <1>6, <1>7

(* A fragment of d that fits.  Its bytes are put into the buffer; what the *)
(* buffer held of d before remains.                                        *)
LEMMA FragmentFits ==
  ASSUME ReassInv, NEW d \in Datagrams, NEW off \in Nat, NEW n \in Nat \ {0}, NEW more \in BOOLEAN,
         off % Unit = 0, Reass(d, off, n, more), Starts \/ owner = d, ~Overflows(off, n),
         Inside(off, n)
  PROVE  ReassInv'
<1>1. /\ Unit \in Nat \ {0} /\ Width \in Nat \ {0} /\ BufSize \in Nat \ {0} /\ IPH_LEN \in Nat
      /\ REASS_MAXAGE \in Nat \ {0}
  BY ReassAssumption
<1>2. PICK a \in Nat, b \in Nat : a = off \div Unit /\ b = (off + n) \div Unit
  BY <1>1, Quot
<1>3. off + n <= BufSize - IPH_LEN
  BY <1>1 DEF Inside
<1>4. PICK full \in BOOLEAN :
        /\ full = (lastfrag' /\ Complete(bitmap', reasslen'))
        /\ owner' = d
        /\ bitmap' = (IF Starts THEN {} ELSE bitmap) \cup a..(b - 1)
        /\ lastfrag' = ((IF Starts THEN FALSE ELSE lastfrag) \/ ~more)
        /\ reasslen' = IF more THEN reasslen ELSE off + n
        /\ reassbuf' = [p \in Places |-> IF p \in off..(off + n - 1) THEN d ELSE reassbuf[p]]
        /\ reasstmr' = IF full THEN 0 ELSE IF Starts THEN REASS_MAXAGE ELSE reasstmr
        /\ overran' = overran
        /\ IF full THEN PassOn(d, reasslen', reassbuf') ELSE delivered' = {}
  BY <1>2 DEF Reass
<1>5. ReassTypeOK'
  <2>1. reassbuf' \in [Places -> Datagrams \cup {0}]
    BY <1>4 DEF ReassInv, ReassTypeOK
  <2>2. MapBytes \in Nat /\ b <= MapBytes * Width - 1
    <3>1. PICK e \in Nat : e = off + n
      BY <1>1
    <3>2. e \div (Unit * Width) < MapBytes
      BY <3>1 DEF Inside
    <3> QED
      BY <1>2, <3>1, <3>2, UnitInBitmap
  <2>3. a..(b - 1) \subseteq 0..(MapBytes * Width - 1)
    BY <1>1, <2>2
  <2>4. bitmap' \subseteq 0..(MapBytes * Width - 1)
    BY <1>4, <2>3 DEF ReassInv, ReassTypeOK
  <2>5. /\ owner' \in Datagrams \cup {0} /\ reasslen' \in 0..(BufSize - IPH_LEN)
        /\ lastfrag' \in BOOLEAN /\ overran' \in BOOLEAN /\ reasstmr' \in 0..REASS_MAXAGE
    BY <1>1, <1>3, <1>4 DEF ReassInv, ReassTypeOK
  <2> QED
    BY <2>1, <2>4, <2>5 DEF ReassTypeOK, Places, MapBytes
<1>6. \A p \in Places : p \notin off..(off + n - 1) => reassbuf'[p] = reassbuf[p]
  BY <1>4
<1>7. \A p \in Places : p \in off..(off + n - 1) => reassbuf'[p] = d
  BY <1>4
<1>8. MarkedIsOwners'
  <2>1. SUFFICES ASSUME NEW p \in Places, p \div Unit \in bitmap' PROVE reassbuf'[p] = d
    BY <1>4 DEF MarkedIsOwners, Places
  <2>2. p \in Nat
    BY <1>1 DEF Places
  <2>3. CASE p \div Unit \in a..(b - 1)
    BY <1>2, <1>7, <2>2, <2>3, MarksWhatItFills
  <2>4. CASE ~Starts /\ p \div Unit \in bitmap
    BY <1>6, <1>7, <2>4 DEF ReassInv, MarkedIsOwners
  <2> QED
    BY <1>4, <2>1, <2>3, <2>4
<1>9. EndIsOwners'
  <2>1. SUFFICES ASSUME lastfrag', NEW p \in Places,
                        Unit * (reasslen' \div Unit) <= p, p < reasslen'
                 PROVE  reassbuf'[p] = d
    BY <1>4 DEF EndIsOwners, Places
  <2>2. CASE more
    BY <1>4, <1>6, <1>7, <2>1, <2>2 DEF ReassInv, EndIsOwners
  <2>3. CASE ~more
    <3>1. reasslen' = off + n /\ p \in Nat
      BY <1>1, <1>4, <2>3 DEF Places
    <3>2. Unit * b <= p /\ p < off + n
      BY <1>2, <2>1, <3>1
    <3>3. a <= b /\ off = Unit * a
      BY <1>1, <1>2, QuotLeq
    <3>4. Unit * a <= Unit * b /\ Unit * a \in Nat /\ Unit * b \in Nat
      BY <1>1, <3>3, TimesLeq
    <3>5. p \in off..(off + n - 1)
      BY <3>1, <3>2, <3>3, <3>4
    <3> QED
      BY <1>7, <3>5
  <2> QED
    BY <2>2, <2>3
<1>10. ReassPrompt'
  <2>1. SUFFICES ASSUME reasstmr' > 0, lastfrag', reasslen' >= Unit * Width,
                        bitmap' = 0..((reasslen' \div Unit) - 1)
                 PROVE  FALSE
    BY DEF ReassPrompt
  <2>2. PICK l \in Nat : l = reasslen'
    BY <1>1, <1>5 DEF ReassTypeOK
  <2>3. Complete(0..((l \div Unit) - 1), l)
    BY <2>1, <2>2, AllThere
  <2>4. full
    BY <1>4, <2>1, <2>2, <2>3
  <2>5. reasstmr' = 0
    BY <1>4, <2>4
  <2> QED
    BY <2>1, <2>5
<1>11. ReassUnmixed'
  <2>1. CASE ~full
    BY <1>4, <2>1, NothingUnmixed
  <2>2. CASE full
    <3>1. PICK l \in Nat : l = reasslen' /\ l <= BufSize - IPH_LEN
      BY <1>1, <1>5 DEF ReassTypeOK
    <3>2. PICK map : map = bitmap'
      OBVIOUS
    <3>3. Complete(map, l) /\ lastfrag'
      BY <1>4, <2>2, <3>1, <3>2
    <3>4. \A p \in Places : /\ p \div Unit \in map => reassbuf'[p] = d
                            /\ Unit * (l \div Unit) <= p /\ p < l => reassbuf'[p] = d
      BY <1>4, <1>8, <1>9, <3>1, <3>2, <3>3 DEF MarkedIsOwners, EndIsOwners, Places
    <3>5. ASSUME NEW p \in 0..(l - IPH_LEN - 1),
                 p \div (Unit * Width) # (l \div (Unit * Width)) - 1
          PROVE  reassbuf'[p] = d
      <4>1. p \in Nat /\ p < l /\ p \in Places
        <5>1. IPH_LEN \in Nat /\ BufSize \in Nat /\ l <= BufSize - IPH_LEN /\ p \in 0..(l - IPH_LEN - 1)
          BY <1>1, <3>1
        <5>2. p \in Nat /\ p < l /\ p <= BufSize - IPH_LEN - 1
          BY <5>1
        <5> QED
          BY <5>1, <5>2 DEF Places
      <4>2. CASE p \div Unit < l \div Unit
        BY <3>3, <3>4, <3>5, <4>1, <4>2, CompleteCovers
      <4>3. CASE ~(p \div Unit < l \div Unit)
        <5>1. PICK m \in Nat, u \in Nat : m = l \div Unit /\ u = p \div Unit
          BY <1>1, <4>1, Quot
        <5>2. m <= u
          BY <4>3, <5>1
        <5>3. Unit * m <= Unit * u /\ Unit * u <= p /\ Unit * m \in Nat /\ Unit * u \in Nat
          BY <1>1, <4>1, <5>1, <5>2, TimesLeq, Quot
        <5>4. Unit * m <= p
          BY <4>1, <5>3
        <5> QED
          BY <3>4, <4>1, <5>1, <5>4
      <4> QED
        BY <4>2, <4>3
    <3>6. PassOn(d, l, reassbuf')
      BY <1>4, <2>2, <3>1
    <3>7. \A x \in delivered' :
            /\ x.of = d /\ x.len = l
            /\ x.bytes = [p \in 0..(l - IPH_LEN - 1) |-> reassbuf'[p]]
      <4> DEFINE r == [of |-> d, len |-> l,
                       bytes |-> [p \in 0..(l - IPH_LEN - 1) |-> reassbuf'[p]]]
      <4>1. r.of = d /\ r.len = l /\ r.bytes = [p \in 0..(l - IPH_LEN - 1) |-> reassbuf'[p]]
        OBVIOUS
      <4>2. \A x \in delivered' : x = r
        BY <3>6 DEF PassOn
      <4> QED
        BY <4>1, <4>2
    <3> QED
      BY <3>5, <3>7, ZenonT(40) DEF ReassUnmixed
  <2> QED
    BY <2>1, <2>2
<1> QED
  BY <1>5, <1>8, <1>9, <1>10, <1>11 DEF ReassInv

(* A fragment of another datagram, one that is refused, one that ends      *)
(* outside of the buffer, and one that fits.                               *)
LEMMA FragmentInv == ReassInv /\ Fragment => ReassInv'
<1> SUFFICES ASSUME ReassInv, Fragment PROVE ReassInv'
  OBVIOUS
<1>1. PICK d \in Datagrams : \E o \in 0..(PayloadLen[d] - 1) : \E n \in 1..(PayloadLen[d] - o) :
        o % Unit = 0 /\ Reass(d, o, n, o + n < PayloadLen[d])
  BY DEF Fragment
<1>2. PICK l \in Nat : l = PayloadLen[d]
  BY ReassAssumption
<1>3. PICK off \in 0..(l - 1) : \E n \in 1..(l - off) :
        off % Unit = 0 /\ Reass(d, off, n, off + n < l)
  BY <1>1, <1>2
<1>7. off \in Nat /\ \A k \in 1..(l - off) : k \in Nat \ {0}
  BY <1>2
<1>8. PICK n \in Nat \ {0} : off % Unit = 0 /\ Reass(d, off, n, off + n < l)
  BY <1>3, <1>7
<1> DEFINE more == off + n < l
<1>9. more \in BOOLEAN
  OBVIOUS
<1>10. off % Unit = 0 /\ Reass(d, off, n, more)
  BY <1>8
<1> HIDE DEF more
<1>4. CASE ~Starts /\ owner # d
  <2>1. /\ delivered' = {}
        /\ UNCHANGED <<reassbuf, bitmap, owner, reasslen, lastfrag, reasstmr, overran>>
    BY <1>10, <1>4 DEF Reass
  <2> QED
    BY <2>1, KeepsBuffer, NothingUnmixed DEF ReassInv, ReassTypeOK
<1>5. CASE (Starts \/ owner = d) /\ Overflows(off, n)
  <2>1. /\ reasstmr' = 0 /\ delivered' = {} /\ owner' = d
        /\ bitmap' = (IF Starts THEN {} ELSE bitmap)
        /\ lastfrag' = (IF Starts THEN FALSE ELSE lastfrag)
        /\ UNCHANGED <<reassbuf, reasslen, overran>>
    BY <1>10, <1>5 DEF Reass
  <2>2. CASE Starts
    <3>1. bitmap' = {} /\ lastfrag' = FALSE
      BY <2>1, <2>2
    <3>2. 0 \in 0..REASS_MAXAGE
      BY ReassAssumption
    <3>3. ReassTypeOK'
      BY <2>1, <3>1, <3>2 DEF ReassInv, ReassTypeOK, Places
    <3>4. MarkedIsOwners' /\ EndIsOwners' /\ ReassPrompt'
      BY <3>1 DEF MarkedIsOwners, EndIsOwners, ReassPrompt
    <3> QED
      BY <2>1, <3>3, <3>4, NothingUnmixed DEF ReassInv
  <2>3. CASE ~Starts
    <3>1. owner' = owner /\ bitmap' = bitmap /\ lastfrag' = lastfrag
      BY <1>5, <2>1, <2>3
    <3>2. 0 \in 0..REASS_MAXAGE /\ ~(0 > 0)
      BY ReassAssumption
    <3> QED
      BY <2>1, <3>1, <3>2, KeepsBuffer, NothingUnmixed DEF ReassInv, ReassTypeOK
  <2> QED
    BY <2>2, <2>3
<1>6. CASE (Starts \/ owner = d) /\ ~Overflows(off, n) /\ ~Inside(off, n)
  <2>1. /\ overran' = TRUE /\ delivered' = {}
        /\ UNCHANGED <<reassbuf, bitmap, owner, reasslen, lastfrag, reasstmr>>
    BY <1>10, <1>6 DEF Reass
  <2> QED
    BY <2>1, KeepsBuffer, NothingUnmixed DEF ReassInv, ReassTypeOK
<1>11. CASE (Starts \/ owner = d) /\ ~Overflows(off, n) /\ Inside(off, n)
  BY <1>7, <1>9, <1>10, <1>11, FragmentFits
<1> QED
  BY <1>4, <1>5, <1>6, <1>11

LEMMA ReassStepInv == ReassInv /\ [ReassNext]_reassvars => ReassInv'
<1> SUFFICES ASSUME ReassInv, [ReassNext]_reassvars PROVE ReassInv'
  OBVIOUS
<1>1. CASE UNCHANGED reassvars
  BY <1>1 DEF reassvars, ReassInv, ReassTypeOK, MarkedIsOwners, EndIsOwners, ReassPrompt,
              ReassUnmixed, Places, MapBytes
<1> QED
  BY <1>1, WholeInv, FragmentInv, TickInv DEF ReassNext

LEMMA ReassInvariance == ReassSpec => []ReassInv
BY ReassInitInv, ReassStepInv, PTL DEF ReassSpec

(* uip_reass(): whatever fragments of whatever datagrams came in whatever  *)
(* order and however they overlap, what is passed on is of one datagram,   *)
(* except for the bytes of the last but one byte of the bitmap, which the  *)
(* loop of uip.c:636 leaves out and where another one's may be; until a    *)
(* fragment was first written outside of the buffer, which uip.c:586       *)
(* admits.                                                                 *)
THEOREM DatagramUnmixed == ReassSpec => []ReassUnmixed
BY ReassInvariance, PTL DEF ReassInv

(* uip_reass(): no datagram waits in the buffer with all of its fragments  *)
(* there, if it has at least as many bytes as a byte of the bitmap stands  *)
(* for; until a fragment was first written outside of the buffer.          *)
THEOREM CompleteAtOnce == ReassSpec => []ReassPrompt
BY ReassInvariance, PTL DEF ReassInv

(* What is in the buffer, its bitmap and its timer until a fragment is     *)
(* first written outside of the two arrays.                                *)
THEOREM ReassTypeCorrect == ReassSpec => []ReassTypeOK
BY ReassInvariance, PTL DEF ReassInv

-----------------------------------------------------------------------------
(***************************************************************************)
(* Part 4.  Sums and 32 bit addition (Checksum).                           *)
(***************************************************************************)
(* Adding two bytes: what is left of the sum, and how the code finds the   *)
(* carry.                                                                  *)
LEMMA ByteSum ==
  ASSUME NEW x \in Byte, NEW y \in Byte
  PROVE  \E c \in {0, 1} :
           /\ (x + y) % Base \in Byte /\ (x + y) % Base = x + y - Base * c
           /\ c = IF (x + y) % Base < y THEN 1 ELSE 0
<1>1. Base \in Nat /\ Base > 1 /\ x \in Nat /\ y \in Nat /\ x < Base /\ y < Base
  BY ByteAssumption DEF Byte
<1>2. CASE x + y < Base
  <2>1. (x + y) % Base = x + y
    BY <1>1, <1>2
  <2> QED
    BY <1>1, <1>2, <2>1 DEF Byte
<1>3. CASE ~(x + y < Base)
  <2>1. (x + y - Base) \in 0..(Base - 1)
    BY <1>1, <1>3
  <2>2. ((x + y - Base) + 1 * Base) % Base = x + y - Base
    BY <1>1, <2>1, ModIs
  <2>3. (x + y) % Base = x + y - Base
    BY <1>1, <2>2
  <2> QED
    BY <1>1, <1>3, <2>3 DEF Byte
<1> QED
  BY <1>2, <1>3

(* Adding a carry to a byte.                                               *)
LEMMA ByteCarry ==
  ASSUME NEW x \in Byte, NEW y \in {0, 1}
  PROVE  \E c \in {0, 1} :
           /\ (x + y) % Base \in Byte /\ (x + y) % Base = x + y - Base * c
           /\ c = IF y = 1 /\ (x + y) % Base = 0 THEN 1 ELSE 0
<1>1. Base \in Nat /\ Base > 1 /\ x \in Nat /\ x < Base
  BY ByteAssumption DEF Byte
<1>2. CASE x + y < Base
  <2>1. (x + y) % Base = x + y
    BY <1>1, <1>2
  <2> QED
    BY <1>1, <1>2, <2>1 DEF Byte
<1>3. CASE ~(x + y < Base)
  <2>1. y = 1 /\ x + y = Base
    BY <1>1, <1>3
  <2>2. (x + y) % Base = 0
    BY <1>1, <2>1
  <2> QED
    BY <1>1, <2>1, <2>2 DEF Byte
<1> QED
  BY <1>2, <1>3

\* The number that four bytes are, and the bytes of a word.
Number(op) == op[4] + Base * (op[3] + Base * (op[2] + Base * op[1]))

LEMMA WordBytes ==
  ASSUME NEW n \in 0..(Word - 1)
  PROVE  n % Base \in Byte /\ n \div Base \in Byte /\ n = (n % Base) + Base * (n \div Base)
<1>1. Base \in Nat /\ Base > 1 /\ n \in Nat /\ n < Base * Base /\ Base * Base \in Nat
  BY ByteAssumption DEF Word
<1>2. PICK q \in Nat : q = n \div Base
  BY <1>1
<1>3. Base * q <= n /\ n < Base * q + Base /\ n % Base = n - Base * q
  BY <1>1, <1>2
<1>4. q < Base
  <2>1. SUFFICES ASSUME Base <= q PROVE FALSE
    BY <1>1
  <2>2. Base * Base <= Base * q
    BY <1>1, <2>1
  <2>3. Base * q \in Nat
    BY <1>1
  <2> QED
    BY <1>1, <1>3, <2>2, <2>3
<1>5. Base * q \in Nat
  BY <1>1
<1> QED
  BY <1>1, <1>2, <1>3, <1>4, <1>5 DEF Byte

LEMMA NumberBound ==
  ASSUME NEW a \in Byte, NEW b \in Byte, NEW c \in Byte, NEW d \in Byte
  PROVE  d + Base * (c + Base * (b + Base * a)) \in 0..(Word * Word - 1)
<1>1. /\ Base \in Nat /\ Base > 1 /\ a \in Nat /\ b \in Nat /\ c \in Nat /\ d \in Nat
      /\ a <= Base - 1 /\ b <= Base - 1 /\ c <= Base - 1 /\ d <= Base - 1
  BY ByteAssumption DEF Byte
<1>2. \A x, y \in Nat : x <= Base * y - 1 /\ y >= 1 =>
        Base * x + (Base - 1) <= Base * (Base * y) - 1
  <2>1. SUFFICES ASSUME NEW x \in Nat, NEW y \in Nat, x + 1 <= Base * y
                 PROVE  Base * x + (Base - 1) <= Base * (Base * y) - 1
    BY <1>1
  <2>2. Base * (x + 1) <= Base * (Base * y)
    BY <1>1, <2>1
  <2>3. Base * (x + 1) = Base * x + Base
    BY <1>1
  <2> QED
    BY <1>1, <2>2, <2>3
<1>3. PICK e \in Nat : e = b + Base * a
  BY <1>1
<1>4. e <= Base * Base - 1
  BY <1>1, <1>2, <1>3
<1>5. PICK f \in Nat : f = c + Base * e
  BY <1>1, <1>3
<1>6. f <= Base * (Base * Base) - 1
  BY <1>1, <1>2, <1>3, <1>4, <1>5
<1>7. PICK g \in Nat : g = Base * Base
  BY <1>1
<1>8. d + Base * f <= Base * (Base * g) - 1 /\ d + Base * f \in Nat
  BY <1>1, <1>2, <1>5, <1>6, <1>7
<1>9. Base * (Base * g) = Word * Word
  BY <1>1, <1>7 DEF Word
<1> QED
  BY <1>1, <1>3, <1>5, <1>7, <1>8, <1>9

LEMMA Carried ==
  ASSUME NEW b \in Int, NEW p \in Int, NEW m \in Int, NEW e \in Int, NEW f \in Int
  PROVE  ((p - b * m) + e) - b * f = (p + e) - b * (m + f)
OBVIOUS

LEMMA Horner ==
  ASSUME NEW b \in Int, NEW p \in Int, NEW r \in Int, NEW q \in Int, NEW z \in Int
  PROVE  (p - b * r) + b * ((q + r) - z) = (p + b * q) - b * z
OBVIOUS

(* uip_add32() adds modulo the number of sequence numbers.                 *)
LEMMA Add32Adds ==
  ASSUME NEW op \in [1..4 -> Byte], NEW n \in 0..(Word - 1)
  PROVE  /\ Add32(op, n) \in [1..4 -> Byte]
         /\ Number(Add32(op, n)) = (Number(op) + n) % (Word * Word)
<1>1. PICK lo \in Byte, hi \in Byte : lo = n % Base /\ hi = n \div Base
  BY WordBytes
<1>2. PICK b4 \in Byte, c4 \in {0, 1} :
        /\ b4 = (op[4] + lo) % Base /\ b4 = op[4] + lo - Base * c4
        /\ c4 = IF b4 < lo THEN 1 ELSE 0
  <2>1. op[4] \in Byte
    OBVIOUS
  <2> QED
    BY <2>1, ByteSum
<1>3. PICK b3 \in Byte, c3 \in {0, 1} :
        /\ b3 = (op[3] + hi) % Base /\ b3 = op[3] + hi - Base * c3
        /\ c3 = IF b3 < hi THEN 1 ELSE 0
  <2>1. op[3] \in Byte
    OBVIOUS
  <2> QED
    BY <2>1, ByteSum
<1>4. PICK b2 \in Byte, k2 \in {0, 1} :
        /\ b2 = (op[2] + c3) % Base /\ b2 = op[2] + c3 - Base * k2
        /\ k2 = IF c3 = 1 /\ b2 = 0 THEN 1 ELSE 0
  <2>1. op[2] \in Byte
    OBVIOUS
  <2> QED
    BY <2>1, ByteCarry
<1>5. PICK b1 \in Byte, k1 \in {0, 1} :
        b1 = (op[1] + k2) % Base /\ b1 = op[1] + k2 - Base * k1
  <2>1. op[1] \in Byte
    OBVIOUS
  <2> QED
    BY <2>1, ByteCarry, ZenonT(40)
<1>6. PICK d3 \in Byte, e3 \in {0, 1} :
        /\ d3 = (b3 + c4) % Base /\ d3 = b3 + c4 - Base * e3
        /\ e3 = IF c4 = 1 /\ d3 = 0 THEN 1 ELSE 0
  BY ByteCarry
<1>7. PICK d2 \in Byte, e2 \in {0, 1} :
        /\ d2 = (b2 + e3) % Base /\ d2 = b2 + e3 - Base * e2
        /\ e2 = IF e3 = 1 /\ d2 = 0 THEN 1 ELSE 0
  BY ByteCarry
<1>8. PICK d1 \in Byte, e1 \in {0, 1} :
        d1 = (b1 + e2) % Base /\ d1 = b1 + e2 - Base * e1
  BY ByteCarry, ZenonT(40)
<1>9. Add32(op, n) = <<d1, d2, d3, b4>>
  BY <1>1, <1>2, <1>3, <1>4, <1>5, <1>6, <1>7, <1>8 DEF Add32
<1>10. Base \in Nat /\ Base > 1 /\ Word * Word \in Nat \ {0}
  BY ByteAssumption DEF Word
<1>11. PICK v \in Int : v = b4 + Base * (d3 + Base * (d2 + Base * d1))
  BY <1>10 DEF Byte
<1>12. v \in 0..(Word * Word - 1)
  BY <1>11, NumberBound
<1>13. PICK p1 \in Int, p2 \in Int, p3 \in Int, p4 \in Int :
         p1 = op[1] /\ p2 = op[2] /\ p3 = op[3] /\ p4 = op[4]
  BY <1>10 DEF Byte
<1>14. n = lo + Base * hi
  BY <1>1, WordBytes
<1>15. v = (p4 + Base * (p3 + Base * (p2 + Base * p1))) + n
             - Base * (Base * (Base * (Base * (k1 + e1))))
  <2>1. /\ lo \in Int /\ hi \in Int /\ c4 \in Int /\ c3 \in Int /\ k2 \in Int /\ k1 \in Int
        /\ e3 \in Int /\ e2 \in Int /\ e1 \in Int /\ Base \in Int
    BY <1>10 DEF Byte
  <2>18. /\ b1 = p1 + k2 - Base * k1 /\ d1 = b1 + e2 - Base * e1
         /\ b2 = p2 + c3 - Base * k2 /\ d2 = b2 + e3 - Base * e2
         /\ b3 = p3 + hi - Base * c3 /\ d3 = b3 + c4 - Base * e3
    BY <1>2, <1>3, <1>4, <1>5, <1>6, <1>7, <1>8, <1>13
  <2>19. \A x \in Int : Base * x \in Int
    BY <2>1
  <2>2. PICK r2 \in Int, r3 \in Int, y1 \in Int : r2 = k2 + e2 /\ r3 = c3 + e3 /\ y1 = k1 + e1
    BY <2>1
  <2>3. d1 = (p1 + r2) - Base * y1
    <3>1. d1 = (((p1 + k2) - Base * k1) + e2) - Base * e1
      BY <1>13, <2>1, <2>18, <2>19
    <3>2. d1 = ((p1 + k2) + e2) - Base * (k1 + e1)
      BY <1>13, <2>1, <3>1, Carried
    <3> QED
      BY <1>13, <2>1, <2>2, <3>2
  <2>4. d2 = (p2 + r3) - Base * r2
    <3>1. d2 = (((p2 + c3) - Base * k2) + e3) - Base * e2
      BY <1>13, <2>1, <2>18, <2>19
    <3>2. d2 = ((p2 + c3) + e3) - Base * (k2 + e2)
      BY <1>13, <2>1, <3>1, Carried
    <3> QED
      BY <1>13, <2>1, <2>2, <3>2
  <2>5. d3 = ((p3 + hi) + c4) - Base * r3
    <3>1. d3 = (((p3 + hi) - Base * c3) + c4) - Base * e3
      BY <1>13, <2>1, <2>18, <2>19
    <3> QED
      BY <1>13, <2>1, <2>2, <3>1, Carried
  <2>6. PICK z1 \in Int, z2 \in Int : z1 = Base * y1 /\ z2 = Base * z1
    BY <2>1
  <2>7. d2 + Base * d1 = (p2 + r3 + Base * p1) - z2
    BY <1>13, <2>1, <2>3, <2>4, <2>6, Horner
  <2>8. PICK q2 \in Int : q2 = p2 + Base * p1
    BY <1>13, <2>1
  <2>9. d2 + Base * d1 = (q2 + r3) - z2
    BY <1>13, <2>1, <2>7, <2>8
  <2>10. PICK z3 \in Int : z3 = Base * z2
    BY <2>1
  <2>11. d3 + Base * (d2 + Base * d1) = (((p3 + hi) + c4) + Base * q2) - z3
    <3>1. PICK p \in Int : p = (p3 + hi) + c4
      BY <1>13, <2>1
    <3>2. (p - Base * r3) + Base * ((q2 + r3) - z2) = (p + Base * q2) - Base * z2
      BY <2>1, Horner
    <3> QED
      BY <2>5, <2>9, <2>10, <3>1, <3>2
  <2>12. PICK q3 \in Int, g \in Int : q3 = p3 + g /\ g = Base * q2
    BY <1>13, <2>1
  <2>13. d3 + Base * (d2 + Base * d1) = ((q3 + hi) + c4) - z3
    BY <1>13, <2>1, <2>11, <2>12
  <2>14. b4 = (p4 + lo) - Base * c4 /\ q3 + hi \in Int /\ p4 + lo \in Int
    BY <1>2, <1>13, <2>1
  <2>15. v = ((p4 + lo) + Base * (q3 + hi)) - Base * z3
    BY <1>11, <2>1, <2>13, <2>14, Horner
  <2>16. Base * (q3 + hi) = Base * q3 + Base * hi /\ Base * q3 \in Int /\ Base * hi \in Int
         /\ Base * z3 \in Int
    BY <2>1
  <2>17. v = (p4 + Base * q3) + n - Base * z3
    BY <1>13, <1>14, <2>1, <2>15, <2>16
  <2> QED
    BY <2>2, <2>6, <2>8, <2>10, <2>12, <2>17
<1>16. \A x \in Int : Base * (Base * (Base * (Base * x))) = x * (Word * Word)
  BY <1>10 DEF Word
<1>17. PICK k \in Int : k = k1 + e1
  OBVIOUS
<1>18. PICK s \in Int : s = p4 + Base * (p3 + Base * (p2 + Base * p1))
  BY <1>10, <1>13
<1>19. s + n = v + k * (Word * Word)
  BY <1>10, <1>15, <1>16, <1>17, <1>18
<1>20. (s + n) % (Word * Word) = v
  BY <1>10, <1>12, <1>19, ModIs
<1>21. PICK res : res = Add32(op, n)
  OBVIOUS
<1>22. /\ res \in [1..4 -> Byte]
       /\ res[1] = d1 /\ res[2] = d2 /\ res[3] = d3 /\ res[4] = b4
  BY <1>9, <1>21
<1>23. Number(res) = v
  BY <1>11, <1>22 DEF Number
<1>24. Number(op) = s
  BY <1>13, <1>18 DEF Number
<1> QED
  BY <1>20, <1>21, <1>22, <1>23, <1>24

Add32Inv == op32 \in [1..4 -> Byte] /\ added \in 0..(Word * Word - 1) /\ Add32Exact

LEMMA Add32Init == SumInit => Add32Inv
<1> SUFFICES ASSUME SumInit PROVE Add32Inv
  OBVIOUS
<1>1. Base \in Nat /\ Base > 1 /\ Word \in Nat \ {0}
  BY ByteAssumption DEF Word
<1>2. PICK w \in Nat \ {0} : w = Word * Word
  BY <1>1
<1>3. op32 = [i \in 1..4 |-> 0] /\ added = 0 /\ 0 \in Byte
  BY <1>1 DEF SumInit, Byte
<1>4. op32 \in [1..4 -> Byte] /\ 0 \in 0..(w - 1)
  BY <1>2, <1>3
<1>5. op32[1] = 0 /\ op32[2] = 0 /\ op32[3] = 0 /\ op32[4] = 0
  BY <1>3
<1>6. Add32Exact
  BY <1>1, <1>3, <1>5 DEF Add32Exact
<1> QED
  BY <1>2, <1>3, <1>4, <1>6 DEF Add32Inv

LEMMA Add32Step == Add32Inv /\ [SumNext]_sumvars => Add32Inv'
<1> SUFFICES ASSUME Add32Inv, [SumNext]_sumvars PROVE Add32Inv'
  OBVIOUS
<1>1. CASE UNCHANGED <<op32, added>>
  BY <1>1 DEF Add32Inv, Add32Exact
<1>2. CASE Add
  <2>1. PICK n \in Adds : op32' = Add32(op32, n) /\ added' = (added + n) % (Word * Word)
    BY <1>2 DEF Add
  <2>2. n \in 0..(Word - 1)
    BY ByteAssumption
  <2>3. Word \in Nat \ {0}
    BY ByteAssumption DEF Word
  <2>4. PICK w \in Nat \ {0} : w = Word * Word
    BY <2>3
  <2>5. added \in Nat /\ added + n \in Nat
    BY <2>2, <2>3, <2>4 DEF Add32Inv
  <2>6. op32' \in [1..4 -> Byte] /\ Number(op32') = (Number(op32) + n) % (Word * Word)
    BY <2>1, <2>2, Add32Adds DEF Add32Inv
  <2>7. added' \in 0..(w - 1)
    BY <2>1, <2>4, <2>5
  <2>8. Number(op32) = added
    BY DEF Add32Inv, Add32Exact, Number
  <2>9. Number(op32') = added'
    BY <2>1, <2>6, <2>8
  <2> QED
    BY <2>4, <2>6, <2>7, <2>9 DEF Add32Inv, Add32Exact, Number
<1> QED
  BY <1>1, <1>2 DEF SumNext, SumStep, EchoReply, ReplySummed, sumvars

(* uip_add32(): sequence numbers count modulo 2^32, through any series of  *)
(* additions, for every width of a byte.                                   *)
THEOREM SequenceNumbersCount == SumSpec => []Add32Exact
<1>1. Add32Inv => Add32Exact
  BY DEF Add32Inv
<1> QED
  BY <1>1, Add32Init, Add32Step, PTL DEF SumSpec

-----------------------------------------------------------------------------
(* So Total is what its definition says.                                   *)
PartOf(n) == IF n % 2 = 1 THEN WordAt(n) ELSE 0
LEMMA TotalIs ==
  \A n \in 0..Word : Total[n] = IF n = 0 THEN 0 ELSE Total[n - 1] + PartOf(n)
<1>1. Word \in Nat
  BY ByteAssumption DEF Word
<1> DEFINE g == [i \in 1..Word |-> PartOf(i)]
           T(f) == f = [n \in 0..(Base * Base) |-> IF n = 0 THEN 0 ELSE f[n - 1] + PartOf(n)]
<1>2. PICK f : SumsTo(f, g, Word)
  BY <1>1, SumsExist
<1>3. T(f)
  <2>1. \A i \in 0..Word : i # 0 => g[i] = PartOf(i)
    BY <1>1
  <2> QED
    BY <1>2, <2>1 DEF SumsTo, Word
<1>4. Total = CHOOSE h : T(h)
  BY DEF Total, PartOf
<1>5. T(Total)
  BY <1>3, <1>4
<1> QED
  BY <1>5 DEF Word

-----------------------------------------------------------------------------
(* One turn of the loop: the sum modulo Word - 1, and zero for zeros only. *)
LEMMA AddWordSum ==
  ASSUME NEW s \in 0..(Word - 1), NEW t \in 0..(Word - 1)
  PROVE  /\ AddWord(s, t) \in 0..(Word - 1)
         /\ \E c \in {0, 1} : s + t = AddWord(s, t) + c * (Word - 1)
         /\ AddWord(s, t) = 0 <=> s + t = 0
<1>1. Word \in Nat /\ Word > 1
  BY ByteAssumption DEF Word
<1>2. PICK w \in Nat : w = Word /\ w > 1
  BY <1>1
<1>3. s \in Nat /\ t \in Nat /\ s < w /\ t < w
  BY <1>2
<1>4. CASE s + t < w
  <2>1. (s + t) % w = s + t
    BY <1>2, <1>3, <1>4
  <2>2. AddWord(s, t) = s + t
    BY <1>2, <1>3, <2>1 DEF AddWord
  <2>3. s + t = AddWord(s, t) + 0 * (w - 1) /\ AddWord(s, t) \in 0..(w - 1)
    BY <1>2, <1>3, <1>4, <2>2
  <2> QED
    BY <1>2, <2>2, <2>3
<1>5. CASE ~(s + t < w)
  <2>1. (s + t - w) \in 0..(w - 1) /\ w \in Nat \ {0}
    BY <1>2, <1>3, <1>5
  <2>2. ((s + t - w) + 1 * w) % w = s + t - w
    BY <2>1, ModIs
  <2>3. (s + t) % w = s + t - w
    BY <1>2, <1>3, <2>2
  <2>4. AddWord(s, t) = s + t - w + 1
    BY <1>2, <1>3, <1>5, <2>3 DEF AddWord
  <2>5. s + t = AddWord(s, t) + 1 * (w - 1) /\ AddWord(s, t) \in 0..(w - 1)
        /\ AddWord(s, t) # 0 /\ s + t # 0
    BY <1>2, <1>3, <1>5, <2>4
  <2> QED
    BY <1>2, <2>5
<1> QED
  BY <1>4, <1>5

\* What a message is, and how far its words go: an odd last byte is one.
Message(m) == \E l \in MsgLens : m \in [1..l -> Byte]
LastOf(m) == Len(m) + (Len(m) % 2)

LEMMA MessageLen ==
  ASSUME NEW m, Message(m)
  PROVE  /\ Len(m) \in 4..(Word - 1) /\ m \in [1..Len(m) -> Byte] /\ Len(m) \in MsgLens
         /\ LastOf(m) \in Len(m)..(Len(m) + 1) /\ LastOf(m) % 2 = 0 /\ LastOf(m) <= Word
<1>1. PICK l \in MsgLens : m \in [1..l -> Byte]
  BY DEF Message
<1>2. l \in 4..(Word - 1) /\ Word \in Nat
  BY ByteAssumption DEF Word
<1>3. m \in Seq(Byte) /\ DOMAIN m = 1..l /\ l \in Nat
  BY <1>1, <1>2, SeqDef
<1>4. Len(m) = l
  BY <1>3, LenProperties
<1>5. l % 2 \in 0..1 /\ (l + (l % 2)) % 2 = 0
  BY <1>2
<1>6. (l + (l % 2)) \in l..(l + 1) /\ l + (l % 2) <= Word
  BY <1>2, <1>5
<1> QED
  BY <1>1, <1>2, <1>4, <1>5, <1>6 DEF LastOf

LEMMA WordBound ==
  ASSUME Message(msg), NEW i \in 1..Len(msg)
  PROVE  WordAt(i) \in 0..(Word - 1)
<1>1. Base \in Nat /\ Base > 1 /\ Len(msg) \in Nat
  BY ByteAssumption, MessageLen DEF Word
<1>2. msg[i] \in Byte
  BY MessageLen
<1>3. i < Len(msg) => msg[i + 1] \in Byte
  <2>1. i < Len(msg) => i + 1 \in 1..Len(msg)
    BY <1>1
  <2> QED
    BY <2>1, MessageLen
<1>4. PICK a \in Byte, b \in Byte : WordAt(i) = a * Base + b
  <2>1. 0 \in Byte
    BY <1>1 DEF Byte
  <2> QED
    BY <1>2, <1>3, <2>1 DEF WordAt
<1>5. a \in Nat /\ b \in Nat /\ a + 1 <= Base /\ b < Base
  BY <1>1 DEF Byte
<1>6. (a + 1) * Base <= Base * Base
  BY <1>1, <1>5
<1>7. (a + 1) * Base = a * Base + Base /\ a * Base \in Nat /\ Base * Base \in Nat
  BY <1>1, <1>5
<1> QED
  BY <1>1, <1>4, <1>5, <1>6, <1>7 DEF Word

LEMMA PartNat ==
  ASSUME Message(msg), NEW i \in 1..LastOf(msg)
  PROVE  PartOf(i) \in Nat
<1>1. /\ Len(msg) \in Nat /\ LastOf(msg) \in Len(msg)..(Len(msg) + 1)
      /\ LastOf(msg) % 2 = 0 /\ Word \in Nat
  BY ByteAssumption, MessageLen DEF Word
<1>2. CASE i % 2 = 1
  <2>1. i # LastOf(msg)
    BY <1>1, <1>2
  <2>2. i \in 1..Len(msg)
    BY <1>1, <2>1
  <2>3. WordAt(i) \in Nat
    BY <1>1, <2>2, WordBound
  <2> QED
    BY <1>2, <2>3 DEF PartOf
<1>3. CASE i % 2 # 1
  BY <1>3 DEF PartOf
<1> QED
  BY <1>2, <1>3

LEMMA TotalNat ==
  ASSUME Message(msg)
  PROVE  /\ \A n \in 0..LastOf(msg) : Total[n] \in Nat
         /\ \A n \in 1..LastOf(msg) : Total[n] = Total[n - 1] + PartOf(n)
<1>1. LastOf(msg) \in Nat /\ LastOf(msg) <= Word /\ Word \in Nat
  BY ByteAssumption, MessageLen DEF Word
<1> DEFINE P == {n \in Nat : Total[n] \in Nat}
<1>2. PICK z \in Nat : z = LastOf(msg)
  BY <1>1
<1>3. 0 \in P
  <2>1. 0 \in 0..Word
    BY <1>1
  <2> QED
    BY <2>1, TotalIs
<1>6. \A n \in 1..z : Total[n] = Total[n - 1] + PartOf(n)
  <2>1. \A n \in 1..z : n \in 0..Word /\ n # 0
    BY <1>1, <1>2
  <2> QED
    BY <2>1, TotalIs
<1>4. ASSUME NEW i \in 0..(z - 1), i \in P
      PROVE  i + 1 \in P
  <2>1. i + 1 \in 1..z /\ (i + 1) - 1 = i /\ i \in Nat
    BY <1>1, <1>2
  <2>2. PartOf(i + 1) \in Nat
    BY <1>2, <2>1, PartNat
  <2> QED
    BY <1>4, <1>6, <2>1, <2>2
<1> HIDE DEF P
<1>5. \A i \in 0..z : i \in P
  BY <1>3, <1>4, FromTo
<1> QED
  BY <1>2, <1>5, <1>6 DEF P

LEMMA TotalSame == msg' = msg => Total' = Total
BY DEF Total, WordAt

\* What the reply leaves alone: the bytes behind the checksum.
Rest == \E i \in 5..Len(msg) : msg[i] # 0
OneSum(s, n) == /\ \E k \in Int : Total[n] = s + k * (Word - 1)
                /\ s = 0 <=> Total[n] = 0
FirstVerdict(a) == a \in 0..(Word - 1) /\ (Rest => OneSum(a, LastOf(msg)))
Asked == verdict = <<>> /\ msg[1] = ICMP_ECHO /\ msg[2] = 0
Told == Len(verdict) = 1 /\ FirstVerdict(verdict[1])
BothTold == /\ Len(verdict) = 2 /\ FirstVerdict(verdict[1])
            /\ verdict[2] \in 0..(Word - 1) /\ OneSum(verdict[2], LastOf(msg))
SumInv ==
  /\ Message(msg) /\ sum \in 0..(Word - 1)
  /\ at \in 1..(LastOf(msg) + 1) /\ at % 2 = 1
  /\ OneSum(sum, at - 1)
  /\ verdict \in Seq(0..(Word - 1)) /\ (Asked \/ Told \/ BothTold)

(* A message that is not zero behind its checksum has a sum.               *)
LEMMA RestCounts ==
  ASSUME Message(msg), Rest
  PROVE  Total[LastOf(msg)] # 0
<1>1. /\ Len(msg) \in Nat /\ LastOf(msg) \in Len(msg)..(Len(msg) + 1) /\ LastOf(msg) <= Word
      /\ LastOf(msg) % 2 = 0 /\ Word \in Nat
  BY ByteAssumption, MessageLen DEF Word
<1>2. PICK i \in 5..Len(msg) : msg[i] # 0
  BY DEF Rest
<1>3. PICK z \in Nat : z = LastOf(msg)
  BY <1>1
<1>4. Base \in Nat /\ Base > 1
  BY ByteAssumption
<1>5. PICK j \in 1..Len(msg) : j % 2 = 1 /\ (j = i \/ (j + 1 = i /\ j < Len(msg)))
  <2>1. CASE i % 2 = 1
    BY <1>1, <2>1
  <2>2. CASE i % 2 # 1
    <3>1. (i - 1) % 2 = 1 /\ i - 1 \in 1..Len(msg) /\ (i - 1) + 1 = i /\ i - 1 < Len(msg)
      BY <1>1, <2>2
    <3> QED
      BY <3>1
  <2> QED
    BY <2>1, <2>2
<1>6. PartOf(j) \in Nat /\ PartOf(j) # 0
  <2>1. PICK x \in Byte, y \in Byte :
          WordAt(j) = x * Base + y /\ (x # 0 \/ y # 0)
    <3>1. msg[j] \in Byte
      BY MessageLen
    <3>2. CASE j = i
      <4>1. 0 \in Byte
        BY <1>4 DEF Byte
      <4>2. j < Len(msg) => msg[j + 1] \in Byte
        <5>1. j < Len(msg) => j + 1 \in 1..Len(msg)
          BY <1>1
        <5> QED
          BY <5>1, MessageLen
      <4> QED
        BY <1>2, <3>1, <3>2, <4>1, <4>2 DEF WordAt
    <3>3. CASE j + 1 = i /\ j < Len(msg)
      <4>1. msg[j + 1] \in Byte
        <5>1. j + 1 \in 1..Len(msg)
          BY <1>1, <3>3
        <5> QED
          BY <5>1, MessageLen
      <4> QED
        BY <1>2, <3>1, <3>3, <4>1 DEF WordAt
    <3> QED
      BY <1>5, <3>2, <3>3
  <2>2. x \in Nat /\ y \in Nat
    BY <1>4 DEF Byte
  <2>3. x * Base \in Nat /\ (x # 0 => x * Base # 0)
    BY <1>4, <2>2
  <2>4. WordAt(j) \in Nat /\ WordAt(j) # 0
    BY <2>1, <2>2, <2>3
  <2> QED
    BY <1>5, <2>4 DEF PartOf
<1>7. /\ \A n \in 0..z : Total[n] \in Nat
      /\ \A n \in 1..z : Total[n] = Total[n - 1] + PartOf(n)
  BY <1>3, TotalNat
<1> DEFINE P == {n \in Nat : Total[n] # 0}
<1>8. j \in P /\ j <= z
  <2>1. j \in 1..z /\ j - 1 \in 0..z
    BY <1>1, <1>3
  <2>2. Total[j] = Total[j - 1] + PartOf(j) /\ Total[j - 1] \in Nat
    BY <1>7, <2>1
  <2> QED
    BY <1>6, <2>1, <2>2
<1>9. ASSUME NEW n \in j..(z - 1), n \in P
      PROVE  n + 1 \in P
  <2>1. n + 1 \in 1..z /\ (n + 1) - 1 = n /\ n \in 0..z
    BY <1>1, <1>3, <1>5
  <2>2. Total[n + 1] = Total[n] + PartOf(n + 1) /\ Total[n] \in Nat
    BY <1>7, <2>1
  <2>3. PartOf(n + 1) \in Nat
    BY <1>3, <2>1, PartNat
  <2> QED
    BY <1>9, <2>1, <2>2, <2>3
<1> HIDE DEF P
<1>12. j \in Nat /\ j \in P
  BY <1>1, <1>5, <1>8
<1>10. \A n \in j..z : n \in P
  BY <1>9, <1>12, FromTo
<1>11. z \in j..z
  BY <1>3, <1>5, <1>8
<1> QED
  BY <1>3, <1>10, <1>11 DEF P

(* The loop of chksum().                                                   *)
LEMMA SumStepInv == SumInv /\ SumStep => SumInv'
<1> SUFFICES ASSUME SumInv, SumStep PROVE SumInv'
  OBVIOUS
<1>1. /\ Len(msg) \in Nat /\ LastOf(msg) \in Len(msg)..(Len(msg) + 1) /\ LastOf(msg) <= Word
      /\ LastOf(msg) % 2 = 0 /\ Word \in Nat
  BY ByteAssumption, MessageLen DEF Word, SumInv
<1>2. PICK z \in Nat : z = LastOf(msg)
  BY <1>1
<1>3. PICK l \in Nat : l = Len(msg)
  BY <1>1
<1>4. PICK i \in 1..l : i = at /\ i % 2 = 1
  BY <1>1, <1>3 DEF SumInv, SumStep
<1>5. PICK x \in 0..(Word - 1) : x = WordAt(i)
  BY <1>3, <1>4, WordBound DEF SumInv
<1>6. sum' = AddWord(sum, x) /\ at' = i + 2 /\ msg' = msg /\ verdict' = verdict
  BY <1>4, <1>5 DEF SumStep, WordAt
<1>7. Total[i + 1] = Total[i - 1] + x /\ Total[i - 1] \in Nat
  <2>1. i < z /\ i \in 1..z /\ i + 1 \in 1..z /\ (i + 1) - 1 = i /\ i - 1 \in 0..z
    BY <1>1, <1>2, <1>3, <1>4
  <2>2. PartOf(i) = x /\ PartOf(i + 1) = 0
    <3>1. (i + 1) % 2 # 1
      BY <1>4
    <3> QED
      BY <1>4, <1>5, <3>1 DEF PartOf
  <2>3. /\ \A n \in 0..z : Total[n] \in Nat
        /\ \A n \in 1..z : Total[n] = Total[n - 1] + PartOf(n)
    BY <1>2, TotalNat DEF SumInv
  <2>4. /\ Total[i] = Total[i - 1] + PartOf(i) /\ Total[i + 1] = Total[i] + PartOf(i + 1)
        /\ Total[i - 1] \in Nat
    BY <2>1, <2>3
  <2> QED
    BY <1>1, <2>2, <2>4
<1>8. PICK t \in Nat, u \in Nat : t = Total[i - 1] /\ u = Total[i + 1] /\ u = t + x
  BY <1>1, <1>7
<1>9. PICK s \in 0..(Word - 1) : s = sum
  BY DEF SumInv
<1>10. PICK k \in Int : t = s + k * (Word - 1)
  BY <1>4, <1>8, <1>9 DEF SumInv, OneSum
<1>11. s = 0 <=> t = 0
  BY <1>4, <1>8, <1>9 DEF SumInv, OneSum
<1>23. PICK r \in 0..(Word - 1) : r = AddWord(s, x)
  BY AddWordSum
<1>12. PICK c \in {0, 1} : s + x = r + c * (Word - 1)
  BY <1>23, AddWordSum
<1>24. (r = 0 <=> s + x = 0) /\ s \in Nat /\ x \in Nat /\ r \in Nat
  <2>1. AddWord(s, x) = 0 <=> s + x = 0
    BY AddWordSum
  <2>2. s \in Nat /\ x \in Nat /\ r \in Nat
    BY <1>1
  <2> QED
    BY <1>23, <2>1, <2>2
<1>13. PICK m \in Int : m = Word - 1
  BY <1>1
<1>14. u = r + (k + c) * m
  <2>1. (k + c) * m = k * m + c * m /\ k * m \in Int /\ c * m \in Int
    BY <1>13
  <2> QED
    BY <1>8, <1>10, <1>12, <1>13, <1>24, <2>1
<1>15. r = 0 <=> u = 0
  BY <1>8, <1>11, <1>24
<1>16. OneSum(r, i + 1)
  BY <1>8, <1>13, <1>14, <1>15 DEF OneSum
<1>17. sum' = r /\ at' - 1 = i + 1
  BY <1>4, <1>6, <1>9, <1>23
<1>18. Total' = Total
  BY <1>6, TotalSame
<1>19. OneSum(sum, at - 1)'
  BY <1>16, <1>17, <1>18 DEF OneSum
<1>20. /\ at' \in 1..(LastOf(msg') + 1) /\ at' % 2 = 1 /\ sum' \in 0..(Word - 1)
  BY <1>1, <1>3, <1>4, <1>6, <1>17
<1>21. Message(msg')
  BY <1>6 DEF SumInv
<1>22. Asked' \/ Told' \/ BothTold'
  <2>1. Asked => Asked'
    BY <1>6 DEF Asked
  <2>2. Told => Told'
    BY <1>6, <1>18 DEF Told, FirstVerdict, Rest, OneSum
  <2>3. BothTold => BothTold'
    BY <1>6, <1>18 DEF BothTold, FirstVerdict, Rest, OneSum
  <2> QED
    BY <2>1, <2>2, <2>3 DEF SumInv
<1> QED
  BY <1>6, <1>19, <1>20, <1>21, <1>22 DEF SumInv, OneSum

(* The peer has summed up the reply.                                       *)
LEMMA ReplySummedInv == SumInv /\ ReplySummed => SumInv'
<1> SUFFICES ASSUME SumInv, ReplySummed PROVE SumInv'
  OBVIOUS
<1>1. /\ Len(msg) \in Nat /\ LastOf(msg) \in Len(msg)..(Len(msg) + 1)
      /\ LastOf(msg) % 2 = 0
  BY MessageLen DEF SumInv
<1>2. at - 1 = LastOf(msg)
  BY <1>1 DEF SumInv, ReplySummed
<1>3. UNCHANGED <<msg, at, sum>> /\ Len(verdict) = 1 /\ verdict' = Append(verdict, sum)
  BY DEF ReplySummed
<1>4. FirstVerdict(verdict[1]) /\ verdict \in Seq(0..(Word - 1)) /\ sum \in 0..(Word - 1)
  BY <1>3 DEF SumInv, Asked, Told, BothTold
<1>5. /\ verdict' \in Seq(0..(Word - 1)) /\ Len(verdict') = 2
      /\ verdict'[1] = verdict[1] /\ verdict'[2] = sum
  <2>1. PICK v \in Seq(0..(Word - 1)), s \in 0..(Word - 1) : v = verdict /\ s = sum
    BY <1>4
  <2>2. PICK w : w = Append(v, s)
    OBVIOUS
  <2>3. /\ w \in Seq(0..(Word - 1)) /\ Len(w) = Len(v) + 1
        /\ \A i \in 1..Len(v) : w[i] = v[i]
        /\ w[Len(v) + 1] = s
    BY <2>2, AppendProperties
  <2>4. Len(v) = 1 /\ verdict' = w
    BY <1>3, <2>1, <2>2
  <2> QED
    BY <2>1, <2>3, <2>4
<1>6. Total' = Total
  BY <1>3, TotalSame
<1>7. BothTold'
  BY <1>2, <1>3, <1>4, <1>5, <1>6 DEF SumInv, BothTold, FirstVerdict, Rest, OneSum
<1> QED
  BY <1>3, <1>5, <1>6, <1>7 DEF SumInv, OneSum

-----------------------------------------------------------------------------
(* The new checksum: the type is taken off the sum, so its complement      *)
(* grows by it, with the carry brought round.  In the order of the         *)
(* processor the type is the low byte.                                     *)
LEMMA Swaps ==
  /\ HTONS(ICMP_ECHO * Base) = ICMP_ECHO
  /\ HTONS(Word - 1 - ICMP_ECHO * Base) = Word - 1 - ICMP_ECHO
<1>1. Base \in Nat \ {0} /\ ICMP_ECHO \in Nat /\ ICMP_ECHO <= Base - 1 /\ ICMP_ECHO >= 1
  BY ByteAssumption
<1>2. PICK e \in Nat, w \in Nat : e = ICMP_ECHO * Base /\ w = Base * Base
  BY <1>1
<1>3. e % Base = 0 /\ e \div Base = ICMP_ECHO
  <2>1. 0 \in 0..(Base - 1) /\ (0 + ICMP_ECHO * Base) % Base = 0
    BY <1>1, ModIs
  <2>2. Base * ICMP_ECHO <= e /\ e < Base * ICMP_ECHO + Base
    BY <1>1, <1>2
  <2> QED
    BY <1>1, <1>2, <2>1, <2>2, QuotIs
<1>4. PICK x \in Nat : x = w - 1 - e /\ x = Base * (Base - 1 - ICMP_ECHO) + (Base - 1)
  <2>1. Base * (Base - 1 - ICMP_ECHO) = (w - Base) - e
    BY <1>1, <1>2
  <2>2. Base - 1 - ICMP_ECHO \in Nat
    BY <1>1
  <2>3. Base * (Base - 1 - ICMP_ECHO) \in Nat
    BY <1>1, <2>2
  <2> QED
    BY <1>1, <1>2, <2>1, <2>3
<1>5. x % Base = Base - 1 /\ x \div Base = Base - 1 - ICMP_ECHO
  <2>1. PICK q \in Nat : q = Base - 1 - ICMP_ECHO
    BY <1>1
  <2>2. Base - 1 \in 0..(Base - 1) /\ x = (Base - 1) + q * Base /\ x = Base * q + (Base - 1)
    BY <1>1, <1>4, <2>1
  <2>3. x % Base = Base - 1
    BY <1>1, <2>2, ModIs
  <2>4. Base * q <= x /\ x < Base * q + Base
    <3>1. Base * q \in Nat
      BY <1>1
    <3> QED
      BY <1>1, <2>2, <3>1
  <2> QED
    BY <1>1, <2>1, <2>3, <2>4, QuotIs
<1>6. HTONS(e) = ICMP_ECHO
  BY <1>1, <1>3 DEF HTONS
<1>7. HTONS(x) = w - 1 - ICMP_ECHO
  <2>1. HTONS(x) = (Base - 1) * Base + (Base - 1 - ICMP_ECHO)
    BY <1>5 DEF HTONS
  <2>2. (Base - 1) * Base = w - Base
    BY <1>1, <1>2
  <2> QED
    BY <1>1, <1>2, <2>1, <2>2
<1> QED
  BY <1>2, <1>4, <1>6, <1>7 DEF Word

LEMMA ReplyFieldIs ==
  ASSUME NEW f \in 0..(Word - 1)
  PROVE  /\ ReplyField(f) \in 0..(Word - 1)
         /\ \E c \in {0, 1} : ReplyField(f) = f + ICMP_ECHO - c * (Word - 1)
<1>1. PICK w \in Nat : w = Word /\ w > 1 /\ ICMP_ECHO \in Nat /\ ICMP_ECHO < w
  <2>1. Base \in Nat /\ Base > 1 /\ Word \in Nat /\ ICMP_ECHO \in Nat /\ ICMP_ECHO < Base
    BY ByteAssumption DEF Word
  <2>2. Base <= Base * Base
    BY <2>1
  <2> QED
    BY <2>1, <2>2 DEF Word
<1>2. PICK e \in Nat : e = ICMP_ECHO
  BY <1>1
<1>3. ReplyField(f) = (f + e + (IF f >= w - 1 - e THEN 1 ELSE 0)) % w
  BY <1>1, <1>2, Swaps DEF ReplyField
<1>4. f \in Nat /\ f < w /\ e < w /\ w \in Nat \ {0}
  BY <1>1, <1>2
<1>5. CASE f + e < w - 1
  <2>1. ReplyField(f) = (f + e) % w
    BY <1>3, <1>4, <1>5
  <2>2. ReplyField(f) = f + e
    BY <1>4, <1>5, <2>1
  <2>3. f + e = f + e - 0 * (w - 1) /\ f + e \in 0..(w - 1)
    BY <1>4, <1>5
  <2> QED
    BY <1>1, <1>2, <2>2, <2>3
<1>6. CASE ~(f + e < w - 1)
  <2>1. ReplyField(f) = (f + e + 1) % w
    BY <1>3, <1>4, <1>6
  <2>2. (f + e + 1 - w) \in 0..(w - 1)
    BY <1>4, <1>6
  <2>3. ((f + e + 1 - w) + 1 * w) % w = f + e + 1 - w
    BY <1>4, <2>2, ModIs
  <2>4. (f + e + 1 - w) + 1 * w = f + e + 1 /\ f + e + 1 - w = f + e - 1 * (w - 1)
    BY <1>4
  <2>5. ReplyField(f) = f + e - 1 * (w - 1) /\ ReplyField(f) \in 0..(w - 1)
    BY <2>1, <2>2, <2>3, <2>4
  <2> QED
    BY <1>1, <1>2, <2>5
<1> QED
  BY <1>5, <1>6

(* The sum of the first four bytes.                                        *)
Four == Message(msg) => Total[4] = (msg[1] * Base + msg[2]) + (msg[3] * Base + msg[4])
LEMMA TotalFour == Four
<1> SUFFICES ASSUME Message(msg)
             PROVE  Total[4] = (msg[1] * Base + msg[2]) + (msg[3] * Base + msg[4])
  BY DEF Four
<1>1. Len(msg) \in Nat /\ Len(msg) >= 4 /\ LastOf(msg) \in Nat /\ LastOf(msg) >= 4
  BY ByteAssumption, MessageLen DEF Word
<1>2. PICK z \in Nat : z = LastOf(msg) /\ z >= 4
  BY <1>1
<1>3. /\ \A n \in 0..z : Total[n] \in Nat
      /\ \A n \in 1..z : Total[n] = Total[n - 1] + PartOf(n)
  BY <1>2, TotalNat
<1>4. /\ Total[1] = Total[0] + PartOf(1) /\ Total[2] = Total[1] + PartOf(2)
      /\ Total[3] = Total[2] + PartOf(3) /\ Total[4] = Total[3] + PartOf(4)
  <2>1. 1 \in 1..z /\ 2 \in 1..z /\ 3 \in 1..z /\ 4 \in 1..z /\ 1 - 1 = 0 /\ 2 - 1 = 1
        /\ 3 - 1 = 2 /\ 4 - 1 = 3
    BY <1>2
  <2> QED
    BY <1>3, <2>1
<1>5. PartOf(2) = 0 /\ PartOf(4) = 0
  BY DEF PartOf
<1>6. PartOf(1) = msg[1] * Base + msg[2] /\ PartOf(3) = msg[3] * Base + msg[4]
  BY <1>1 DEF PartOf, WordAt
<1>7. Total[0] = 0
  <2>1. 0 \in 0..Word
    BY ByteAssumption DEF Word
  <2> QED
    BY <2>1, TotalIs
<1>8. PartOf(1) \in Nat /\ PartOf(3) \in Nat
  <2>1. 1 \in 1..z /\ 3 \in 1..z
    BY <1>2
  <2> QED
    BY <1>2, <2>1, PartNat
<1>9. Total[4] = PartOf(1) + PartOf(3)
  BY <1>4, <1>5, <1>7, <1>8
<1> QED
  BY <1>6, <1>9

(* Two messages that agree from a place on: so do what their sums add.     *)
LEMMA SameTail ==
  ASSUME NEW a \in Nat, NEW b \in Nat, a <= b, NEW t, NEW u, NEW g,
         \A n \in a..b : t[n] \in Nat /\ u[n] \in Nat,
         \A n \in (a + 1)..b : t[n] = t[n - 1] + g[n] /\ u[n] = u[n - 1] + g[n] /\ g[n] \in Nat
  PROVE  t[b] - t[a] = u[b] - u[a]
<1> DEFINE P == {n \in Nat : n \in a..b => t[n] - t[a] = u[n] - u[a]}
<1>1. a \in P
  <2>1. a \in a..b
    OBVIOUS
  <2>2. t[a] \in Nat /\ u[a] \in Nat
    BY <2>1
  <2> QED
    BY <2>2
<1>2. ASSUME NEW n \in a..(b - 1), n \in P
      PROVE  n + 1 \in P
  <2>1. n + 1 \in (a + 1)..b /\ (n + 1) - 1 = n /\ n \in a..b /\ a \in a..b /\ n + 1 \in a..b
    OBVIOUS
  <2>2. t[n + 1] = t[n] + g[n + 1] /\ u[n + 1] = u[n] + g[n + 1] /\ g[n + 1] \in Nat
    BY <2>1
  <2>3. t[n] \in Nat /\ u[n] \in Nat /\ t[a] \in Nat /\ u[a] \in Nat
    BY <2>1
  <2>4. t[n] - t[a] = u[n] - u[a]
    BY <1>2, <2>1
  <2>5. t[n + 1] - t[a] = u[n + 1] - u[a]
    BY <2>2, <2>3, <2>4
  <2> QED
    BY <2>1, <2>5
<1> HIDE DEF P
<1>3. b \in P
  <2>1. \A n \in a..b : n \in P
    BY <1>1, <1>2, FromTo
  <2> QED
    BY <2>1
<1>4. b \in a..b
  OBVIOUS
<1> QED
  BY <1>3, <1>4 DEF P

\* What is known of a message's sums, for a step that changes the message.
Sums == Message(msg) =>
  /\ \A n \in 0..LastOf(msg) : Total[n] \in Nat
  /\ \A n \in 1..LastOf(msg) : Total[n] = Total[n - 1] + PartOf(n) /\ PartOf(n) \in Nat
LEMMA SumsKnown == Sums
BY TotalNat, PartNat DEF Sums

LEMMA ZeroTotal == Total[0] = 0
<1>1. 0 \in 0..Word
  BY ByteAssumption DEF Word
<1> QED
  BY <1>1, TotalIs

Counts == Message(msg) /\ Rest => Total[LastOf(msg)] # 0
LEMMA RestKnown == Counts
BY RestCounts DEF Counts

LEMMA SumsNext == Sums' /\ Four' /\ Counts' /\ (Total[0] = 0)'
BY SumsKnown, TotalFour, RestKnown, ZeroTotal, PTL

LEMMA SwappedBytes ==
  ASSUME NEW b \in Int, NEW x \in Int, NEW y \in Int
  PROVE  x * b + y = b * (x + b * y) - y * (b * b - 1)
OBVIOUS

\* m and r agree from the fifth byte on, and the sums of the first four as well.
Alike(l, m, r) ==
  /\ r \in [1..l -> Byte] /\ \A i \in 1..l : i >= 5 => r[i] = m[i]
  /\ \E k \in Int : (r[1] * Base + r[2]) + (r[3] * Base + r[4])
                      = (m[1] * Base + m[2]) + (m[3] * Base + m[4]) + k * (Word - 1)

(* The reply is a message that differs in the first four bytes, whose sum  *)
(* is the same modulo Word - 1.                                            *)
LEMMA ReplyBytes ==
  ASSUME NEW l \in 4..(Word - 1), NEW m \in [1..l -> Byte], m[1] = ICMP_ECHO, m[2] = 0, NEW r,
         r = [m EXCEPT ![1] = 0, ![3] = ReplyField(Field(m)) % Base,
                       ![4] = ReplyField(Field(m)) \div Base]
  PROVE  Alike(l, m, r)
<1>1. Base \in Nat /\ Base > 1 /\ ICMP_ECHO \in Nat /\ Word \in Nat
  BY ByteAssumption DEF Word
<1>2. 1 \in 1..l /\ 2 \in 1..l /\ 3 \in 1..l /\ 4 \in 1..l
  BY <1>1
<1>3. PICK a \in Byte, b \in Byte : a = m[3] /\ b = m[4]
  BY <1>2
<1>4. a \in Nat /\ b \in Nat /\ a < Base /\ b < Base /\ a <= Base - 1 /\ b <= Base - 1
  BY <1>1, <1>3 DEF Byte
<1>5. PICK f \in Nat : f = a + b * Base
  BY <1>1, <1>4
<1>6. f \in 0..(Word - 1)
  <2>1. (b + 1) * Base <= Base * Base
    BY <1>1, <1>4
  <2>2. (b + 1) * Base = b * Base + Base /\ b * Base \in Nat /\ Base * Base \in Nat
    BY <1>1, <1>4
  <2> QED
    BY <1>1, <1>4, <1>5, <2>1, <2>2 DEF Word
<1>7. PICK h \in 0..(Word - 1) : h = ReplyField(f)
  BY <1>6, ReplyFieldIs
<1>8. PICK c \in {0, 1} : h = f + ICMP_ECHO - c * (Word - 1)
  BY <1>6, <1>7, ReplyFieldIs
<1>9. PICK x \in Byte, y \in Byte : x = h % Base /\ y = h \div Base /\ h = x + Base * y
  BY <1>7, WordBytes
<1>10. Field(m) = f
  BY <1>3, <1>5 DEF Field
<1>11. r = [m EXCEPT ![1] = 0, ![3] = x, ![4] = y]
  BY <1>7, <1>9, <1>10
<1>12. /\ r[1] = 0 /\ r[2] = 0 /\ r[3] = x /\ r[4] = y
       /\ \A i \in 1..l : i >= 5 => r[i] = m[i]
  BY <1>2, <1>11
<1>13. r \in [1..l -> Byte]
  <2>1. 0 \in Byte
    BY <1>1 DEF Byte
  <2> QED
    BY <1>2, <1>11, <2>1
<1>14. PICK k \in Int : k = b - (Base * c + y)
  BY <1>1, <1>4 DEF Byte
<1>15. x \in Int /\ y \in Int /\ b \in Int /\ a \in Int /\ c \in Int
  BY <1>1, <1>4 DEF Byte
<1>16. PICK w \in Int : w = Word - 1 /\ w = Base * Base - 1
  BY <1>1 DEF Word
<1>17. x * Base + y = Base * h - y * w
  <2>1. Base \in Int
    BY <1>1
  <2>2. x * Base + y = Base * (x + Base * y) - y * (Base * Base - 1)
    BY <1>15, <2>1, SwappedBytes
  <2> QED
    BY <1>9, <1>16, <2>2
<1>18. a * Base + b = Base * f - b * w
  BY <1>1, <1>5, <1>15, <1>16
<1>19. Base * h = (Base * f + Base * ICMP_ECHO) - (Base * c) * w
  BY <1>1, <1>8, <1>15, <1>16
<1>20. k * w = b * w - ((Base * c) * w + y * w)
  BY <1>1, <1>14, <1>15, <1>16
<1>21. PICK p \in Int, q \in Int, s \in Int : p = b * w /\ q = (Base * c) * w /\ s = y * w
  BY <1>1, <1>15, <1>16
<1>22. PICK g \in Int, e \in Int : g = Base * f /\ e = Base * ICMP_ECHO
  BY <1>1, <1>5
<1>23. x * Base + y = (g + e) - q - s /\ a * Base + b = g - p /\ k * w = p - (q + s)
  BY <1>17, <1>18, <1>19, <1>20, <1>21, <1>22
<1>24. (0 * Base + 0) + (x * Base + y) = (ICMP_ECHO * Base + 0) + (a * Base + b) + k * w
  <2>1. ICMP_ECHO * Base = e /\ 0 * Base = 0
    BY <1>1, <1>22
  <2>2. PICK v \in Int, z \in Int, i \in Int :
          v = x * Base + y /\ z = a * Base + b /\ i = k * w
    BY <1>1, <1>15, <1>16
  <2>3. v = e + z + i
    <3>1. v = (g + e) - q - s /\ z = g - p /\ i = p - (q + s)
      BY <1>23, <2>2
    <3> QED
      BY <3>1
  <2>4. 0 + v = (e + 0) + z + i
    BY <1>22, <2>2, <2>3
  <2>5. (0 * Base + 0) = 0 /\ (ICMP_ECHO * Base + 0) = e + 0
    BY <2>1
  <2> QED
    BY <2>2, <2>4, <2>5
<1> QED
  BY <1>3, <1>12, <1>13, <1>16, <1>24 DEF Alike

LEMMA EchoReplyInv == SumInv /\ EchoReply => SumInv'
<1> SUFFICES ASSUME SumInv, EchoReply PROVE SumInv'
  OBVIOUS
<1>1. PICK l \in MsgLens : l = Len(msg) /\ l \in 4..(Word - 1) /\ msg \in [1..l -> Byte]
  BY MessageLen DEF SumInv
<1>2. Word \in Nat /\ l \in Nat /\ l >= 4
  BY <1>1, ByteAssumption DEF Word
<1>3. verdict = <<>> /\ msg[1] = ICMP_ECHO /\ msg[2] = 0
  <2>1. verdict = <<>> /\ Len(<<>>) = 0
    BY DEF EchoReply
  <2> QED
    BY <2>1 DEF SumInv, Asked, Told, BothTold
<1>4. PICK m : m = msg
  OBVIOUS
<1>5. PICK r : r = msg'
  OBVIOUS
<1>6. /\ r \in [1..l -> Byte] /\ \A i \in 1..l : i >= 5 => r[i] = m[i]
      /\ \E k \in Int : (r[1] * Base + r[2]) + (r[3] * Base + r[4])
                          = (m[1] * Base + m[2]) + (m[3] * Base + m[4]) + k * (Word - 1)
  <2>1. m \in [1..l -> Byte] /\ m[1] = ICMP_ECHO /\ m[2] = 0
    BY <1>1, <1>3, <1>4
  <2>2. r = [m EXCEPT ![1] = 0, ![3] = ReplyField(Field(m)) % Base,
                      ![4] = ReplyField(Field(m)) \div Base]
    BY <1>4, <1>5 DEF EchoReply
  <2> QED
    <3>1. Alike(l, m, r)
      BY <1>1, <2>1, <2>2, ReplyBytes
    <3> QED
      BY <3>1 DEF Alike
<1>7. Message(r) /\ Len(r) = l /\ Message(m) /\ Len(m) = l
  <2>1. Message(r) /\ Message(m)
    BY <1>1, <1>4, <1>6 DEF Message
  <2>2. r \in [1..Len(r) -> Byte] /\ Len(r) \in Nat
    BY <2>1, <1>2, MessageLen
  <2>3. 1..Len(r) = 1..l
    BY <1>6, <2>2
  <2>4. Len(r) = l
    <3>1. l \in 1..l
      BY <1>2
    <3>2. l \in 1..Len(r) /\ Len(r) \in 1..Len(r)
      BY <2>2, <2>3, <3>1
    <3>3. Len(r) \in 1..l
      BY <2>3, <3>2
    <3>4. Len(r) \in Nat
      BY <2>2
    <3>5. l <= Len(r) /\ Len(r) <= l
      BY <1>2, <3>2, <3>3, <3>4
    <3> QED
      BY <1>2, <3>4, <3>5
  <2> QED
    BY <1>1, <1>4, <2>1, <2>4
<1>8. PICK z \in Nat : z = LastOf(m) /\ z = LastOf(r) /\ z >= 4 /\ z \in l..(l + 1) /\ z % 2 = 0
  <2>1. LastOf(m) = LastOf(r)
    BY <1>7 DEF LastOf
  <2>2. LastOf(m) \in l..(l + 1) /\ LastOf(m) % 2 = 0
    BY <1>7, MessageLen
  <2> QED
    BY <1>2, <2>1, <2>2
<1>9. PICK t, g : t = Total /\ g = [n \in 1..z |-> PartOf(n)]
  OBVIOUS
<1>10. PICK u, h : u = Total' /\ h = [n \in 1..z |-> PartOf(n)']
  OBVIOUS
<1>11. /\ \A n \in 0..z : t[n] \in Nat
       /\ \A n \in 1..z : t[n] = t[n - 1] + g[n] /\ g[n] \in Nat
  BY <1>4, <1>7, <1>8, <1>9, SumsKnown DEF Sums
<1>12. /\ \A n \in 0..z : u[n] \in Nat
       /\ \A n \in 1..z : u[n] = u[n - 1] + h[n] /\ h[n] \in Nat
  BY <1>5, <1>7, <1>8, <1>10, SumsNext DEF Sums
<1>13. \A n \in 5..z : g[n] = h[n]
  <2>1. SUFFICES ASSUME NEW n \in 5..z PROVE g[n] = h[n]
    OBVIOUS
  <2>2. n \in 1..z /\ n \in Nat
    OBVIOUS
  <2>3. CASE n % 2 = 1
    <3>1. n # z /\ n \in 1..l /\ n >= 5
      BY <1>2, <1>8, <2>1, <2>3
    <3>2. r[n] = m[n]
      BY <1>6, <3>1
    <3>3. n < l => r[n + 1] = m[n + 1]
      <4>1. n < l => n + 1 \in 1..l /\ n + 1 >= 5
        BY <1>2, <3>1
      <4> QED
        BY <1>6, <4>1
    <3>4. g[n] = m[n] * Base + (IF n < l THEN m[n + 1] ELSE 0)
      BY <1>4, <1>7, <1>9, <2>2, <2>3 DEF PartOf, WordAt
    <3>5. h[n] = r[n] * Base + (IF n < l THEN r[n + 1] ELSE 0)
      BY <1>5, <1>7, <1>10, <2>2, <2>3 DEF PartOf, WordAt
    <3> QED
      BY <3>2, <3>3, <3>4, <3>5
  <2>4. CASE n % 2 # 1
    <3>1. g[n] = 0 /\ h[n] = 0
      BY <1>9, <1>10, <2>2, <2>4 DEF PartOf
    <3> QED
      BY <3>1
  <2> QED
    BY <2>3, <2>4
<1>14. t[z] - t[4] = u[z] - u[4]
  <2>1. \A n \in 4..z : n \in 0..z
    OBVIOUS
  <2>2. \A n \in (4 + 1)..z : n \in 1..z /\ n \in 5..z
    OBVIOUS
  <2>3. \A n \in 4..z : t[n] \in Nat /\ u[n] \in Nat
    BY <1>11, <1>12, <2>1
  <2>4. \A n \in (4 + 1)..z : t[n] = t[n - 1] + g[n] /\ u[n] = u[n - 1] + g[n] /\ g[n] \in Nat
    BY <1>11, <1>12, <1>13, <2>2
  <2> QED
    <3>1. 4 \in Nat /\ z \in Nat /\ 4 <= z
      BY <1>8
    <3> QED
      BY <2>3, <2>4, <3>1, SameTail, SMTT(30)
<1>15. PICK k \in Int : u[4] = t[4] + k * (Word - 1)
  <2>1. t[4] = (m[1] * Base + m[2]) + (m[3] * Base + m[4])
    BY <1>4, <1>7, <1>9, TotalFour DEF Four
  <2>2. u[4] = (r[1] * Base + r[2]) + (r[3] * Base + r[4])
    BY <1>5, <1>7, <1>10, SumsNext DEF Four
  <2> QED
    BY <1>6, <2>1, <2>2
<1>16. t[z] \in Nat /\ t[4] \in Nat /\ u[z] \in Nat /\ u[4] \in Nat
  <2>1. z \in 0..z /\ 4 \in 0..z
    BY <1>8
  <2> QED
    BY <1>11, <1>12, <2>1
<1>17. PICK w \in Int : w = Word - 1
  BY <1>2
<1>18. PICK s \in 0..(Word - 1) : s = sum
  BY DEF SumInv
<1>19. at - 1 = z
  BY <1>1, <1>2, <1>4, <1>8 DEF SumInv, EchoReply
<1>20. PICK j \in Int : t[z] = s + j * w
  BY <1>9, <1>17, <1>18, <1>19 DEF SumInv, OneSum
<1>21. s = 0 <=> t[z] = 0
  BY <1>9, <1>18, <1>19 DEF SumInv, OneSum
<1>22. u[z] = s + (j + k) * w
  <2>1. PICK x \in Int, y \in Int : x = j * w /\ y = k * w
    BY <1>17
  <2>2. (j + k) * w = x + y /\ s \in Int
    BY <1>2, <1>17, <2>1
  <2> QED
    BY <1>14, <1>15, <1>16, <1>17, <1>20, <2>1, <2>2
<1>23. Rest' => Rest
  <2>1. Rest' => \E i \in 5..l : r[i] # 0
    BY <1>5, <1>7 DEF Rest
  <2>2. \A i \in 5..l : i \in 1..l /\ i >= 5
    BY <1>2
  <2>3. Rest' => \E i \in 5..l : m[i] # 0
    BY <1>6, <2>1, <2>2
  <2> QED
    BY <1>1, <1>4, <2>3 DEF Rest
<1>24. Rest' => s # 0 /\ u[z] # 0
  <2>1. Rest => t[z] # 0
    BY <1>4, <1>7, <1>8, <1>9, RestKnown DEF Counts
  <2>2. Rest' => u[z] # 0
    BY <1>5, <1>7, <1>8, <1>10, SumsNext DEF Counts
  <2> QED
    BY <1>21, <1>23, <2>1, <2>2
<1>25. Rest' => OneSum(s, LastOf(msg))'
  BY <1>5, <1>8, <1>10, <1>17, <1>22, <1>24 DEF OneSum
<1>26. verdict' = <<s>> /\ at' = 1 /\ sum' = 0
  BY <1>18 DEF EchoReply
<1>27. verdict' \in Seq(0..(Word - 1)) /\ Len(verdict') = 1 /\ verdict'[1] = s
  BY <1>26
<1>28. FirstVerdict(verdict[1])'
  BY <1>25, <1>27 DEF FirstVerdict, OneSum
<1>29. OneSum(sum, at - 1)'
  <2>1. u[0] = 0
    BY <1>10, SumsNext
  <2>2. u[0] = 0 + 0 * (Word - 1)
    BY <1>2, <2>1
  <2> QED
    BY <1>10, <1>26, <2>1, <2>2 DEF OneSum
<1>30. at' \in 1..(z + 1) /\ at' % 2 = 1 /\ sum' \in 0..(Word - 1)
  BY <1>2, <1>8, <1>18, <1>26
<1> QED
  BY <1>5, <1>7, <1>8, <1>27, <1>28, <1>29, <1>30 DEF SumInv, Told

LEMMA SumInitInv == SumInit => SumInv
<1> SUFFICES ASSUME SumInit PROVE SumInv
  OBVIOUS
<1>1. Message(msg) /\ msg[1] = ICMP_ECHO /\ msg[2] = 0
  BY DEF SumInit, Message
<1>2. Word \in Nat /\ Word > 0 /\ LastOf(msg) \in Nat
  BY <1>1, ByteAssumption, MessageLen DEF Word
<1>3. OneSum(0, 0)
  <2>1. 0 = 0 + 0 * (Word - 1)
    BY <1>2
  <2> QED
    BY <2>1, ZeroTotal DEF OneSum
<1>4. at = 1 /\ sum = 0 /\ verdict = <<>> /\ 1 - 1 = 0 /\ 1 % 2 = 1
  BY DEF SumInit
<1> QED
  BY <1>1, <1>2, <1>3, <1>4 DEF SumInv, Asked

LEMMA SumNextInv == SumInv /\ [SumNext]_sumvars => SumInv'
<1> SUFFICES ASSUME SumInv, [SumNext]_sumvars PROVE SumInv'
  OBVIOUS
<1>1. CASE UNCHANGED <<msg, at, sum, verdict>>
  <2>1. Total' = Total
    BY <1>1, TotalSame
  <2>2. /\ OneSum(sum, at - 1)' /\ (Asked' \/ Told' \/ BothTold')
    BY <1>1, <2>1 DEF SumInv, Asked, Told, BothTold, FirstVerdict, Rest, OneSum
  <2> QED
    BY <1>1, <2>2 DEF SumInv
<1> QED
  BY <1>1, SumStepInv, EchoReplyInv, ReplySummedInv DEF SumNext, Add, sumvars

LEMMA SumInvariance == SumSpec => []SumInv
BY SumInitInv, SumNextInv, PTL DEF SumSpec

(* chksum(): the sum so far is the one's complement sum of the words read, *)
(* for every message and every width of a byte.                            *)
THEOREM SumIsOnesComplement == SumSpec => []OnesComplement
<1>1. SumInv => OnesComplement
  <2> SUFFICES ASSUME SumInv PROVE OnesComplement
    OBVIOUS
  <2>1. Word - 1 \in Nat \ {0}
    <3>1. Base \in Nat /\ Base > 1
      BY ByteAssumption
    <3>2. Base * Base > Base
      BY <3>1
    <3> QED
      BY <3>1, <3>2 DEF Word
  <2>2. PICK c \in Nat \ {0} : c = Word - 1
    BY <2>1
  <2>3. LastOf(msg) \in Nat
    BY MessageLen, ByteAssumption DEF SumInv, Word
  <2>4. PICK n \in 0..LastOf(msg) : n = at - 1
    BY <2>3 DEF SumInv
  <2>5. PICK t \in Nat : t = Total[n]
    BY TotalNat DEF SumInv
  <2>6. PICK s \in Nat : s = sum
    BY <2>2 DEF SumInv
  <2>7. PICK k \in Int : t = s + k * c
    BY <2>2, <2>4, <2>5, <2>6 DEF SumInv, OneSum
  <2>8. s = 0 <=> t = 0
    BY <2>4, <2>5, <2>6 DEF SumInv, OneSum
  <2>9. s % c = t % c
    BY <2>7, SameMod
  <2> QED
    BY <2>2, <2>4, <2>5, <2>6, <2>8, <2>9 DEF OnesComplement
<1> QED
  BY <1>1, SumInvariance, PTL

\* Two sums of one total are the same.
LEMMA OneSumOnly ==
  ASSUME NEW m \in Nat \ {0}, NEW a \in 0..m, NEW b \in 0..m, NEW k \in Int, NEW j \in Int,
         a + k * m = b + j * m, a = 0 <=> b = 0
  PROVE  a = b
<1>1. PICK d \in Int : d = j - k
  OBVIOUS
<1>2. a - b = d * m
  <2>1. PICK x \in Int, y \in Int : x = k * m /\ y = j * m
    OBVIOUS
  <2>2. d * m = y - x
    BY <1>1, <2>1
  <2> QED
    BY <2>1, <2>2
<1>3. ~(d >= 1)
  <2>1. SUFFICES ASSUME d >= 1 PROVE FALSE
    OBVIOUS
  <2>2. PICK e \in Nat : e = d /\ 1 <= e
    BY <2>1
  <2>3. m * 1 <= m * e
    BY <2>2, TimesLeq
  <2>4. a - b >= m
    BY <1>2, <2>2, <2>3
  <2> QED
    BY <2>4
<1>4. ~(d <= -1)
  <2>1. SUFFICES ASSUME d <= -1 PROVE FALSE
    OBVIOUS
  <2>2. PICK e \in Nat : e = -d /\ 1 <= e
    BY <2>1
  <2>3. m * 1 <= m * e
    BY <2>2, TimesLeq
  <2>4. b - a >= m
    <3>1. m * e = -(d * m)
      BY <2>2
    <3> QED
      BY <1>2, <2>3, <3>1
  <2> QED
    BY <2>4
<1>5. d = 0
  BY <1>3, <1>4
<1> QED
  BY <1>2, <1>5

(* uip.c:976: the reply to an echo request is as valid as the request, for *)
(* every message that holds something behind its checksum.                 *)
THEOREM EchoKept == SumSpec => []EchoKeepsChecksum
<1>1. SumInv => EchoKeepsChecksum
  <2> SUFFICES ASSUME SumInv, \E i \in 5..Len(msg) : msg[i] # 0, Len(verdict) = 2
               PROVE  Valid(verdict[1]) <=> Valid(verdict[2])
    BY DEF EchoKeepsChecksum, Answered
  <2>1. Rest
    BY DEF Rest
  <2>2. BothTold
    <3>1. ~Told
      BY DEF Told
    <3>2. ~Asked
      <4>1. Len(<<>>) = 0
        OBVIOUS
      <4> QED
        BY <4>1 DEF Asked
    <3> QED
      BY <3>1, <3>2 DEF SumInv
  <2>3. Word - 1 \in Nat \ {0}
    <3>1. Base \in Nat /\ Base > 1
      BY ByteAssumption
    <3>2. Base * Base > Base
      BY <3>1
    <3> QED
      BY <3>1, <3>2 DEF Word
  <2>4. PICK m \in Nat \ {0} : m = Word - 1
    BY <2>3
  <2>5. PICK a \in 0..m, b \in 0..m : a = verdict[1] /\ b = verdict[2]
    BY <2>2, <2>4 DEF BothTold, FirstVerdict
  <2>6. OneSum(a, LastOf(msg)) /\ OneSum(b, LastOf(msg))
    BY <2>1, <2>2, <2>5 DEF BothTold, FirstVerdict
  <2>7. PICK t : t = Total[LastOf(msg)]
    OBVIOUS
  <2>8. PICK k \in Int : t = a + k * m
    BY <2>4, <2>6, <2>7 DEF OneSum
  <2>9. PICK j \in Int : t = b + j * m
    BY <2>4, <2>6, <2>7 DEF OneSum
  <2>10. a = 0 <=> b = 0
    BY <2>6, <2>7 DEF OneSum
  <2>11. a + k * m = b + j * m
    BY <2>8, <2>9
  <2>12. a = b
    BY <2>10, <2>11, OneSumOnly
  <2> QED
    BY <2>5, <2>12
<1> QED
  BY <1>1, SumInvariance, PTL

-----------------------------------------------------------------------------
(***************************************************************************)
(* Part 5.  The widths of the numbers (MCParts).                           *)
(***************************************************************************)
LEMMA TimerTypeStep == TimerInv /\ TimerTypeOK /\ [TimerNext]_timervars => TimerTypeOK'
<1> SUFFICES ASSUME TimerInv, TimerTypeOK, [TimerNext]_timervars PROVE TimerTypeOK'
  OBVIOUS
<1>1. /\ tick \in 0..MaxTick /\ turn \in Timers /\ low \in -1..(ByteMod - 1)
      /\ start \in [Timers -> 0..(Clock - 1)] /\ torn \in BOOLEAN
      /\ looked \in [Timers -> 0..MaxTick] /\ due \in [Timers -> Nat] /\ MaxTick \in Nat
  BY ClockAssumption DEF TimerTypeOK
<1>2. TimerInv' /\ turn' \in Timers /\ torn' \in BOOLEAN /\ due' \in [Timers -> Nat]
  BY TimerStepInv DEF TimerInv
<1>3. CASE UNCHANGED timervars
  BY <1>1, <1>3 DEF timervars, TimerTypeOK
<1>4. CASE Interrupt
  BY <1>1, <1>2, <1>4 DEF Interrupt, TimerTypeOK
<1>5. CASE ReadLow
  <2>1. LowByte(tick) \in 0..(ByteMod - 1)
    BY <1>1, ClockIs DEF LowByte
  <2>2. LowByte(tick) \in -1..(ByteMod - 1)
    BY <2>1, ClockIs
  <2> QED
    BY <1>1, <1>5, <2>2 DEF ReadLow, TimerTypeOK
<1>6. CASE Look
  <2>1. /\ low' = -1 /\ tick' = tick /\ looked' = [looked EXCEPT ![turn] = tick]
        /\ \/ start' = [start EXCEPT ![turn] = (@ + Intervals[turn]) % Clock]
           \/ start' = start
    BY <1>6 DEF Look, TimerReset
  <2>2. (start[turn] + Intervals[turn]) % Clock \in 0..(Clock - 1)
    <3>1. start[turn] + Intervals[turn] \in Nat
      BY <1>1, IntervalIs, ClockIs
    <3> QED
      BY <3>1, ClockIs
  <2>3. start' \in [Timers -> 0..(Clock - 1)] /\ looked' \in [Timers -> 0..MaxTick]
    BY <1>1, <2>1, <2>2
  <2>4. low' \in -1..(ByteMod - 1)
    BY <2>1, ClockIs
  <2> QED
    BY <1>1, <1>2, <2>1, <2>3, <2>4 DEF TimerTypeOK
<1> QED
  BY <1>3, <1>4, <1>5, <1>6 DEF TimerNext

LEMMA TimerTypeInit == TimerInit => TimerTypeOK
<1> SUFFICES ASSUME TimerInit PROVE TimerTypeOK
  OBVIOUS
<1>1. 1 \in Timers
  BY ClockAssumption DEF Timers
<1>2. \A i \in Timers : Intervals[i] \in Nat
  BY IntervalIs
<1>3. 0 \in 0..(Clock - 1) /\ -1 \in -1..(ByteMod - 1) /\ 0 \in 0..MaxTick
  BY ClockIs, ClockAssumption
<1> QED
  BY <1>1, <1>2, <1>3 DEF TimerInit, TimerTypeOK

LEMMA TimerTypes == TimerSpec => []TimerTypeOK
BY TimerInitInv, TimerStepInv, TimerTypeInit, TimerTypeStep, PTL DEF TimerSpec

-----------------------------------------------------------------------------
\* A byte is what is left of any number, and the first timeouts fit into one.
LEMMA OctetIs == /\ OctetMod \in Nat \ {0} /\ \A x \in Int : U8(x) \in 0..(OctetMod - 1)
                 /\ RTO \in 0..(OctetMod - 1) /\ {4, 16} \subseteq 0..(OctetMod - 1)
  BY RttAssumption DEF U8

LEMMA ShiftedFits == ASSUME NEW n \in Nat PROVE Shifted(n) \in 0..(OctetMod - 1)
<1>1. 2 ^ 0 = 1 /\ 2 ^ 1 = 2 /\ 2 ^ 2 = 4 /\ 2 ^ 3 = 8 /\ 2 ^ 4 = 16
  OBVIOUS
<1>2. RTO \in Nat /\ OctetMod \in Nat /\ RTO * 16 < OctetMod
  BY RttAssumption
<1>3. (IF n > 4 THEN 4 ELSE n) \in {0, 1, 2, 3, 4}
  OBVIOUS
<1>4. PICK i \in {0, 1, 2, 3, 4} : Shifted(n) = RTO * 2 ^ i
  BY <1>3 DEF Shifted
<1>5. Shifted(n) \in {RTO * 1, RTO * 2, RTO * 4, RTO * 8, RTO * 16}
  BY <1>1, <1>4
<1> QED
  BY <1>2, <1>5

LEMMA RttTypeStep == RttTypeOK /\ [RttNext]_rttvars => RttTypeOK'
<1> SUFFICES ASSUME RttTypeOK, [RttNext]_rttvars PROVE RttTypeOK'
  OBVIOUS
<1>1. /\ timer \in 0..(OctetMod - 1) /\ rto \in 0..(OctetMod - 1)
      /\ sa \in 0..(OctetMod - 1) /\ sv \in 0..(OctetMod - 1) /\ nrtx \in 0..MAXRTX
      /\ flying \in BOOLEAN /\ forgot \in BOOLEAN /\ since \in 0..(MaxRtt + 1)
  BY DEF RttTypeOK
<1>2. MAXRTX \in Nat /\ MaxRtt \in Nat
  BY RttAssumption
<1>3. CASE UNCHANGED rttvars
  BY <1>1, <1>3 DEF rttvars, RttTypeOK
<1>4. CASE Transmit
  BY <1>1, <1>2, <1>4 DEF Transmit, RttTypeOK
<1>5. CASE RttTick
  <2>1. since' = (IF since > MaxRtt THEN since ELSE since + 1)
    BY <1>5 DEF RttTick
  <2>2. since' \in 0..(MaxRtt + 1)
    BY <1>1, <1>2, <2>1
  <2>3. timer' \in 0..(OctetMod - 1) /\ nrtx' \in 0..MAXRTX
    <3>1. CASE Countdown
      BY <1>1, <3>1, OctetIs DEF Countdown
    <3>2. CASE BackOff
      BY <1>1, <1>2, <3>2, ShiftedFits DEF BackOff
    <3> QED
      BY <1>5, <3>1, <3>2 DEF RttTick
  <2> QED
    BY <1>1, <1>5, <2>2, <2>3 DEF RttTick, RttTypeOK
<1>6. CASE PeerData
  BY <1>1, <1>2, <1>6 DEF PeerData, RttTypeOK
<1>7. CASE RttAck
  <2> DEFINE n == IF Measures THEN Estimate(rto - timer) ELSE [sa |-> sa, sv |-> sv, rto |-> rto]
  <2>1. n.sa \in 0..(OctetMod - 1) /\ n.sv \in 0..(OctetMod - 1) /\ n.rto \in 0..(OctetMod - 1)
    <3>1. CASE ~Measures
      BY <1>1, <3>1
    <3>2. CASE Measures
      <4> DEFINE m1 == S8(S8(rto - timer) - (sa \div 8))
                 a  == U8(sa + m1)
                 m2 == S8(S8(Magnitude(m1)) - (sv \div 4))
                 v  == U8(sv + m2)
      <4>1. \A x \in Int : S8(x) \in Int
        BY OctetIs DEF S8
      <4>2. rto - timer \in Int /\ sa \div 8 \in Int /\ sv \div 4 \in Int
        BY <1>1
      <4>3. m1 \in Int
        BY <4>1, <4>2
      <4>4. Magnitude(m1) \in Int
        BY <4>3 DEF Magnitude
      <4>5. m2 \in Int
        BY <4>1, <4>2, <4>4
      <4>6. a \in 0..(OctetMod - 1) /\ v \in 0..(OctetMod - 1)
        BY <1>1, <4>3, <4>5, OctetIs
      <4>7. n = [sa |-> a, sv |-> v, rto |-> U8((a \div 8) + v)]
        BY <3>2 DEF Estimate
      <4> HIDE DEF a, v
      <4>8. (a \div 8) + v \in Int
        BY <4>6
      <4>9. U8((a \div 8) + v) \in 0..(OctetMod - 1)
        BY <4>8, OctetIs
      <4> HIDE DEF n
      <4> QED
        BY <4>6, <4>7, <4>9
    <3> QED
      BY <3>1, <3>2
  <2>2. /\ sa' = n.sa /\ sv' = n.sv /\ rto' = n.rto /\ timer' = n.rto
        /\ ~flying' /\ flying' \in BOOLEAN /\ since' = 0 /\ UNCHANGED <<nrtx, forgot>>
    BY <1>7 DEF RttAck
  <2> HIDE DEF n
  <2> QED
    BY <1>1, <1>2, <2>1, <2>2 DEF RttTypeOK
<1> QED
  BY <1>3, <1>4, <1>5, <1>6, <1>7 DEF RttNext

LEMMA RttTypes == RttSpec => []RttTypeOK
<1>1. RttInit => RttTypeOK
  <2> SUFFICES ASSUME RttInit PROVE RttTypeOK
    OBVIOUS
  <2>1. 0 \in 0..(OctetMod - 1) /\ 0 \in 0..MAXRTX /\ 0 \in 0..(MaxRtt + 1)
    BY OctetIs, RttAssumption
  <2>2. timer = RTO /\ rto = RTO /\ sa = 0 /\ sv \in 0..(OctetMod - 1)
    BY OctetIs DEF RttInit
  <2>3. {timer, rto, sa, sv} \subseteq 0..(OctetMod - 1)
    BY <2>1, <2>2, OctetIs
  <2> QED
    BY <2>1, <2>3 DEF RttInit, RttTypeOK
<1> QED
  BY <1>1, RttTypeStep, PTL DEF RttSpec

-----------------------------------------------------------------------------
LEMMA SumTypesMeet == SumInv /\ Add32Inv => SumTypeOK
<1> SUFFICES ASSUME SumInv, Add32Inv PROVE SumTypeOK
  OBVIOUS
<1>1. /\ Len(msg) \in Nat /\ LastOf(msg) \in Len(msg)..(Len(msg) + 1)
      /\ msg \in [1..Len(msg) -> Byte]
  BY MessageLen DEF SumInv
<1>2. msg \in Seq(Byte)
  BY <1>1, SeqDef
<1>3. sum \in 0..(Word - 1) /\ op32 \in [1..4 -> Byte]
  BY DEF SumInv, Add32Inv
<1>4. at \in 1..(Len(msg) + 2)
  BY <1>1 DEF SumInv
<1>5. verdict \in Seq(0..(Word - 1)) /\ Len(verdict) <= 2
  <2>1. Asked => Len(verdict) = 0
    BY DEF Asked
  <2>2. Told => Len(verdict) = 1
    BY DEF Told
  <2>3. BothTold => Len(verdict) = 2
    BY DEF BothTold
  <2>4. verdict \in Seq(0..(Word - 1)) /\ (Asked \/ Told \/ BothTold)
    BY DEF SumInv
  <2>5. Len(verdict) = 0 \/ Len(verdict) = 1 \/ Len(verdict) = 2
    BY <2>1, <2>2, <2>3, <2>4
  <2>6. PICK k \in {0, 1, 2} : k = Len(verdict)
    BY <2>5
  <2>7. k <= 2
    OBVIOUS
  <2> QED
    BY <2>4, <2>6, <2>7, Zenon
<1> QED
  BY <1>2, <1>3, <1>4, <1>5 DEF SumTypeOK

LEMMA SumTypes == SumSpec => []SumTypeOK
<1>1. SumSpec => []Add32Inv
  BY Add32Init, Add32Step, PTL DEF SumSpec
<1> QED
  BY <1>1, SumInvariance, SumTypesMeet, PTL

(* A behaviour of the parts is a behaviour of each of them.                *)
LEMMA PartsAreParts == PartsSpec => TimerSpec /\ RttSpec /\ SumSpec /\ ReassSpec
<1>1. PartsInit => TimerInit /\ RttInit /\ SumInit /\ ReassInit
  BY DEF PartsInit
<1>2. [PartsNext]_parts => /\ [TimerNext]_timervars /\ [RttNext]_rttvars
                           /\ [SumNext]_sumvars /\ [ReassNext]_reassvars
  <2>1. UNCHANGED parts => UNCHANGED <<timervars, rttvars, sumvars, reassvars>>
    BY DEF parts
  <2>2. ASSUME NEW p, Only(p)
        PROVE  /\ p # "timer" => UNCHANGED timervars
               /\ p # "rtt" => UNCHANGED rttvars
               /\ p # "sum" => UNCHANGED sumvars
               /\ p # "reass" => UNCHANGED reassvars
    BY <2>2 DEF Only
  <2>3. "timer" # "rtt" /\ "timer" # "sum" /\ "timer" # "reass" /\ "rtt" # "sum"
        /\ "rtt" # "reass" /\ "sum" # "reass"
    OBVIOUS
  <2>4. "arp" \notin {"timer", "rtt", "sum", "reass"}
        /\ "neighbor" \notin {"timer", "rtt", "sum", "reass"}
        /\ "forward" \notin {"timer", "rtt", "sum", "reass"}
    OBVIOUS
  <2> QED
    BY <2>1, <2>2, <2>3, <2>4 DEF PartsNext
<1> QED
  BY <1>1, <1>2, PTL DEF PartsSpec, TimerSpec, RttSpec, SumSpec, ReassSpec

(* Every variable of the small components keeps its width: uip/timer.c,    *)
(* the estimator and chksum() of uip.c.  What uip_reass() marks and counts *)
(* is inside of uip_reassbuf and uip_reassbitmap as they are declared,     *)
(* until a fragment is first written outside of them, which uip.c:586      *)
(* admits.                                                                 *)
THEOREM PartsTypeCorrect == PartsSpec => []PartsTypeOK
<1>1. TimerTypeOK /\ RttTypeOK /\ SumTypeOK /\ ReassTypeOK => PartsTypeOK
  BY DEF PartsTypeOK
<1> QED
  BY <1>1, PartsAreParts, TimerTypes, RttTypes, SumTypes, ReassTypeCorrect, PTL
=============================================================================
