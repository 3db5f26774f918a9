------------------------------ MODULE SysTimer ------------------------------
(***************************************************************************)
(* The system tick (timer.c) and the software timers of the main loop      *)
(* (uip/timer.c, clock-arch.c).  The timer interrupt increments            *)
(* system_tick at any time; timer_get_system_tick() reads it byte by byte, *)
(* low byte first, without disabling interrupts; clock_time() keeps the    *)
(* low 16 bits as a signed int.  The loop asks its timers in turn whether  *)
(* they have expired and resets those that have.                           *)
(*                                                                         *)
(* The width is two digits of base ByteMod (256): the upper two bytes are  *)
(* lost in the conversion to clock_time_t.  Between two reads of a byte at *)
(* most one interrupt falls (they are a millisecond apart), and at most    *)
(* MaxLag of them between two looks at the same timer.  That is no longer  *)
(* than an interval: a timer looked at more rarely is reset by one         *)
(* interval a look, falls behind, and stops when it is half a turn of the  *)
(* clock behind.                                                           *)
(***************************************************************************)
EXTENDS Integers, Sequences

CONSTANTS ByteMod,          \* values of a byte
          Intervals,        \* periodic_timer, arp_timer (main.c)
          MaxLag,           \* ticks between two looks at a timer (bound)
          MaxTick           \* length of a behaviour in ticks (bound)

Clock == ByteMod * ByteMod  \* values of clock_time_t
ASSUME ClockAssumption == /\ ByteMod \in Nat \ {0} /\ MaxLag \in Nat /\ MaxTick \in Nat
                          /\ Intervals \in Seq(Nat \ {0})
                          /\ Intervals # <<>>
                          /\ \A i \in DOMAIN Intervals :
                               /\ 2 * (Intervals[i] + MaxLag + ByteMod) < Clock
                               /\ MaxLag <= Intervals[i]
Timers == DOMAIN Intervals

VARIABLES
  tick,             \* system_tick
  start,            \* start of each timer, as an unsigned number
  turn, low,        \* the timer being asked; the low byte read, -1 before that
  looked,           \* the tick of the last look at each timer
  torn,             \* an interrupt fell between the two bytes
  due               \* the tick each timer should expire at next

timervars == <<tick, start, turn, low, looked, torn, due>>

LowByte(t)  == t % ByteMod
HighByte(t) == (t \div ByteMod) % ByteMod
Signed(x) == LET u == x % Clock IN IF 2 * u >= Clock THEN u - Clock ELSE u

TimerTypeOK ==
  /\ tick \in 0..MaxTick /\ turn \in Timers /\ low \in -1..(ByteMod - 1)
  /\ start \in [Timers -> 0..(Clock - 1)] /\ torn \in BOOLEAN
  /\ looked \in [Timers -> 0..MaxTick] /\ due \in [Timers -> Nat]

(* main(): timer_set() before interrupts are enabled.                      *)
TimerInit ==
  /\ tick = 0 /\ start = [i \in Timers |-> 0] /\ turn = 1 /\ low = -1
  /\ looked = [i \in Timers |-> 0] /\ torn = FALSE
  /\ due = [i \in Timers |-> Intervals[i]]

(* ISR(TIMER1_COMPA_vect)                                                  *)
Interrupt ==
  /\ tick < MaxTick /\ \A i \in Timers : tick - looked[i] < MaxLag
  /\ ~torn /\ torn' = (low # -1)
  /\ tick' = tick + 1 /\ UNCHANGED <<start, turn, low, looked, due>>

(* timer_expired() calls clock_time(): the low byte first.                 *)
ReadLow == /\ low = -1 /\ low' = LowByte(tick)
           /\ UNCHANGED <<tick, start, turn, looked, torn, due>>

(* Then the high byte, the comparison and, if it expired, timer_reset().   *)
TimerExpiredUnsigned(now, i) == (now - start[i]) % Clock >= Intervals[i]     \* mutant
TimerExpired(now, i) == Signed(now - start[i]) >= Intervals[i]
TimerReset(i, now) == start' = [start EXCEPT ![i] = (@ + Intervals[i]) % Clock]

Look ==
  LET now == HighByte(tick) * ByteMod + low
  IN /\ low # -1
     /\ IF TimerExpired(now, turn)
        THEN /\ TimerReset(turn, now)
             /\ due' = [due EXCEPT ![turn] = @ + Intervals[turn]]
        ELSE UNCHANGED <<start, due>>
     /\ looked' = [looked EXCEPT ![turn] = tick]
     /\ turn' = (turn % Len(Intervals)) + 1 /\ low' = -1 /\ torn' = FALSE
     /\ UNCHANGED tick

TimerNext == Interrupt \/ ReadLow \/ Look
TimerSpec == TimerInit /\ [][TimerNext]_timervars

-----------------------------------------------------------------------------
(* timer_reset() keeps the schedule (uip/timer.c:73-76 "The start point of *)
(* the interval is the exact time that the timer last expired"): a timer   *)
(* expires once per interval, never later than the first look at it after  *)
(* it is due, and early only by a torn read of the tick, less than one     *)
(* high byte: neither accumulates, also across the wrap of the 16 bits.    *)
Schedule ==
  [][\A i \in Timers :
       /\ due'[i] # due[i] => \/ tick >= due[i]
                              \/ torn /\ due[i] - tick < ByteMod
       /\ looked'[i] # looked[i] /\ due'[i] = due[i] =>
            (IF torn THEN tick - 1 ELSE tick) < due[i]]_timervars
=============================================================================
