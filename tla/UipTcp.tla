------------------------------- MODULE UipTcp -------------------------------
(***************************************************************************)
(* The TCP engine of uIP: the connection table uip_conns and everything    *)
(* uip_process() does to it (uip.c), one action per path through the       *)
(* function.  uip_process() runs to completion, so a path is one step: it  *)
(* reads a segment from uip_buf or a tick of the periodic timer, calls the *)
(* application at most once (UIP_APPCALL) and leaves at most one segment   *)
(* to be sent in uip_buf.  The application is free: every reply in Replies *)
(* may come back from a callback.  So is the network: every segment in     *)
(* Segments may arrive at any time.                                        *)
(*                                                                         *)
(* Abstracted: a remote endpoint (address and port) is one value, payload  *)
(* is its length, checksums are assumed good, sequence numbers count       *)
(* modulo SeqMod, and the round trip estimator (sa, sv) may yield any rto  *)
(* in Rtos.                                                                *)
(***************************************************************************)
EXTENDS Naturals

CONSTANTS
  UIP_CONNS, UIP_LISTENPORTS,       \* sizes of the two tables
  UIP_TCP_MSS, UIP_RTO, UIP_MAXRTX, UIP_MAXSYNRTX, UIP_TIME_WAIT_TIMEOUT,
  SeqMod, TimerMod,                 \* 2^32 and 2^8 in the program
  Peers, NoPeer,                    \* remote endpoints; the unset one
  Ports,                            \* local TCP ports
  EphemeralPorts,                   \* those uip_connect() picks from
  Rtos,                             \* results of the RTT estimator
  Segments,                         \* what the network may deliver
  Replies,                          \* what the application may do in a callback
  EndActs                           \* and in one that ends a connection

States == {"CLOSED", "SYN_RCVD", "SYN_SENT", "ESTABLISHED", "FIN_WAIT_1",
           "FIN_WAIT_2", "CLOSING", "TIME_WAIT", "LAST_ACK"}
Flags  == {"SYN", "ACK", "FIN", "RST", "PSH", "URG"}
Events == {"CONNECTED", "NEWDATA", "ACKDATA", "POLL", "REXMIT",
           "CLOSE", "ABORT", "TIMEDOUT"}
Acts   == {"none", "stop", "restart", "close", "abort"}
Conns  == 1..UIP_CONNS
SeqNo    == 0..(SeqMod - 1)
Octet  == 0..(TimerMod - 1)         \* u8_t timer, rto
NoPort == 0
Window == 0..UIP_TCP_MSS
Length == 0..(UIP_TCP_MSS + 1)      \* a SYN or FIN counts one
Retries == 0..UIP_MAXRTX

\* A TCP segment.  mss = 0: no MSS option.  urgp counts only with URG set.
Segment == [peer: Peers \cup {NoPeer}, lport: Ports \cup {NoPort},
            flags: SUBSET Flags, seqno: SeqNo, ackno: SeqNo,
            len: Nat, wnd: Nat, mss: Nat, urgp: Nat]

\* struct uip_conn; tcpstateflags is tcpstate and the UIP_STOPPED bit.
Conn == [tcpstate: States, stopped: BOOLEAN,
         peer: Peers \cup {NoPeer}, lport: Ports \cup {NoPort},
         rcv_nxt: SeqNo, snd_nxt: SeqNo, len: Length, mss: Window, initialmss: Window,
         rto: Octet, timer: Octet, nrtx: Retries]

Reply == [act: Acts, slen: Nat]

ASSUME SizeAssumption ==
  /\ UIP_CONNS \in Nat \ {0} /\ UIP_LISTENPORTS \in Nat \ {0}
  /\ UIP_TCP_MSS \in Nat \ {0}
  /\ UIP_MAXRTX \in Nat /\ UIP_MAXSYNRTX \in Nat
ASSUME SeqAssumption   == SeqMod \in Nat \ {0}
ASSUME TimerAssumption ==
  /\ TimerMod \in Nat /\ UIP_RTO \in Nat /\ UIP_RTO * 16 < TimerMod
  /\ UIP_TIME_WAIT_TIMEOUT \in 1..(TimerMod - 1)
  /\ Rtos \subseteq 0..(TimerMod - 1)
ASSUME EnvAssumption ==
  /\ NoPeer \notin Peers /\ Ports \subseteq Nat \ {0}
  /\ EphemeralPorts \subseteq Ports
  /\ Segments \subseteq {s \in Segment : s.peer \in Peers /\ s.urgp <= s.len}
  /\ Replies \subseteq Reply /\ EndActs \subseteq {"none", "stop"}

VARIABLES
  uip_conns,          \* the connection table
  uip_listenports,    \* the listening ports
  iss,                \* initial sequence number of the next connection
  uip_buf,            \* the segment this call asks to be sent: none or one
  appcall             \* the UIP_APPCALL of this call: none or one

vars == <<uip_conns, uip_listenports, iss, uip_buf, appcall>>

Lower(a, b) == IF a < b THEN a ELSE b
PlusUnbounded(a, n) == a + n                          \* mutant
Plus(a, n)  == (a + n) % SeqMod

(* tcpstateflags == st, a comparison that leaves the STOPPED bit unmasked. *)
Is(k, st) == k.tcpstate = st /\ ~k.stopped
Live(k)   == ~Is(k, "CLOSED")

(* Demultiplexing: the first connection that is not CLOSED and matches.    *)
MatchesUnlessWaiting(k, s) ==                         \* mutant
  /\ Live(k) /\ k.tcpstate # "TIME_WAIT"
  /\ k.lport = s.lport /\ k.peer = s.peer
Matches(k, s)  == Live(k) /\ k.lport = s.lport /\ k.peer = s.peer
Found(c, s)    == /\ Matches(uip_conns[c], s)
                  /\ \A d \in 1..(c - 1) : ~Matches(uip_conns[d], s)
NotFound(s)    == \A c \in Conns : ~Matches(uip_conns[c], s)
Listening(p)   == \E i \in 1..UIP_LISTENPORTS : uip_listenports[i] = p

(* The slot for a new connection: the first CLOSED one or, if none is, the *)
(* one that has been longest in TIME_WAIT.                                 *)
Slot(c) ==
  \/ Is(uip_conns[c], "CLOSED") /\ \A d \in 1..(c - 1) : Live(uip_conns[d])
  \/ /\ Is(uip_conns[c], "TIME_WAIT")
     /\ \A d \in Conns :
          /\ Live(uip_conns[d])
          /\ Is(uip_conns[d], "TIME_WAIT") =>
               \/ uip_conns[d].timer < uip_conns[c].timer
               \/ uip_conns[d].timer = uip_conns[c].timer /\ c <= d

-----------------------------------------------------------------------------
(* What one call of uip_process() leaves behind.                           *)

Set(c, k)   == uip_conns' = [uip_conns EXCEPT ![c] = k]
Call(c, ev, act) == appcall' = {[conn |-> c, flags |-> ev, act |-> act]}
NoCall      == appcall' = {}
Drop        == uip_buf' = {}
Static      == UNCHANGED <<uip_listenports, iss>>

(* tcp_send: every header field comes from the connection.                 *)
Answer(k, fl, n) ==
  [peer |-> k.peer, lport |-> k.lport, flags |-> fl,
   seqno |-> k.snd_nxt, ackno |-> k.rcv_nxt, len |-> n,
   wnd |-> IF k.stopped THEN 0 ELSE UIP_TCP_MSS,
   mss |-> IF "SYN" \in fl THEN UIP_TCP_MSS ELSE 0, urgp |-> 0]
Send(k, fl, n) == uip_buf' = {Answer(k, fl, n)}
SendAck(k)     == Send(k, {"ACK"}, 0)

(* reset: a RST built from the offending segment, never in reply to one.   *)
Reset(s) ==
  uip_buf' = IF "RST" \in s.flags THEN {}
             ELSE {[peer |-> s.peer, lport |-> s.lport,
                    flags |-> {"RST", "ACK"}, seqno |-> s.ackno,
                    ackno |-> Plus(s.seqno, 1), len |-> 0, wnd |-> s.wnd,
                    mss |-> 0, urgp |-> 0]}

(* uip_stop() and uip_restart() write the STOPPED bit.                     *)
Touch(k, act) == CASE act = "stop"    -> [k EXCEPT !.stopped = TRUE]
                   [] act = "restart" -> [k EXCEPT !.stopped = FALSE]
                   [] OTHER           -> k

(* apprexmit: send len bytes if the application wrote any, else a pure ACK *)
(* if there was new data (uip_restart() sets that flag too).               *)
AppRexmit(k, ev, r) ==
  IF r.slen > 0 /\ k.len > 0 THEN Send(k, {"ACK", "PSH"}, k.len)
  ELSE IF "NEWDATA" \in ev \/ r.act = "restart" THEN SendAck(k)
  ELSE Drop

(* UIP_APPCALL followed by appsend, for connection c that is now k.        *)
AppAbort(c, k, ev, r) ==
  LET z == [k EXCEPT !.tcpstate = "CLOSED", !.stopped = FALSE]
  IN r.act = "abort" /\ Set(c, z) /\ Send(z, {"RST", "ACK"}, 0)

AppCloseForgetsLen(c, k, ev, r) ==                    \* mutant
  LET z == [k EXCEPT !.tcpstate = "FIN_WAIT_1", !.stopped = FALSE, !.nrtx = 0]
  IN r.act = "close" /\ Set(c, z) /\ Send(z, {"FIN", "ACK"}, 0)

AppClose(c, k, ev, r) ==
  LET z == [k EXCEPT !.tcpstate = "FIN_WAIT_1", !.stopped = FALSE,
                     !.len = 1, !.nrtx = 0]
  IN r.act = "close" /\ Set(c, z) /\ Send(z, {"FIN", "ACK"}, 0)

AppData(c, k, ev, r) ==
  LET z == [Touch(k, r.act) EXCEPT
              !.len = IF r.slen > 0 /\ @ = 0 THEN Lower(r.slen, k.mss) ELSE @,
              !.nrtx = 0]
  IN r.act \notin {"abort", "close"} /\ Set(c, z) /\ AppRexmit(z, ev, r)

AppSend(c, k, ev, r) ==
  /\ Call(c, ev, r.act)
  /\ \/ AppAbort(c, k, ev, r)
     \/ AppClose(c, k, ev, r)
     \/ AppData(c, k, ev, r)

-----------------------------------------------------------------------------
(* A segment for an existing connection.                                   *)

OutOfOrderControl(k, s) ==                            \* mutant
  /\ ~(k.tcpstate = "SYN_SENT" /\ s.flags = {"SYN", "ACK"})
  /\ s.flags \cap {"SYN", "FIN"} # {} /\ s.seqno # k.rcv_nxt

OutOfOrder(k, s) ==
  /\ ~(k.tcpstate = "SYN_SENT" /\ s.flags = {"SYN", "ACK"})
  /\ s.len > 0 \/ s.flags \cap {"SYN", "FIN"} # {}
  /\ s.seqno # k.rcv_nxt

(* Only an acknowledgement of everything outstanding counts.  The RTT is   *)
(* measured unless nrtx says that the segment was sent again.              *)
AcksAnything(k, s) == "ACK" \in s.flags /\ k.len > 0   \* mutant
Acks(k, s) == /\ "ACK" \in s.flags /\ k.len > 0
              /\ s.ackno = Plus(k.snd_nxt, k.len)
NewRto(k)  == IF k.nrtx = 0 THEN Rtos ELSE {k.rto}
AckedKeepsTimer(k, s, t) ==                           \* mutant
  IF Acks(k, s) THEN [k EXCEPT !.snd_nxt = s.ackno, !.len = 0, !.rto = t] ELSE k
Acked(k, s, t) == IF Acks(k, s)
                  THEN [k EXCEPT !.snd_nxt = s.ackno, !.len = 0,
                                 !.rto = t, !.timer = t]
                  ELSE k
AckFlag(k, s) == IF Acks(k, s) THEN {"ACKDATA"} ELSE {}
NewFlag(n)    == IF n > 0 THEN {"NEWDATA"} ELSE {}

(* Any RST for the connection is believed.                                 *)
RecvRst(c) ==
  \E act \in EndActs :
    /\ Set(c, [uip_conns[c] EXCEPT !.tcpstate = "CLOSED",
                                   !.stopped = (act = "stop")])
    /\ Call(c, {"ABORT"}, act) /\ Drop

RecvOutOfOrder(c) == SendAck(uip_conns[c]) /\ NoCall /\ UNCHANGED uip_conns

RecvSynRcvd(c, s) ==
  /\ uip_conns[c].tcpstate = "SYN_RCVD"
  /\ IF ~Acks(uip_conns[c], s) THEN UNCHANGED uip_conns /\ NoCall /\ Drop
     ELSE \E t \in NewRto(uip_conns[c]), r \in Replies :
            AppSend(c, [Acked(uip_conns[c], s, t) EXCEPT
                          !.tcpstate = "ESTABLISHED",
                          !.rcv_nxt = Plus(@, s.len)],
                    {"CONNECTED"} \cup NewFlag(s.len), r)

(* The MSS option of a SYN or SYNACK; without one the fields stay as they  *)
(* are.                                                                    *)
Mss(k, s) == IF s.mss = 0 THEN k
             ELSE [k EXCEPT !.mss = Lower(s.mss, UIP_TCP_MSS),
                            !.initialmss = Lower(s.mss, UIP_TCP_MSS)]

RecvSynSent(c, s) ==
  /\ uip_conns[c].tcpstate = "SYN_SENT"
  /\ \E t \in NewRto(uip_conns[c]) :
       LET k == Acked(uip_conns[c], s, t)
       IN IF Acks(uip_conns[c], s) /\ s.flags = {"SYN", "ACK"}
          THEN \E r \in Replies :
                 AppSend(c, [Mss(k, s) EXCEPT !.tcpstate = "ESTABLISHED",
                                              !.rcv_nxt = Plus(s.seqno, 1)],
                         {"CONNECTED", "NEWDATA"}, r)
          ELSE /\ Set(c, [k EXCEPT !.tcpstate = "CLOSED", !.stopped = FALSE])
               /\ Call(c, {"ABORT"}, "none") /\ Reset(s)

RecvFinAtOnce(c, s) ==                                \* mutant
  /\ uip_conns[c].tcpstate = "ESTABLISHED" /\ ~uip_conns[c].stopped
  /\ "FIN" \in s.flags
  /\ \E t \in NewRto(uip_conns[c]) :
       LET k == Acked(uip_conns[c], s, t)
           z == [k EXCEPT !.rcv_nxt = Plus(@, 1 + s.len), !.len = 1, !.nrtx = 0,
                          !.tcpstate = "LAST_ACK", !.stopped = FALSE]
       IN /\ Set(c, z) /\ Send(z, {"FIN", "ACK"}, 0)
          /\ Call(c, {"CLOSE"} \cup AckFlag(uip_conns[c], s)
                               \cup NewFlag(s.len), "none")

(* The peer closes: not before our outstanding data is acknowledged.       *)
RecvFin(c, s) ==
  /\ uip_conns[c].tcpstate = "ESTABLISHED" /\ ~uip_conns[c].stopped
  /\ "FIN" \in s.flags
  /\ \E t \in NewRto(uip_conns[c]) :
       LET k == Acked(uip_conns[c], s, t)
           z == [k EXCEPT !.rcv_nxt = Plus(@, 1 + s.len), !.len = 1, !.nrtx = 0,
                          !.tcpstate = "LAST_ACK", !.stopped = FALSE]
       IN IF k.len > 0 THEN UNCHANGED uip_conns /\ NoCall /\ Drop
          ELSE /\ Set(c, z) /\ Send(z, {"FIN", "ACK"}, 0)
               /\ Call(c, {"CLOSE"} \cup AckFlag(uip_conns[c], s)
                                    \cup NewFlag(s.len), "none")

(* The bytes of a segment that are passed on; urgent ones are skipped and  *)
(* a stopped connection takes none.                                        *)
Urgent(s) == IF "URG" \in s.flags THEN s.urgp ELSE 0
TakenAlways(k, s) == s.len - Urgent(s)                \* mutant
Taken(k, s) == IF k.stopped THEN 0 ELSE s.len - Urgent(s)

RecvEstablished(c, s) ==
  /\ uip_conns[c].tcpstate = "ESTABLISHED"
  /\ "FIN" \in s.flags => uip_conns[c].stopped
  /\ \E t \in NewRto(uip_conns[c]) :
       LET k  == Acked(uip_conns[c], s, t)
           n  == Taken(k, s)
           ev == AckFlag(uip_conns[c], s) \cup NewFlag(n)
           w  == IF s.wnd > k.initialmss \/ s.wnd = 0 THEN k.initialmss
                 ELSE s.wnd
           z  == [k EXCEPT !.rcv_nxt = Plus(@, n), !.mss = w]
       IN IF ev = {} THEN Set(c, z) /\ NoCall /\ Drop
          ELSE \E r \in Replies : AppSend(c, z, ev, r)

RecvLastAck(c, s) ==
  /\ uip_conns[c].tcpstate = "LAST_ACK" /\ Drop
  /\ IF ~Acks(uip_conns[c], s) THEN UNCHANGED uip_conns /\ NoCall
     ELSE \E t \in NewRto(uip_conns[c]), act \in EndActs :
            /\ Set(c, [Acked(uip_conns[c], s, t) EXCEPT
                         !.tcpstate = "CLOSED", !.stopped = (act = "stop")])
            /\ Call(c, {"CLOSE"}, act)

RecvFinWait1NoClosing(c, s) ==                        \* mutant
  LET k == [uip_conns[c] EXCEPT !.rcv_nxt = Plus(@, s.len + 1), !.len = 0,
                                !.timer = 0, !.tcpstate = "TIME_WAIT"]
  IN /\ uip_conns[c].tcpstate = "FIN_WAIT_1" /\ "FIN" \in s.flags
     /\ Set(c, k) /\ Call(c, {"CLOSE"}, "none") /\ SendAck(k)

(* Both FIN_WAIT states take the peer's data without telling anyone.  In   *)
(* FIN_WAIT_2 and TIME_WAIT nothing is outstanding (see LenCoupling), so   *)
(* that the acknowledgement step changes nothing there.                    *)
RecvFinWait1(c, s) ==
  /\ uip_conns[c].tcpstate = "FIN_WAIT_1"
  /\ \E t \in NewRto(uip_conns[c]), act \in EndActs :
       LET ok == Acks(uip_conns[c], s)
           k  == [Acked(uip_conns[c], s, t) EXCEPT !.rcv_nxt = Plus(@, s.len)]
           f  == [k EXCEPT !.rcv_nxt = Plus(@, 1), !.stopped = (act = "stop"),
                           !.tcpstate = IF ok THEN "TIME_WAIT" ELSE "CLOSING",
                           !.timer = IF ok THEN 0 ELSE @]
       IN IF "FIN" \in s.flags
          THEN Set(c, f) /\ Call(c, {"CLOSE"}, act) /\ SendAck(f)
          ELSE /\ NoCall
               /\ Set(c, [k EXCEPT !.tcpstate = IF ok THEN "FIN_WAIT_2" ELSE @])
               /\ IF ~ok /\ s.len > 0 THEN SendAck(k) ELSE Drop

RecvFinWait2(c, s) ==
  LET k == [uip_conns[c] EXCEPT !.rcv_nxt = Plus(@, s.len)]
      f(act) == [k EXCEPT !.rcv_nxt = Plus(@, 1), !.timer = 0,
                          !.tcpstate = "TIME_WAIT", !.stopped = (act = "stop")]
  IN /\ uip_conns[c].tcpstate = "FIN_WAIT_2"
     /\ IF "FIN" \in s.flags
        THEN \E act \in EndActs : /\ Set(c, f(act)) /\ Call(c, {"CLOSE"}, act)
                                  /\ SendAck(f(act))
        ELSE /\ Set(c, k) /\ NoCall
             /\ IF s.len > 0 THEN SendAck(k) ELSE Drop

RecvTimeWait(c) == /\ uip_conns[c].tcpstate = "TIME_WAIT"
                   /\ SendAck(uip_conns[c]) /\ NoCall /\ UNCHANGED uip_conns

RecvClosing(c, s) ==
  /\ uip_conns[c].tcpstate = "CLOSING" /\ NoCall /\ Drop
  /\ IF ~Acks(uip_conns[c], s) THEN UNCHANGED uip_conns
     ELSE \E t \in NewRto(uip_conns[c]) :
            Set(c, [Acked(uip_conns[c], s, t) EXCEPT
                      !.tcpstate = "TIME_WAIT", !.stopped = FALSE, !.timer = 0])

(* A connection that ended in a callback which called uip_stop(): CLOSED   *)
(* with the STOPPED bit is neither free nor handled by any case.           *)
RecvZombie(c, s) ==
  /\ uip_conns[c].tcpstate = "CLOSED" /\ NoCall /\ Drop
  /\ \E t \in NewRto(uip_conns[c]) : Set(c, Acked(uip_conns[c], s, t))

(* found: a segment for connection c.                                      *)
RecvFound(c, s) ==
  IF "RST" \in s.flags THEN RecvRst(c)
  ELSE IF OutOfOrder(uip_conns[c], s) THEN RecvOutOfOrder(c)
  ELSE \/ RecvSynRcvd(c, s)  \/ RecvSynSent(c, s)  \/ RecvFin(c, s)
       \/ RecvEstablished(c, s) \/ RecvLastAck(c, s) \/ RecvFinWait1(c, s)
       \/ RecvFinWait2(c, s) \/ RecvTimeWait(c) \/ RecvClosing(c, s)
       \/ RecvZombie(c, s)

-----------------------------------------------------------------------------
(* A segment for no connection.                                            *)

Opens(s) == s.flags = {"SYN"} /\ Listening(s.lport)

RecvListenKeepsNrtx(c, s) ==                          \* mutant
  LET k == [Mss(uip_conns[c], s) EXCEPT
              !.tcpstate = "SYN_RCVD", !.stopped = FALSE,
              !.peer = s.peer, !.lport = s.lport,
              !.rto = UIP_RTO, !.timer = UIP_RTO,
              !.snd_nxt = iss, !.len = 1, !.rcv_nxt = Plus(s.seqno, 1)]
  IN Opens(s) /\ Slot(c) /\ Set(c, k) /\ Send(k, {"SYN", "ACK"}, 0)

RecvListen(c, s) ==
  LET k == [Mss(uip_conns[c], s) EXCEPT
              !.tcpstate = "SYN_RCVD", !.stopped = FALSE,
              !.peer = s.peer, !.lport = s.lport,
              !.rto = UIP_RTO, !.timer = UIP_RTO, !.nrtx = 0,
              !.snd_nxt = iss, !.len = 1, !.rcv_nxt = Plus(s.seqno, 1)]
  IN Opens(s) /\ Slot(c) /\ Set(c, k) /\ Send(k, {"SYN", "ACK"}, 0)

RecvListenFull(s) ==
  Opens(s) /\ (\A c \in Conns : ~Slot(c)) /\ Drop /\ UNCHANGED uip_conns

RecvNoConn(s) == ~Opens(s) /\ Reset(s) /\ UNCHANGED uip_conns

-----------------------------------------------------------------------------
(* The periodic timer, once per connection and round.                      *)

Tick == iss' = Plus(iss, 1) /\ UNCHANGED uip_listenports

Waiting(k) == Is(k, "TIME_WAIT") \/ Is(k, "FIN_WAIT_2")
Armed(k)   == Live(k) /\ ~Waiting(k) /\ k.len > 0

TickWait(c) ==
  LET n == (uip_conns[c].timer + 1) % TimerMod
  IN /\ Waiting(uip_conns[c]) /\ Drop /\ NoCall
     /\ Set(c, [uip_conns[c] EXCEPT !.timer = n,
                  !.tcpstate = IF n = UIP_TIME_WAIT_TIMEOUT THEN "CLOSED" ELSE @])

TickCountdown(c) ==
  /\ Armed(uip_conns[c]) /\ uip_conns[c].timer > 0 /\ Drop /\ NoCall
  /\ Set(c, [uip_conns[c] EXCEPT !.timer = @ - 1])

GivesUp(k) == \/ k.nrtx = UIP_MAXRTX
              \/ /\ Is(k, "SYN_SENT") \/ Is(k, "SYN_RCVD")
                 /\ k.nrtx = UIP_MAXSYNRTX

Expired(c) == Armed(uip_conns[c]) /\ uip_conns[c].timer = 0

TickTimeout(c) ==
  /\ Expired(c) /\ GivesUp(uip_conns[c])
  /\ \E act \in EndActs :
       LET k == [uip_conns[c] EXCEPT !.tcpstate = "CLOSED", !.timer = TimerMod - 1,
                                     !.stopped = (act = "stop")]
       IN Set(c, k) /\ Call(c, {"TIMEDOUT"}, act) /\ Send(k, {"RST", "ACK"}, 0)

Shift(n) == CASE n = 0 -> 1 [] n = 1 -> 2 [] n = 2 -> 4 [] n = 3 -> 8
              [] OTHER -> 16
BackoffUncounted(k) == [k EXCEPT !.timer = UIP_RTO * Shift(k.nrtx)]  \* mutant
Backoff(k) == [k EXCEPT !.timer = UIP_RTO * Shift(k.nrtx), !.nrtx = @ + 1]
Retry(c)   == Expired(c) /\ ~GivesUp(uip_conns[c])

(* Without application data the segment is rebuilt from the connection.    *)
TickRexmit(c) ==
  LET k == Backoff(uip_conns[c])
  IN /\ Retry(c) /\ k.tcpstate # "ESTABLISHED"
     /\ Set(c, k) /\ NoCall
     /\ CASE k.tcpstate = "SYN_RCVD" -> Send(k, {"SYN", "ACK"}, 0)
          [] k.tcpstate = "SYN_SENT" -> Send(k, {"SYN"}, 0)
          [] k.tcpstate \in {"FIN_WAIT_1", "CLOSING", "LAST_ACK"} ->
               Send(k, {"FIN", "ACK"}, 0)
          [] OTHER -> Drop

(* With it the application is asked to write it again; what it says about  *)
(* closing or aborting in this callback is not looked at.                  *)
TickAppRexmit(c) ==
  /\ Retry(c) /\ uip_conns[c].tcpstate = "ESTABLISHED"
  /\ \E r \in Replies :
       LET k == Touch(Backoff(uip_conns[c]), r.act)
       IN Set(c, k) /\ Call(c, {"REXMIT"}, r.act) /\ AppRexmit(k, {"REXMIT"}, r)

TickPollAnyState(c) ==                                \* mutant
  /\ ~Armed(uip_conns[c]) /\ ~Waiting(uip_conns[c])
  /\ \E r \in Replies : AppSend(c, uip_conns[c], {"POLL"}, r)

TickPoll(c) ==
  /\ uip_conns[c].tcpstate = "ESTABLISHED" /\ uip_conns[c].len = 0
  /\ \E r \in Replies : AppSend(c, uip_conns[c], {"POLL"}, r)

TickIdle(c) ==
  /\ ~Waiting(uip_conns[c]) /\ ~Armed(uip_conns[c])
  /\ uip_conns[c].tcpstate # "ESTABLISHED"
  /\ Drop /\ NoCall /\ UNCHANGED uip_conns

-----------------------------------------------------------------------------
(* Calls of the application outside a callback.                            *)

Quiet == uip_buf' = {} /\ appcall' = {}

Connect(c, p, lp) ==
  /\ \A d \in Conns : Live(uip_conns[d]) => uip_conns[d].lport # lp
  /\ Slot(c)
  /\ Set(c, [uip_conns[c] EXCEPT
               !.tcpstate = "SYN_SENT", !.stopped = FALSE, !.snd_nxt = iss,
               !.mss = UIP_TCP_MSS, !.initialmss = UIP_TCP_MSS, !.len = 1,
               !.nrtx = 0, !.timer = 1, !.rto = UIP_RTO,
               !.lport = lp, !.peer = p])
  /\ Quiet /\ Static

(* uip_poll_conn(): the poll without the tick.                             *)
PollConn(c) == TickPoll(c) /\ Static

Listen(p) ==
  LET free == {i \in 1..UIP_LISTENPORTS : uip_listenports[i] = NoPort}
  IN /\ free # {}
     /\ \E i \in free : /\ \A j \in free : i <= j
                        /\ uip_listenports' = [uip_listenports EXCEPT ![i] = p]
     /\ Quiet /\ UNCHANGED <<uip_conns, iss>>

Unlisten(p) ==
  LET open == {i \in 1..UIP_LISTENPORTS : uip_listenports[i] = p}
  IN /\ open # {}
     /\ \E i \in open : /\ \A j \in open : i <= j
                        /\ uip_listenports' = [uip_listenports EXCEPT ![i] = NoPort]
     /\ Quiet /\ UNCHANGED <<uip_conns, iss>>

-----------------------------------------------------------------------------
Init ==
  /\ uip_conns = [c \in Conns |->
       [tcpstate |-> "CLOSED", stopped |-> FALSE, peer |-> NoPeer,
        lport |-> NoPort, rcv_nxt |-> 0, snd_nxt |-> 0, len |-> 0, mss |-> 0,
        initialmss |-> 0, rto |-> 0, timer |-> 0, nrtx |-> 0]]
  /\ uip_listenports = [i \in 1..UIP_LISTENPORTS |-> NoPort]
  /\ iss = 0 /\ uip_buf = {} /\ appcall = {}

(* uip_input() with a TCP segment.                                         *)
Input(s) ==
  /\ Static
  /\ \/ \E c \in Conns : Found(c, s) /\ RecvFound(c, s)
     \/ /\ NotFound(s) /\ NoCall
        /\ RecvListenFull(s) \/ RecvNoConn(s) \/ \E c \in Conns : RecvListen(c, s)

(* uip_periodic(c).                                                        *)
Periodic(c) ==
  /\ Tick
  /\ \/ TickWait(c) \/ TickCountdown(c) \/ TickTimeout(c) \/ TickRexmit(c)
     \/ TickAppRexmit(c) \/ TickPoll(c) \/ TickIdle(c)

User == \/ \E c \in Conns, p \in Peers, lp \in EphemeralPorts : Connect(c, p, lp)
        \/ \E c \in Conns : PollConn(c)
        \/ \E p \in Ports : Listen(p) \/ Unlisten(p)

Next == \/ \E s \in Segments : Input(s)
        \/ \E c \in Conns : Periodic(c)
        \/ User

Spec == Init /\ [][Next]_vars

(* main() ticks every connection in every round of its loop.               *)
FairSpec == Spec /\ \A c \in Conns : WF_vars(Periodic(c))

-----------------------------------------------------------------------------
(* Type invariant: every field keeps the width it has in struct uip_conn   *)
(* and at most one segment and one callback come out of a call.            *)
Out  == {b \in SUBSET Segment : \A x, y \in b : x = y}
TypeOK ==
  /\ uip_conns \in [Conns -> Conn]
  /\ uip_listenports \in [1..UIP_LISTENPORTS -> Ports \cup {NoPort}]
  /\ iss \in SeqNo
  /\ uip_buf \in Out
  /\ \A a \in appcall : a.conn \in Conns /\ a.flags \subseteq Events /\ a.act \in Acts

(* The demultiplexing loop takes the first match: no two connections that  *)
(* are not CLOSED may ever share a local port and a remote endpoint, or    *)
(* the second would starve (found_listen against uip_connect).             *)
UniqueTuple ==
  \A c, d \in Conns :
    /\ Live(uip_conns[c]) /\ Live(uip_conns[d])
    /\ uip_conns[c].lport = uip_conns[d].lport
    /\ uip_conns[c].peer = uip_conns[d].peer
    => c = d

(* len is the retransmission switch and the amount an ACK must cover: a    *)
(* SYN or FIN in flight counts one, the waiting states have nothing out,   *)
(* and data in flight never exceeds what the peer agreed to in its MSS.    *)
LenCoupling ==
  \A c \in Conns :
    LET k == uip_conns[c]
    IN /\ k.tcpstate \in {"SYN_SENT", "SYN_RCVD", "FIN_WAIT_1", "CLOSING", "LAST_ACK"}
            => k.len = 1
       /\ k.tcpstate \in {"FIN_WAIT_2", "TIME_WAIT"} => k.len = 0
       /\ k.tcpstate = "ESTABLISHED" => k.len <= k.initialmss

(* The retry counter is compared with == only; it must never step over the *)
(* limit of the state it counts for.                                       *)
RetryBudget ==
  \A c \in Conns :
    /\ uip_conns[c].nrtx <= UIP_MAXRTX
    /\ uip_conns[c].tcpstate \in {"SYN_SENT", "SYN_RCVD"} =>
         uip_conns[c].nrtx <= UIP_MAXSYNRTX

(* appsend never arms the timer: a segment is sent with a full timeout     *)
(* only because an idle established connection always has timer = rto.     *)
TimerArmed ==
  \A c \in Conns : uip_conns[c].tcpstate = "ESTABLISHED" /\ uip_conns[c].len = 0
                      => uip_conns[c].timer = uip_conns[c].rto

(* While the application has stopped a connection (zero window), neither   *)
(* the peer's bytes nor its FIN are acknowledged: not by any mix of data,  *)
(* ACK and FIN, and not in the step that ends the connection, times it out *)
(* or restarts it.                                                         *)
TakesNothing(c) ==
  uip_conns[c].tcpstate = "ESTABLISHED" /\ uip_conns[c].stopped
  => uip_conns'[c].rcv_nxt = uip_conns[c].rcv_nxt
StoppedTakesNothing == [][\A c \in Conns : TakesNothing(c)]_vars

(* Every state but CLOSED and ESTABLISHED is left in the end, whatever the *)
(* network delivers or loses: no slot of the table stays half open, unless *)
(* the application calls uip_stop() in the callback that ends the          *)
(* connection: TIME_WAIT with that bit is neither counted nor reused.      *)
Transient == States \ {"CLOSED", "ESTABLISHED"}
NoHalfOpen ==
  \A c \in Conns, st \in Transient :
    uip_conns[c].tcpstate = st /\ ~uip_conns[c].stopped
      ~> uip_conns[c].tcpstate # st \/ uip_conns[c].stopped
=============================================================================
