--------------------------- MODULE TcpLink_proofs ---------------------------
(* Proofs about TcpLink: both streams of a connection, for every value of  *)
(* the constants.                                                          *)
EXTENDS TcpLink, UipTcp_proofs, SequenceTheorems

-----------------------------------------------------------------------------
(* Sequence numbers, as long as no stream is longer than they reach.       *)
LEMMA PlusCases ==
  ASSUME NEW a \in SeqNo, NEW i \in 0..(SeqMod - 1)
  PROVE  Plus(a, i) = IF a + i < SeqMod THEN a + i ELSE a + i - SeqMod
<1>1. SeqMod \in Nat /\ SeqMod > 0 /\ a \in Nat /\ i \in Nat /\ a < SeqMod /\ i < SeqMod
  BY SeqAssumption DEF SeqNo
<1>2. ASSUME NEW x \in Nat, x < SeqMod PROVE x % SeqMod = x
  BY <1>1, <1>2
<1>3. ASSUME NEW x \in Nat, x < SeqMod PROVE (x + SeqMod) % SeqMod = x
  BY <1>1, <1>3
<1>4. CASE a + i < SeqMod
  BY <1>1, <1>2, <1>4 DEF Plus
<1>5. CASE ~(a + i < SeqMod)
  <2>1. a + i - SeqMod \in Nat /\ a + i - SeqMod < SeqMod
    BY <1>1, <1>5
  <2>2. a + i = (a + i - SeqMod) + SeqMod
    BY <1>1
  <2> QED
    BY <1>3, <1>5, <2>1, <2>2 DEF Plus
<1> QED
  BY <1>4, <1>5

LEMMA PlusInjective ==
  ASSUME NEW a \in SeqNo, NEW i \in 0..(SeqMod - 1), NEW j \in 0..(SeqMod - 1),
         Plus(a, i) = Plus(a, j)
  PROVE  i = j
  BY PlusCases, SeqAssumption DEF SeqNo

LEMMA PlusPlus ==
  ASSUME NEW a \in SeqNo, NEW i \in Nat, NEW n \in Nat, i + n < SeqMod
  PROVE  Plus(Plus(a, i), n) = Plus(a, i + n)
<1>1. Plus(a, i) \in SeqNo
  BY PlusType, SeqAssumption DEF SeqNo
<1>2. i \in 0..(SeqMod - 1) /\ n \in 0..(SeqMod - 1) /\ i + n \in 0..(SeqMod - 1)
  BY SeqAssumption
<1>3. Plus(a, i) = IF a + i < SeqMod THEN a + i ELSE a + i - SeqMod
  BY <1>2, PlusCases
<1>4. Plus(a, i + n) = IF a + (i + n) < SeqMod THEN a + (i + n) ELSE a + (i + n) - SeqMod
  BY <1>2, PlusCases
<1> DEFINE b == Plus(a, i)
<1>5. Plus(b, n) = IF b + n < SeqMod THEN b + n ELSE b + n - SeqMod
  BY <1>1, <1>2, PlusCases
<1> HIDE DEF b
<1>6. b = IF a + i < SeqMod THEN a + i ELSE a + i - SeqMod
  BY <1>3 DEF b
<1>7. Plus(b, n) = Plus(a, i + n)
  BY <1>2, <1>4, <1>5, <1>6, SeqAssumption DEF SeqNo
<1> QED
  BY <1>7 DEF b

LEMMA PlusZero == ASSUME NEW a \in SeqNo PROVE Plus(a, 0) = a
  BY PlusCases, SeqAssumption DEF SeqNo

(* The bytes of a stream from place a on.                                  *)
LEMMA PlacesAre ==
  ASSUME NEW a \in Nat, NEW n \in Nat
  PROVE  /\ Places(a, n) \in Seq(Nat) /\ Len(Places(a, n)) = n
         /\ \A i \in 1..n : Places(a, n)[i] = a + i - 1
<1>1. Places(a, n) \in [1..n -> Nat]
  BY DEF Places
<1>2. Places(a, n) \in Seq(Nat)
  BY <1>1, SeqDef
<1>3. Len(Places(a, n)) = n
  BY <1>1, <1>2, LenProperties
<1> QED
  BY <1>2, <1>3 DEF Places

LEMMA PlacesNone == ASSUME NEW a, NEW b PROVE Places(a, 0) = Places(b, 0)
<1>1. 1..0 = {}
  OBVIOUS
<1> QED
  BY <1>1 DEF Places

LEMMA PlacesJoin ==
  ASSUME NEW n \in Nat, NEW m \in Nat
  PROVE  Places(1, n) \o Places(n + 1, m) = Places(1, n + m)
<1> DEFINE s == Places(1, n)  t == Places(n + 1, m)  u == Places(1, n + m)
<1>1. /\ s \in Seq(Nat) /\ Len(s) = n /\ \A i \in 1..n : s[i] = 1 + i - 1
      /\ t \in Seq(Nat) /\ Len(t) = m /\ \A i \in 1..m : t[i] = (n + 1) + i - 1
      /\ u \in Seq(Nat) /\ Len(u) = n + m /\ \A i \in 1..(n + m) : u[i] = 1 + i - 1
  <2>1. n + 1 \in Nat /\ n + m \in Nat
    OBVIOUS
  <2> QED
    BY <2>1, PlacesAre
<1> HIDE DEF s, t, u
<1>2. s \o t \in Seq(Nat) /\ Len(s \o t) = n + m
  BY <1>1, ConcatProperties
<1>3. ASSUME NEW i \in 1..(n + m) PROVE (s \o t)[i] = u[i]
  BY <1>1, <1>3, ConcatProperties
<1>4. s \o t = u
  BY <1>1, <1>2, <1>3, SeqEqual
<1> QED
  BY <1>4 DEF s, t, u
-----------------------------------------------------------------------------
(* What a step of the engine does to the connection, seen from the link:   *)
(* where it goes, what it sends and what the application is told.          *)
next == uip_conns'[1]

Text(x) == "RST" \notin x.flags /\ (x.len > 0 \/ x.flags \cap {"SYN", "FIN"} # {})
Emits(sq, n, ctl) ==
  \A x \in uip_buf' : Text(x) => /\ x.seqno = sq /\ x.len = n
                                 /\ x.flags \cap {"SYN", "FIN"} = ctl
SendsNone == \A x \in uip_buf' : ~Text(x)

(* The bounds alone, for the arithmetic.                                   *)
LEMMA Bounds == /\ PeerBytes \in Nat /\ AppBytes \in Nat /\ PeerIss \in SeqNo
                /\ SeqMod \in Nat /\ SeqMod > PeerBytes + 2 /\ SeqMod > AppBytes + 2
<1>1. SeqMod \in Nat
  BY SeqAssumption
<1> QED
  BY <1>1, LinkAssumption, Zenon

LEMMA OneConn == ASSUME IInv PROVE /\ Conns = {1} /\ 1 \in Conns
                                   /\ conn \in Conn /\ Local(conn)
                                   /\ uip_conns \in [Conns -> Conn]
  BY LinkAssumption DEF IInv, Conns, conn

LEMMA SetNext == ASSUME IInv, NEW z, Set(1, z) PROVE next = z
  BY OneConn DEF Set, next

LEMMA SameNext == ASSUME IInv, UNCHANGED uip_conns PROVE next = conn
  BY DEF next, conn

LEMMA ToldCall ==
  ASSUME NEW c, NEW ev, NEW act, Call(c, ev, act)
  PROVE  Told = ev /\ appcall' # {} /\ \A a \in appcall' : a.act = act
  BY DEF Call, Told

LEMMA ToldNone == ASSUME NoCall PROVE Told = {} /\ appcall' = {}
  BY DEF NoCall, Told

LEMMA DropSends == ASSUME Drop PROVE SendsNone
  BY DEF Drop, SendsNone

LEMMA AckSends == ASSUME NEW k, SendAck(k) PROVE SendsNone
  BY DEF SendAck, Send, Answer, SendsNone, Text

LEMMA ResetSends == ASSUME NEW s, Reset(s) PROVE SendsNone
  BY DEF Reset, SendsNone, Text

LEMMA RstSends == ASSUME NEW k, Send(k, {"RST", "ACK"}, 0) PROVE SendsNone
  BY DEF Send, Answer, SendsNone, Text

LEMMA SendSends ==
  ASSUME NEW k, NEW fl, NEW n, Send(k, fl, n)
  PROVE  Emits(k.snd_nxt, n, fl \cap {"SYN", "FIN"})
  BY DEF Send, Answer, Emits

LEMMA CtlSends ==
  ASSUME NEW k, NEW fl, NEW n, NEW ctl, fl \cap {"SYN", "FIN"} = ctl, Send(k, fl, n)
  PROVE  Emits(k.snd_nxt, n, ctl)
  BY DEF Send, Answer, Emits

LEMMA NoneSends == ASSUME SendsNone, NEW sq, NEW n, NEW ctl PROVE Emits(sq, n, ctl)
  BY DEF SendsNone, Emits

(* What may come of an application's reply on a connection that was y.     *)
Answered(y) ==
  /\ appcall' # {}
  /\ \/ next.tcpstate = "CLOSED" /\ SendsNone
     \/ /\ next.tcpstate = "FIN_WAIT_1" /\ next.snd_nxt = y.snd_nxt
        /\ Emits(y.snd_nxt, 0, {"FIN"}) /\ \E a \in appcall' : a.act = "close"
     \/ /\ next.tcpstate = "ESTABLISHED" /\ next.snd_nxt = y.snd_nxt
        /\ next.rcv_nxt = y.rcv_nxt /\ next.len \in Nat
        /\ y.len # 0 => next.len = y.len
        /\ Emits(y.snd_nxt, next.len, {}) /\ \A a \in appcall' : a.act # "close"

LEMMA AppSendReplied ==
  ASSUME IInv, NEW y \in Conn, y.tcpstate = "ESTABLISHED", NEW ev, NEW r \in Replies,
         AppSend(1, y, ev, r)
  PROVE  Answered(y) /\ Told = ev
<1>0. r \in Reply /\ Told = ev /\ appcall' # {} /\ \A a \in appcall' : a.act = r.act
  BY EnvAssumption, ToldCall DEF AppSend
<1>1. CASE AppAbort(1, y, ev, r)
  <2> DEFINE z == [y EXCEPT !.tcpstate = "CLOSED", !.stopped = FALSE]
  <2>1. Set(1, z) /\ z.tcpstate = "CLOSED" /\ SendsNone
    BY <1>1, RstSends DEF AppAbort, Conn
  <2> HIDE DEF z
  <2> QED
    BY <1>0, <2>1, SetNext DEF Answered
<1>2. CASE AppClose(1, y, ev, r)
  <2> DEFINE z == [y EXCEPT !.tcpstate = "FIN_WAIT_1", !.stopped = FALSE,
                            !.len = 1, !.nrtx = 0]
  <2>1. Set(1, z) /\ Send(z, {"FIN", "ACK"}, 0) /\ r.act = "close"
    BY <1>2 DEF AppClose
  <2>2. z.tcpstate = "FIN_WAIT_1" /\ z.snd_nxt = y.snd_nxt
    BY DEF Conn
  <2> HIDE DEF z
  <2>3. Emits(z.snd_nxt, 0, {"FIN", "ACK"} \cap {"SYN", "FIN"})
    BY <2>1, SendSends
  <2>4. {"FIN", "ACK"} \cap {"SYN", "FIN"} = {"FIN"}
    OBVIOUS
  <2>5. \E a \in appcall' : a.act = "close"
    BY <2>1 DEF AppSend, Call
  <2>6. next = z /\ Emits(y.snd_nxt, 0, {"FIN"})
    BY <2>1, <2>2, <2>3, <2>4, SetNext
  <2> QED
    BY <1>0, <2>2, <2>5, <2>6 DEF Answered
<1>3. CASE AppData(1, y, ev, r)
  <2> DEFINE t == Touch(y, r.act)
             n == IF r.slen > 0 /\ t.len = 0 THEN Lower(r.slen, y.mss) ELSE t.len
             z == [t EXCEPT !.len = n, !.nrtx = 0]
  <2>1. /\ t \in Conn /\ t.tcpstate = "ESTABLISHED" /\ t.snd_nxt = y.snd_nxt
        /\ t.rcv_nxt = y.rcv_nxt /\ t.len = y.len
    BY <1>0 DEF Touch, Conn
  <2>2. n \in Nat /\ (y.len # 0 => n = y.len)
    BY <1>0, <2>1, Small DEF Lower, Conn, Reply
  <2>3. Set(1, z) /\ AppRexmit(z, ev, r)
    BY <1>3 DEF AppData
  <2> HIDE DEF t, n
  <2>4. /\ z.tcpstate = "ESTABLISHED" /\ z.snd_nxt = y.snd_nxt
        /\ z.rcv_nxt = y.rcv_nxt /\ z.len = n
    BY <2>1 DEF Conn
  <2> HIDE DEF z
  <2>5. Emits(z.snd_nxt, z.len, {})
    <3>1. {"ACK", "PSH"} \cap {"SYN", "FIN"} = {}
      OBVIOUS
    <3>2. CASE Send(z, {"ACK", "PSH"}, z.len)
      BY <3>1, <3>2, SendSends
    <3>3. CASE SendAck(z) \/ Drop
      BY <3>3, AckSends, DropSends, NoneSends
    <3> QED
      BY <2>3, <3>2, <3>3 DEF AppRexmit
  <2>6. next = z /\ \A a \in appcall' : a.act # "close"
    BY <1>0, <1>3, <2>3, SetNext DEF AppData
  <2> QED
    BY <1>0, <2>2, <2>4, <2>5, <2>6 DEF Answered
<1> QED
  BY <1>0, <1>1, <1>2, <1>3 DEF AppSend

-----------------------------------------------------------------------------
(* The kinds of step a path through uip_process() makes, for a segment that*)
(* acknowledges (ok) and has m bytes for the application, or a tick.       *)
SynStates  == {"SYN_SENT", "SYN_RCVD"}
OpenStates == SynStates \cup {"ESTABLISHED"}
Closing    == {"FIN_WAIT_1", "CLOSING", "LAST_ACK"}
Waits      == {"FIN_WAIT_2", "TIME_WAIT"}

Ctl(st)  == IF st \in SynStates THEN {"SYN"} ELSE IF st \in Closing THEN {"FIN"} ELSE {}
Given(m) == IF "NEWDATA" \in Told THEN m ELSE 0
AckStep(ok, y) ==
  IF ok THEN "ACKDATA" \in Told /\ y.snd_nxt = Plus(conn.snd_nxt, conn.len) /\ y.len = 0
  ELSE "ACKDATA" \notin Told /\ y.snd_nxt = conn.snd_nxt /\ y.len = conn.len

Final == {"CLOSE", "ABORT", "TIMEDOUT"}

\* The connection is gone.
Dies == /\ next.tcpstate = "CLOSED" /\ SendsNone /\ Told \subseteq Final
        /\ "CLOSE" \in Told => conn.tcpstate # "ESTABLISHED"

\* It stays where it is and sends, if anything, the same text again.
Keeps == /\ next.tcpstate = conn.tcpstate /\ next.snd_nxt = conn.snd_nxt
         /\ next.len = conn.len /\ Told \cap {"ACKDATA", "NEWDATA", "CLOSE"} = {}
         /\ appcall' = {} \/ (Told = {"REXMIT"} /\ conn.tcpstate = "ESTABLISHED"
                                               /\ conn.len > 0)
         /\ conn.tcpstate \in OpenStates => next.rcv_nxt = conn.rcv_nxt
         /\ Emits(conn.snd_nxt, IF conn.tcpstate = "ESTABLISHED" THEN conn.len ELSE 0,
                  Ctl(conn.tcpstate))

\* It comes closer to its end; only an acknowledgement ends a closing state.
Finishes(ok) ==
  /\ conn.tcpstate \in Closing \cup Waits /\ SendsNone /\ Told \subseteq Final
  /\ \/ /\ next.tcpstate = "CLOSING" /\ next.snd_nxt = conn.snd_nxt
        /\ conn.tcpstate \in Closing
     \/ next.tcpstate \in Waits /\ (ok \/ conn.tcpstate = "FIN_WAIT_2")

\* The peer closes an established connection.
PeerCloses(ok) ==
  /\ conn.tcpstate = "ESTABLISHED" /\ next.tcpstate = "LAST_ACK"
  /\ \E y \in Conn : AckStep(ok, y) /\ y.len = 0 /\ next.snd_nxt = y.snd_nxt
  /\ Emits(next.snd_nxt, 0, {"FIN"})
  /\ "CLOSE" \in Told /\ Told \subseteq Final \cup {"ACKDATA", "NEWDATA"}

\* The application of an established connection answers.
Exchanges(ok, m) ==
  /\ conn.tcpstate = "ESTABLISHED" /\ Told \subseteq {"ACKDATA", "NEWDATA", "POLL"}
  /\ "NEWDATA" \in Told => m > 0
  /\ \E y \in Conn : /\ AckStep(ok, y) /\ Answered(y)
                     /\ y.rcv_nxt = Plus(conn.rcv_nxt, Given(m))

\* The handshake is complete.
Opened(s) ==
  /\ conn.tcpstate \in SynStates /\ Acks(conn, s)
  /\ "CONNECTED" \in Told /\ Told \subseteq {"CONNECTED", "NEWDATA"}
  /\ conn.tcpstate = "SYN_RCVD" /\ "NEWDATA" \in Told => s.len > 0
  /\ \E y \in Conn :
       /\ Answered(y) /\ y.snd_nxt = Plus(conn.snd_nxt, 1) /\ y.len = 0
       /\ \/ /\ conn.tcpstate = "SYN_RCVD"
             /\ y.rcv_nxt = Plus(conn.rcv_nxt, Given(s.len))
          \/ /\ conn.tcpstate = "SYN_SENT" /\ s.flags = {"SYN", "ACK"}
             /\ y.rcv_nxt = Plus(s.seqno, 1)

\* A SYN takes the slot.
Starts(s) ==
  /\ Opens(s) /\ NotFound(s) /\ Slot(1) /\ Told = {} /\ appcall' = {}
  /\ next.tcpstate = "SYN_RCVD" /\ next.snd_nxt = iss
  /\ next.rcv_nxt = Plus(s.seqno, 1) /\ Emits(iss, 0, {"SYN"})

FoundKind(s) ==
  \/ Dies \/ Keeps \/ Finishes(Acks(conn, s))
  \/ ~OutOfOrder(conn, s) /\ \/ Exchanges(Acks(conn, s), s.len - Skip(s))
                             \/ Opened(s)
                             \/ /\ PeerCloses(Acks(conn, s)) /\ "FIN" \in s.flags
                                /\ "NEWDATA" \in Told <=> s.len > 0

LEMMA AckedSeq ==
  ASSUME NEW k, Local(k), NEW s \in Segment, NEW t \in NewRto(k)
  PROVE  LET a == Acked(k, s, t)
         IN /\ a \in Conn /\ a.tcpstate = k.tcpstate /\ a.stopped = k.stopped
            /\ a.rcv_nxt = k.rcv_nxt
            /\ a.snd_nxt = IF Acks(k, s) THEN Plus(k.snd_nxt, k.len) ELSE k.snd_nxt
            /\ a.len = IF Acks(k, s) THEN 0 ELSE k.len
<1>1. Acked(k, s, t).snd_nxt = IF Acks(k, s) THEN Plus(k.snd_nxt, k.len) ELSE k.snd_nxt
  <2>1. k \in Conn
    BY DEF Local
  <2> QED
    BY <2>1 DEF Acked, Acks, Conn
<1> QED
  BY <1>1, AckedFields

(* A step without a callback that leaves the connection in its place.      *)
LEMMA KeepsSilent ==
  ASSUME IInv, NEW z, Set(1, z), NoCall, SendsNone, z.tcpstate = conn.tcpstate,
         z.snd_nxt = conn.snd_nxt, z.len = conn.len,
         conn.tcpstate \in OpenStates => z.rcv_nxt = conn.rcv_nxt
  PROVE  Keeps
  BY SetNext, ToldNone, NoneSends DEF Keeps

LEMMA StaysSilent ==
  ASSUME IInv, UNCHANGED uip_conns, NoCall, SendsNone PROVE Keeps
  BY SameNext, ToldNone, NoneSends DEF Keeps

LEMMA RstKind == ASSUME IInv, RecvRst(1) PROVE Dies
<1>1. PICK act \in EndActs :
        /\ Set(1, [conn EXCEPT !.tcpstate = "CLOSED", !.stopped = (act = "stop")])
        /\ Call(1, {"ABORT"}, act) /\ Drop
  BY DEF RecvRst, conn
<1>2. [conn EXCEPT !.tcpstate = "CLOSED", !.stopped = (act = "stop")].tcpstate = "CLOSED"
  BY OneConn DEF Conn
<1>3. Told = {"ABORT"}
  BY <1>1, ToldCall
<1> QED
  BY <1>1, <1>2, <1>3, SetNext, DropSends DEF Final, Dies

LEMMA OutOfOrderKind == ASSUME IInv, RecvOutOfOrder(1) PROVE Keeps
  BY AckSends, StaysSilent DEF RecvOutOfOrder

LEMMA TimeWaitKind == ASSUME IInv, RecvTimeWait(1) PROVE Keeps
  BY AckSends, StaysSilent DEF RecvTimeWait

LEMMA SynRcvdKind ==
  ASSUME IInv, NEW s \in Segment, RecvSynRcvd(1, s) PROVE Keeps \/ Opened(s)
<1>0. conn.tcpstate = "SYN_RCVD" /\ Local(conn) /\ conn.len = 1
  BY OneConn DEF RecvSynRcvd, conn, Local
<1>1. CASE ~Acks(conn, s)
  BY <1>1, DropSends, StaysSilent DEF RecvSynRcvd, conn
<1>2. CASE Acks(conn, s)
  <2> DEFINE ev == {"CONNECTED"} \cup NewFlag(s.len)
  <2>1. PICK t \in NewRto(conn), r \in Replies :
          AppSend(1, [Acked(conn, s, t) EXCEPT !.tcpstate = "ESTABLISHED",
                                               !.rcv_nxt = Plus(@, s.len)], ev, r)
    BY <1>2 DEF RecvSynRcvd, conn
  <2> DEFINE a == Acked(conn, s, t)
             y == [a EXCEPT !.tcpstate = "ESTABLISHED", !.rcv_nxt = Plus(@, s.len)]
  <2>2. /\ a \in Conn /\ a.rcv_nxt = conn.rcv_nxt
        /\ a.snd_nxt = Plus(conn.snd_nxt, conn.len) /\ a.len = 0
    BY <1>0, <1>2, AckedSeq
  <2>3. AppSend(1, y, ev, r)
    BY <2>1
  <2> HIDE DEF a
  <2>4. Plus(a.rcv_nxt, s.len) \in SeqNo
    BY <2>2, PlusType, Small DEF Conn, Segment
  <2>5. /\ y \in Conn /\ y.tcpstate = "ESTABLISHED" /\ y.len = 0
        /\ y.snd_nxt = Plus(conn.snd_nxt, 1) /\ y.rcv_nxt = Plus(conn.rcv_nxt, s.len)
    BY <1>0, <2>2, <2>4 DEF Conn, States
  <2> HIDE DEF y, ev
  <2>6. Answered(y) /\ Told = ev
    BY <2>3, <2>5, AppSendReplied
  <2>7. /\ "CONNECTED" \in ev /\ ev \subseteq {"CONNECTED", "NEWDATA"}
        /\ "NEWDATA" \in ev <=> s.len > 0
    BY DEF ev, NewFlag
  <2>8. Given(s.len) = s.len
    BY <2>6, <2>7 DEF Given, Segment
  <2>9. y.rcv_nxt = Plus(conn.rcv_nxt, Given(s.len))
    BY <2>5, <2>8
  <2> QED
    BY <1>0, <1>2, <2>5, <2>6, <2>7, <2>9 DEF Opened, SynStates
<1> QED
  BY <1>1, <1>2

LEMMA SynSentKind ==
  ASSUME IInv, NEW s \in Segment, RecvSynSent(1, s) PROVE Dies \/ Opened(s)
<1>0. conn.tcpstate = "SYN_SENT" /\ Local(conn) /\ conn.len = 1
  BY OneConn DEF RecvSynSent, conn, Local
<1> DEFINE good == Acks(conn, s) /\ s.flags = {"SYN", "ACK"}
           ev   == {"CONNECTED", "NEWDATA"}
<1>1. PICK t \in NewRto(conn) :
       IF good
       THEN \E r \in Replies :
              AppSend(1, [Mss(Acked(conn, s, t), s) EXCEPT
                            !.tcpstate = "ESTABLISHED", !.rcv_nxt = Plus(s.seqno, 1)],
                      ev, r)
       ELSE /\ Set(1, [Acked(conn, s, t) EXCEPT !.tcpstate = "CLOSED", !.stopped = FALSE])
            /\ Call(1, {"ABORT"}, "none") /\ Reset(s)
  BY DEF RecvSynSent, conn
<1> DEFINE a == Acked(conn, s, t)
           m == Mss(a, s)
           y == [m EXCEPT !.tcpstate = "ESTABLISHED", !.rcv_nxt = Plus(s.seqno, 1)]
           z == [a EXCEPT !.tcpstate = "CLOSED", !.stopped = FALSE]
<1>2. /\ a \in Conn
      /\ Acks(conn, s) => a.snd_nxt = Plus(conn.snd_nxt, conn.len) /\ a.len = 0
  BY <1>0, AckedSeq
<1>3. IF good THEN \E r \in Replies : AppSend(1, y, ev, r)
      ELSE Set(1, z) /\ Call(1, {"ABORT"}, "none") /\ Reset(s)
  BY <1>1
<1> HIDE DEF a
<1>4. CASE good
  <2>1. PICK r \in Replies : AppSend(1, y, ev, r)
    BY <1>3, <1>4
  <2>2. m \in Conn /\ m.snd_nxt = a.snd_nxt /\ m.len = a.len
    <3>1. Lower(s.mss, UIP_TCP_MSS) \in Window
      BY SizeAssumption DEF Lower, Window, Segment
    <3> QED
      BY <1>2, <3>1 DEF Mss, Conn
  <2> HIDE DEF m
  <2>3. Plus(s.seqno, 1) \in SeqNo
    BY PlusType, Small DEF Segment
  <2>4. /\ y \in Conn /\ y.tcpstate = "ESTABLISHED" /\ y.len = 0
        /\ y.snd_nxt = Plus(conn.snd_nxt, 1) /\ y.rcv_nxt = Plus(s.seqno, 1)
    BY <1>0, <1>2, <1>4, <2>2, <2>3 DEF Conn, States
  <2> HIDE DEF y
  <2>5. Answered(y) /\ Told = ev
    BY <2>1, <2>4, AppSendReplied
  <2> QED
    BY <1>0, <1>4, <2>4, <2>5 DEF Opened, SynStates
<1>5. CASE ~good
  <2>1. z.tcpstate = "CLOSED"
    BY <1>2 DEF Conn
  <2> HIDE DEF z
  <2>2. next.tcpstate = "CLOSED" /\ SendsNone /\ Told = {"ABORT"}
    BY <1>3, <1>5, <2>1, SetNext, ToldCall, ResetSends
  <2> QED
    BY <2>2 DEF Final, Dies
<1> QED
  BY <1>4, <1>5

LEMMA FinKind ==
  ASSUME IInv, NEW s \in Segment, RecvFin(1, s)
  PROVE  \/ Keeps
         \/ /\ PeerCloses(Acks(conn, s)) /\ "FIN" \in s.flags
            /\ "NEWDATA" \in Told <=> s.len > 0
<1>0. conn.tcpstate = "ESTABLISHED" /\ Local(conn) /\ "FIN" \in s.flags
  BY OneConn DEF RecvFin, conn
<1> DEFINE ev == {"CLOSE"} \cup AckFlag(conn, s) \cup NewFlag(s.len)
<1>1. PICK t \in NewRto(conn) :
       LET k == Acked(conn, s, t)
           z == [k EXCEPT !.rcv_nxt = Plus(@, 1 + s.len), !.len = 1, !.nrtx = 0,
                          !.tcpstate = "LAST_ACK", !.stopped = FALSE]
       IN IF k.len > 0 THEN UNCHANGED uip_conns /\ NoCall /\ Drop
          ELSE Set(1, z) /\ Send(z, {"FIN", "ACK"}, 0) /\ Call(1, ev, "none")
  BY DEF RecvFin, conn
<1> DEFINE a == Acked(conn, s, t)
           z == [a EXCEPT !.rcv_nxt = Plus(@, 1 + s.len), !.len = 1, !.nrtx = 0,
                          !.tcpstate = "LAST_ACK", !.stopped = FALSE]
<1>2. /\ a \in Conn
      /\ a.snd_nxt = IF Acks(conn, s) THEN Plus(conn.snd_nxt, conn.len) ELSE conn.snd_nxt
      /\ a.len = IF Acks(conn, s) THEN 0 ELSE conn.len
  BY <1>0, AckedSeq
<1>3. IF a.len > 0 THEN UNCHANGED uip_conns /\ NoCall /\ Drop
      ELSE Set(1, z) /\ Send(z, {"FIN", "ACK"}, 0) /\ Call(1, ev, "none")
  BY <1>1
<1> HIDE DEF a
<1>4. CASE a.len > 0
  BY <1>3, <1>4, DropSends, StaysSilent
<1>5. CASE ~(a.len > 0)
  <2>1. a.len = 0
    <3>1. a.len \in Nat
      BY <1>2, Small DEF Conn
    <3> QED
      BY <1>5, <3>1
  <2>2. z.tcpstate = "LAST_ACK" /\ z.snd_nxt = a.snd_nxt
    BY <1>2 DEF Conn
  <2>3. Set(1, z) /\ Send(z, {"FIN", "ACK"}, 0) /\ Call(1, ev, "none")
    BY <1>3, <1>5
  <2> HIDE DEF z, ev
  <2>4. next = z /\ Told = ev
    BY <2>3, SetNext, ToldCall
  <2>5. Emits(z.snd_nxt, 0, {"FIN"})
    <3>1. {"FIN", "ACK"} \cap {"SYN", "FIN"} = {"FIN"}
      OBVIOUS
    <3> QED
      BY <2>3, <3>1, SendSends
  <2>6. /\ "CLOSE" \in ev
        /\ "ACKDATA" \in ev <=> Acks(conn, s)
        /\ "NEWDATA" \in ev <=> s.len > 0
        /\ ev \subseteq {"CLOSE", "ACKDATA", "NEWDATA"}
    BY DEF ev, AckFlag, NewFlag
  <2>7. AckStep(Acks(conn, s), a)
    BY <1>2, <2>4, <2>6 DEF AckStep
  <2> QED
    BY <1>0, <1>2, <2>1, <2>2, <2>4, <2>5, <2>6, <2>7 DEF Final, PeerCloses
<1> QED
  BY <1>4, <1>5

LEMMA EstablishedKind ==
  ASSUME IInv, NEW s \in Arriving, RecvEstablished(1, s)
  PROVE  Keeps \/ Exchanges(Acks(conn, s), s.len - Skip(s))
<1>0. /\ conn.tcpstate = "ESTABLISHED" /\ Local(conn) /\ conn \in Conn
      /\ s \in Segment /\ s.urgp <= s.len
  BY OneConn DEF RecvEstablished, conn, Arriving
<1>1. PICK t \in NewRto(conn) :
       LET a  == Acked(conn, s, t)
           n  == Taken(a, s)
           ev == AckFlag(conn, s) \cup NewFlag(n)
           w  == IF s.wnd > a.initialmss \/ s.wnd = 0 THEN a.initialmss ELSE s.wnd
           z  == [a EXCEPT !.rcv_nxt = Plus(@, n), !.mss = w]
       IN IF ev = {} THEN Set(1, z) /\ NoCall /\ Drop
          ELSE \E r \in Replies : AppSend(1, z, ev, r)
  BY DEF RecvEstablished, conn
<1> DEFINE a  == Acked(conn, s, t)
           n  == Taken(a, s)
           ev == AckFlag(conn, s) \cup NewFlag(n)
           w  == IF s.wnd > a.initialmss \/ s.wnd = 0 THEN a.initialmss ELSE s.wnd
           z  == [a EXCEPT !.rcv_nxt = Plus(@, n), !.mss = w]
<1>2. IF ev = {} THEN Set(1, z) /\ NoCall /\ Drop
      ELSE \E r \in Replies : AppSend(1, z, ev, r)
  BY <1>1
<1>3. /\ a \in Conn /\ a.tcpstate = "ESTABLISHED" /\ a.rcv_nxt = conn.rcv_nxt
      /\ a.snd_nxt = IF Acks(conn, s) THEN Plus(conn.snd_nxt, conn.len) ELSE conn.snd_nxt
      /\ a.len = IF Acks(conn, s) THEN 0 ELSE conn.len
  BY <1>0, AckedSeq
<1> HIDE DEF a
<1>4. n \in Nat /\ (n > 0 => n = s.len - Skip(s))
  BY <1>0 DEF Taken, Urgent, Segment, Skip
<1>5. /\ "ACKDATA" \in ev <=> Acks(conn, s)
      /\ "NEWDATA" \in ev <=> n > 0
      /\ ev \subseteq {"ACKDATA", "NEWDATA", "POLL"}
  BY DEF AckFlag, NewFlag
<1>6. w \in Window
  <2>1. a.initialmss \in 0..UIP_TCP_MSS /\ s.wnd \in Nat
    BY <1>0, <1>3 DEF Conn, Window, Segment
  <2> QED
    BY <2>1, SizeAssumption DEF Window
<1> HIDE DEF n, ev, w
<1>7. Plus(a.rcv_nxt, n) \in SeqNo
  BY <1>3, <1>4, PlusType, Small DEF Conn
<1>8. /\ z \in Conn /\ z.tcpstate = "ESTABLISHED"
      /\ z.rcv_nxt = Plus(conn.rcv_nxt, n)
      /\ z.snd_nxt = a.snd_nxt /\ z.len = a.len
  BY <1>3, <1>6, <1>7 DEF Conn, States
<1> HIDE DEF z
<1>9. CASE ev = {}
  <2>1. n = 0 /\ ~Acks(conn, s)
    BY <1>4, <1>5, <1>9
  <2>2. Plus(conn.rcv_nxt, n) = conn.rcv_nxt
    BY <1>0, <2>1, PlusZero DEF Conn
  <2> QED
    BY <1>0, <1>2, <1>3, <1>8, <1>9, <2>1, <2>2, DropSends, KeepsSilent
<1>10. CASE ev # {}
  <2>1. PICK r \in Replies : AppSend(1, z, ev, r)
    BY <1>2, <1>10
  <2>2. Answered(z) /\ Told = ev
    BY <1>8, <2>1, AppSendReplied
  <2>3. n = Given(s.len - Skip(s))
    BY <1>4, <1>5, <2>2 DEF Given
  <2>4. AckStep(Acks(conn, s), z)
    BY <1>3, <1>5, <1>8, <2>2 DEF AckStep
  <2>5. "NEWDATA" \in Told => s.len - Skip(s) > 0
    BY <1>4, <1>5, <2>2
  <2> QED
    BY <1>0, <1>5, <1>8, <2>2, <2>3, <2>4, <2>5 DEF Exchanges
<1> QED
  BY <1>9, <1>10

LEMMA LastAckKind ==
  ASSUME IInv, NEW s \in Segment, RecvLastAck(1, s) PROVE Keeps \/ Dies
<1>0. conn.tcpstate = "LAST_ACK" /\ Local(conn) /\ Drop
  BY OneConn DEF RecvLastAck, conn
<1>1. CASE ~Acks(conn, s)
  BY <1>0, <1>1, DropSends, StaysSilent DEF RecvLastAck, conn
<1>2. CASE Acks(conn, s)
  <2>1. PICK t \in NewRto(conn), act \in EndActs :
          /\ Set(1, [Acked(conn, s, t) EXCEPT !.tcpstate = "CLOSED",
                                              !.stopped = (act = "stop")])
          /\ Call(1, {"CLOSE"}, act)
    BY <1>2 DEF RecvLastAck, conn
  <2> DEFINE a == Acked(conn, s, t)
             z == [a EXCEPT !.tcpstate = "CLOSED", !.stopped = (act = "stop")]
  <2>2. a \in Conn
    BY <1>0, AckedSeq
  <2> HIDE DEF a
  <2>3. z.tcpstate = "CLOSED"
    BY <2>2 DEF Conn
  <2>4. Set(1, z)
    BY <2>1 DEF a
  <2> HIDE DEF z
  <2>5. next.tcpstate = "CLOSED" /\ Told = {"CLOSE"} /\ SendsNone
    BY <1>0, <2>1, <2>3, <2>4, SetNext, ToldCall, DropSends
  <2> QED
    BY <1>0, <2>5 DEF Final, Dies
<1> QED
  BY <1>1, <1>2

LEMMA FinWait1Kind ==
  ASSUME IInv, NEW s \in Segment, RecvFinWait1(1, s)
  PROVE  Keeps \/ Finishes(Acks(conn, s))
<1> DEFINE ok == Acks(conn, s)
<1>0. conn.tcpstate = "FIN_WAIT_1" /\ Local(conn)
  BY OneConn DEF RecvFinWait1, conn
<1>1. PICK t \in NewRto(conn), act \in EndActs :
       LET b == [Acked(conn, s, t) EXCEPT !.rcv_nxt = Plus(@, s.len)]
           f == [b EXCEPT !.rcv_nxt = Plus(@, 1), !.stopped = (act = "stop"),
                          !.tcpstate = IF ok THEN "TIME_WAIT" ELSE "CLOSING",
                          !.timer = IF ok THEN 0 ELSE @]
       IN IF "FIN" \in s.flags
          THEN Set(1, f) /\ Call(1, {"CLOSE"}, act) /\ SendAck(f)
          ELSE /\ NoCall
               /\ Set(1, [b EXCEPT !.tcpstate = IF ok THEN "FIN_WAIT_2" ELSE @])
               /\ IF ~ok /\ s.len > 0 THEN SendAck(b) ELSE Drop
  BY DEF RecvFinWait1, conn
<1> DEFINE a == Acked(conn, s, t)
           b == [a EXCEPT !.rcv_nxt = Plus(@, s.len)]
           f == [b EXCEPT !.rcv_nxt = Plus(@, 1), !.stopped = (act = "stop"),
                          !.tcpstate = IF ok THEN "TIME_WAIT" ELSE "CLOSING",
                          !.timer = IF ok THEN 0 ELSE @]
           g == [b EXCEPT !.tcpstate = IF ok THEN "FIN_WAIT_2" ELSE @]
<1>2. IF "FIN" \in s.flags
      THEN Set(1, f) /\ Call(1, {"CLOSE"}, act) /\ SendAck(f)
      ELSE NoCall /\ Set(1, g) /\ IF ~ok /\ s.len > 0 THEN SendAck(b) ELSE Drop
  BY <1>1
<1>3. /\ a \in Conn /\ a.tcpstate = "FIN_WAIT_1"
      /\ ~ok => a.snd_nxt = conn.snd_nxt /\ a.len = conn.len
  BY <1>0, AckedSeq
<1> HIDE DEF a, ok
<1>4. Plus(a.rcv_nxt, s.len) \in SeqNo
  BY <1>3, PlusType, Small DEF Conn, Segment
<1>8. b \in Conn /\ b.tcpstate = "FIN_WAIT_1" /\ b.snd_nxt = a.snd_nxt /\ b.len = a.len
  BY <1>3, <1>4 DEF Conn
<1>5. SendsNone
  BY <1>2, AckSends, DropSends
<1> HIDE DEF b
<1>6. CASE "FIN" \in s.flags
  <2>1. f.tcpstate = (IF ok THEN "TIME_WAIT" ELSE "CLOSING") /\ f.snd_nxt = a.snd_nxt
    BY <1>8 DEF Conn
  <2>2. Set(1, f) /\ Call(1, {"CLOSE"}, act)
    BY <1>2, <1>6
  <2> HIDE DEF f
  <2>3. next = f /\ Told = {"CLOSE"}
    BY <2>2, SetNext, ToldCall
  <2>4. Finishes(ok)
    BY <1>0, <1>3, <1>5, <2>1, <2>3 DEF Final, Finishes, Closing, Waits
  <2> QED
    BY <2>4 DEF ok
<1>7. CASE "FIN" \notin s.flags
  <2>1. /\ g.tcpstate = IF ok THEN "FIN_WAIT_2" ELSE "FIN_WAIT_1"
        /\ g.snd_nxt = a.snd_nxt /\ g.len = a.len
    BY <1>8 DEF Conn
  <2>2. Set(1, g) /\ NoCall
    BY <1>2, <1>7
  <2> HIDE DEF g
  <2>3. next = g /\ Told = {}
    BY <2>2, SetNext, ToldNone
  <2>4. ok => Finishes(ok)
    BY <1>0, <1>5, <2>1, <2>3 DEF Final, Finishes, Closing, Waits
  <2>5. ~ok => Keeps
    BY <1>0, <1>3, <1>5, <2>1, <2>2, KeepsSilent DEF OpenStates, SynStates
  <2> QED
    BY <2>4, <2>5 DEF ok
<1> QED
  BY <1>6, <1>7

LEMMA FinWait2Kind ==
  ASSUME IInv, NEW s \in Segment, RecvFinWait2(1, s)
  PROVE  Keeps \/ Finishes(Acks(conn, s))
<1> DEFINE b == [conn EXCEPT !.rcv_nxt = Plus(@, s.len)]
           f(act) == [b EXCEPT !.rcv_nxt = Plus(@, 1), !.timer = 0,
                               !.tcpstate = "TIME_WAIT", !.stopped = (act = "stop")]
<1>0. conn \in Conn /\ conn.tcpstate = "FIN_WAIT_2"
  BY OneConn DEF RecvFinWait2, conn
<1>1. IF "FIN" \in s.flags
      THEN \E act \in EndActs : /\ Set(1, f(act)) /\ Call(1, {"CLOSE"}, act)
                                /\ SendAck(f(act))
      ELSE Set(1, b) /\ NoCall /\ IF s.len > 0 THEN SendAck(b) ELSE Drop
  BY DEF RecvFinWait2, conn
<1>2. Plus(conn.rcv_nxt, s.len) \in SeqNo
  BY <1>0, PlusType, Small DEF Conn, Segment
<1>3. /\ b \in Conn /\ b.tcpstate = "FIN_WAIT_2"
      /\ b.snd_nxt = conn.snd_nxt /\ b.len = conn.len
  BY <1>0, <1>2 DEF Conn
<1> HIDE DEF b
<1>4. CASE "FIN" \in s.flags
  <2>1. PICK act \in EndActs : /\ Set(1, f(act)) /\ Call(1, {"CLOSE"}, act)
                               /\ SendAck(f(act))
    BY <1>1, <1>4
  <2>2. f(act).tcpstate = "TIME_WAIT"
    BY <1>3 DEF Conn
  <2>3. next.tcpstate = "TIME_WAIT" /\ Told = {"CLOSE"} /\ SendsNone
    BY <2>1, <2>2, SetNext, ToldCall, AckSends
  <2> QED
    BY <1>0, <2>3 DEF Final, Finishes, Closing, Waits
<1>5. CASE "FIN" \notin s.flags
  <2>1. SendsNone
    BY <1>1, <1>5, AckSends, DropSends
  <2> QED
    BY <1>0, <1>1, <1>3, <1>5, <2>1, KeepsSilent DEF OpenStates, SynStates
<1> QED
  BY <1>4, <1>5

LEMMA ClosingKind ==
  ASSUME IInv, NEW s \in Segment, RecvClosing(1, s)
  PROVE  Keeps \/ Finishes(Acks(conn, s))
<1>0. conn.tcpstate = "CLOSING" /\ Local(conn) /\ NoCall /\ Drop
  BY OneConn DEF RecvClosing, conn
<1>1. CASE ~Acks(conn, s)
  BY <1>0, <1>1, DropSends, StaysSilent DEF RecvClosing, conn
<1>2. CASE Acks(conn, s)
  <2>1. PICK t \in NewRto(conn) :
          Set(1, [Acked(conn, s, t) EXCEPT !.tcpstate = "TIME_WAIT",
                                           !.stopped = FALSE, !.timer = 0])
    BY <1>2 DEF RecvClosing, conn
  <2> DEFINE a == Acked(conn, s, t)
             z == [a EXCEPT !.tcpstate = "TIME_WAIT", !.stopped = FALSE, !.timer = 0]
  <2>2. a \in Conn
    BY <1>0, AckedSeq
  <2> HIDE DEF a
  <2>3. z.tcpstate = "TIME_WAIT"
    BY <2>2 DEF Conn
  <2>4. Set(1, z)
    BY <2>1 DEF a
  <2> HIDE DEF z
  <2>5. next.tcpstate = "TIME_WAIT" /\ Told = {} /\ SendsNone
    BY <1>0, <2>3, <2>4, SetNext, ToldNone, DropSends
  <2> QED
    BY <1>0, <1>2, <2>5 DEF Final, Finishes, Closing, Waits
<1> QED
  BY <1>1, <1>2

LEMMA ZombieKind == ASSUME IInv, NEW s \in Segment, RecvZombie(1, s) PROVE Dies
<1>0. conn.tcpstate = "CLOSED" /\ Local(conn) /\ NoCall /\ Drop
  BY OneConn DEF RecvZombie, conn
<1>1. PICK t \in NewRto(conn) : Set(1, Acked(conn, s, t))
  BY DEF RecvZombie, conn
<1>2. next.tcpstate = "CLOSED" /\ Told = {} /\ SendsNone
  BY <1>0, <1>1, AckedSeq, SetNext, ToldNone, DropSends
<1> QED
  BY <1>2 DEF Final, Dies

LEMMA FoundMoves ==
  ASSUME IInv, NEW s \in Arriving, RecvFound(1, s) PROVE FoundKind(s)
<1>0. s \in Segment /\ uip_conns[1] = conn
  BY DEF Arriving, conn
<1>1. CASE "RST" \in s.flags
  BY <1>1, RstKind DEF RecvFound, FoundKind
<1>2. CASE "RST" \notin s.flags /\ OutOfOrder(conn, s)
  BY <1>0, <1>2, OutOfOrderKind DEF RecvFound, FoundKind
<1>3. CASE "RST" \notin s.flags /\ ~OutOfOrder(conn, s)
  <2>1. \/ RecvSynRcvd(1, s)  \/ RecvSynSent(1, s)  \/ RecvFin(1, s)
        \/ RecvEstablished(1, s) \/ RecvLastAck(1, s) \/ RecvFinWait1(1, s)
        \/ RecvFinWait2(1, s) \/ RecvTimeWait(1) \/ RecvClosing(1, s)
        \/ RecvZombie(1, s)
    BY <1>0, <1>3 DEF RecvFound
  <2> QED
    BY <1>0, <1>3, <2>1, SynRcvdKind, SynSentKind, FinKind, EstablishedKind, LastAckKind,
       FinWait1Kind, FinWait2Kind, TimeWaitKind, ClosingKind, ZombieKind DEF FoundKind
<1> QED
  BY <1>1, <1>2, <1>3

(* A segment, whether or not it belongs to the connection.                 *)
LEMMA ListenKind ==
  ASSUME IInv, NEW s \in Segment, NotFound(s), NoCall, RecvListen(1, s)
  PROVE  Starts(s)
<1> DEFINE m == Mss(conn, s)
           z == [m EXCEPT
              !.tcpstate = "SYN_RCVD", !.stopped = FALSE,
              !.peer = s.peer, !.lport = s.lport,
              !.rto = UIP_RTO, !.timer = UIP_RTO, !.nrtx = 0,
              !.snd_nxt = iss, !.len = 1, !.rcv_nxt = Plus(s.seqno, 1)]
<1>1. Opens(s) /\ Slot(1) /\ Set(1, z) /\ Send(z, {"SYN", "ACK"}, 0)
  BY DEF RecvListen, conn
<1>2. m \in Conn
  <2>1. Lower(s.mss, UIP_TCP_MSS) \in Window
    BY SizeAssumption DEF Lower, Window, Segment
  <2> QED
    BY <2>1, OneConn DEF Mss, Conn
<1> HIDE DEF m
<1>3. z.tcpstate = "SYN_RCVD" /\ z.snd_nxt = iss /\ z.rcv_nxt = Plus(s.seqno, 1)
  BY <1>2 DEF Conn
<1> HIDE DEF z
<1>4. {"SYN", "ACK"} \cap {"SYN", "FIN"} = {"SYN"}
  OBVIOUS
<1>5. next = z /\ Told = {} /\ appcall' = {} /\ Emits(z.snd_nxt, 0, {"SYN"})
  BY <1>1, <1>4, SetNext, ToldNone, CtlSends
<1> QED
  BY <1>1, <1>3, <1>5 DEF Starts

LEMMA InputMoves ==
  ASSUME IInv, NEW s \in Arriving, Input(s)
  PROVE  (Found(1, s) /\ FoundKind(s)) \/ (NotFound(s) /\ Keeps) \/ Starts(s)
<1>0. s \in Segment /\ Conns = {1}
  BY OneConn DEF Arriving
<1>1. CASE Found(1, s) /\ RecvFound(1, s)
  BY <1>1, FoundMoves
<1>2. CASE NotFound(s) /\ NoCall /\ (RecvListenFull(s) \/ RecvNoConn(s))
  BY <1>2, DropSends, ResetSends, StaysSilent DEF RecvListenFull, RecvNoConn
<1>3. CASE NotFound(s) /\ NoCall /\ RecvListen(1, s)
  BY <1>0, <1>3, ListenKind
<1> QED
  BY <1>0, <1>1, <1>2, <1>3 DEF Input

-----------------------------------------------------------------------------
LEMMA TickWaitKind == ASSUME IInv, TickWait(1) PROVE Keeps \/ Dies
<1> DEFINE n == (conn.timer + 1) % TimerMod
           z == [conn EXCEPT !.timer = n,
                   !.tcpstate = IF n = UIP_TIME_WAIT_TIMEOUT THEN "CLOSED" ELSE @]
<1>1. conn \in Conn /\ conn.tcpstate \in Waits /\ Set(1, z) /\ Drop /\ NoCall
  BY OneConn DEF TickWait, Waiting, Is, conn, Waits
<1> HIDE DEF n
<1>2. /\ z.tcpstate = IF n = UIP_TIME_WAIT_TIMEOUT THEN "CLOSED" ELSE conn.tcpstate
      /\ z.snd_nxt = conn.snd_nxt /\ z.len = conn.len
  BY <1>1 DEF Conn
<1> HIDE DEF z
<1>3. next = z /\ Told = {} /\ SendsNone
  BY <1>1, SetNext, ToldNone, DropSends
<1>4. n = UIP_TIME_WAIT_TIMEOUT => Dies
  BY <1>2, <1>3 DEF Final, Dies
<1>5. n # UIP_TIME_WAIT_TIMEOUT => Keeps
  BY <1>1, <1>2, <1>3, KeepsSilent DEF OpenStates, SynStates, Waits
<1> QED
  BY <1>4, <1>5

LEMMA TickCountdownKind == ASSUME IInv, TickCountdown(1) PROVE Keeps
<1> DEFINE z == [conn EXCEPT !.timer = @ - 1]
<1>1. conn \in Conn /\ Set(1, z) /\ Drop /\ NoCall
  BY OneConn DEF TickCountdown, conn
<1>2. /\ z.tcpstate = conn.tcpstate /\ z.snd_nxt = conn.snd_nxt /\ z.len = conn.len
      /\ z.rcv_nxt = conn.rcv_nxt
  BY <1>1 DEF Conn
<1> QED
  BY <1>1, <1>2, DropSends, KeepsSilent

LEMMA TickTimeoutKind == ASSUME IInv, TickTimeout(1) PROVE Dies
<1>1. PICK act \in EndActs :
       LET z == [conn EXCEPT !.tcpstate = "CLOSED", !.timer = TimerMod - 1,
                             !.stopped = (act = "stop")]
       IN Set(1, z) /\ Call(1, {"TIMEDOUT"}, act) /\ Send(z, {"RST", "ACK"}, 0)
  BY DEF TickTimeout, conn
<1> DEFINE z == [conn EXCEPT !.tcpstate = "CLOSED", !.timer = TimerMod - 1,
                             !.stopped = (act = "stop")]
<1>2. Set(1, z) /\ Call(1, {"TIMEDOUT"}, act) /\ Send(z, {"RST", "ACK"}, 0)
  BY <1>1
<1>3. z.tcpstate = "CLOSED"
  BY OneConn DEF Conn
<1> HIDE DEF z
<1>4. next = z /\ Told = {"TIMEDOUT"} /\ SendsNone
  BY <1>2, SetNext, ToldCall, RstSends
<1> QED
  BY <1>3, <1>4 DEF Final, Dies

LEMMA BackoffSeq ==
  ASSUME NEW k \in Conn
  PROVE  LET z == Backoff(k)
         IN /\ z.tcpstate = k.tcpstate /\ z.snd_nxt = k.snd_nxt /\ z.len = k.len
            /\ z.rcv_nxt = k.rcv_nxt
  BY DEF Backoff, Conn

LEMMA TickRexmitKind == ASSUME IInv, TickRexmit(1) PROVE Keeps
<1> DEFINE z == Backoff(conn)
<1>1. /\ z.tcpstate = conn.tcpstate /\ z.snd_nxt = conn.snd_nxt /\ z.len = conn.len
      /\ z.rcv_nxt = conn.rcv_nxt
  BY OneConn, BackoffSeq
<1>2. /\ z.tcpstate # "ESTABLISHED" /\ Set(1, z) /\ NoCall
      /\ CASE z.tcpstate = "SYN_RCVD" -> Send(z, {"SYN", "ACK"}, 0)
           [] z.tcpstate = "SYN_SENT" -> Send(z, {"SYN"}, 0)
           [] z.tcpstate \in {"FIN_WAIT_1", "CLOSING", "LAST_ACK"} ->
                Send(z, {"FIN", "ACK"}, 0)
           [] OTHER -> Drop
  BY DEF TickRexmit, conn
<1> HIDE DEF z
<1>3. next = z /\ Told = {} /\ appcall' = {}
  BY <1>2, SetNext, ToldNone
<1>4. Emits(z.snd_nxt, 0, Ctl(z.tcpstate))
  <2>1. /\ {"SYN", "ACK"} \cap {"SYN", "FIN"} = {"SYN"}
        /\ {"SYN"} \cap {"SYN", "FIN"} = {"SYN"}
        /\ {"FIN", "ACK"} \cap {"SYN", "FIN"} = {"FIN"}
    OBVIOUS
  <2>2. CASE z.tcpstate = "SYN_RCVD"
    BY <1>2, <2>1, <2>2, CtlSends DEF Ctl, SynStates
  <2>3. CASE z.tcpstate = "SYN_SENT"
    BY <1>2, <2>1, <2>3, CtlSends DEF Ctl, SynStates
  <2>4. CASE z.tcpstate \in Closing
    <3>1. Send(z, {"FIN", "ACK"}, 0)
      BY <1>2, <2>4 DEF Closing
    <3>2. Ctl(z.tcpstate) = {"FIN"}
      BY <2>4 DEF Ctl, SynStates, Closing
    <3> QED
      BY <2>1, <3>1, <3>2, CtlSends
  <2>5. CASE z.tcpstate \notin SynStates \cup Closing
    BY <1>2, <2>5, DropSends, NoneSends DEF SynStates, Closing
  <2> QED
    BY <2>2, <2>3, <2>4, <2>5 DEF SynStates
<1> QED
  BY <1>1, <1>2, <1>3, <1>4 DEF Keeps

LEMMA TickAppRexmitKind == ASSUME IInv, TickAppRexmit(1) PROVE Keeps
<1> DEFINE b == Backoff(conn)
<1>1. conn.tcpstate = "ESTABLISHED" /\ conn.len > 0 /\ ~GivesUp(conn) /\ Local(conn)
  BY OneConn DEF TickAppRexmit, conn, Retry, Expired, Armed
<1>2. b \in Conn
  BY <1>1, BackoffLocal
<1>3. PICK r \in Replies : /\ Set(1, Touch(b, r.act)) /\ Call(1, {"REXMIT"}, r.act)
                           /\ AppRexmit(Touch(b, r.act), {"REXMIT"}, r)
  BY DEF TickAppRexmit, conn
<1>4. /\ b.tcpstate = conn.tcpstate /\ b.snd_nxt = conn.snd_nxt /\ b.len = conn.len
      /\ b.rcv_nxt = conn.rcv_nxt
  BY OneConn, BackoffSeq
<1> HIDE DEF b
<1> DEFINE z == Touch(b, r.act)
<1>5. /\ z.tcpstate = conn.tcpstate /\ z.snd_nxt = conn.snd_nxt /\ z.len = conn.len
      /\ z.rcv_nxt = conn.rcv_nxt
  BY <1>2, <1>4 DEF Touch, Conn
<1>6. Set(1, z) /\ Call(1, {"REXMIT"}, r.act) /\ AppRexmit(z, {"REXMIT"}, r)
  BY <1>3
<1> HIDE DEF z
<1>7. next = z /\ Told = {"REXMIT"}
  BY <1>6, SetNext, ToldCall
<1>8. Emits(z.snd_nxt, z.len, {})
  <2>1. {"ACK", "PSH"} \cap {"SYN", "FIN"} = {}
    OBVIOUS
  <2>2. CASE Send(z, {"ACK", "PSH"}, z.len)
    BY <2>1, <2>2, SendSends
  <2>3. CASE SendAck(z) \/ Drop
    BY <2>3, AckSends, DropSends, NoneSends
  <2> QED
    BY <1>6, <2>2, <2>3 DEF AppRexmit
<1>9. Ctl(conn.tcpstate) = {}
  BY <1>1 DEF Ctl, SynStates, Closing
<1> QED
  BY <1>1, <1>5, <1>7, <1>8, <1>9 DEF Keeps

LEMMA TickPollKind == ASSUME IInv, TickPoll(1) PROVE Exchanges(FALSE, 0)
<1>1. PICK r \in Replies : AppSend(1, conn, {"POLL"}, r)
  BY DEF TickPoll, conn
<1>2. conn.tcpstate = "ESTABLISHED" /\ conn \in Conn
  BY OneConn DEF TickPoll, conn
<1>3. Answered(conn) /\ Told = {"POLL"}
  BY <1>1, <1>2, AppSendReplied
<1>4. conn.rcv_nxt = Plus(conn.rcv_nxt, Given(0))
  BY <1>2, <1>3, PlusZero DEF Given, Conn
<1>5. AckStep(FALSE, conn)
  BY <1>3 DEF AckStep
<1> QED
  BY <1>2, <1>3, <1>4, <1>5 DEF Exchanges

LEMMA TickMoves ==
  ASSUME IInv, Periodic(1) PROVE Dies \/ Keeps \/ Exchanges(FALSE, 0)
<1>1. TickIdle(1) => Keeps
  BY DropSends, StaysSilent DEF TickIdle
<1> QED
  BY <1>1, TickWaitKind, TickCountdownKind, TickTimeoutKind, TickRexmitKind,
     TickAppRexmitKind, TickPollKind DEF Periodic

-----------------------------------------------------------------------------
(***************************************************************************)
(* The inductive invariant.  OpenInv says that nothing happens before the  *)
(* connection is opened; SendInv places our sequence numbers, every frame  *)
(* on the wire and what the peer has heard in our stream, RecvInv the      *)
(* peer's sequence numbers and what the application was given in its; if   *)
(* there is no urgent data, which the code does not count in rcv_nxt, that *)
(* is the stream itself, and not as many bytes only.                       *)
(***************************************************************************)
Plain   == Urgps = {}
Cares   == Careful = TRUE
IsLast(f) == f.fin = TRUE
Closed  == peer.fin = TRUE

FrameOK(f, w, st) ==
  /\ f.at \in Nat /\ Len(f.bytes) \in Nat /\ f.bytes = Places(f.at, Len(f.bytes))
  /\ f.at + Len(f.bytes) <= w + 1
  /\ IsLast(f) => st \notin OpenStates /\ (Cares => f.at = w + 1)

OpenInv ==
  opener = "none" => conn.tcpstate = "CLOSED" /\ wire = {} /\ wrote = 0

SendInv ==
  /\ isn \in SeqNo /\ acked \in Nat /\ wrote \in 0..AppBytes
  /\ peer \in [syn: BOOLEAN, fin: BOOLEAN, heard: Seq(Nat)]
  /\ conn.tcpstate \in SynStates => conn.snd_nxt = isn /\ wrote = 0
  /\ conn.tcpstate = "ESTABLISHED" =>
       conn.snd_nxt = OwnSeq(acked + 1) /\ wrote = acked + conn.len
  /\ conn.tcpstate \in Closing =>
       conn.snd_nxt = OwnSeq(acked + 1) /\ (Cares => acked = wrote)
  /\ conn.tcpstate \in Waits /\ Cares => Closed
  /\ \A f \in wire : FrameOK(f, wrote, conn.tcpstate)
  /\ peer.heard = Places(1, Len(peer.heard))
  /\ acked <= Len(peer.heard) /\ Len(peer.heard) <= wrote
  /\ Closed => Shut /\ (Cares => Len(peer.heard) = wrote)

RecvInv ==
  /\ fed \in Seq(Nat) /\ Len(fed) <= PeerBytes /\ (Plain => fed = Places(1, Len(fed)))
  /\ opener = "none" => Len(fed) = 0 /\ ~fedEnd
  /\ conn.tcpstate \in SynStates => Len(fed) = 0
  /\ conn.tcpstate = "SYN_RCVD" => conn.rcv_nxt = PeerSeq(1)
  /\ conn.tcpstate = "ESTABLISHED" => conn.rcv_nxt = PeerSeq(Len(fed) + 1)
  /\ fedEnd => conn.tcpstate \notin OpenStates /\ (Plain => Len(fed) = PeerBytes)

-----------------------------------------------------------------------------
(* The values after the step, as names for the arithmetic.                 *)
isnN   == isn'
ackedN == acked'
wroteN == wrote'

LEMMA NoFrames == ASSUME SendsNone PROVE Frames = {}
  BY DEF SendsNone, Text, Frames

LEMMA FramesAre ==
  ASSUME isnN \in SeqNo, NEW j \in 0..(SeqMod - 1), NEW n \in Nat, NEW ctl,
         Emits(Plus(isnN, j), n, ctl), NEW f \in Frames
  PROVE  /\ f.at = j /\ f.bytes = Places(ackedN + 1, n)
         /\ n > 0 \/ ctl \cap {"SYN", "FIN"} # {}
         /\ IsLast(f) <=> "FIN" \in ctl
<1>1. PICK b \in uip_buf' :
        /\ Text(b)
        /\ f = [at |-> CHOOSE i \in 0..(SeqMod - 1) : b.seqno = Plus(isnN, i),
                bytes |-> Places(ackedN + 1, b.len),
                syn |-> "SYN" \in b.flags, fin |-> "FIN" \in b.flags]
  BY DEF Frames, Text, isnN, ackedN
<1>2. b.seqno = Plus(isnN, j) /\ b.len = n /\ b.flags \cap {"SYN", "FIN"} = ctl
  BY <1>1 DEF Emits
<1>3. (CHOOSE i \in 0..(SeqMod - 1) : b.seqno = Plus(isnN, i)) = j
  <2>1. \A i \in 0..(SeqMod - 1) : b.seqno = Plus(isnN, i) => i = j
    BY <1>2, PlusInjective
  <2> QED
    BY <1>2, <2>1
<1>4. n > 0 \/ ctl \cap {"SYN", "FIN"} # {}
  BY <1>1, <1>2 DEF Text
<1>5. IsLast(f) <=> "FIN" \in ctl
  <2>1. "FIN" \in b.flags <=> "FIN" \in ctl
    BY <1>2
  <2>2. f.fin = ("FIN" \in b.flags)
    BY <1>1, Zenon
  <2> QED
    BY <2>1, <2>2, Zenon DEF IsLast
<1>6. f.at = j /\ f.bytes = Places(ackedN + 1, n)
  BY <1>1, <1>2, <1>3, Zenon
<1> QED
  BY <1>4, <1>5, <1>6

(* The frames of one step, in the terms of the invariant.                  *)
LEMMA FramesOK ==
  ASSUME isnN \in SeqNo, ackedN \in Nat, wroteN \in 0..AppBytes, NEW j \in Nat, NEW n \in Nat,
         NEW ctl, Emits(Plus(isnN, j), n, ctl),
         n > 0 => j = ackedN + 1, j + n <= wroteN + 1, NEW st,
         "FIN" \in ctl => st \notin OpenStates /\ (Cares => j = wroteN + 1)
  PROVE  \A f \in Frames : FrameOK(f, wroteN, st)
<1> SUFFICES ASSUME NEW f \in Frames PROVE FrameOK(f, wroteN, st)
  OBVIOUS
<1>1. j \in 0..(SeqMod - 1)
  BY Bounds
<1>2. /\ f.at = j /\ f.bytes = Places(ackedN + 1, n)
      /\ IsLast(f) <=> "FIN" \in ctl
  BY <1>1, FramesAre, Zenon
<1>3. Len(f.bytes) = n
  <2>1. ackedN + 1 \in Nat
    OBVIOUS
  <2> DEFINE a == ackedN + 1
  <2>2. Len(Places(a, n)) = n
    <3> HIDE DEF a
    <3>1. a \in Nat
      BY <2>1 DEF a
    <3> QED
      BY <3>1, PlacesAre
  <2> QED
    BY <1>2, <2>2
<1>4. f.bytes = Places(j, n)
  <2>1. CASE n > 0
    BY <1>2, <2>1
  <2>2. CASE ~(n > 0)
    <3>1. n = 0
      BY <2>2
    <3> QED
      BY <1>2, <3>1, PlacesNone
  <2> QED
    BY <2>1, <2>2
<1> QED
  BY <1>2, <1>3, <1>4 DEF FrameOK

LEMMA FramesStayOK ==
  ASSUME SendInv, wroteN \in 0..AppBytes, wrote <= wroteN, NEW st,
         conn.tcpstate \notin OpenStates => wroteN = wrote /\ st \notin OpenStates
  PROVE  \A f \in wire : FrameOK(f, wroteN, st)
<1> SUFFICES ASSUME NEW f \in wire PROVE FrameOK(f, wroteN, st)
  OBVIOUS
<1>1. FrameOK(f, wrote, conn.tcpstate) /\ wrote \in Nat
  BY DEF SendInv
<1> QED
  BY <1>1 DEF FrameOK

(* After the end has been sent the connection is not open any more.        *)
LEMMA ShutEnds == Shut <=> \E f \in wire : IsLast(f)
  BY Zenon DEF Shut, IsLast

LEMMA ShutNotOpen ==
  ASSUME SendInv PROVE Shut \/ Closed => conn.tcpstate \notin OpenStates
<1>1. Closed => Shut
  BY DEF SendInv
<1>2. \A f \in wire : IsLast(f) => conn.tcpstate \notin OpenStates
  BY DEF SendInv, FrameOK
<1> QED
  BY <1>1, <1>2, ShutEnds

(* What an acknowledgement of everything outstanding means.                *)
LEMMA AckMeans ==
  ASSUME IInv, SendInv, NEW s \in Segment, "ACK" \in s.flags => s.ackno \in PeerAcks,
         Acks(conn, s)
  PROVE  /\ conn.tcpstate = "ESTABLISHED" => Len(peer.heard) = wrote
         /\ conn.tcpstate \in Closing /\ Cares => Closed
<1> DEFINE e == IF peer.fin THEN 1 ELSE 0
<1>e. e \in {0, 1} /\ (e = 1 => Closed) /\ (~Closed => e = 0)
  <2>1. (Closed => e = 1) /\ (~Closed => e = 0)
    BY Zenon DEF Closed
  <2> HIDE DEF e
  <2> QED
    BY <2>1
<1> HIDE DEF e
<1>1. PICK i \in 1..(1 + Len(peer.heard) + e) : s.ackno = OwnSeq(i)
  <2>1. s.ackno \in PeerAcks
    BY DEF Acks
  <2>2. PeerAcks \subseteq {OwnSeq(i) : i \in 1..(1 + Len(peer.heard) + e)}
    BY Zenon DEF PeerAcks, e
  <2> QED
    BY <2>1, <2>2
<1>2. s.ackno = Plus(conn.snd_nxt, conn.len)
  BY DEF Acks
<1>3. /\ isn \in SeqNo /\ acked \in Nat /\ wrote \in Nat /\ wrote <= AppBytes
      /\ Len(peer.heard) \in Nat /\ acked <= Len(peer.heard) /\ Len(peer.heard) <= wrote
  <2>1. peer.heard \in Seq(Nat)
    BY DEF SendInv
  <2>2. Len(peer.heard) \in Nat
    BY <2>1, LenProperties
  <2> QED
    BY <2>2, Bounds DEF SendInv
<1>4. AppBytes \in Nat /\ SeqMod \in Nat /\ SeqMod > AppBytes + 2
  BY Bounds
<1>5. i \in 0..(SeqMod - 1)
  BY <1>e, <1>1, <1>3, <1>4
<1>6. CASE conn.tcpstate = "ESTABLISHED"
  <2>1. conn.snd_nxt = Plus(isn, acked + 1) /\ wrote = acked + conn.len /\ conn.len \in Nat
    BY <1>6, OneConn, Small DEF SendInv, OwnSeq, Conn
  <2>2. Plus(isn, wrote + 1) = Plus(isn, i)
    <3>1. Plus(Plus(isn, acked + 1), conn.len) = Plus(isn, (acked + 1) + conn.len)
      <4>1. acked + 1 \in Nat /\ (acked + 1) + conn.len < SeqMod
        BY <1>3, <1>4, <2>1
      <4> QED
        BY <1>3, <2>1, <4>1, PlusPlus
    <3>2. (acked + 1) + conn.len = wrote + 1
      BY <1>3, <2>1
    <3> QED
      BY <1>1, <1>2, <2>1, <3>1, <3>2 DEF OwnSeq
  <2>3. wrote + 1 \in 0..(SeqMod - 1)
    BY <1>3, <1>4
  <2>4. i = wrote + 1
    BY <1>3, <1>5, <2>2, <2>3, PlusInjective
  <2>5. ~Closed
    BY <1>6, ShutNotOpen DEF OpenStates
  <2> QED
    BY <1>e, <1>1, <1>3, <1>6, <2>4, <2>5 DEF Closing
<1>7. CASE conn.tcpstate \in Closing /\ Cares
  <2>1. conn.snd_nxt = Plus(isn, wrote + 1) /\ conn.len = 1
    <3>1. conn.len = 1
      BY <1>7, OneConn DEF Local, Closing
    <3> QED
      BY <1>7, <3>1 DEF SendInv, OwnSeq
  <2>2. Plus(isn, wrote + 2) = Plus(isn, i)
    <3>1. Plus(Plus(isn, wrote + 1), 1) = Plus(isn, (wrote + 1) + 1)
      BY <1>3, <1>4, PlusPlus
    <3>2. (wrote + 1) + 1 = wrote + 2
      BY <1>3
    <3> QED
      BY <1>1, <1>2, <2>1, <3>1, <3>2 DEF OwnSeq
  <2>3. wrote + 2 \in 0..(SeqMod - 1)
    BY <1>3, <1>4
  <2>4. i = wrote + 2
    BY <1>3, <1>5, <2>2, <2>3, PlusInjective
  <2> QED
    BY <1>e, <1>1, <1>3, <1>7, <2>4 DEF Closing
<1> QED
  BY <1>6, <1>7

-----------------------------------------------------------------------------
(* The sending side, kind by kind.                                         *)
LEMMA SendFacts ==
  ASSUME IInv, SendInv
  PROVE  /\ isn \in SeqNo /\ acked \in Nat /\ wrote \in Nat /\ wrote <= AppBytes
         /\ Len(peer.heard) \in Nat /\ acked <= Len(peer.heard) /\ Len(peer.heard) <= wrote
         /\ conn.len \in Nat
<1>1. peer.heard \in Seq(Nat)
  BY DEF SendInv
<1>2. Len(peer.heard) \in Nat
  BY <1>1, LenProperties
<1>3. conn.len \in Nat
  BY OneConn, Small DEF Conn
<1> QED
  BY <1>2, <1>3, Bounds DEF SendInv

LEMMA Successors ==
  ASSUME NEW a \in Nat, NEW b \in Nat, a <= b PROVE a + 1 \in Nat /\ a + 1 <= b + 1
  OBVIOUS

LEMMA RememberFacts ==
  ASSUME Remember
  PROVE  /\ isnN = IF conn.tcpstate = "CLOSED" /\ next.tcpstate = "SYN_RCVD"
                   THEN next.snd_nxt ELSE isn
         /\ ackedN = IF "ACKDATA" \in Told THEN acked + conn.len ELSE acked
         /\ wroteN = IF next.tcpstate = "ESTABLISHED" /\ ackedN + next.len > wrote
                     THEN ackedN + next.len ELSE wrote
         /\ wroteN <= AppBytes
         /\ wire' = wire \cup Frames
  BY DEF Remember, isnN, ackedN, wroteN, next

LEMMA SendNext ==
  ASSUME IInv, SendInv, UNCHANGED peer, wire' = wire \cup Frames,
         isnN \in SeqNo, ackedN \in Nat, wroteN \in 0..AppBytes,
         ackedN <= Len(peer.heard), wrote <= wroteN, Closed => wroteN = wrote,
         \A f \in wire \cup Frames : FrameOK(f, wroteN, next.tcpstate),
         next.tcpstate \in SynStates => next.snd_nxt = isnN /\ wroteN = 0,
         next.tcpstate = "ESTABLISHED" =>
           next.snd_nxt = Plus(isnN, ackedN + 1) /\ wroteN = ackedN + next.len,
         next.tcpstate \in Closing =>
           next.snd_nxt = Plus(isnN, ackedN + 1) /\ (Cares => ackedN = wroteN),
         next.tcpstate \in Waits /\ Cares => Closed
  PROVE  SendInv'
<1> DEFINE h == Len(peer.heard)
<1>1. h \in Nat /\ h <= wrote /\ wrote \in Nat /\ wroteN \in Nat
  BY SendFacts, Bounds
<1>2. h <= wroteN
  <2> HIDE DEF h
  <2> QED
    BY <1>1
<1>3. Closed => Shut' /\ (Cares => h = wroteN)
  <2>1. Closed => Shut /\ (Cares => h = wrote)
    BY DEF SendInv
  <2>2. Shut => Shut'
    BY Zenon DEF Shut
  <2> QED
    BY <2>1, <2>2
<1>4. isn' \in SeqNo /\ acked' \in Nat /\ wrote' \in 0..AppBytes
  BY DEF isnN, ackedN, wroteN
<1>5. peer' \in [syn: BOOLEAN, fin: BOOLEAN, heard: Seq(Nat)]
  BY DEF SendInv
<1>6. (conn.tcpstate \in SynStates => conn.snd_nxt = isn /\ wrote = 0)'
  BY DEF next, isnN, wroteN, conn
<1>7. (conn.tcpstate = "ESTABLISHED" =>
         conn.snd_nxt = OwnSeq(acked + 1) /\ wrote = acked + conn.len)'
  BY DEF next, isnN, wroteN, ackedN, conn, OwnSeq
<1>8. (conn.tcpstate \in Closing =>
         conn.snd_nxt = OwnSeq(acked + 1) /\ (Cares => acked = wrote))'
  BY DEF next, isnN, wroteN, ackedN, conn, OwnSeq, Cares
<1>9. (conn.tcpstate \in Waits /\ Cares => Closed)'
  BY DEF next, conn, Cares, Closed
<1>10. (\A f \in wire : FrameOK(f, wrote, conn.tcpstate))'
  BY DEF next, wroteN, conn, FrameOK, Cares, IsLast
<1>11. (peer.heard = Places(1, Len(peer.heard)))'
  BY DEF SendInv, Places
<1>12. (acked <= Len(peer.heard) /\ Len(peer.heard) <= wrote)'
  BY <1>2 DEF ackedN, wroteN, h
<1>13. (Closed => Shut /\ (Cares => Len(peer.heard) = wrote))'
  <2>1. Closed' <=> Closed
    BY DEF Closed
  <2> QED
    BY <1>3, <2>1 DEF wroteN, h, Cares
<1> QED
  BY <1>4, <1>5, <1>6, <1>7, <1>8, <1>9, <1>10, <1>11, <1>12, <1>13 DEF SendInv

LEMMA DiesSend == ASSUME IInv, SendInv, Remember, UNCHANGED peer, Dies PROVE SendInv'
<1>1. next.tcpstate = "CLOSED" /\ "ACKDATA" \notin Told /\ Frames = {}
  BY NoFrames DEF Final, Dies
<1>2. isnN = isn /\ ackedN = acked /\ wroteN = wrote /\ wire' = wire \cup Frames
  BY <1>1, RememberFacts
<1>3. wroteN \in 0..AppBytes
  BY <1>2, SendFacts, Bounds
<1>4. \A f \in wire \cup Frames : FrameOK(f, wroteN, next.tcpstate)
  BY <1>1, <1>2, <1>3, SendFacts, FramesStayOK DEF OpenStates, SynStates
<1> QED
  BY <1>1, <1>2, <1>3, <1>4, SendFacts, SendNext DEF SynStates, Closing, Waits

LEMMA FinishesSend ==
  ASSUME IInv, SendInv, Remember, UNCHANGED peer, NEW ok, Finishes(ok),
         ok /\ conn.tcpstate \in Closing /\ Cares => Closed
  PROVE  SendInv'
<1>1. /\ conn.tcpstate \in Closing \cup Waits /\ next.tcpstate \in {"CLOSING"} \cup Waits
      /\ "ACKDATA" \notin Told /\ Frames = {}
  BY NoFrames DEF Final, Finishes
<1>2. isnN = isn /\ ackedN = acked /\ wroteN = wrote /\ wire' = wire \cup Frames
  BY <1>1, RememberFacts DEF Closing, Waits
<1>3. wroteN \in 0..AppBytes
  BY <1>2, SendFacts, Bounds
<1>4. \A f \in wire \cup Frames : FrameOK(f, wroteN, next.tcpstate)
  BY <1>1, <1>2, <1>3, SendFacts, FramesStayOK DEF OpenStates, SynStates, Closing, Waits
<1>5. next.tcpstate \in Waits /\ Cares => Closed
  BY <1>1 DEF Final, Finishes, SendInv, Closing, Waits
<1>6. next.tcpstate \in Closing =>
        next.snd_nxt = Plus(isnN, ackedN + 1) /\ (Cares => ackedN = wroteN)
  BY <1>2 DEF Final, Finishes, SendInv, Closing, Waits, OwnSeq
<1> QED
  BY <1>1, <1>2, <1>3, <1>4, <1>5, <1>6, SendFacts, SendNext DEF SynStates, Waits

(* An open connection that begins to close: its FIN follows what it wrote. *)
LEMMA EndsSend ==
  ASSUME IInv, SendInv, Remember, UNCHANGED peer, conn.tcpstate \in OpenStates,
         next.tcpstate \in {"FIN_WAIT_1", "LAST_ACK"},
         ackedN \in Nat, ackedN <= Len(peer.heard),
         next.snd_nxt = Plus(isn, ackedN + 1), Emits(next.snd_nxt, 0, {"FIN"}),
         Cares => ackedN = wrote
  PROVE  SendInv'
<1>1. isnN = isn /\ wroteN = wrote /\ wire' = wire \cup Frames
  BY RememberFacts DEF OpenStates, SynStates
<1>2. wroteN \in 0..AppBytes /\ ackedN + 1 \in Nat /\ ackedN + 1 <= wroteN + 1
  <2>1. wroteN \in 0..AppBytes /\ wroteN \in Nat
    BY <1>1, SendFacts, Bounds
  <2>2. ackedN <= wroteN
    BY <1>1, <2>1, SendFacts
  <2> QED
    BY <2>1, <2>2, Successors, Zenon
<1>3. \A f \in wire : FrameOK(f, wroteN, next.tcpstate)
  <2>1. wrote <= wroteN
    BY <1>1, SendFacts
  <2> QED
    BY <1>2, <2>1, FramesStayOK
<1>4. next.tcpstate \notin OpenStates
  BY DEF OpenStates, SynStates
<1> DEFINE j == ackedN + 1
<1>5. \A f \in Frames : FrameOK(f, wroteN, next.tcpstate)
  <2>1. Emits(Plus(isnN, j), 0, {"FIN"}) /\ j \in Nat /\ j + 0 <= wroteN + 1
    BY <1>1, <1>2
  <2>2. Cares => j = wroteN + 1
    BY <1>1
  <2> HIDE DEF j
  <2> QED
    BY <1>1, <1>2, <1>4, <2>1, <2>2, SendFacts, FramesOK
<1>6. ~Closed
  BY ShutNotOpen
<1> QED
  BY <1>1, <1>2, <1>3, <1>4, <1>5, <1>6, SendFacts, SendNext
     DEF OpenStates, SynStates, Closing, Waits

LEMMA KeepsSend == ASSUME IInv, SendInv, Remember, UNCHANGED peer, Keeps PROVE SendInv'
<1>1. /\ next.tcpstate = conn.tcpstate /\ next.snd_nxt = conn.snd_nxt
      /\ next.len = conn.len /\ "ACKDATA" \notin Told
  BY DEF Keeps
<1>2. isnN = isn /\ ackedN = acked /\ wroteN = wrote /\ wire' = wire \cup Frames
  <2>1. isnN = isn /\ ackedN = acked /\ wire' = wire \cup Frames
    BY <1>1, RememberFacts
  <2>2. next.tcpstate = "ESTABLISHED" => wrote = ackedN + next.len
    BY <1>1, <2>1 DEF SendInv
  <2>3. wrote \in Nat /\ wroteN = IF next.tcpstate = "ESTABLISHED" /\ ackedN + next.len > wrote
                                  THEN ackedN + next.len ELSE wrote
    BY RememberFacts, SendFacts
  <2> QED
    BY <2>1, <2>2, <2>3
<1>3. wroteN \in 0..AppBytes
  BY <1>2, SendFacts, Bounds
<1>4. \A f \in wire : FrameOK(f, wroteN, next.tcpstate)
  <2>1. wrote <= wroteN
    BY <1>2, SendFacts
  <2>2. conn.tcpstate \notin OpenStates => wroteN = wrote /\ next.tcpstate \notin OpenStates
    BY <1>1, <1>2
  <2> QED
    BY <1>3, <2>1, <2>2, FramesStayOK
<1>5. \A f \in Frames : FrameOK(f, wroteN, next.tcpstate)
  <2> DEFINE n == IF conn.tcpstate = "ESTABLISHED" THEN conn.len ELSE 0
             j == IF conn.tcpstate \in SynStates THEN 0 ELSE ackedN + 1
  <2>1. Emits(conn.snd_nxt, n, Ctl(conn.tcpstate))
    BY DEF Keeps
  <2>2. CASE conn.tcpstate \in OpenStates \cup Closing
    <3>1. conn.snd_nxt = Plus(isnN, j)
      BY <1>2, <2>2, SendFacts, PlusZero DEF SendInv, OwnSeq, OpenStates, SynStates, Closing
    <3>2. /\ j \in Nat /\ n \in Nat /\ (n > 0 => j = ackedN + 1)
      <4>1. ackedN \in Nat /\ conn.len \in Nat
        BY <1>2, SendFacts
      <4> QED
        BY <4>1 DEF SynStates
    <3>3. j + n <= wroteN + 1
      <4>1. CASE conn.tcpstate = "ESTABLISHED"
        <5>1. /\ j = acked + 1 /\ n = conn.len /\ wroteN = acked + conn.len
          BY <1>2, <4>1 DEF SynStates, SendInv
        <5>2. acked \in Nat /\ conn.len \in Nat
          BY SendFacts
        <5> HIDE DEF j, n
        <5> QED
          BY <5>1, <5>2
      <4>2. CASE conn.tcpstate # "ESTABLISHED"
        <5>1. n = 0 /\ (j = 0 \/ j = acked + 1)
          BY <1>2, <4>2
        <5>2. acked \in Nat /\ wroteN \in Nat /\ acked <= wroteN
          BY <1>2, SendFacts
        <5> HIDE DEF j, n
        <5> QED
          BY <5>1, <5>2
      <4> QED
        BY <4>1, <4>2
    <3>4. "FIN" \in Ctl(conn.tcpstate) =>
            conn.tcpstate \notin OpenStates /\ (Cares => j = wroteN + 1)
      BY <1>2 DEF Ctl, OpenStates, SynStates, Closing, SendInv
    <3> HIDE DEF j, n
    <3> QED
      BY <1>1, <1>2, <1>3, <2>1, <3>1, <3>2, <3>3, <3>4, SendFacts, FramesOK
  <2>3. CASE conn.tcpstate \notin OpenStates \cup Closing
    <3>1. n = 0 /\ Ctl(conn.tcpstate) = {}
      BY <2>3 DEF Ctl, OpenStates, SynStates, Closing
    <3>2. Frames = {}
      BY <2>1, <3>1, NoFrames DEF Emits, SendsNone, Text
    <3> QED
      BY <3>2
  <2> QED
    BY <2>2, <2>3
<1>6. next.tcpstate \in SynStates => next.snd_nxt = isnN /\ wroteN = 0
  BY <1>1, <1>2 DEF SendInv
<1>7. next.tcpstate = "ESTABLISHED" =>
        next.snd_nxt = Plus(isnN, ackedN + 1) /\ wroteN = ackedN + next.len
  BY <1>1, <1>2 DEF SendInv, OwnSeq
<1>8. next.tcpstate \in Closing =>
        next.snd_nxt = Plus(isnN, ackedN + 1) /\ (Cares => ackedN = wroteN)
  BY <1>1, <1>2 DEF SendInv, OwnSeq
<1>9. next.tcpstate \in Waits /\ Cares => Closed
  BY <1>1, <1>2 DEF SendInv
<1> QED
  BY <1>2, <1>3, <1>4, <1>5, <1>6, <1>7, <1>8, <1>9, SendFacts, SendNext

(* The reply of an application to which y is the connection.               *)
LEMMA RepliedSend ==
  ASSUME IInv, SendInv, Remember, UNCHANGED peer, conn.tcpstate \in OpenStates,
         NEW y \in Conn, Answered(y), y.snd_nxt = Plus(isn, ackedN + 1),
         ackedN \in Nat, ackedN <= Len(peer.heard), wrote = ackedN + y.len,
         Cares /\ (\E a \in appcall' : a.act = "close") => y.len = 0
  PROVE  SendInv'
<1>0. y.len \in Nat /\ ~Closed
  BY Small, ShutNotOpen DEF Conn
<1>1. CASE next.tcpstate = "CLOSED" /\ SendsNone
  <2>1. isnN = isn /\ wroteN = wrote /\ wire' = wire \cup Frames /\ Frames = {}
    BY <1>1, RememberFacts, NoFrames
  <2>2. wroteN \in 0..AppBytes
    BY <2>1, SendFacts, Bounds
  <2>3. \A f \in wire \cup Frames : FrameOK(f, wroteN, next.tcpstate)
    BY <1>1, <2>1, <2>2, SendFacts, FramesStayOK DEF OpenStates, SynStates
  <2> QED
    BY <1>0, <1>1, <2>1, <2>2, <2>3, SendFacts, SendNext DEF SynStates, Closing, Waits
<1>2. CASE /\ next.tcpstate = "FIN_WAIT_1" /\ next.snd_nxt = y.snd_nxt
           /\ Emits(y.snd_nxt, 0, {"FIN"}) /\ \E a \in appcall' : a.act = "close"
  <2>1. Cares => ackedN = wrote
    BY <1>2
  <2> QED
    BY <1>2, <2>1, EndsSend
<1>3. CASE /\ next.tcpstate = "ESTABLISHED" /\ next.snd_nxt = y.snd_nxt
           /\ next.len \in Nat /\ (y.len # 0 => next.len = y.len)
           /\ Emits(y.snd_nxt, next.len, {})
  <2> DEFINE j == ackedN + 1
             n == next.len
  <2>1. isnN = isn /\ wire' = wire \cup Frames
    BY <1>3, RememberFacts
  <2>2. wroteN = ackedN + n
    <3>1. wroteN = IF ackedN + n > wrote THEN ackedN + n ELSE wrote
      BY <1>3, RememberFacts
    <3>2. n \in Nat /\ (y.len # 0 => n = y.len)
      BY <1>3
    <3> HIDE DEF n
    <3> QED
      BY <1>0, <3>1, <3>2
  <2>3. wroteN \in 0..AppBytes /\ wrote <= wroteN
    <3>1. n \in Nat /\ wroteN <= AppBytes /\ wrote \in Nat /\ (y.len # 0 => n = y.len)
      BY <1>3, RememberFacts, SendFacts
    <3> HIDE DEF n
    <3> QED
      BY <1>0, <2>2, <3>1, Bounds
  <2>4. \A f \in wire : FrameOK(f, wroteN, next.tcpstate)
    BY <2>3, FramesStayOK
  <2>5. \A f \in Frames : FrameOK(f, wroteN, next.tcpstate)
    <3> DEFINE c == {}
               st == next.tcpstate
    <3>1. Emits(Plus(isnN, j), n, c) /\ n \in Nat
      BY <1>3, <2>1
    <3>2. isnN \in SeqNo
      BY <2>1, SendFacts
    <3>3. /\ n > 0 => j = ackedN + 1
          /\ "FIN" \in c => st \notin OpenStates /\ (Cares => j = wroteN + 1)
      OBVIOUS
    <3> HIDE DEF n, c, st
    <3>4. j \in Nat /\ j + n <= wroteN + 1
      BY <2>2, <3>1
    <3> HIDE DEF j
    <3>5. \A f \in Frames : FrameOK(f, wroteN, st)
      BY <2>3, <3>1, <3>2, <3>3, <3>4, FramesOK
    <3> QED
      BY <3>5 DEF st
  <2>6. next.snd_nxt = Plus(isnN, ackedN + 1) /\ wroteN = ackedN + next.len
    BY <1>3, <2>1, <2>2
  <2> QED
    BY <1>0, <1>3, <2>1, <2>3, <2>4, <2>5, <2>6, SendFacts, SendNext
       DEF SynStates, Closing, Waits
<1> QED
  BY <1>1, <1>2, <1>3 DEF Answered

(* Where the acknowledgement step leaves the application.                  *)
LEMMA AckAccounts ==
  ASSUME IInv, SendInv, Remember, conn.tcpstate = "ESTABLISHED",
         NEW ok, NEW y \in Conn, AckStep(ok, y), ok => Len(peer.heard) = wrote
  PROVE  /\ ackedN \in Nat /\ ackedN <= Len(peer.heard)
         /\ y.snd_nxt = Plus(isn, ackedN + 1) /\ wrote = ackedN + y.len
<1>1. /\ conn.snd_nxt = Plus(isn, acked + 1) /\ wrote = acked + conn.len
      /\ acked \in Nat /\ conn.len \in Nat /\ wrote \in Nat /\ wrote <= AppBytes
      /\ isn \in SeqNo /\ acked <= Len(peer.heard) /\ Len(peer.heard) \in Nat
  BY SendFacts DEF SendInv, OwnSeq
<1>2. CASE ok
  <2>1. /\ ackedN = acked + conn.len /\ y.len = 0
        /\ y.snd_nxt = Plus(Plus(isn, acked + 1), conn.len)
    BY <1>1, <1>2, RememberFacts DEF AckStep
  <2>2. (acked + 1) + conn.len < SeqMod /\ (acked + 1) + conn.len = ackedN + 1
    BY <1>1, <2>1, Bounds
  <2>3. y.snd_nxt = Plus(isn, (acked + 1) + conn.len)
    BY <1>1, <2>1, <2>2, PlusPlus
  <2>4. ackedN = wrote /\ wrote = Len(peer.heard)
    BY <1>1, <1>2, <2>1
  <2> QED
    BY <1>1, <2>1, <2>2, <2>3, <2>4
<1>3. CASE ~ok
  <2>1. ackedN = acked /\ y.len = conn.len /\ y.snd_nxt = conn.snd_nxt
    BY <1>3, RememberFacts DEF AckStep
  <2> QED
    BY <1>1, <2>1
<1> QED
  BY <1>2, <1>3

LEMMA ExchangesSend ==
  ASSUME IInv, SendInv, Remember, Closes, UNCHANGED peer, NEW ok, NEW m, Exchanges(ok, m),
         ok => Len(peer.heard) = wrote
  PROVE  SendInv'
<1>1. PICK y \in Conn : AckStep(ok, y) /\ Answered(y)
  BY DEF Exchanges
<1>2. conn.tcpstate = "ESTABLISHED" /\ "CONNECTED" \notin Told
  BY DEF Exchanges
<1>3. /\ ackedN \in Nat /\ ackedN <= Len(peer.heard)
      /\ y.snd_nxt = Plus(isn, ackedN + 1) /\ wrote = ackedN + y.len
  BY <1>1, <1>2, AckAccounts
<1>4. Cares /\ (\E a \in appcall' : a.act = "close") => y.len = 0
  <2>1. Cares /\ (\E a \in appcall' : a.act = "close") =>
          conn.len = 0 \/ "ACKDATA" \in Told
    BY <1>2 DEF Closes, Cares
  <2> QED
    BY <1>1, <2>1 DEF AckStep
<1> QED
  BY <1>1, <1>2, <1>3, <1>4, RepliedSend DEF OpenStates

LEMMA PeerClosesSend ==
  ASSUME IInv, SendInv, Remember, UNCHANGED peer, NEW ok, PeerCloses(ok),
         ok => Len(peer.heard) = wrote
  PROVE  SendInv'
<1>1. PICK y \in Conn : AckStep(ok, y) /\ y.len = 0 /\ next.snd_nxt = y.snd_nxt
  BY DEF Final, PeerCloses
<1>2. /\ conn.tcpstate = "ESTABLISHED" /\ next.tcpstate = "LAST_ACK"
      /\ Emits(next.snd_nxt, 0, {"FIN"})
  BY DEF Final, PeerCloses
<1>3. /\ ackedN \in Nat /\ ackedN <= Len(peer.heard)
      /\ y.snd_nxt = Plus(isn, ackedN + 1) /\ wrote = ackedN + y.len
  BY <1>1, <1>2, AckAccounts
<1>4. ackedN = wrote
  BY <1>1, <1>3
<1> QED
  BY <1>1, <1>2, <1>3, <1>4, EndsSend DEF OpenStates

LEMMA OpenedSend ==
  ASSUME IInv, SendInv, Remember, Closes, UNCHANGED peer, NEW s, Opened(s)
  PROVE  SendInv'
<1>1. PICK y \in Conn : Answered(y) /\ y.snd_nxt = Plus(conn.snd_nxt, 1) /\ y.len = 0
  BY DEF Opened
<1>2. conn.tcpstate \in SynStates /\ "ACKDATA" \notin Told
  BY DEF Opened
<1>3. conn.snd_nxt = isn /\ wrote = 0 /\ acked = 0 /\ Len(peer.heard) = 0
  <2>1. conn.snd_nxt = isn /\ wrote = 0
    BY <1>2 DEF SendInv
  <2> QED
    BY <2>1, SendFacts
<1>4. ackedN = 0
  BY <1>2, <1>3, RememberFacts
<1>5. ackedN \in Nat /\ ackedN <= Len(peer.heard) /\ wrote = ackedN + y.len
  BY <1>1, <1>3, <1>4
<1>6. y.snd_nxt = Plus(isn, ackedN + 1)
  BY <1>1, <1>3, <1>4
<1> QED
  BY <1>1, <1>2, <1>5, <1>6, RepliedSend DEF OpenStates

LEMMA StartsSend ==
  ASSUME IInv, SendInv, OpenInv, Remember, UNCHANGED peer, NEW s, Starts(s),
         opener = "none"
  PROVE  SendInv'
<1>1. /\ conn.tcpstate = "CLOSED" /\ wire = {} /\ wrote = 0
      /\ next.tcpstate = "SYN_RCVD" /\ next.snd_nxt = iss /\ Told = {}
  BY DEF OpenInv, Starts
<1>2. acked = 0 /\ Len(peer.heard) = 0 /\ ~Closed
  <2>1. acked = 0 /\ Len(peer.heard) = 0
    BY <1>1, SendFacts
  <2>2. ~Shut
    BY <1>1 DEF Shut
  <2> QED
    BY <2>1, <2>2 DEF SendInv
<1>3. isnN = iss /\ ackedN = 0 /\ wroteN = 0 /\ wire' = wire \cup Frames
  BY <1>1, <1>2, RememberFacts
<1>4. isnN \in SeqNo /\ wroteN \in 0..AppBytes /\ ackedN \in Nat
  BY <1>3, Bounds DEF IInv
<1>5. \A f \in Frames : FrameOK(f, wroteN, next.tcpstate)
  <2> DEFINE c == {"SYN"}
             st == next.tcpstate
  <2>1. Emits(Plus(isnN, 0), 0, c)
    BY <1>3, <1>4, PlusZero DEF Starts
  <2>2. "FIN" \in c => st \notin OpenStates /\ (Cares => 0 = wroteN + 1)
    OBVIOUS
  <2>3. 0 + 0 <= wroteN + 1
    BY <1>3
  <2> HIDE DEF c, st
  <2>4. \A f \in Frames : FrameOK(f, wroteN, st)
    BY <1>4, <2>1, <2>2, <2>3, FramesOK
  <2> QED
    BY <2>4 DEF st
<1>6. ackedN <= Len(peer.heard) /\ wrote <= wroteN
  BY <1>1, <1>2, <1>3
<1> QED
  BY <1>1, <1>2, <1>3, <1>4, <1>5, <1>6, SendNext DEF SynStates, Closing, Waits

(* The user opens the connection: nothing has been sent or written.        *)
LEMMA ConnectSend ==
  ASSUME IInv, SendInv, OpenInv, UNCHANGED <<acked, wrote, wire, peer>>, opener = "none",
         next.tcpstate = "SYN_SENT", next.snd_nxt = iss, isn' = iss
  PROVE  SendInv'
<1>1. conn.tcpstate = "CLOSED" /\ wire = {} /\ wrote = 0
  BY DEF OpenInv
<1>2. acked = 0 /\ Len(peer.heard) = 0 /\ ~Closed
  <2>1. acked = 0 /\ Len(peer.heard) = 0
    BY <1>1, SendFacts
  <2>2. ~Shut
    BY <1>1 DEF Shut
  <2> QED
    BY <2>1, <2>2 DEF SendInv
<1>3. isn' \in SeqNo /\ acked' \in Nat /\ wrote' \in 0..AppBytes
  BY DEF IInv, SendInv
<1>4. (conn.tcpstate \in SynStates => conn.snd_nxt = isn /\ wrote = 0)'
  BY <1>1 DEF next, conn
<1>5. /\ (conn.tcpstate = "ESTABLISHED" =>
            conn.snd_nxt = OwnSeq(acked + 1) /\ wrote = acked + conn.len)'
      /\ (conn.tcpstate \in Closing =>
            conn.snd_nxt = OwnSeq(acked + 1) /\ (Cares => acked = wrote))'
      /\ (conn.tcpstate \in Waits /\ Cares => Closed)'
  BY DEF next, conn, Closing, Waits
<1>6. (\A f \in wire : FrameOK(f, wrote, conn.tcpstate))'
  BY <1>1
<1>7. /\ (peer.heard = Places(1, Len(peer.heard)))'
      /\ (acked <= Len(peer.heard) /\ Len(peer.heard) <= wrote)'
  BY DEF SendInv, Places
<1>8. (Closed => Shut /\ (Cares => Len(peer.heard) = wrote))'
  BY <1>2 DEF Closed
<1>9. peer' \in [syn: BOOLEAN, fin: BOOLEAN, heard: Seq(Nat)]
  BY DEF SendInv
<1> QED
  BY <1>3, <1>4, <1>5, <1>6, <1>7, <1>8, <1>9 DEF SendInv

(* A step that touches nothing the sending side is about.                  *)
LEMMA IdleSend ==
  ASSUME SendInv, UNCHANGED <<uip_conns, isn, acked, wrote, wire, peer>> PROVE SendInv'
<1>1. /\ isn' = isn /\ acked' = acked /\ wrote' = wrote /\ wire' = wire /\ peer' = peer
      /\ conn' = conn
  BY DEF conn
<1>2. Shut' = Shut
  BY <1>1 DEF Shut
<1> QED
  BY <1>1, <1>2 DEF SendInv, OwnSeq, FrameOK, Places, Cares, Closed, IsLast

(* The peer takes what adjoins of a frame: its own stream stays the        *)
(* beginning of ours.                                                      *)
LEMMA HeardGrows ==
  ASSUME NEW h \in Nat, NEW at \in Nat, NEW n \in Nat, at <= h + 1, h + 1 <= at + n - 1
  PROVE  /\ SubSeq(Places(at, n), (h + 1) - at + 1, n) = Places(h + 1, (at + n - 1) - h)
         /\ Places(1, h) \o Places(h + 1, (at + n - 1) - h) = Places(1, at + n - 1)
<1> DEFINE m == (at + n - 1) - h
           i == (h + 1) - at + 1
           p == Places(at, n)
           q == Places(h + 1, m)
           s == SubSeq(p, i, n)
<1>1. /\ m \in Nat /\ i \in Nat /\ i \in 1..n /\ h + 1 \in Nat /\ n - i + 1 = m
      /\ h + m = at + n - 1
  OBVIOUS
<1>2. p \in Seq(Nat) /\ Len(p) = n /\ \A x \in 1..n : p[x] = at + x - 1
  BY PlacesAre
<1>3. q \in Seq(Nat) /\ Len(q) = m /\ \A x \in 1..m : q[x] = (h + 1) + x - 1
  <2> DEFINE b == h + 1
  <2>1. b \in Nat
    OBVIOUS
  <2> HIDE DEF b, m
  <2>2. Places(b, m) \in Seq(Nat) /\ Len(Places(b, m)) = m
        /\ \A x \in 1..m : Places(b, m)[x] = b + x - 1
    BY <1>1, <2>1, PlacesAre
  <2> QED
    BY <2>2 DEF b
<1> HIDE DEF p, q
<1>4. s \in Seq(Nat) /\ Len(s) = m /\ \A x \in 1..m : s[x] = p[i + x - 1]
  <2>1. i \in 1..(n + 1) /\ n \in 0..Len(p)
    BY <1>1, <1>2
  <2> HIDE DEF i
  <2>2. /\ s \in Seq(Nat)
        /\ Len(s) = IF i <= n THEN n - i + 1 ELSE 0
        /\ \A x \in 1..(n - i + 1) : s[x] = p[i + x - 1]
    BY <1>1, <1>2, <2>1, SubSeqProperties
  <2> HIDE DEF m
  <2> QED
    BY <1>1, <2>2
<1>5. ASSUME NEW x \in 1..m PROVE s[x] = q[x]
  <2>1. i + x - 1 \in 1..n /\ at + (i + x - 1) - 1 = (h + 1) + x - 1
    BY <1>1
  <2> QED
    BY <1>2, <1>3, <1>4, <2>1
<1>6. s = q
  <2> HIDE DEF s, m
  <2> QED
    BY <1>3, <1>4, <1>5, SeqEqual
<1>7. Places(1, h) \o Places(h + 1, m) = Places(1, h + m)
  <2> HIDE DEF m
  <2> QED
    BY <1>1, PlacesJoin
<1> QED
  BY <1>1, <1>6, <1>7 DEF p, q

LEMMA HearsNext ==
  ASSUME SendInv, UNCHANGED <<vars, history>>, NEW q, peer' = q,
         q \in [syn: BOOLEAN, fin: BOOLEAN, heard: Seq(Nat)],
         NEW n, Len(q.heard) = n, q.heard = Places(1, n), acked <= n, n <= wrote,
         Closed => q.fin = TRUE,
         q.fin = TRUE => Shut /\ (Cares => n = wrote)
  PROVE  SendInv'
<1>1. /\ isn' = isn /\ acked' = acked /\ wrote' = wrote /\ wire' = wire
      /\ conn' = conn
  BY DEF vars, history, conn
<1>2. Shut' = Shut
  BY <1>1 DEF Shut
<1>3. Closed' <=> q.fin = TRUE
  BY Zenon DEF Closed
<1>4. (Closed => Shut /\ (Cares => Len(peer.heard) = wrote))'
  BY <1>1, <1>2, <1>3 DEF Cares
<1>5. (/\ peer.heard = Places(1, Len(peer.heard))
       /\ acked <= Len(peer.heard) /\ Len(peer.heard) <= wrote)'
  BY <1>1 DEF Places
<1>6. (conn.tcpstate \in Waits /\ Cares => Closed)'
  BY <1>1, <1>3 DEF Cares, SendInv
<1>7. (\A f \in wire : FrameOK(f, wrote, conn.tcpstate))'
  BY <1>1 DEF SendInv, FrameOK, Places, Cares, IsLast
<1>8. peer' \in [syn: BOOLEAN, fin: BOOLEAN, heard: Seq(Nat)]
  OBVIOUS
<1> QED
  BY <1>1, <1>4, <1>5, <1>6, <1>7, <1>8 DEF SendInv, OwnSeq, Cares

LEMMA HearsSend ==
  ASSUME IInv, SendInv, NEW f \in wire, PeerHears(f)
  PROVE  SendInv' /\ Len(peer.heard) <= Len(peer'.heard)
<1> DEFINE h == Len(peer.heard)
           k == Len(f.bytes)
<1>1. /\ FrameOK(f, wrote, conn.tcpstate) /\ ~Closed /\ UNCHANGED <<vars, history>>
      /\ peer \in [syn: BOOLEAN, fin: BOOLEAN, heard: Seq(Nat)]
      /\ peer.heard = Places(1, h)
  BY DEF SendInv, PeerHears, Closed
<1>2. /\ f.at \in Nat /\ k \in Nat /\ f.bytes = Places(f.at, k) /\ f.at + k <= wrote + 1
      /\ IsLast(f) => (Cares => f.at = wrote + 1)
  BY <1>1 DEF FrameOK
<1>3. /\ acked \in Nat /\ wrote \in Nat /\ h \in Nat /\ acked <= h /\ h <= wrote
  BY SendFacts
<1>4. CASE f.syn /\ ~peer.syn /\ peer' = [peer EXCEPT !.syn = TRUE]
  <2> DEFINE q == [peer EXCEPT !.syn = TRUE]
  <2>1. q \in [syn: BOOLEAN, fin: BOOLEAN, heard: Seq(Nat)]
    BY <1>1
  <2>2. q.heard = peer.heard /\ q.fin = peer.fin
    BY <1>1, Zenon
  <2>3. ~(q.fin = TRUE)
    BY <1>1, <2>2, Zenon DEF Closed
  <2>4. Len(q.heard) = h /\ q.heard = Places(1, h) /\ peer' = q
    BY <1>1, <1>4, <2>2, Zenon
  <2>5. Len(peer.heard) <= Len(peer'.heard)
    BY <1>3, <2>4
  <2> HIDE DEF q, h
  <2> QED
    BY <1>1, <1>3, <2>1, <2>3, <2>4, <2>5, HearsNext
<1>5. CASE /\ f.at <= h + 1 /\ h + 1 <= f.at + k - 1
           /\ peer' = [peer EXCEPT !.heard = @ \o SubSeq(f.bytes, (h + 1) - f.at + 1, k)]
  <2> DEFINE a == f.at
             n == a + k - 1
             q == [peer EXCEPT !.heard = Places(1, n)]
  <2>1. /\ SubSeq(Places(a, k), (h + 1) - a + 1, k) = Places(h + 1, n - h)
        /\ Places(1, h) \o Places(h + 1, n - h) = Places(1, n)
    <3>1. a \in Nat /\ k \in Nat /\ h \in Nat /\ a <= h + 1 /\ h + 1 <= a + k - 1
      BY <1>2, <1>3, <1>5
    <3> HIDE DEF a, h, k
    <3> QED
      BY <3>1, HeardGrows, Zenon
  <2>2. SubSeq(f.bytes, (h + 1) - f.at + 1, k) = Places(h + 1, n - h)
    BY <1>2, <2>1, Zenon
  <2>3. peer' = q
    BY <1>1, <1>5, <2>1, <2>2, Zenon
  <2>4. n \in Nat /\ acked <= n /\ n <= wrote
    <3>1. /\ a \in Nat /\ k \in Nat /\ a + k <= wrote + 1 /\ h + 1 <= a + k - 1
      BY <1>2, <1>5
    <3> HIDE DEF a, h, k
    <3> QED
      BY <1>3, <3>1
  <2>5. Places(1, n) \in Seq(Nat) /\ Len(Places(1, n)) = n
    <3> HIDE DEF n
    <3> QED
      BY <2>4, PlacesAre
  <2>6. q \in [syn: BOOLEAN, fin: BOOLEAN, heard: Seq(Nat)]
    <3> HIDE DEF n
    <3> QED
      BY <1>1, <2>5
  <2>7. q.heard = Places(1, n) /\ q.fin = peer.fin
    BY <1>1, Zenon
  <2>8. ~(q.fin = TRUE)
    BY <1>1, <2>7, Zenon DEF Closed
  <2>9. Len(q.heard) = n
    BY <2>5, <2>7
  <2>10. Len(peer.heard) <= Len(peer'.heard)
    <3>1. h <= n
      <4>1. h + 1 <= a + k - 1 /\ h \in Nat /\ a \in Nat /\ k \in Nat
        BY <1>2, <1>3, <1>5
      <4> HIDE DEF h, a, k
      <4> QED
        BY <4>1
    <3> HIDE DEF q, n
    <3> QED
      BY <2>3, <2>9, <3>1
  <2> HIDE DEF q, n
  <2> QED
    BY <1>1, <2>3, <2>4, <2>6, <2>7, <2>8, <2>9, <2>10, HearsNext
<1>6. CASE f.fin /\ f.at = h + 1 /\ peer' = [peer EXCEPT !.fin = TRUE]
  <2> DEFINE q == [peer EXCEPT !.fin = TRUE]
  <2>1. q \in [syn: BOOLEAN, fin: BOOLEAN, heard: Seq(Nat)]
    BY <1>1
  <2>2. q.heard = peer.heard /\ q.fin = TRUE
    BY <1>1, Zenon
  <2>3. Len(q.heard) = h /\ q.heard = Places(1, h) /\ peer' = q
    BY <1>1, <1>6, <2>2, Zenon
  <2>4. Shut
    BY <1>6, Zenon DEF Shut
  <2>5. Cares => h = wrote
    <3>1. IsLast(f)
      BY <1>6, Zenon DEF IsLast
    <3> HIDE DEF h
    <3> QED
      BY <1>2, <1>3, <1>6, <3>1
  <2>6. Len(peer.heard) <= Len(peer'.heard)
    BY <1>3, <2>3
  <2> HIDE DEF q, h
  <2> QED
    BY <1>1, <1>3, <2>1, <2>2, <2>3, <2>4, <2>5, <2>6, HearsNext
<1>7. \/ f.syn /\ ~peer.syn /\ peer' = [peer EXCEPT !.syn = TRUE]
      \/ /\ f.at <= h + 1 /\ h + 1 <= f.at + k - 1
         /\ peer' = [peer EXCEPT !.heard = @ \o SubSeq(f.bytes, (h + 1) - f.at + 1, k)]
      \/ f.fin /\ f.at = h + 1 /\ peer' = [peer EXCEPT !.fin = TRUE]
  BY Zenon DEF PeerHears
<1> QED
  BY <1>4, <1>5, <1>6, <1>7, Zenon

-----------------------------------------------------------------------------
(* What arrives: a segment of the peer, at its place in the peer's stream. *)
Carries(s, at) ==
  /\ s.seqno = PeerSeq(at)
  /\ "ACK" \in s.flags => s.ackno \in PeerAcks
  /\ s.len > 0 => at > 0 /\ at + s.len <= PeerBytes + 1
  /\ "SYN" \in s.flags => at = 0 /\ s.len = 0
  /\ "FIN" \in s.flags => at + s.len = PeerBytes + 1
  /\ Urgps = {} => Urgent(s) = 0
  /\ s.wnd \in Wnds /\ ("SYN" \in s.flags => s.mss \in MssOpts)

LEMMA SegFields ==
  ASSUME NEW p \in Peers, NEW lp \in Ports, NEW fl \in SUBSET Flags, NEW at \in Nat,
         NEW ack \in SeqNo, NEW n \in Nat, NEW w \in Nat, NEW m \in Nat, NEW u \in Nat,
         u <= n
  PROVE  LET s == Seg(p, lp, fl, at, ack, n, w, m, u)
         IN /\ s \in Arriving /\ s.seqno = PeerSeq(at) /\ s.flags = fl
            /\ s.ackno = ack /\ s.len = n /\ s.urgp = u /\ s.wnd = w /\ s.mss = m
<1>1. PeerIss \in Nat
  BY Bounds DEF SeqNo
<1>2. PeerSeq(at) \in SeqNo
  BY <1>1, PlusType DEF PeerSeq
<1> QED
  BY <1>2 DEF Seg, Segment, Arriving

LEMMA AcksAreSeqNo == ASSUME SendInv PROVE PeerAcks \subseteq SeqNo
<1> DEFINE e == IF peer.fin THEN 1 ELSE 0
<1>1. isn \in Nat
  BY Bounds DEF SendInv, SeqNo
<1>2. Len(peer.heard) \in Nat
  <2>1. peer.heard \in Seq(Nat)
    BY DEF SendInv
  <2> QED
    BY <2>1, LenProperties
<1>3. e \in Nat
  <2>1. e = 0 \/ e = 1
    BY Zenon
  <2> HIDE DEF e
  <2> QED
    BY <2>1
<1>4. PeerAcks \subseteq {OwnSeq(i) : i \in 1..(1 + Len(peer.heard) + e)}
  BY Zenon DEF PeerAcks, e
<1> HIDE DEF e
<1>5. \A i \in 1..(1 + Len(peer.heard) + e) : i \in Nat
  BY <1>2, <1>3
<1>6. \A i \in Nat : OwnSeq(i) \in SeqNo
  BY <1>1, PlusType DEF OwnSeq
<1> QED
  BY <1>4, <1>5, <1>6

(* Every delivery of the peer's segments, and whose connection it makes.   *)
Delivery(s, at) ==
  /\ Carries(s, at) /\ Deliver(s, at)
  /\ Starts(s) => opener = "none" /\ opener' = "peer"
  /\ opener' \in {opener, "peer"}

LEMMA SynDelivery ==
  ASSUME DeliverSyn
  PROVE  \E s \in Arriving, i \in 0..(PeerBytes + 2) : Delivery(s, i) /\ s.flags = {"SYN"}
<1>1. PICK p \in Peers, lp \in Ports, w \in Wnds, m \in MssOpts :
        LET s == Seg(p, lp, {"SYN"}, 0, 0, 0, w, m, 0)
        IN /\ opener = "none" \/ (opener = "peer" /\ Matches(conn, s))
           /\ Deliver(s, 0)
           /\ opener' = IF next.tcpstate = "SYN_RCVD" THEN "peer" ELSE opener
  BY DEF DeliverSyn, next
<1> DEFINE s == Seg(p, lp, {"SYN"}, 0, 0, 0, w, m, 0)
<1>2. /\ s \in Arriving /\ s.seqno = PeerSeq(0) /\ s.flags = {"SYN"} /\ s.len = 0
      /\ s.wnd \in Wnds /\ s.mss \in MssOpts
  <2>1. w \in Nat /\ m \in Nat
    BY LinkAssumption
  <2>2. 0 \in SeqNo /\ 0 \in Nat /\ 0 <= 0
    BY SeqAssumption DEF SeqNo
  <2>3. {"SYN"} \in SUBSET Flags
    BY DEF Flags
  <2> QED
    BY <2>1, <2>2, <2>3, SegFields
<1> HIDE DEF s
<1>3. Carries(s, 0)
  BY <1>2 DEF Carries, Urgent
<1>4. Starts(s) => opener = "none" /\ opener' = "peer"
  <2>1. NotFound(s) => ~Matches(conn, s)
    BY LinkAssumption DEF NotFound, Conns, conn
  <2> QED
    BY <1>1, <2>1 DEF Starts, s
<1>5. Deliver(s, 0) /\ opener' \in {opener, "peer"}
  BY <1>1 DEF s
<1>6. 0 \in 0..(PeerBytes + 2)
  BY Bounds
<1> QED
  BY <1>2, <1>3, <1>4, <1>5, <1>6 DEF Delivery

LEMMA OtherDelivery ==
  ASSUME SendInv, NEW p \in Peers, NEW lp \in Ports, NEW fl \in SUBSET Flags,
         NEW at \in 0..(PeerBytes + 2), NEW ack \in SeqNo, NEW n \in Nat,
         NEW w \in Wnds, NEW m \in Nat, NEW u \in Nat, u <= n,
         "ACK" \in fl => ack \in PeerAcks,
         n > 0 => at > 0 /\ at + n <= PeerBytes + 1,
         "SYN" \in fl => at = 0 /\ n = 0 /\ "ACK" \in fl,
         "FIN" \in fl => at + n = PeerBytes + 1,
         "URG" \in fl => Urgps # {}, "SYN" \in fl => m \in MssOpts,
         UNCHANGED opener, Deliver(Seg(p, lp, fl, at, ack, n, w, m, u), at)
  PROVE  \E s \in Arriving, i \in 0..(PeerBytes + 2) : Delivery(s, i) /\ s.flags = fl
<1> DEFINE s == Seg(p, lp, fl, at, ack, n, w, m, u)
<1>1. at \in Nat /\ w \in Nat
  BY Bounds, LinkAssumption
<1>2. /\ s \in Arriving /\ s.seqno = PeerSeq(at) /\ s.flags = fl
      /\ s.ackno = ack /\ s.len = n /\ s.wnd = w /\ s.mss = m
  BY <1>1, SegFields
<1> HIDE DEF s
<1>3. Carries(s, at)
  BY <1>2 DEF Carries, Urgent
<1>4. ~Starts(s)
  <2>1. fl # {"SYN"}
    OBVIOUS
  <2> QED
    BY <1>2, <2>1 DEF Starts, Opens
<1> QED
  BY <1>2, <1>3, <1>4 DEF Delivery, s

LEMMA SynAckDelivers ==
  ASSUME SendInv, DeliverSynAck
  PROVE  \E s \in Arriving, at \in 0..(PeerBytes + 2) : Delivery(s, at)
<1>0. {"SYN", "ACK"} \in SUBSET Flags /\ 0 \in Nat /\ 0 \in 0..(PeerBytes + 2)
  BY Bounds DEF Flags
<1>1. PICK p \in Peers, lp \in Ports, w \in Wnds, m \in MssOpts, a \in PeerAcks :
        /\ UNCHANGED opener
        /\ Deliver(Seg(p, lp, {"SYN", "ACK"}, 0, a, 0, w, m, 0), 0)
  BY DEF DeliverSynAck
<1>2. a \in SeqNo /\ m \in Nat
  BY AcksAreSeqNo, LinkAssumption
<1> DEFINE fl == {"SYN", "ACK"}
<1>3. "ACK" \in fl /\ "FIN" \notin fl /\ "URG" \notin fl /\ fl \in SUBSET Flags
  BY <1>0
<1> HIDE DEF fl
<1>4. Deliver(Seg(p, lp, fl, 0, a, 0, w, m, 0), 0)
  BY <1>1 DEF fl
<1>5. 0 <= 0 /\ ~(0 > 0)
  OBVIOUS
<1> QED
  BY <1>0, <1>1, <1>2, <1>3, <1>4, <1>5, OtherDelivery

(* ... which for the other segments is not the one that answers our SYN.   *)
LEMMA TextDelivers ==
  ASSUME SendInv, DeliverSyn \/ DeliverText \/ DeliverRst
  PROVE  \E s \in Arriving, i \in 0..(PeerBytes + 2) : Delivery(s, i) /\ s.flags # {"SYN", "ACK"}
<1>0. /\ {"SYN", "ACK"} \in SUBSET Flags /\ {"ACK"} \in SUBSET Flags
      /\ {"ACK", "URG"} \in SUBSET Flags /\ {"ACK", "FIN"} \in SUBSET Flags
      /\ {"RST"} \in SUBSET Flags
  BY DEF Flags
<1>1. /\ 0 \in SeqNo /\ 0 \in Nat /\ 0 \in 0..(PeerBytes + 2)
      /\ \A i \in 1..(PeerBytes + 2) : i \in 0..(PeerBytes + 2) /\ i > 0
      /\ \A i \in 0..PeerBytes : i \in Nat /\ 0 <= i
      /\ \A n \in Nat : \A u \in Urgps \cap 1..n : u \in Nat /\ u <= n /\ Urgps # {}
  BY Bounds, LinkAssumption, SeqAssumption DEF SeqNo
<1>2. CASE DeliverSyn
  <2>1. {"SYN"} # {"SYN", "ACK"}
    OBVIOUS
  <2> QED
    BY <1>2, <2>1, SynDelivery
<1>3. CASE DeliverText
  <2>1. PICK p \in Peers, lp \in Ports, w \in Wnds, a \in PeerAcks,
             at \in 1..(PeerBytes + 2), n \in 0..PeerBytes :
          /\ n > 0 => at + n <= PeerBytes + 1
          /\ UNCHANGED opener
          /\ \/ Deliver(Seg(p, lp, {"ACK"}, at, a, n, w, 0, 0), at)
             \/ \E u \in Urgps \cap 1..n :
                  Deliver(Seg(p, lp, {"ACK", "URG"}, at, a, n, w, 0, u), at)
             \/ /\ at + n = PeerBytes + 1
                /\ Deliver(Seg(p, lp, {"ACK", "FIN"}, at, a, n, w, 0, 0), at)
    BY <1>3 DEF DeliverText
  <2>2. a \in SeqNo /\ at \in 0..(PeerBytes + 2) /\ at > 0 /\ n \in Nat /\ 0 <= n
    BY <1>1, AcksAreSeqNo
  <2>3. CASE Deliver(Seg(p, lp, {"ACK"}, at, a, n, w, 0, 0), at)
    <3> DEFINE fl == {"ACK"}
    <3>1. "SYN" \notin fl /\ fl # {"SYN", "ACK"} /\ "FIN" \notin fl /\ "URG" \notin fl /\ fl \in SUBSET Flags
      BY <1>0
    <3>2. Deliver(Seg(p, lp, fl, at, a, n, w, 0, 0), at)
      BY <2>3
    <3> HIDE DEF fl
    <3> QED
      BY <1>1, <2>1, <2>2, <3>1, <3>2, OtherDelivery
  <2>4. ASSUME NEW u \in Urgps \cap 1..n,
               Deliver(Seg(p, lp, {"ACK", "URG"}, at, a, n, w, 0, u), at)
        PROVE  \E s \in Arriving, i \in 0..(PeerBytes + 2) :
                 Delivery(s, i) /\ s.flags # {"SYN", "ACK"}
    <3> DEFINE fl == {"ACK", "URG"}
    <3>1. "SYN" \notin fl /\ fl # {"SYN", "ACK"} /\ "FIN" \notin fl /\ fl \in SUBSET Flags
      BY <1>0
    <3>2. Deliver(Seg(p, lp, fl, at, a, n, w, 0, u), at)
      BY <2>4
    <3>3. u \in Nat /\ u <= n /\ Urgps # {}
      BY <1>1, <2>2
    <3> HIDE DEF fl
    <3> QED
      BY <1>1, <2>1, <2>2, <3>1, <3>2, <3>3, OtherDelivery
  <2>5. CASE /\ at + n = PeerBytes + 1
             /\ Deliver(Seg(p, lp, {"ACK", "FIN"}, at, a, n, w, 0, 0), at)
    <3> DEFINE fl == {"ACK", "FIN"}
    <3>1. "SYN" \notin fl /\ fl # {"SYN", "ACK"} /\ "URG" \notin fl /\ fl \in SUBSET Flags
      BY <1>0
    <3>2. Deliver(Seg(p, lp, fl, at, a, n, w, 0, 0), at)
      BY <2>5
    <3> HIDE DEF fl
    <3> QED
      BY <1>1, <2>1, <2>2, <2>5, <3>1, <3>2, OtherDelivery
  <2> QED
    BY <2>1, <2>3, <2>4, <2>5
<1>4. CASE DeliverRst
  <2>1. PICK p \in Peers, lp \in Ports, w \in Wnds :
          UNCHANGED opener /\ Deliver(Seg(p, lp, {"RST"}, 0, 0, 0, w, 0, 0), 0)
    BY <1>4 DEF DeliverRst
  <2> DEFINE fl == {"RST"}
  <2>2. /\ "ACK" \notin fl /\ "SYN" \notin fl /\ fl # {"SYN", "ACK"} /\ "FIN" \notin fl /\ "URG" \notin fl
        /\ fl \in SUBSET Flags
    BY <1>0
  <2>3. Deliver(Seg(p, lp, fl, 0, 0, 0, w, 0, 0), 0)
    BY <2>1
  <2> HIDE DEF fl
  <2>4. 0 <= 0 /\ ~(0 > 0)
    OBVIOUS
  <2> QED
    BY <1>1, <2>1, <2>2, <2>3, <2>4, OtherDelivery
<1> QED
  BY <1>2, <1>3, <1>4

LEMMA Delivers ==
  ASSUME SendInv, DeliverSyn \/ DeliverSynAck \/ DeliverText \/ DeliverRst
  PROVE  \E s \in Arriving, at \in 0..(PeerBytes + 2) : Delivery(s, at)
BY SynAckDelivers, TextDelivers

-----------------------------------------------------------------------------
(* The invariant of the engine and the sending side, step by step.         *)
LEMMA DeliverySend ==
  ASSUME IInv, OpenInv, SendInv, NEW s \in Arriving, NEW at, Delivery(s, at)
  PROVE  IInv' /\ SendInv'
<1>0. /\ Input(s) /\ Remember /\ Closes /\ UNCHANGED peer /\ s \in Segment
      /\ "ACK" \in s.flags => s.ackno \in PeerAcks
      /\ Starts(s) => opener = "none"
  BY DEF Delivery, Deliver, Carries, Arriving
<1>1. IInv'
  BY <1>0, InputInv
<1>2. CASE Dies \/ Keeps
  BY <1>0, <1>1, <1>2, DiesSend, KeepsSend
<1>3. CASE FoundKind(s)
  <2> DEFINE ok == Acks(conn, s)
  <2>1. /\ ok /\ conn.tcpstate = "ESTABLISHED" => Len(peer.heard) = wrote
        /\ ok /\ conn.tcpstate \in Closing /\ Cares => Closed
    BY <1>0, AckMeans
  <2>2. CASE Finishes(ok)
    BY <1>0, <1>1, <2>1, <2>2, FinishesSend
  <2>3. CASE Exchanges(ok, s.len - Skip(s))
    <3>1. ok => Len(peer.heard) = wrote
      BY <2>1, <2>3 DEF Exchanges
    <3> HIDE DEF ok
    <3> QED
      BY <1>0, <1>1, <2>3, <3>1, ExchangesSend
  <2>4. CASE PeerCloses(ok)
    <3>1. ok => Len(peer.heard) = wrote
      BY <2>1, <2>4 DEF Final, PeerCloses
    <3> HIDE DEF ok
    <3> QED
      BY <1>0, <1>1, <2>4, <3>1, PeerClosesSend
  <2>5. CASE Opened(s)
    BY <1>0, <1>1, <2>5, OpenedSend
  <2> QED
    BY <1>2, <1>3, <2>2, <2>3, <2>4, <2>5 DEF FoundKind
<1>4. CASE Starts(s)
  BY <1>0, <1>1, <1>4, StartsSend
<1> QED
  BY <1>0, <1>2, <1>3, <1>4, InputMoves

LEMMA TickSend ==
  ASSUME IInv, SendInv, LinkTick PROVE IInv' /\ SendInv'
<1>1. IInv'
  BY OneConn, PeriodicInv DEF LinkTick
<1>2. Remember /\ Closes /\ UNCHANGED peer
  BY DEF LinkTick
<1>3. Exchanges(FALSE, 0) => SendInv'
  BY <1>2, ExchangesSend
<1> QED
  BY <1>1, <1>2, <1>3, TickMoves, DiesSend, KeepsSend DEF LinkTick

LEMMA ConnectNext ==
  ASSUME IInv, NEW p, NEW lp, Connect(1, p, lp)
  PROVE  next.tcpstate = "SYN_SENT" /\ next.snd_nxt = iss
<1> DEFINE z == [uip_conns[1] EXCEPT
               !.tcpstate = "SYN_SENT", !.stopped = FALSE, !.snd_nxt = iss,
               !.mss = UIP_TCP_MSS, !.initialmss = UIP_TCP_MSS, !.len = 1,
               !.nrtx = 0, !.timer = 1, !.rto = UIP_RTO,
               !.lport = lp, !.peer = p]
<1>1. next = z
  BY SetNext DEF Connect
<1> QED
  BY <1>1, OneConn DEF conn, Conn

LEMMA LinkUserSend ==
  ASSUME IInv, OpenInv, SendInv, LinkUser PROVE IInv' /\ SendInv'
<1>1. UNCHANGED <<acked, wrote, wire, peer>>
  BY DEF LinkUser
<1>2. ASSUME NEW p \in Peers, NEW lp \in EphemeralPorts, opener = "none",
             Connect(1, p, lp), isn' = iss
      PROVE  IInv' /\ SendInv'
  BY <1>1, <1>2, OneConn, ConnectStep, ConnectNext, ConnectSend
<1>3. ASSUME NEW p \in Ports, Listen(p), UNCHANGED isn PROVE IInv' /\ SendInv'
  <2>1. uip_listenports' \in [1..UIP_LISTENPORTS -> Ports \cup {NoPort}]
    BY <1>3 DEF Listen, IInv
  <2>2. IInv'
    BY <1>3, <2>1, NoCallType, OutNone, SameStep DEF Listen, Quiet, NoCall, IInv
  <2>3. UNCHANGED uip_conns
    BY <1>3 DEF Listen
  <2> QED
    BY <1>1, <1>3, <2>2, <2>3, IdleSend
<1> QED
  BY <1>2, <1>3 DEF LinkUser

(* Before the connection is opened nothing is sent.                        *)
LEMMA ClosedStays ==
  ASSUME Remember, conn.tcpstate = "CLOSED", Dies \/ Keeps
  PROVE  next.tcpstate = "CLOSED" /\ wire' = wire /\ wrote' = wrote
<1>1. next.tcpstate = "CLOSED" /\ Frames = {}
  <2>1. CASE Dies
    BY <2>1, NoFrames DEF Final, Dies
  <2>2. CASE Keeps
    <3>1. next.tcpstate = "CLOSED" /\ Emits(conn.snd_nxt, 0, {})
      BY <2>2 DEF Keeps, Ctl, SynStates, Closing
    <3>2. SendsNone
      BY <3>1 DEF Emits, SendsNone, Text
    <3> QED
      BY <3>1, <3>2, NoFrames
  <2> QED
    BY <2>1, <2>2
<1>2. wroteN = wrote /\ wire' = wire \cup Frames
  BY <1>1, RememberFacts
<1> QED
  BY <1>1, <1>2 DEF wroteN

LEMMA OpenFrom ==
  ASSUME OpenInv, opener' = "none" => opener = "none",
         opener' = "none" /\ conn.tcpstate = "CLOSED" =>
           next.tcpstate = "CLOSED" /\ wire' = wire /\ wrote' = wrote
  PROVE  OpenInv'
<1>1. conn' = next
  BY DEF conn, next
<1> QED
  BY <1>1 DEF OpenInv

LEMMA DeliveryOpen ==
  ASSUME IInv, OpenInv, NEW s \in Arriving, NEW at, Delivery(s, at)
  PROVE  OpenInv'
<1>1. Input(s) /\ Remember /\ (Starts(s) => opener' = "peer") /\ opener' \in {opener, "peer"}
  BY DEF Delivery, Deliver
<1>2. ASSUME conn.tcpstate = "CLOSED", FoundKind(s) PROVE Dies \/ Keeps
  BY <1>2 DEF FoundKind, Finishes, Exchanges, Opened, PeerCloses, Closing, Waits, SynStates
<1>3. ASSUME conn.tcpstate = "CLOSED", opener' = "none"
      PROVE  next.tcpstate = "CLOSED" /\ wire' = wire /\ wrote' = wrote
  <2>1. Dies \/ Keeps
    BY <1>1, <1>2, <1>3, InputMoves
  <2> QED
    BY <1>1, <1>3, <2>1, ClosedStays
<1> QED
  BY <1>1, <1>3, OpenFrom

LEMMA TickOpen == ASSUME IInv, OpenInv, LinkTick PROVE OpenInv'
<1>1. Remember /\ opener' = opener /\ (Dies \/ Keeps \/ Exchanges(FALSE, 0))
  BY TickMoves DEF LinkTick
<1>2. ASSUME conn.tcpstate = "CLOSED"
      PROVE  next.tcpstate = "CLOSED" /\ wire' = wire /\ wrote' = wrote
  <2>1. Dies \/ Keeps
    BY <1>1, <1>2 DEF Exchanges
  <2> QED
    BY <1>1, <1>2, <2>1, ClosedStays
<1> QED
  BY <1>1, <1>2, OpenFrom

LEMMA UserOpen == ASSUME IInv, OpenInv, LinkUser PROVE OpenInv'
<1>1. UNCHANGED <<wrote, wire>> /\ (opener' = "uip" \/ UNCHANGED <<uip_conns, opener>>)
  BY DEF LinkUser, Listen
<1>2. UNCHANGED <<uip_conns, opener>> => conn' = conn
  BY DEF conn
<1> QED
  BY <1>1, <1>2 DEF OpenInv

(* What every state of the link satisfies, whatever the application does.  *)
LinkInv == IInv /\ OpenInv /\ SendInv

LEMMA LinkInitInv == LinkInit => LinkInv
<1> SUFFICES ASSUME LinkInit PROVE LinkInv
  OBVIOUS
<1>1. IInv
  BY InitInv DEF LinkInit
<1>2. conn.tcpstate = "CLOSED"
  BY LinkAssumption DEF LinkInit, Init, Conns, conn
<1>3. OpenInv
  BY <1>2 DEF LinkInit, OpenInv
<1>4. isn = 0 /\ acked = 0 /\ wrote = 0 /\ wire = {}
  BY DEF LinkInit
<1>5. 0 \in SeqNo /\ 0 \in Nat /\ 0 \in 0..AppBytes
  BY Bounds, SeqAssumption DEF SeqNo
<1>6. peer.heard = <<>> /\ ~Closed /\ peer \in [syn: BOOLEAN, fin: BOOLEAN, heard: Seq(Nat)]
  <2>1. peer = [syn |-> FALSE, fin |-> FALSE, heard |-> <<>>]
    BY DEF LinkInit
  <2>2. <<>> \in Seq(Nat)
    OBVIOUS
  <2> QED
    BY <2>1, <2>2 DEF Closed
<1>7. Len(peer.heard) = 0 /\ peer.heard = Places(1, Len(peer.heard))
  <2>1. Places(1, 0) \in Seq(Nat) /\ Len(Places(1, 0)) = 0
    BY PlacesAre
  <2>2. Places(1, 0) = <<>>
    BY <2>1, EmptySeq
  <2> QED
    BY <1>6, <2>2
<1>8. conn.tcpstate \notin SynStates \cup {"ESTABLISHED"} \cup Closing \cup Waits
  BY <1>2 DEF SynStates, Closing, Waits
<1>9. acked <= Len(peer.heard) /\ Len(peer.heard) <= wrote
  BY <1>4, <1>7
<1>10. SendInv
  BY <1>4, <1>5, <1>6, <1>7, <1>8, <1>9 DEF SendInv
<1> QED
  BY <1>1, <1>3, <1>10 DEF LinkInv

LEMMA LinkNextInv == LinkInv /\ [LinkNext]_lvars => LinkInv'
<1> SUFFICES ASSUME LinkInv, [LinkNext]_lvars PROVE LinkInv'
  OBVIOUS
<1>1. IInv /\ OpenInv /\ SendInv
  BY DEF LinkInv
<1>2. CASE DeliverSyn \/ DeliverSynAck \/ DeliverText \/ DeliverRst
  <2>1. PICK s \in Arriving, at \in 0..(PeerBytes + 2) : Delivery(s, at)
    BY <1>1, <1>2, Delivers
  <2> QED
    BY <1>1, <2>1, DeliverySend, DeliveryOpen DEF LinkInv
<1>3. ASSUME NEW f \in wire, PeerHears(f) PROVE LinkInv'
  <2>1. UNCHANGED vars /\ UNCHANGED <<opener, wrote, wire>>
    BY <1>3, Zenon DEF PeerHears, history
  <2>2. IInv' /\ OpenInv'
    BY <1>1, <2>1 DEF vars, IInv, UniqueTuple, CallOK, OpenInv, conn
  <2> QED
    BY <1>1, <1>3, <2>2, HearsSend DEF LinkInv
<1>4. CASE LinkTick
  BY <1>1, <1>4, TickSend, TickOpen DEF LinkInv
<1>5. CASE LinkUser
  BY <1>1, <1>5, LinkUserSend, UserOpen DEF LinkInv
<1>6. CASE UNCHANGED lvars
  <2>1. UNCHANGED vars /\ UNCHANGED <<opener, isn, acked, wrote, wire, peer>>
    BY <1>6 DEF lvars, history
  <2>2. IInv' /\ OpenInv' /\ UNCHANGED uip_conns
    BY <1>1, <2>1 DEF vars, IInv, UniqueTuple, CallOK, OpenInv, conn
  <2> QED
    BY <1>1, <2>1, <2>2, IdleSend DEF LinkInv
<1> QED
  BY <1>2, <1>3, <1>4, <1>5, <1>6 DEF LinkNext

(* Nothing is unsent, unwritten or unheard again.                          *)
LEMMA Grows ==
  ASSUME LinkInv, LinkInv', [LinkNext]_lvars
  PROVE  /\ wire \subseteq wire' /\ wrote <= wrote' /\ wrote' \in Nat
         /\ Len(peer.heard) <= Len(peer'.heard) /\ (Closed => Closed')
<1>1. IInv /\ SendInv /\ IInv' /\ SendInv'
  BY DEF LinkInv
<1>2. /\ wrote \in Nat /\ wroteN \in Nat /\ ackedN \in Nat /\ Len(peer.heard) \in Nat
      /\ next.len \in Nat
  <2>1. wroteN \in Nat /\ ackedN \in Nat
    BY <1>1, Bounds DEF SendInv, wroteN, ackedN
  <2>2. next.len \in Nat
    <3>1. uip_conns' \in [Conns -> Conn] /\ 1 \in Conns
      BY <1>1, OneConn DEF IInv
    <3>2. next \in Conn
      BY <3>1 DEF next
    <3> QED
      BY <3>2, Small DEF Conn
  <2> QED
    BY <1>1, <2>1, <2>2, SendFacts
<1>3. ASSUME Remember, UNCHANGED peer
      PROVE  wire \subseteq wire' /\ wrote <= wroteN /\ Len(peer.heard) <= Len(peer'.heard)
             /\ (Closed => Closed')
  <2>1. wrote <= wroteN
    <3> DEFINE n == next.len
    <3>1. wroteN = (IF next.tcpstate = "ESTABLISHED" /\ ackedN + n > wrote
                    THEN ackedN + n ELSE wrote) /\ n \in Nat
      BY <1>2, <1>3, RememberFacts
    <3> HIDE DEF n
    <3> QED
      BY <1>2, <3>1
  <2>2. wire \subseteq wire'
    BY <1>3, RememberFacts
  <2>3. Closed => Closed'
    BY <1>3 DEF Closed
  <2>4. Len(peer.heard) <= Len(peer'.heard)
    BY <1>2, <1>3
  <2> QED
    BY <2>1, <2>2, <2>3, <2>4
<1>4. CASE DeliverSyn \/ DeliverSynAck \/ DeliverText \/ DeliverRst
  BY <1>2, <1>3, <1>4 DEF DeliverSyn, DeliverSynAck, DeliverText, DeliverRst, Deliver, wroteN
<1>5. CASE LinkTick
  BY <1>2, <1>3, <1>5 DEF LinkTick, wroteN
<1>6. ASSUME UNCHANGED <<wrote, wire>> PROVE wire \subseteq wire' /\ wrote <= wrote'
  BY <1>2, <1>6
<1>7. ASSUME UNCHANGED peer PROVE Len(peer.heard) <= Len(peer'.heard) /\ (Closed => Closed')
  BY <1>2, <1>7 DEF Closed
<1>8. CASE LinkUser
  BY <1>2, <1>6, <1>7, <1>8 DEF LinkUser, wroteN
<1>9. ASSUME NEW f \in wire, PeerHears(f)
      PROVE  /\ wire \subseteq wire' /\ wrote <= wrote'
             /\ Len(peer.heard) <= Len(peer'.heard) /\ (Closed => Closed')
  <2>1. UNCHANGED <<wrote, wire>> /\ ~Closed
    BY <1>9, Zenon DEF PeerHears, history, Closed
  <2> QED
    BY <1>1, <1>6, <1>9, <2>1, HearsSend
<1>10. CASE UNCHANGED lvars
  BY <1>2, <1>6, <1>7, <1>10 DEF lvars, history, wroteN
<1>11. wrote' \in Nat
  BY <1>2 DEF wroteN
<1>12. wrote <= wroteN => wrote <= wrote'
  BY DEF wroteN
<1> QED
  BY <1>4, <1>5, <1>8, <1>9, <1>10, <1>11, <1>12 DEF LinkNext

-----------------------------------------------------------------------------
(* What a reader gets when more of a stream of places has come.            *)
LEMMA PlacesGrow ==
  ASSUME NEW h \in Nat, NEW n \in Nat, h <= n
  PROVE  Places(1, n) = Places(1, h) \o [i \in 1..(n - h) |-> h + i]
<1> DEFINE m == n - h
           b == h + 1
<1>1. m \in Nat /\ b \in Nat /\ h + m = n
  OBVIOUS
<1>2. Places(1, h) \o Places(b, m) = Places(1, h + m)
  <2> HIDE DEF m
  <2> QED
    BY <1>1, PlacesJoin DEF b
<1>3. Places(b, m) = [i \in 1..m |-> h + i]
  <2>1. \A i \in 1..m : b + i - 1 = h + i
    BY <1>1
  <2> HIDE DEF b, m
  <2> QED
    BY <2>1 DEF Places
<1> QED
  BY <1>1, <1>2, <1>3

LEMMA ToPeerInit == ASSUME LinkInit PROVE ToPeer!Init
<1>1. wrote = 0 /\ peer = [syn |-> FALSE, fin |-> FALSE, heard |-> <<>>]
  BY DEF LinkInit
<1>2. Shut \in BOOLEAN
  BY Zenon DEF Shut
<1>3. peer.heard = <<>> /\ peer.fin = FALSE
  BY <1>1
<1> QED
  BY <1>1, <1>2, <1>3 DEF ToPeer!Init

LEMMA ToPeerReads ==
  ASSUME NEW h \in Nat, Len(peer.heard) = h, peer.heard = Places(1, h),
         NEW n \in Nat, Len(peer'.heard) = n, peer'.heard = Places(1, n), h <= n,
         n <= wrote', wrote' \in Nat,
         Closed' => Shut' /\ n = wrote', Closed => Closed' /\ n = h
  PROVE  ToPeer!Reads
<1>1. n \in h..wrote'
  OBVIOUS
<1>2. peer'.heard = peer.heard \o [i \in 1..(n - h) |-> h + i]
  BY PlacesGrow
<1>3. peer'.fin => Closed'
  BY Zenon DEF Closed
<1>4. peer.fin => Closed
  BY Zenon DEF Closed
<1>5. Closed' => peer'.fin
  BY Zenon DEF Closed
<1>6. /\ peer'.fin => peer.fin \/ (Shut' /\ n = wrote')
      /\ peer.fin => peer'.fin /\ n = h
  BY <1>3, <1>4, <1>5, Zenon
<1>7. \E i \in Len(peer.heard)..wrote' :
        /\ peer'.heard = peer.heard \o [x \in 1..(i - Len(peer.heard)) |-> Len(peer.heard) + x]
        /\ peer'.fin => peer.fin \/ (Shut' /\ i = wrote')
        /\ peer.fin => peer'.fin /\ i = Len(peer.heard)
  BY <1>1, <1>2, <1>6, Zenon
<1> QED
  BY <1>7, Zenon DEF ToPeer!Reads

LEMMA ToPeerStep ==
  ASSUME Cares, LinkInv, LinkInv', [LinkNext]_lvars PROVE ToPeer!Next
<1>1. /\ wire \subseteq wire' /\ wrote <= wrote' /\ wrote' \in Nat
      /\ Len(peer.heard) <= Len(peer'.heard) /\ (Closed => Closed')
  BY Grows
<1>2. SendInv /\ SendInv' /\ IInv
  BY DEF LinkInv
<1>3. wrote \in Nat /\ Len(peer.heard) \in Nat /\ Len(peer'.heard) \in Nat
  <2>1. peer'.heard \in Seq(Nat)
    BY <1>2 DEF SendInv
  <2> QED
    BY <1>2, <2>1, SendFacts, LenProperties
<1>4. Shut => UNCHANGED <<wrote, Shut>>
  <2> SUFFICES ASSUME Shut PROVE UNCHANGED <<wrote, Shut>>
    OBVIOUS
  <2>1. PICK f \in wire : IsLast(f)
    BY ShutEnds
  <2>2. f \in wire'
    BY <1>1
  <2>3. FrameOK(f, wrote, conn.tcpstate) /\ FrameOK(f, wrote', conn'.tcpstate)
    BY <1>2, <2>2 DEF SendInv, FrameOK, Cares, IsLast, Places
  <2>4. f.at = wrote + 1 /\ f.at = wrote' + 1
    BY <2>1, <2>3 DEF FrameOK
  <2>5. wrote' = wrote
    BY <1>1, <1>3, <2>4
  <2>6. Shut'
    BY <2>1, <2>2, Zenon DEF Shut, IsLast
  <2>7. Shut' = Shut
    BY <2>6, Zenon DEF Shut
  <2> QED
    BY <2>5, <2>7
<1>5. ToPeer!Writes \/ UNCHANGED <<wrote, Shut>>
  <2>1. Shut' \in BOOLEAN
    BY Zenon DEF Shut
  <2>2. ~Shut => ToPeer!Writes
    BY <1>1, <2>1 DEF ToPeer!Writes
  <2> QED
    BY <1>4, <2>2
<1>6. /\ peer.heard = Places(1, Len(peer.heard)) /\ peer'.heard = Places(1, Len(peer'.heard))
      /\ Len(peer'.heard) <= wrote'
      /\ Closed => Shut /\ Len(peer.heard) = wrote
      /\ Closed' => Shut' /\ Len(peer'.heard) = wrote'
  BY <1>2 DEF SendInv, Places, Cares
<1>7. Closed => Closed' /\ Len(peer'.heard) = Len(peer.heard)
  <2>1. ASSUME Closed PROVE wrote' = wrote /\ Len(peer.heard) = wrote
    BY <1>4, <1>6, <2>1
  <2> QED
    BY <1>1, <1>3, <1>6, <2>1
<1>8. ToPeer!Reads
  BY <1>1, <1>3, <1>6, <1>7, ToPeerReads
<1> QED
  BY <1>5, <1>8 DEF ToPeer!Next

(* With an application that closes only when all of its data is            *)
(* acknowledged, the peer hears the application's stream: each byte once,  *)
(* in order, and the end after the last, through every loss, repeat, delay *)
(* and retransmission (apprexmit, the FIN of appsend and of tcp_send_finack)*)
THEOREM PeerHearsStream == ASSUME Careful PROVE LinkSpec => PeerStream
<1>1. Cares
  BY Zenon DEF Cares
<1>2. LinkInit => ToPeer!Init
  BY ToPeerInit
<1>3. LinkInv /\ LinkInv' /\ [LinkNext]_lvars => [ToPeer!Next]_(ToPeer!bvars)
  BY <1>1, ToPeerStep
<1> QED
  BY <1>2, <1>3, LinkInitInv, LinkNextInv, PTL DEF LinkSpec, PeerStream, ToPeer!Spec

(* A careful application's connection that waits after its close has been  *)
(* heard to the last byte and the FIN (UIP_FIN_WAIT_1 and UIP_CLOSING leave*)
(* on an acknowledgement only).                                            *)
THEOREM HeardAtClose == ASSUME Careful PROVE LinkSpec => []CloseHeard
<1>1. Cares
  BY Zenon DEF Cares
<1>2. LinkInv => CloseHeard
  <2> SUFFICES ASSUME LinkInv, conn.tcpstate \in Waits
               PROVE  peer.fin /\ Len(peer.heard) = wrote
    BY DEF CloseHeard, Waits
  <2>1. Closed /\ Len(peer.heard) = wrote
    BY <1>1 DEF LinkInv, SendInv
  <2> QED
    BY <2>1, Zenon DEF Closed
<1> QED
  BY <1>2, LinkInitInv, LinkNextInv, PTL DEF LinkSpec

-----------------------------------------------------------------------------
(* The receiving side, kind by kind: the application has n bytes, and they *)
(* are the first of the stream.                                            *)
HasFed(n) == fed' \in Seq(Nat) /\ Len(fed') = n /\ (Plain => fed' = Places(1, n))

LEMMA RecvFacts ==
  ASSUME RecvInv
  PROVE  /\ Len(fed) \in Nat /\ Len(fed) <= PeerBytes /\ (Plain => fed = Places(1, Len(fed)))
         /\ fed' = fed => HasFed(Len(fed))
<1>1. fed \in Seq(Nat)
  BY DEF RecvInv
<1> QED
  BY <1>1, LenProperties DEF RecvInv, HasFed

LEMMA RecvNext ==
  ASSUME RecvInv, NEW k \in Nat, HasFed(k), k <= PeerBytes,
         opener' = "none" => k = 0 /\ ~fedEnd',
         next.tcpstate \in SynStates => k = 0,
         next.tcpstate = "SYN_RCVD" => next.rcv_nxt = PeerSeq(1),
         next.tcpstate = "ESTABLISHED" => next.rcv_nxt = PeerSeq(k + 1),
         fedEnd' => next.tcpstate \notin OpenStates /\ (Plain => k = PeerBytes)
  PROVE  RecvInv'
<1>1. fed' \in Seq(Nat) /\ Len(fed') = k /\ conn' = next
  BY DEF conn, next, HasFed
<1>2. (Plain => fed = Places(1, Len(fed)))'
  BY <1>1 DEF Places, HasFed, Plain
<1> QED
  BY <1>1, <1>2 DEF RecvInv, PeerSeq, Plain

(* The application is given nothing.                                       *)
LEMMA RecvSame ==
  ASSUME RecvInv, fed' = fed, fedEnd' => fedEnd, opener' = "none" => opener = "none",
         \/ next.tcpstate \notin OpenStates
         \/ next.tcpstate = conn.tcpstate /\ next.rcv_nxt = conn.rcv_nxt
  PROVE  RecvInv'
<1> DEFINE k == Len(fed)
<1>1. k \in Nat /\ HasFed(k) /\ k <= PeerBytes
  BY RecvFacts
<1>2. /\ opener' = "none" => k = 0 /\ ~fedEnd'
      /\ next.tcpstate \in SynStates => k = 0
      /\ next.tcpstate = "SYN_RCVD" => next.rcv_nxt = PeerSeq(1)
      /\ next.tcpstate = "ESTABLISHED" => next.rcv_nxt = PeerSeq(k + 1)
      /\ fedEnd' => next.tcpstate \notin OpenStates /\ (Plain => k = PeerBytes)
  BY DEF RecvInv, OpenStates, SynStates
<1> HIDE DEF k
<1> QED
  BY <1>1, <1>2, RecvNext

LEMMA EndTold ==
  ASSUME Remember
  PROVE  /\ fedEnd' => fedEnd \/ ("CLOSE" \in Told /\ conn.tcpstate = "ESTABLISHED")
         /\ fedEnd => fedEnd'
  BY Zenon DEF Remember

LEMMA QuietRecv ==
  ASSUME RecvInv, Remember, fed' = fed, opener' = "none" => opener = "none",
         NEW ok, Dies \/ Keeps \/ Finishes(ok)
  PROVE  RecvInv'
<1>1. fedEnd' => fedEnd
  <2>1. ~("CLOSE" \in Told /\ conn.tcpstate = "ESTABLISHED")
    BY DEF Final, Dies, Keeps, Finishes, Closing, Waits
  <2> QED
    BY <2>1, EndTold
<1>2. \/ next.tcpstate \notin OpenStates
      \/ next.tcpstate = conn.tcpstate /\ next.rcv_nxt = conn.rcv_nxt
  BY DEF Final, Dies, Keeps, Finishes, OpenStates, SynStates, Closing, Waits
<1> QED
  BY <1>1, <1>2, RecvSame

LEMMA RepliedRecv ==
  ASSUME RecvInv, NEW y \in Conn, Answered(y), NEW k \in Nat, y.rcv_nxt = PeerSeq(k + 1),
         HasFed(k), k <= PeerBytes, opener' # "none", ~fedEnd'
  PROVE  RecvInv'
<1>1. next.tcpstate \notin SynStates
      /\ (next.tcpstate = "ESTABLISHED" => next.rcv_nxt = PeerSeq(k + 1))
  BY DEF Answered, SynStates
<1> QED
  BY <1>1, RecvNext DEF SynStates

(* A segment that is in order carries what the application is waiting for. *)
LEMMA InOrder ==
  ASSUME RecvInv, NEW s \in Arriving, NEW at \in 0..(PeerBytes + 2), Carries(s, at),
         ~OutOfOrder(conn, s), conn.tcpstate # "SYN_SENT",
         s.len > 0 \/ "FIN" \in s.flags, conn.rcv_nxt = PeerSeq(Len(fed) + 1)
  PROVE  at = Len(fed) + 1
<1> DEFINE i == Len(fed) + 1
<1>1. Plus(PeerIss, at) = Plus(PeerIss, i)
  <2>1. s.seqno = conn.rcv_nxt
    BY DEF OutOfOrder
  <2> QED
    BY <2>1 DEF Carries, PeerSeq
<1>2. i \in 0..(SeqMod - 1) /\ at \in 0..(SeqMod - 1) /\ PeerIss \in SeqNo
  BY RecvFacts, Bounds
<1> HIDE DEF i
<1>3. at = i
  BY <1>1, <1>2, PlusInjective
<1> QED
  BY <1>3 DEF i

(* What a segment has for the application: urgent data is skipped.         *)
LEMMA SkipsInside ==
  ASSUME NEW s \in Arriving, NEW at, Carries(s, at)
  PROVE  /\ Skip(s) \in Nat /\ Skip(s) <= s.len /\ s.len \in Nat /\ s.len - Skip(s) \in Nat
         /\ Plain => Skip(s) = 0
         /\ conn.tcpstate # "ESTABLISHED" => Skip(s) = 0
<1>1. Urgent(s) \in Nat /\ Urgent(s) <= s.len /\ s.len \in Nat
  BY DEF Urgent, Arriving, Segment
<1>2. Plain => Urgent(s) = 0
  BY DEF Plain, Carries
<1>3. Skip(s) \in Nat /\ Skip(s) <= s.len
  BY <1>1 DEF Skip
<1> QED
  BY <1>1, <1>2, <1>3 DEF Skip

LEMMA FedNext ==
  ASSUME RecvInv, NEW s \in Arriving, NEW at \in 0..(PeerBytes + 2),
         Carries(s, at), Deliver(s, at),
         s.len > 0 /\ "NEWDATA" \in Told => at = Len(fed) + 1
  PROVE  LET g == Given(s.len - Skip(s))
         IN g \in Nat /\ HasFed(Len(fed) + g) /\ Len(fed) + g <= PeerBytes
<1> DEFINE h == Len(fed)
           n == s.len
           k == Skip(s)
           m == n - k
<1>1. /\ h \in Nat /\ (Plain => fed = Places(1, h)) /\ h <= PeerBytes /\ PeerBytes \in Nat
      /\ at \in Nat /\ fed \in Seq(Nat)
  BY RecvFacts, Bounds DEF RecvInv
<1>2. n \in Nat /\ k \in Nat /\ k <= n /\ m \in Nat /\ (Plain => k = 0)
  BY SkipsInside
<1>3. fed' = IF "NEWDATA" \in Told THEN fed \o Places(at + k, m) ELSE fed
  BY DEF Deliver
<1>4. n > 0 => at + n <= PeerBytes + 1
  BY DEF Carries
<1>5. n > 0 /\ "NEWDATA" \in Told => at = h + 1
  OBVIOUS
<1>6. fed' = fed => HasFed(h)
  BY RecvFacts
<1>7. Len(fed) = h
  OBVIOUS
<1> HIDE DEF h, n, k
<1>8. CASE "NEWDATA" \in Told
  <2> DEFINE p == Places(at + k, m)
  <2>1. p \in Seq(Nat) /\ Len(p) = m
    <3>1. at + k \in Nat
      BY <1>1, <1>2
    <3> QED
      BY <1>2, <3>1, PlacesAre
  <2>2. Plain => p = Places(h + 1, m)
    <3>1. CASE n > 0
      <4>1. Plain => at + k = h + 1
        BY <1>1, <1>2, <1>5, <1>8, <3>1
      <4> QED
        BY <4>1
    <3>2. CASE n = 0
      <4>1. m = 0
        BY <1>2, <3>2
      <4> QED
        BY <4>1, PlacesNone
    <3> QED
      BY <1>2, <3>1, <3>2
  <2>3. fed' = fed \o p
    BY <1>3, <1>8
  <2> HIDE DEF p, m
  <2>4. fed' \in Seq(Nat) /\ Len(fed') = h + m
    BY <1>1, <1>7, <2>1, <2>3, ConcatProperties
  <2>5. Plain => fed' = Places(1, h + m)
    BY <1>1, <1>2, <2>2, <2>3, PlacesJoin
  <2>6. h + m <= PeerBytes
    BY <1>1, <1>2, <1>4, <1>5, <1>8 DEF m
  <2>7. Given(m) = m
    BY <1>8 DEF Given
  <2> QED
    BY <1>2, <2>4, <2>5, <2>6, <2>7 DEF h, n, k, m, HasFed
<1>9. CASE "NEWDATA" \notin Told
  <2>1. Given(m) = 0 /\ HasFed(h)
    BY <1>3, <1>6, <1>9 DEF Given
  <2> HIDE DEF m
  <2>2. h + Given(m) = h
    BY <1>1, <2>1
  <2> QED
    BY <1>1, <2>1, <2>2 DEF h, n, k, m
<1> QED
  BY <1>8, <1>9

LEMMA ExchangesRecv ==
  ASSUME IInv, OpenInv, RecvInv, Remember, NEW ok, NEW g \in Nat, NEW m, Given(m) = g,
         Exchanges(ok, m), opener' \in {opener, "peer"},
         HasFed(Len(fed) + g), Len(fed) + g <= PeerBytes
  PROVE  RecvInv'
<1> DEFINE h == Len(fed)
<1>1. /\ conn.tcpstate = "ESTABLISHED" /\ "CLOSE" \notin Told
      /\ \E y \in Conn : Answered(y) /\ y.rcv_nxt = Plus(conn.rcv_nxt, g)
  BY DEF Exchanges
<1>2. h \in Nat /\ h + g \in Nat /\ h + g <= PeerBytes
  BY RecvFacts
<1>3. conn.rcv_nxt = Plus(PeerIss, h + 1) /\ ~fedEnd
  BY <1>1 DEF RecvInv, PeerSeq, OpenStates
<1>4. ~fedEnd' /\ opener' # "none"
  BY <1>1, <1>3, EndTold DEF OpenInv
<1>5. PICK y \in Conn : Answered(y) /\ y.rcv_nxt = Plus(conn.rcv_nxt, g)
  BY <1>1
<1> DEFINE k == h + g
<1>6. y.rcv_nxt = PeerSeq(k + 1)
  <2> HIDE DEF h
  <2>1. h + 1 \in Nat /\ (h + 1) + g < SeqMod /\ (h + 1) + g = k + 1
    BY <1>2, Bounds
  <2>2. Plus(Plus(PeerIss, h + 1), g) = Plus(PeerIss, (h + 1) + g)
    BY <2>1, Bounds, PlusPlus
  <2> QED
    BY <1>3, <1>5, <2>1, <2>2 DEF PeerSeq
<1>7. k \in Nat /\ HasFed(k) /\ k <= PeerBytes
  BY <1>2
<1> HIDE DEF k
<1> QED
  BY <1>4, <1>5, <1>6, <1>7, RepliedRecv

LEMMA OpenedRecv ==
  ASSUME IInv, OpenInv, RecvInv, Remember, NEW s \in Arriving,
         NEW at \in 0..(PeerBytes + 2), Carries(s, at), Opened(s),
         opener' \in {opener, "peer"}, Given(s.len) \in Nat,
         HasFed(Len(fed) + Given(s.len)), Len(fed) + Given(s.len) <= PeerBytes
  PROVE  RecvInv'
<1> DEFINE g == Given(s.len)
<1>1. /\ conn.tcpstate \in SynStates /\ "CLOSE" \notin Told
      /\ \E y \in Conn :
           /\ Answered(y)
           /\ \/ conn.tcpstate = "SYN_RCVD" /\ y.rcv_nxt = Plus(conn.rcv_nxt, g)
              \/ /\ conn.tcpstate = "SYN_SENT" /\ s.flags = {"SYN", "ACK"}
                 /\ y.rcv_nxt = Plus(s.seqno, 1)
  BY DEF Opened
<1>2. PICK y \in Conn :
        /\ Answered(y)
        /\ \/ conn.tcpstate = "SYN_RCVD" /\ y.rcv_nxt = Plus(conn.rcv_nxt, g)
           \/ /\ conn.tcpstate = "SYN_SENT" /\ s.flags = {"SYN", "ACK"}
              /\ y.rcv_nxt = Plus(s.seqno, 1)
  BY <1>1
<1>3. Len(fed) = 0 /\ ~fedEnd /\ opener # "none"
  BY <1>1 DEF RecvInv, OpenStates, SynStates, OpenInv
<1>4. ~fedEnd' /\ opener' # "none"
  BY <1>1, <1>3, EndTold
<1>5. g \in Nat /\ HasFed(g) /\ g <= PeerBytes
  <2>1. g \in Nat /\ 0 + g = g
    OBVIOUS
  <2> QED
    BY <1>3, <2>1
<1>6. y.rcv_nxt = PeerSeq(g + 1)
  <2>1. CASE conn.tcpstate = "SYN_RCVD" /\ y.rcv_nxt = Plus(conn.rcv_nxt, g)
    <3>1. y.rcv_nxt = Plus(Plus(PeerIss, 1), g)
      BY <2>1 DEF RecvInv, PeerSeq
    <3> HIDE DEF g
    <3>2. 1 + g < SeqMod /\ 1 + g = g + 1 /\ 1 \in Nat
      BY <1>5, Bounds
    <3>3. Plus(Plus(PeerIss, 1), g) = Plus(PeerIss, 1 + g)
      BY <1>5, <3>2, Bounds, PlusPlus
    <3> QED
      BY <3>1, <3>2, <3>3 DEF PeerSeq
  <2>2. CASE s.flags = {"SYN", "ACK"} /\ y.rcv_nxt = Plus(s.seqno, 1)
    <3>1. at = 0 /\ s.len = 0 /\ s.seqno = Plus(PeerIss, 0)
      BY <2>2 DEF Carries, PeerSeq
    <3>2. g = 0
      BY <3>1 DEF Given
    <3>3. s.seqno = PeerIss
      BY <3>1, PlusZero, Bounds
    <3> QED
      BY <2>2, <3>2, <3>3 DEF PeerSeq
  <2> QED
    BY <1>2, <2>1, <2>2
<1> HIDE DEF g
<1> QED
  BY <1>2, <1>4, <1>5, <1>6, RepliedRecv

LEMMA StartsRecv ==
  ASSUME OpenInv, RecvInv, Remember, NEW s \in Arriving, NEW at, Carries(s, at), Starts(s),
         opener = "none", fed' = fed
  PROVE  RecvInv'
<1>1. conn.tcpstate = "CLOSED" /\ Len(fed) = 0 /\ ~fedEnd /\ Told = {}
  BY DEF OpenInv, RecvInv, Starts
<1>2. ~fedEnd'
  BY <1>1, EndTold
<1>3. next.tcpstate = "SYN_RCVD" /\ next.rcv_nxt = PeerSeq(1)
  <2>1. at = 0 /\ s.seqno = Plus(PeerIss, 0)
    BY DEF Starts, Opens, Carries, PeerSeq
  <2> QED
    BY <2>1, PlusZero, Bounds DEF Starts, PeerSeq
<1>4. HasFed(0) /\ 0 <= PeerBytes
  BY <1>1, RecvFacts, Bounds
<1> QED
  BY <1>2, <1>3, <1>4, RecvNext

LEMMA PeerClosesRecv ==
  ASSUME OpenInv, RecvInv, Remember, NEW ok, PeerCloses(ok), NEW n \in Nat, opener' \in {opener, "peer"},
         HasFed(n), n <= PeerBytes, Plain => n = PeerBytes
  PROVE  RecvInv'
<1>1. next.tcpstate = "LAST_ACK" /\ conn.tcpstate = "ESTABLISHED"
  BY DEF Final, PeerCloses
<1>2. opener' # "none"
  BY <1>1 DEF OpenInv
<1> QED
  BY <1>1, <1>2, RecvNext DEF OpenStates, SynStates

LEMMA DeliveryRecv ==
  ASSUME IInv, OpenInv, RecvInv, NEW s \in Arriving,
         NEW at \in 0..(PeerBytes + 2), Delivery(s, at)
  PROVE  RecvInv'
<1>0. /\ Input(s) /\ Remember /\ Deliver(s, at) /\ Carries(s, at)
      /\ Starts(s) => opener = "none"
      /\ opener' \in {opener, "peer"}
      /\ "NEWDATA" \notin Told => fed' = fed
  BY DEF Delivery, Deliver
<1>1. CASE Dies \/ Keeps
  <2>1. fed' = fed
    BY <1>0, <1>1 DEF Final, Dies, Keeps
  <2> QED
    BY <1>0, <1>1, <2>1, QuietRecv
<1>2. CASE Finishes(Acks(conn, s))
  <2>1. fed' = fed
    BY <1>0, <1>2 DEF Final, Finishes
  <2> QED
    BY <1>0, <1>2, <2>1, QuietRecv
<1>3. CASE ~OutOfOrder(conn, s) /\ Exchanges(Acks(conn, s), s.len - Skip(s))
  <2>1. conn.tcpstate = "ESTABLISHED" /\ conn.rcv_nxt = PeerSeq(Len(fed) + 1)
    BY <1>3 DEF Exchanges, RecvInv
  <2>2. s.len > 0 => at = Len(fed) + 1
    BY <1>0, <1>3, <2>1, InOrder
  <2> DEFINE m == s.len - Skip(s)
  <2>3. Given(m) \in Nat /\ HasFed(Len(fed) + Given(m)) /\ Len(fed) + Given(m) <= PeerBytes
    BY <1>0, <2>2, FedNext
  <2> QED
    BY <1>0, <1>3, <2>3, ExchangesRecv
<1>4. CASE ~OutOfOrder(conn, s) /\ Opened(s)
  <2>1. s.len > 0 => at = Len(fed) + 1
    <3>1. CASE conn.tcpstate = "SYN_RCVD"
      <4>1. conn.rcv_nxt = PeerSeq(Len(fed) + 1)
        BY <3>1 DEF RecvInv, SynStates
      <4> QED
        BY <1>0, <1>4, <3>1, <4>1, InOrder
    <3>2. CASE conn.tcpstate = "SYN_SENT"
      <4>1. s.len = 0
        BY <1>0, <1>4, <3>2 DEF Opened, Carries
      <4> QED
        BY <4>1
    <3> QED
      BY <1>4, <3>1, <3>2 DEF Opened, SynStates
  <2>2. /\ Given(s.len) \in Nat /\ HasFed(Len(fed) + Given(s.len))
        /\ Len(fed) + Given(s.len) <= PeerBytes
    <3>1. s.len - Skip(s) = s.len
      <4>1. conn.tcpstate # "ESTABLISHED"
        BY <1>4 DEF Opened, SynStates
      <4>2. Skip(s) = 0 /\ s.len \in Nat
        BY <1>0, <4>1, SkipsInside
      <4> QED
        BY <4>2
    <3>2. LET g == Given(s.len - Skip(s))
          IN g \in Nat /\ HasFed(Len(fed) + g) /\ Len(fed) + g <= PeerBytes
      BY <1>0, <2>1, FedNext
    <3> QED
      BY <3>1, <3>2
  <2> QED
    BY <1>0, <1>4, <2>2, OpenedRecv
<1>5. CASE /\ ~OutOfOrder(conn, s) /\ PeerCloses(Acks(conn, s)) /\ "FIN" \in s.flags
           /\ "NEWDATA" \in Told <=> s.len > 0
  <2>1. conn.tcpstate = "ESTABLISHED" /\ conn.rcv_nxt = PeerSeq(Len(fed) + 1)
    BY <1>5 DEF Final, PeerCloses, RecvInv
  <2>2. at = Len(fed) + 1
    BY <1>0, <1>5, <2>1, InOrder
  <2> DEFINE m == s.len - Skip(s)
             k == Len(fed) + Given(m)
  <2>3. Given(m) \in Nat /\ HasFed(k) /\ k <= PeerBytes
    BY <1>0, <2>2, FedNext
  <2>4. k \in Nat
    BY <2>3, RecvFacts
  <2>5. Plain => k = PeerBytes
    <3> DEFINE h == Len(fed)
               n == s.len
    <3>1. at + n = PeerBytes + 1 /\ h \in Nat /\ n \in Nat /\ PeerBytes \in Nat /\ at = h + 1
      BY <1>0, <1>5, <2>2, RecvFacts, Bounds DEF Carries, Arriving, Segment
    <3>2. Given(n) = n
      BY <1>5, <3>1 DEF Given
    <3>3. Plain => m = n
      BY <1>0, <3>1, SkipsInside
    <3> HIDE DEF h, n, m
    <3>4. h + Given(n) = PeerBytes
      BY <3>1, <3>2
    <3> QED
      BY <3>3, <3>4 DEF h
  <2> HIDE DEF k
  <2> QED
    BY <1>0, <1>5, <2>3, <2>4, <2>5, PeerClosesRecv
<1>6. CASE Starts(s)
  <2>1. fed' = fed
    BY <1>0, <1>6 DEF Starts
  <2> QED
    BY <1>0, <1>6, <2>1, StartsRecv
<1> QED
  BY <1>0, <1>1, <1>2, <1>3, <1>4, <1>5, <1>6, InputMoves DEF FoundKind

LEMMA TickRecv ==
  ASSUME IInv, OpenInv, RecvInv, LinkTick PROVE RecvInv'
<1>1. Remember /\ fed' = fed /\ opener' = opener
  BY DEF LinkTick
<1>2. CASE Dies \/ Keeps
  BY <1>1, <1>2, QuietRecv
<1>3. CASE Exchanges(FALSE, 0)
  <2>1. Given(0) = 0 /\ 0 \in Nat
    BY DEF Given
  <2> DEFINE h == Len(fed)
  <2>2. h \in Nat /\ HasFed(h) /\ h <= PeerBytes
    BY <1>1, RecvFacts
  <2>3. HasFed(h + 0) /\ h + 0 <= PeerBytes
    <3> HIDE DEF h
    <3>1. h + 0 = h
      BY <2>2
    <3> QED
      BY <2>2, <3>1
  <2> QED
    BY <1>1, <1>3, <2>1, <2>3, ExchangesRecv
<1> QED
  BY <1>2, <1>3, TickMoves DEF LinkTick

LEMMA UserRecv ==
  ASSUME IInv, OpenInv, RecvInv, LinkUser PROVE RecvInv'
<1>1. fed' = fed /\ fedEnd' = fedEnd
  BY DEF LinkUser
<1>2. ASSUME NEW p \in Peers, NEW lp \in EphemeralPorts, opener = "none",
             Connect(1, p, lp), opener' = "uip"
      PROVE  RecvInv'
  <2>1. next.tcpstate = "SYN_SENT"
    BY <1>2, ConnectNext
  <2>2. Len(fed) = 0 /\ ~fedEnd /\ HasFed(0) /\ 0 <= PeerBytes
    BY <1>1, <1>2, RecvFacts, Bounds DEF RecvInv
  <2> QED
    BY <1>1, <1>2, <2>1, <2>2, RecvNext
<1>3. ASSUME NEW p \in Ports, Listen(p), UNCHANGED opener PROVE RecvInv'
  <2>1. conn' = conn
    BY <1>3 DEF Listen, conn
  <2> QED
    BY <1>1, <1>3, <2>1 DEF RecvInv, Places, PeerSeq, Plain
<1> QED
  BY <1>2, <1>3, OneConn DEF LinkUser

LEMMA IdleRecv ==
  ASSUME RecvInv, UNCHANGED <<uip_conns, opener, fed, fedEnd>> PROVE RecvInv'
<1>1. conn' = conn
  BY DEF conn
<1> QED
  BY <1>1 DEF RecvInv, Places, PeerSeq, Plain

(* The whole invariant.                                                    *)
StreamInv == LinkInv /\ RecvInv

LEMMA StreamInitInv == LinkInit => StreamInv
<1> SUFFICES ASSUME LinkInit PROVE StreamInv
  OBVIOUS
<1>1. conn.tcpstate = "CLOSED"
  BY LinkAssumption DEF LinkInit, Init, Conns, conn
<1>2. fed = <<>> /\ ~fedEnd
  BY DEF LinkInit
<1>3. fed \in Seq(Nat) /\ Len(fed) = 0 /\ fed = Places(1, 0) /\ 0 <= PeerBytes
  <2>1. Places(1, 0) \in Seq(Nat) /\ Len(Places(1, 0)) = 0
    BY PlacesAre
  <2>2. Places(1, 0) = <<>>
    BY <2>1, EmptySeq
  <2> QED
    BY <1>2, <2>1, <2>2, Bounds
<1>4. RecvInv
  BY <1>1, <1>2, <1>3 DEF RecvInv, SynStates
<1> QED
  BY <1>4, LinkInitInv DEF StreamInv

LEMMA StreamNextInv == StreamInv /\ [LinkNext]_lvars => StreamInv'
<1> SUFFICES ASSUME StreamInv, [LinkNext]_lvars PROVE StreamInv'
  OBVIOUS
<1>1. LinkInv /\ IInv /\ OpenInv /\ SendInv /\ RecvInv
  BY DEF StreamInv, LinkInv
<1>2. LinkInv'
  BY <1>1, LinkNextInv
<1>3. CASE DeliverSyn \/ DeliverSynAck \/ DeliverText \/ DeliverRst
  <2>1. PICK s \in Arriving, at \in 0..(PeerBytes + 2) : Delivery(s, at)
    BY <1>1, <1>3, Delivers
  <2> QED
    BY <1>1, <1>2, <2>1, DeliveryRecv DEF StreamInv
<1>4. ASSUME NEW f \in wire, PeerHears(f) PROVE StreamInv'
  <2>1. UNCHANGED <<uip_conns, opener, fed, fedEnd>>
    BY <1>4, Zenon DEF PeerHears, history, vars
  <2> QED
    BY <1>1, <1>2, <2>1, IdleRecv DEF StreamInv
<1>5. CASE LinkTick
  BY <1>1, <1>2, <1>5, TickRecv DEF StreamInv
<1>6. CASE LinkUser
  BY <1>1, <1>2, <1>6, UserRecv DEF StreamInv
<1>7. CASE UNCHANGED lvars
  BY <1>1, <1>2, <1>7, IdleRecv DEF StreamInv, lvars, history, vars
<1> QED
  BY <1>3, <1>4, <1>5, <1>6, <1>7 DEF LinkNext

(* The application is never asked to forget what it was given.             *)
LEMMA FedGrows ==
  ASSUME Plain, StreamInv, [LinkNext]_lvars
  PROVE  Len(fed) <= Len(fed') /\ (fedEnd => fedEnd')
<1>1. SendInv /\ RecvInv /\ Len(fed) \in Nat
  BY RecvFacts DEF StreamInv, LinkInv
<1>2. fed' = fed => Len(fed) <= Len(fed')
  BY <1>1
<1>3. CASE DeliverSyn \/ DeliverSynAck \/ DeliverText \/ DeliverRst
  <2>1. PICK s \in Arriving, at \in 0..(PeerBytes + 2) : Delivery(s, at)
    BY <1>1, <1>3, Delivers
  <2>2. Deliver(s, at) /\ Remember /\ Carries(s, at)
    BY <2>1 DEF Delivery, Deliver
  <2>3. Skip(s) = 0 /\ s.len \in Nat /\ at \in Nat
    BY <2>2, Bounds, SkipsInside
  <2>4. CASE "NEWDATA" \in Told
    <3> DEFINE n == s.len
               p == Places(at, n)
    <3>1. n - Skip(s) = n /\ at + Skip(s) = at
      BY <2>3
    <3>2. fed' = fed \o p
      BY <2>2, <2>4, <3>1 DEF Deliver
    <3>3. p \in Seq(Nat) /\ Len(p) \in Nat
      BY <2>3, PlacesAre
    <3> HIDE DEF p
    <3>4. fed \in Seq(Nat)
      BY <1>1 DEF RecvInv
    <3>5. Len(fed \o p) = Len(fed) + Len(p)
      BY <3>3, <3>4, ConcatProperties
    <3>6. Len(fed) <= Len(fed')
      BY <1>1, <3>2, <3>3, <3>5
    <3> QED
      BY <2>2, <3>6, EndTold
  <2>5. CASE "NEWDATA" \notin Told
    <3>1. fed' = fed
      BY <2>2, <2>5 DEF Deliver
    <3> QED
      BY <1>2, <2>2, <3>1, EndTold
  <2> QED
    BY <2>4, <2>5
<1>4. ASSUME NEW f \in wire, PeerHears(f) PROVE UNCHANGED <<fed, fedEnd>>
  BY <1>4, Zenon DEF PeerHears, history
<1>5. CASE LinkTick
  BY <1>2, <1>5, EndTold DEF LinkTick
<1>6. LinkUser => UNCHANGED <<fed, fedEnd>>
  BY DEF LinkUser
<1>7. UNCHANGED lvars => UNCHANGED <<fed, fedEnd>>
  BY DEF lvars, history
<1>8. UNCHANGED <<fed, fedEnd>> => Len(fed) <= Len(fed') /\ (fedEnd => fedEnd')
  BY <1>2
<1> QED
  BY <1>3, <1>4, <1>5, <1>6, <1>7, <1>8 DEF LinkNext

LEMMA ToAppStep ==
  ASSUME Plain, StreamInv, StreamInv', [LinkNext]_lvars PROVE ToApp!Next
<1>1. Len(fed) <= Len(fed') /\ (fedEnd => fedEnd')
  BY FedGrows
<1> DEFINE h == Len(fed)
           n == Len(fed')
<1>2. RecvInv /\ RecvInv'
  BY DEF StreamInv
<1>3. /\ h \in Nat /\ n \in Nat /\ fed = Places(1, h) /\ fed' = Places(1, n)
      /\ n <= PeerBytes /\ h <= n
  <2>1. fed' \in Seq(Nat)
    BY <1>2 DEF RecvInv
  <2> QED
    BY <1>1, <1>2, <2>1, RecvFacts, LenProperties DEF RecvInv, Places, Plain
<1>4. (fedEnd => h = PeerBytes) /\ (fedEnd' => n = PeerBytes)
  BY <1>2 DEF RecvInv, Plain
<1>5. n \in h..PeerBytes
  <2> HIDE DEF h, n
  <2> QED
    BY <1>3, Bounds
<1>6. fed' = fed \o [i \in 1..(n - h) |-> h + i]
  <2> HIDE DEF h, n
  <2> QED
    BY <1>3, PlacesGrow
<1>7. /\ fedEnd' => fedEnd \/ (TRUE /\ n = PeerBytes)
      /\ fedEnd => fedEnd' /\ n = h
  BY <1>1, <1>4, Zenon
<1>8. ToApp!Reads
  BY <1>5, <1>6, <1>7, Zenon DEF ToApp!Reads
<1> QED
  BY <1>8 DEF ToApp!Next

(* The peer's stream reaches the application in order, each byte once, and *)
(* CLOSE after its last byte, whatever the network does (the test of       *)
(* rcv_nxt in uip_process) and whatever the application does, uip_stop()   *)
(* included.  Only urgent data is left out.                                *)
THEOREM ApplicationGetsStream == ASSUME Urgps = {} PROVE LinkSpec => AppStream
<1>1. LinkInit => ToApp!Init
  BY Bounds DEF LinkInit, ToApp!Init
<1>2. StreamInv /\ StreamInv' /\ [LinkNext]_lvars => [ToApp!Next]_(ToApp!bvars)
  BY ToAppStep DEF Plain
<1> QED
  BY <1>1, <1>2, StreamInitInv, StreamNextInv, PTL DEF LinkSpec, AppStream, ToApp!Spec

(* One segment is outstanding: what the peer has heard lies between what   *)
(* is acknowledged and what is in flight, and both counters of the         *)
(* connection are at their places in the two streams.  It does not matter  *)
(* here how the application closes.  The peer may mark bytes of a segment  *)
(* as urgent, but no more than it holds: uip_process() does not look at a  *)
(* pointer that is larger, and uip_len wraps (uip.c:1595).                 *)
THEOREM OneOutstanding == LinkSpec => []OneInFlight
<1>1. StreamInv => OneInFlight
  BY DEF StreamInv, LinkInv, SendInv, RecvInv, OneInFlight
<1> QED
  BY <1>1, StreamInitInv, StreamNextInv, PTL DEF LinkSpec
=============================================================================
