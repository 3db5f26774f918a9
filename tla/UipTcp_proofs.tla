---------------------------- MODULE UipTcp_proofs ----------------------------
(* Proofs about UipTcp, for every value of its constants: its invariants,  *)
(* and that the connection table implements the table of sessions.         *)
EXTENDS UipTcpSession, TLAPS

(***************************************************************************)
(* The inductive invariant: what every connection record satisfies on its  *)
(* own, and the uniqueness of tuples across the table.                     *)
(***************************************************************************)
Local(k) ==
  /\ k \in Conn
  /\ k.mss <= k.initialmss
  /\ k.tcpstate \in {"SYN_SENT", "SYN_RCVD"} => ~k.stopped /\ k.nrtx <= UIP_MAXSYNRTX
  /\ k.tcpstate \in {"SYN_SENT", "SYN_RCVD", "FIN_WAIT_1", "CLOSING", "LAST_ACK"}
       => k.len = 1
  /\ k.tcpstate \in {"FIN_WAIT_2", "TIME_WAIT"} => k.len = 0
  /\ k.tcpstate = "ESTABLISHED" => /\ k.len <= k.initialmss
                                   /\ k.len = 0 => k.timer = k.rto

CallOK == \A a \in appcall : a.conn \in Conns /\ a.flags \subseteq Events /\ a.act \in Acts

IInv ==
  /\ uip_conns \in [Conns -> Conn]
  /\ \A c \in Conns : Local(uip_conns[c])
  /\ UniqueTuple
  /\ uip_listenports \in [1..UIP_LISTENPORTS -> Ports \cup {NoPort}]
  /\ iss \in SeqNo
  /\ uip_buf \in Out
  /\ CallOK

SameTuple(k, z) == z.peer = k.peer /\ z.lport = k.lport

(* The segments the paths are proved for: those of a remote endpoint, with *)
(* the urgent pointer inside.  Segments is a subset of them.               *)
Arriving == {s \in Segment : s.peer \in Peers /\ s.urgp <= s.len}

-----------------------------------------------------------------------------
(* Arithmetic on sequence numbers stays in range.                          *)
LEMMA PlusType == ASSUME NEW a \in Nat, NEW n \in Nat PROVE Plus(a, n) \in SeqNo
  BY SeqAssumption DEF Plus, SeqNo

LEMMA Small == /\ 0 \in Length /\ 1 \in Length /\ 0 \in Retries /\ 0 \in Window
               /\ 0 \in SeqNo /\ 0 \in Octet /\ 1 \in Octet
               /\ Length \subseteq Nat /\ Window \subseteq Nat /\ Window \subseteq Length
               /\ Retries \subseteq Nat /\ SeqNo \subseteq Nat /\ Octet \subseteq Nat
  BY SizeAssumption, SeqAssumption, TimerAssumption
     DEF Length, Retries, Window, SeqNo, Octet

(* A segment built from a connection is a segment.                         *)
LEMMA AnswerType ==
  ASSUME NEW k \in Conn, NEW fl \in SUBSET Flags, NEW n \in Nat
  PROVE  Answer(k, fl, n) \in Segment
  BY SizeAssumption DEF Answer, Segment, Conn

LEMMA OutOne == ASSUME NEW x \in Segment PROVE {x} \in Out
  BY DEF Out

LEMMA OutNone == {} \in Out
  BY DEF Out

-----------------------------------------------------------------------------
(* Replacing connection c by a good record with the same local port and    *)
(* remote endpoint keeps the invariant of the table.                       *)
LEMMA ReplaceConn ==
  ASSUME IInv, NEW c \in Conns, NEW z, Local(z), Set(c, z),
         SameTuple(uip_conns[c], z), Live(uip_conns[c])
  PROVE  /\ uip_conns' \in [Conns -> Conn]
         /\ \A d \in Conns : Local(uip_conns'[d])
         /\ UniqueTuple'
<1>1. z \in Conn
  BY DEF Local
<1>2. uip_conns' \in [Conns -> Conn]
  BY <1>1 DEF IInv, Set
<1>3. \A d \in Conns : uip_conns'[d] = IF d = c THEN z ELSE uip_conns[d]
  BY DEF IInv, Set
<1>4. \A d \in Conns : Local(uip_conns'[d])
  BY <1>3 DEF IInv
<1>5. \A d \in Conns : /\ Live(uip_conns'[d]) => Live(uip_conns[d])
                       /\ uip_conns'[d].peer = uip_conns[d].peer
                       /\ uip_conns'[d].lport = uip_conns[d].lport
  BY <1>3 DEF SameTuple
<1>6. UniqueTuple'
  BY <1>5 DEF UniqueTuple, IInv
<1> QED
  BY <1>2, <1>4, <1>6

(* The same for a slot that is taken for a new tuple which no connection   *)
(* in use has.                                                             *)
LEMMA TakeSlot ==
  ASSUME IInv, NEW c \in Conns, NEW z, Local(z), Set(c, z),
         \A d \in Conns : ~(/\ Live(uip_conns[d])
                            /\ uip_conns[d].lport = z.lport
                            /\ uip_conns[d].peer = z.peer)
  PROVE  /\ uip_conns' \in [Conns -> Conn]
         /\ \A d \in Conns : Local(uip_conns'[d])
         /\ UniqueTuple'
<1>1. z \in Conn
  BY DEF Local
<1>2. uip_conns' \in [Conns -> Conn]
  BY <1>1 DEF IInv, Set
<1>3. \A d \in Conns : uip_conns'[d] = IF d = c THEN z ELSE uip_conns[d]
  BY DEF IInv, Set
<1>4. \A d \in Conns : Local(uip_conns'[d])
  BY <1>3 DEF IInv
<1>6. UniqueTuple'
  BY <1>3 DEF UniqueTuple, IInv
<1> QED
  BY <1>2, <1>4, <1>6

-----------------------------------------------------------------------------
(* What a path through uip_process() that concerns connection c leaves     *)
(* behind: a good record with the same tuple, at most one segment, at most *)
(* one callback.                                                           *)
Good(c) == /\ \E z : Local(z) /\ SameTuple(uip_conns[c], z) /\ Set(c, z)
           /\ uip_buf' \in Out
           /\ CallOK'

(* The reply of the application keeps an established record good.          *)
LEMMA AppSendGood ==
  ASSUME NEW c \in Conns, NEW k, Local(k), k.tcpstate = "ESTABLISHED",
         SameTuple(uip_conns[c], k),
         NEW ev \in SUBSET Events, NEW r \in Replies, AppSend(c, k, ev, r)
  PROVE  Good(c)
<1>0. k \in Conn /\ r \in Reply
  BY EnvAssumption DEF Local
<1>1. CallOK'
  BY <1>0 DEF AppSend, Call, CallOK, Reply
<1>2. CASE AppAbort(c, k, ev, r)
  <2> DEFINE z == [k EXCEPT !.tcpstate = "CLOSED", !.stopped = FALSE]
  <2>1. z \in Conn
    BY <1>0 DEF Conn, States
  <2>2. Local(z) /\ SameTuple(uip_conns[c], z)
    BY <1>0, <2>1 DEF Local, SameTuple, Conn
  <2>3. Answer(z, {"RST", "ACK"}, 0) \in Segment
    BY <2>1, AnswerType DEF Flags
  <2> QED
    BY <1>1, <1>2, <2>2, <2>3, OutOne DEF AppAbort, Good, Send
<1>3. CASE AppClose(c, k, ev, r)
  <2> DEFINE z == [k EXCEPT !.tcpstate = "FIN_WAIT_1", !.stopped = FALSE,
                            !.len = 1, !.nrtx = 0]
  <2>1. z \in Conn
    BY <1>0, Small DEF Conn, States
  <2>2. Local(z) /\ SameTuple(uip_conns[c], z)
    BY <1>0, <2>1 DEF Local, SameTuple, Conn
  <2>3. Answer(z, {"FIN", "ACK"}, 0) \in Segment
    BY <2>1, AnswerType DEF Flags
  <2> QED
    BY <1>1, <1>3, <2>2, <2>3, OutOne DEF AppClose, Good, Send
<1>4. CASE AppData(c, k, ev, r)
  <2> DEFINE t == Touch(k, r.act)
             n == IF r.slen > 0 /\ k.len = 0 THEN Lower(r.slen, k.mss) ELSE k.len
             z == [t EXCEPT !.len = n, !.nrtx = 0]
  <2>1. /\ t \in Conn
        /\ \A f \in {"x"} : /\ t.tcpstate = k.tcpstate /\ t.peer = k.peer
                            /\ t.lport = k.lport /\ t.len = k.len /\ t.mss = k.mss
                            /\ t.initialmss = k.initialmss /\ t.timer = k.timer
                            /\ t.rto = k.rto
    BY <1>0 DEF Touch, Conn
  <2>2. /\ n \in Length /\ n <= k.initialmss
        /\ n = 0 => k.len = 0
    BY <1>0, SizeAssumption DEF Local, Lower, Conn, Reply, Length, Window
  <2> HIDE DEF t, n
  <2>3. z \in Conn
    BY <2>1, <2>2, Small DEF Conn
  <2>4. Local(z) /\ SameTuple(uip_conns[c], z)
    BY <1>0, <2>1, <2>2, <2>3 DEF Local, SameTuple, Conn
  <2>5. Set(c, z) /\ AppRexmit(z, ev, r)
    BY <1>4, <2>1 DEF AppData, t, n
  <2>6. uip_buf' \in Out
    <3>1. Answer(z, {"ACK", "PSH"}, z.len) \in Segment /\ Answer(z, {"ACK"}, 0) \in Segment
      BY <2>3, Small, AnswerType DEF Flags, Conn
    <3> QED
      BY <2>5, <3>1, OutOne, OutNone DEF AppRexmit, Send, SendAck, Drop
  <2> QED
    BY <1>1, <2>4, <2>5, <2>6 DEF Good
<1> QED
  BY <1>2, <1>3, <1>4 DEF AppSend

-----------------------------------------------------------------------------
(* The acknowledgement step: the fields it changes and those it keeps.     *)
LEMMA AckedFields ==
  ASSUME NEW k, Local(k), NEW s \in Segment, NEW t \in NewRto(k)
  PROVE  LET a == Acked(k, s, t)
         IN /\ a \in Conn
            /\ a.tcpstate = k.tcpstate /\ a.stopped = k.stopped
            /\ a.peer = k.peer /\ a.lport = k.lport /\ a.rcv_nxt = k.rcv_nxt
            /\ a.mss = k.mss /\ a.initialmss = k.initialmss /\ a.nrtx = k.nrtx
            /\ a.len = IF Acks(k, s) THEN 0 ELSE k.len
            /\ a.tcpstate = "ESTABLISHED" /\ a.len = 0 => a.timer = a.rto
<1>1. t \in Octet
  BY TimerAssumption DEF NewRto, Local, Conn, Octet
<1>2. k \in Conn /\ s.ackno \in SeqNo
  BY DEF Local, Segment
<1>3. CASE Acks(k, s)
  BY <1>1, <1>2, <1>3, Small DEF Acked, Conn
<1>4. CASE ~Acks(k, s)
  BY <1>2, <1>4 DEF Acked, Local
<1> QED
  BY <1>3, <1>4

LEMMA AckedLocal ==
  ASSUME NEW k, Local(k), NEW s \in Segment, NEW t \in NewRto(k),
         ~Acks(k, s) \/ k.tcpstate \in {"ESTABLISHED", "CLOSED"}
  PROVE  Local(Acked(k, s, t))
<1> DEFINE a == Acked(k, s, t)
<1>1. /\ a \in Conn
      /\ a.tcpstate = k.tcpstate /\ a.stopped = k.stopped
      /\ a.mss = k.mss /\ a.initialmss = k.initialmss /\ a.nrtx = k.nrtx
      /\ a.len = IF Acks(k, s) THEN 0 ELSE k.len
      /\ a.tcpstate = "ESTABLISHED" /\ a.len = 0 => a.timer = a.rto
  BY AckedFields
<1>2. k.initialmss \in Nat /\ k.len \in Nat
  BY Small DEF Local, Conn
<1> HIDE DEF a
<1>3. Local(a)
  BY <1>1, <1>2 DEF Local
<1> QED
  BY <1>3 DEF a

(* A path that leaves the table as it is.                                  *)
LEMMA Untouched ==
  ASSUME IInv, NEW c \in Conns, UNCHANGED uip_conns, uip_buf' \in Out, CallOK'
  PROVE  Good(c)
<1>1. Set(c, uip_conns[c])
  BY DEF Set, IInv
<1> QED
  BY <1>1 DEF Good, SameTuple, IInv

LEMMA CallType ==
  ASSUME NEW c \in Conns, NEW ev \in SUBSET Events, NEW act \in Acts, Call(c, ev, act)
  PROVE  CallOK'
  BY DEF Call, CallOK

LEMMA NoCallType == ASSUME NoCall PROVE CallOK'
  BY DEF NoCall, CallOK

LEMMA SendType ==
  ASSUME NEW k \in Conn, NEW fl \in SUBSET Flags, Send(k, fl, 0)
  PROVE  uip_buf' \in Out
  BY AnswerType, OutOne DEF Send

LEMMA ResetType == ASSUME NEW s \in Segment, Reset(s) PROVE uip_buf' \in Out
<1>1. Plus(s.seqno, 1) \in SeqNo
  BY PlusType, Small DEF Segment
<1>2. [peer |-> s.peer, lport |-> s.lport, flags |-> {"RST", "ACK"},
       seqno |-> s.ackno, ackno |-> Plus(s.seqno, 1), len |-> 0,
       wnd |-> s.wnd, mss |-> 0, urgp |-> 0] \in Segment
  BY <1>1 DEF Segment, Flags
<1> QED
  BY <1>2, OutOne, OutNone DEF Reset

-----------------------------------------------------------------------------
(* One lemma per path of a segment that belongs to a connection.           *)
LEMMA RstGood == ASSUME IInv, NEW c \in Conns, RecvRst(c) PROVE Good(c)
<1>1. PICK act \in EndActs :
        /\ Set(c, [uip_conns[c] EXCEPT !.tcpstate = "CLOSED",
                                       !.stopped = (act = "stop")])
        /\ Call(c, {"ABORT"}, act) /\ Drop
  BY DEF RecvRst
<1> DEFINE k == uip_conns[c]
           z == [k EXCEPT !.tcpstate = "CLOSED", !.stopped = (act = "stop")]
<1>2. k \in Conn /\ Local(k)
  BY DEF IInv
<1> HIDE DEF k
<1>3. z \in Conn /\ Local(z) /\ SameTuple(k, z)
  BY <1>2 DEF Local, Conn, States, SameTuple
<1>4. CallOK'
  BY <1>1, CallType, EnvAssumption DEF Events, Acts
<1> QED
  BY <1>1, <1>3, <1>4, OutNone DEF Good, Drop, k

LEMMA OutOfOrderGood == ASSUME IInv, NEW c \in Conns, RecvOutOfOrder(c) PROVE Good(c)
  BY SendType, NoCallType, Untouched DEF RecvOutOfOrder, SendAck, Flags, IInv

(* z is a in ESTABLISHED, with another rcv_nxt and mss.                    *)
Established(a, z, n, m) ==
  /\ z \in Conn /\ z.tcpstate = "ESTABLISHED" /\ z.rcv_nxt = n /\ z.mss = m
  /\ z.peer = a.peer /\ z.lport = a.lport /\ z.len = a.len
  /\ z.initialmss = a.initialmss /\ z.timer = a.timer /\ z.rto = a.rto

LEMMA SynRcvdGood ==
  ASSUME IInv, NEW c \in Conns, NEW s \in Segment, RecvSynRcvd(c, s) PROVE Good(c)
<1> DEFINE k == uip_conns[c]
<1>1. CASE ~Acks(k, s)
  BY <1>1, NoCallType, OutNone, Untouched DEF RecvSynRcvd, Drop
<1>2. CASE Acks(k, s)
  <2>1. PICK t \in NewRto(k), r \in Replies :
          AppSend(c, [Acked(k, s, t) EXCEPT !.tcpstate = "ESTABLISHED",
                                            !.rcv_nxt = Plus(@, s.len)],
                  {"CONNECTED"} \cup NewFlag(s.len), r)
    BY <1>2 DEF RecvSynRcvd
  <2> DEFINE a == Acked(k, s, t)
             z == [a EXCEPT !.tcpstate = "ESTABLISHED", !.rcv_nxt = Plus(@, s.len)]
  <2>2. Local(k)
    BY DEF IInv
  <2>3. /\ a \in Conn /\ a.peer = k.peer /\ a.lport = k.lport /\ a.len = 0
        /\ a.mss = k.mss /\ a.initialmss = k.initialmss /\ a.timer = a.rto
    <3>1. /\ a \in Conn /\ a.peer = k.peer /\ a.lport = k.lport /\ a.len = 0
          /\ a.mss = k.mss /\ a.initialmss = k.initialmss
      BY <1>2, <2>2, AckedFields
    <3>2. a.timer = a.rto
      BY <1>2, <2>2 DEF Acked, Local, Conn
    <3> QED
      BY <3>1, <3>2
  <2> HIDE DEF a
  <2>4. Plus(a.rcv_nxt, s.len) \in SeqNo
    BY <2>3, PlusType, Small DEF Conn, Segment
  <2>5. Established(a, z, Plus(a.rcv_nxt, s.len), a.mss)
    BY <2>3, <2>4 DEF Established, Conn, States
  <2>7. z.tcpstate = "ESTABLISHED" /\ Local(z) /\ SameTuple(k, z)
    BY <2>2, <2>3, <2>5, Small DEF Established, Local, Conn, SameTuple
  <2>6. {"CONNECTED"} \cup NewFlag(s.len) \in SUBSET Events
    BY DEF NewFlag, Events
  <2> HIDE DEF k
  <2> QED
    BY <2>1, <2>6, <2>7, AppSendGood DEF a, k
<1> QED
  BY <1>1, <1>2

LEMMA SynSentGood ==
  ASSUME IInv, NEW c \in Conns, NEW s \in Segment, RecvSynSent(c, s) PROVE Good(c)
<1> DEFINE k == uip_conns[c]
<1>1. PICK t \in NewRto(k) :
        IF Acks(k, s) /\ s.flags = {"SYN", "ACK"}
        THEN \E r \in Replies :
               AppSend(c, [Mss(Acked(k, s, t), s) EXCEPT
                             !.tcpstate = "ESTABLISHED",
                             !.rcv_nxt = Plus(s.seqno, 1)],
                       {"CONNECTED", "NEWDATA"}, r)
        ELSE /\ Set(c, [Acked(k, s, t) EXCEPT !.tcpstate = "CLOSED", !.stopped = FALSE])
             /\ Call(c, {"ABORT"}, "none") /\ Reset(s)
  BY DEF RecvSynSent
<1> DEFINE a == Acked(k, s, t)
<1>2. Local(k)
  BY DEF IInv
<1>3. /\ a \in Conn /\ a.peer = k.peer /\ a.lport = k.lport
      /\ a.mss = k.mss /\ a.initialmss = k.initialmss
      /\ a.len = IF Acks(k, s) THEN 0 ELSE k.len
      /\ a.nrtx = k.nrtx
  BY <1>2, AckedFields
<1>4. Acks(k, s) => a.timer = a.rto
  BY <1>2 DEF Acked, Local, Conn
<1> HIDE DEF a
<1>5. CASE Acks(k, s) /\ s.flags = {"SYN", "ACK"}
  <2>1. PICK r \in Replies :
          AppSend(c, [Mss(a, s) EXCEPT !.tcpstate = "ESTABLISHED",
                                       !.rcv_nxt = Plus(s.seqno, 1)],
                  {"CONNECTED", "NEWDATA"}, r)
    BY <1>1, <1>5 DEF a
  <2> DEFINE m == Mss(a, s)
             z == [m EXCEPT !.tcpstate = "ESTABLISHED", !.rcv_nxt = Plus(s.seqno, 1)]
  <2>2. /\ m \in Conn /\ m.mss <= m.initialmss
        /\ m.peer = a.peer /\ m.lport = a.lport /\ m.len = a.len
        /\ m.timer = a.timer /\ m.rto = a.rto
    <3>1. Lower(s.mss, UIP_TCP_MSS) \in Window
      BY SizeAssumption DEF Lower, Window, Segment
    <3>2. k.mss <= k.initialmss
      BY <1>2 DEF Local
    <3>3. \A x \in Window : x <= x
      BY Small
    <3> QED
      BY <1>3, <3>1, <3>2, <3>3 DEF Mss, Conn
  <2> HIDE DEF m
  <2>3. Plus(s.seqno, 1) \in SeqNo
    BY PlusType, Small DEF Segment
  <2>4. Established(m, z, Plus(s.seqno, 1), m.mss)
    BY <2>2, <2>3 DEF Established, Conn, States
  <2>5. z.tcpstate = "ESTABLISHED" /\ Local(z) /\ SameTuple(k, z)
    BY <1>3, <1>4, <1>5, <2>2, <2>4, Small DEF Established, Local, Conn, SameTuple
  <2>6. {"CONNECTED", "NEWDATA"} \in SUBSET Events
    BY DEF Events
  <2> HIDE DEF k
  <2> QED
    BY <2>1, <2>5, <2>6, AppSendGood DEF m, k
<1>6. CASE ~(Acks(k, s) /\ s.flags = {"SYN", "ACK"})
  <2> DEFINE z == [a EXCEPT !.tcpstate = "CLOSED", !.stopped = FALSE]
  <2>1. Set(c, z) /\ Call(c, {"ABORT"}, "none") /\ Reset(s)
    BY <1>1, <1>6 DEF a
  <2>2. z \in Conn /\ z.tcpstate = "CLOSED" /\ SameTuple(k, z) /\ z.mss <= z.initialmss
    BY <1>2, <1>3 DEF Local, Conn, States, SameTuple
  <2>3. Local(z)
    BY <2>2 DEF Local
  <2> QED
    BY <2>1, <2>2, <2>3, ResetType, CallType DEF Good, Events, Acts
<1> QED
  BY <1>5, <1>6

LEMMA FinGood ==
  ASSUME IInv, NEW c \in Conns, NEW s \in Segment, RecvFin(c, s) PROVE Good(c)
<1> DEFINE k == uip_conns[c]
<1>0. Local(k) /\ k.tcpstate = "ESTABLISHED"
  BY DEF IInv, RecvFin
<1>1. PICK t \in NewRto(k) :
       LET a == Acked(k, s, t)
           z == [a EXCEPT !.rcv_nxt = Plus(@, 1 + s.len), !.len = 1, !.nrtx = 0,
                          !.tcpstate = "LAST_ACK", !.stopped = FALSE]
       IN IF a.len > 0 THEN UNCHANGED uip_conns /\ NoCall /\ Drop
          ELSE /\ Set(c, z) /\ Send(z, {"FIN", "ACK"}, 0)
               /\ Call(c, {"CLOSE"} \cup AckFlag(k, s) \cup NewFlag(s.len), "none")
  BY DEF RecvFin
<1> DEFINE a == Acked(k, s, t)
           z == [a EXCEPT !.rcv_nxt = Plus(@, 1 + s.len), !.len = 1, !.nrtx = 0,
                          !.tcpstate = "LAST_ACK", !.stopped = FALSE]
<1>2. CASE a.len > 0
  BY <1>1, <1>2, NoCallType, OutNone, Untouched DEF Drop
<1>3. CASE ~(a.len > 0)
  <2>1. a \in Conn /\ Local(a) /\ SameTuple(k, a)
    BY <1>0, AckedFields, AckedLocal DEF SameTuple
  <2>2. Plus(a.rcv_nxt, 1 + s.len) \in SeqNo
    <3>1. a.rcv_nxt \in Nat
      BY <2>1, Small DEF Conn
    <3>2. 1 + s.len \in Nat
      BY DEF Segment
    <3> QED
      BY <3>1, <3>2, PlusType
  <2>3. Set(c, z) /\ Send(z, {"FIN", "ACK"}, 0)
        /\ Call(c, {"CLOSE"} \cup AckFlag(k, s) \cup NewFlag(s.len), "none")
    BY <1>1, <1>3
  <2>4. CallOK'
    BY <2>3, CallType DEF AckFlag, NewFlag, Events, Acts
  <2> HIDE DEF a
  <2>5. /\ z \in Conn /\ z.tcpstate = "LAST_ACK" /\ SameTuple(a, z) /\ z.len = 1
        /\ z.mss = a.mss /\ z.initialmss = a.initialmss
    BY <2>1, <2>2, Small DEF Conn, States, SameTuple
  <2>6. Local(z) /\ SameTuple(k, z)
    BY <2>1, <2>5 DEF Local, SameTuple
  <2> QED
    BY <2>3, <2>4, <2>5, <2>6, SendType DEF Good, Flags
<1> QED
  BY <1>2, <1>3

LEMMA EstablishedGood ==
  ASSUME IInv, NEW c \in Conns, NEW s \in Segment, s.urgp <= s.len,
         RecvEstablished(c, s)
  PROVE  Good(c)
<1> DEFINE k == uip_conns[c]
<1>0. Local(k) /\ k.tcpstate = "ESTABLISHED"
  BY DEF IInv, RecvEstablished
<1>1. PICK t \in NewRto(k) :
       LET a  == Acked(k, s, t)
           n  == Taken(a, s)
           ev == AckFlag(k, s) \cup NewFlag(n)
           w  == IF s.wnd > a.initialmss \/ s.wnd = 0 THEN a.initialmss ELSE s.wnd
           z  == [a EXCEPT !.rcv_nxt = Plus(@, n), !.mss = w]
       IN IF ev = {} THEN Set(c, z) /\ NoCall /\ Drop
          ELSE \E r \in Replies : AppSend(c, z, ev, r)
  BY DEF RecvEstablished
<1> DEFINE a  == Acked(k, s, t)
           n  == Taken(a, s)
           ev == AckFlag(k, s) \cup NewFlag(n)
           w  == IF s.wnd > a.initialmss \/ s.wnd = 0 THEN a.initialmss ELSE s.wnd
           z  == [a EXCEPT !.rcv_nxt = Plus(@, n), !.mss = w]
<1>2. IF ev = {} THEN Set(c, z) /\ NoCall /\ Drop
      ELSE \E r \in Replies : AppSend(c, z, ev, r)
  BY <1>1
<1>3. /\ a \in Conn /\ Local(a) /\ SameTuple(k, a) /\ a.tcpstate = "ESTABLISHED"
  BY <1>0, AckedFields, AckedLocal DEF SameTuple
<1>4. ev \in SUBSET Events
  BY DEF AckFlag, NewFlag, Events
<1> HIDE DEF a
<1>5. n \in Nat
  BY DEF Taken, Urgent, Segment
<1>6. w \in Window /\ w <= a.initialmss
  <2>1. a.initialmss \in 0..UIP_TCP_MSS /\ s.wnd \in Nat
    BY <1>3 DEF Conn, Window, Segment
  <2> QED
    BY <2>1, SizeAssumption DEF Window
<1> HIDE DEF n, ev, w
<1>7. Plus(a.rcv_nxt, n) \in SeqNo
  BY <1>3, <1>5, PlusType, Small DEF Conn
<1>8. Established(a, z, Plus(a.rcv_nxt, n), w)
  BY <1>3, <1>6, <1>7 DEF Established, Conn, States
<1>9. z.tcpstate = "ESTABLISHED" /\ Local(z) /\ SameTuple(k, z)
  BY <1>3, <1>6, <1>8 DEF Established, Local, SameTuple
<1>10. CASE ev = {}
  BY <1>2, <1>9, <1>10, NoCallType, OutNone DEF Good, Drop
<1>11. CASE ev # {}
  <2>1. PICK r \in Replies : AppSend(c, z, ev, r)
    BY <1>2, <1>11
  <2> HIDE DEF k, z
  <2> QED
    BY <1>4, <1>9, <2>1, AppSendGood DEF k
<1> QED
  BY <1>10, <1>11

LEMMA LastAckGood ==
  ASSUME IInv, NEW c \in Conns, NEW s \in Segment, RecvLastAck(c, s) PROVE Good(c)
<1> DEFINE k == uip_conns[c]
<1>1. CASE ~Acks(k, s)
  BY <1>1, NoCallType, OutNone, Untouched DEF RecvLastAck, Drop
<1>2. CASE Acks(k, s)
  <2>1. PICK t \in NewRto(k), act \in EndActs :
          /\ Set(c, [Acked(k, s, t) EXCEPT !.tcpstate = "CLOSED",
                                           !.stopped = (act = "stop")])
          /\ Call(c, {"CLOSE"}, act)
    BY <1>2 DEF RecvLastAck
  <2> DEFINE a == Acked(k, s, t)
             z == [a EXCEPT !.tcpstate = "CLOSED", !.stopped = (act = "stop")]
  <2>2. Local(k)
    BY DEF IInv
  <2>3. a \in Conn /\ SameTuple(k, a) /\ a.mss <= a.initialmss
    BY <2>2, AckedFields DEF SameTuple, Local
  <2> HIDE DEF a
  <2>4. z \in Conn /\ z.tcpstate = "CLOSED" /\ SameTuple(k, z) /\ z.mss <= z.initialmss
    BY <2>3 DEF Conn, States, SameTuple
  <2>5. Local(z)
    BY <2>4 DEF Local
  <2>6. CallOK'
    BY <2>1, CallType, EnvAssumption DEF Events, Acts
  <2> QED
    BY <2>1, <2>4, <2>5, <2>6, OutNone DEF Good, RecvLastAck, Drop, a
<1> QED
  BY <1>1, <1>2

(* A record after a state change to one where nothing is outstanding or    *)
(* the FIN still is.                                                       *)
LEMMA LeavesData ==
  ASSUME NEW k, Local(k), NEW z \in Conn, SameTuple(k, z),
         z.mss = k.mss, z.initialmss = k.initialmss,
         \/ z.tcpstate \in {"FIN_WAIT_2", "TIME_WAIT"} /\ z.len = 0
         \/ z.tcpstate \in {"FIN_WAIT_1", "CLOSING", "LAST_ACK"} /\ z.len = 1
         \/ z.tcpstate = "CLOSED"
  PROVE  Local(z)
  BY DEF Local

LEMMA FinWait1Good ==
  ASSUME IInv, NEW c \in Conns, NEW s \in Segment, RecvFinWait1(c, s) PROVE Good(c)
<1> DEFINE k == uip_conns[c]
           ok == Acks(k, s)
<1>0. Local(k) /\ k.tcpstate = "FIN_WAIT_1" /\ k.len = 1
  BY DEF IInv, RecvFinWait1, Local
<1>1. PICK t \in NewRto(k), act \in EndActs :
       LET b == [Acked(k, s, t) EXCEPT !.rcv_nxt = Plus(@, s.len)]
           f == [b EXCEPT !.rcv_nxt = Plus(@, 1), !.stopped = (act = "stop"),
                          !.tcpstate = IF ok THEN "TIME_WAIT" ELSE "CLOSING",
                          !.timer = IF ok THEN 0 ELSE @]
       IN IF "FIN" \in s.flags
          THEN Set(c, f) /\ Call(c, {"CLOSE"}, act) /\ SendAck(f)
          ELSE /\ NoCall
               /\ Set(c, [b EXCEPT !.tcpstate = IF ok THEN "FIN_WAIT_2" ELSE @])
               /\ IF ~ok /\ s.len > 0 THEN SendAck(b) ELSE Drop
  BY DEF RecvFinWait1
<1> DEFINE a == Acked(k, s, t)
           b == [a EXCEPT !.rcv_nxt = Plus(@, s.len)]
           f == [b EXCEPT !.rcv_nxt = Plus(@, 1), !.stopped = (act = "stop"),
                          !.tcpstate = IF ok THEN "TIME_WAIT" ELSE "CLOSING",
                          !.timer = IF ok THEN 0 ELSE @]
           g == [b EXCEPT !.tcpstate = IF ok THEN "FIN_WAIT_2" ELSE @]
<1>2. IF "FIN" \in s.flags
      THEN Set(c, f) /\ Call(c, {"CLOSE"}, act) /\ SendAck(f)
      ELSE NoCall /\ Set(c, g) /\ IF ~ok /\ s.len > 0 THEN SendAck(b) ELSE Drop
  BY <1>1
<1>3. /\ a \in Conn /\ SameTuple(k, a) /\ a.tcpstate = k.tcpstate
      /\ a.mss = k.mss /\ a.initialmss = k.initialmss
      /\ a.len = IF ok THEN 0 ELSE 1
  BY <1>0, AckedFields DEF SameTuple
<1> HIDE DEF a, ok
<1>4. Plus(a.rcv_nxt, s.len) \in SeqNo
  BY <1>3, PlusType, Small DEF Conn, Segment
<1>5. /\ b \in Conn /\ SameTuple(k, b) /\ b.tcpstate = "FIN_WAIT_1"
      /\ b.mss = k.mss /\ b.initialmss = k.initialmss /\ b.len = a.len
  BY <1>0, <1>3, <1>4 DEF Conn, SameTuple
<1> HIDE DEF b
<1>6. CASE "FIN" \in s.flags
  <2>1. Plus(b.rcv_nxt, 1) \in SeqNo
    BY <1>5, PlusType, Small DEF Conn
  <2>2. /\ f \in Conn /\ SameTuple(k, f)
        /\ f.mss = k.mss /\ f.initialmss = k.initialmss /\ f.len = b.len
        /\ f.tcpstate = IF ok THEN "TIME_WAIT" ELSE "CLOSING"
    BY <1>5, <2>1, Small DEF Conn, SameTuple, States
  <2> HIDE DEF f
  <2>3. Local(f)
    BY <1>0, <1>3, <1>5, <2>2, LeavesData
  <2>4. uip_buf' \in Out
    BY <1>2, <1>6, <2>2, SendType DEF SendAck, Flags
  <2>5. CallOK'
    BY <1>2, <1>6, CallType, EnvAssumption DEF Events, Acts
  <2> QED
    BY <1>2, <1>6, <2>2, <2>3, <2>4, <2>5 DEF Good
<1>7. CASE "FIN" \notin s.flags
  <2>2. /\ g \in Conn /\ SameTuple(k, g)
        /\ g.mss = k.mss /\ g.initialmss = k.initialmss /\ g.len = b.len
        /\ g.tcpstate = IF ok THEN "FIN_WAIT_2" ELSE "FIN_WAIT_1"
    BY <1>5 DEF Conn, SameTuple, States
  <2> HIDE DEF g
  <2>3. Local(g)
    BY <1>0, <1>3, <1>5, <2>2, LeavesData
  <2>4. uip_buf' \in Out
    BY <1>2, <1>5, <1>7, SendType, OutNone DEF SendAck, Flags, Drop
  <2> QED
    BY <1>2, <1>7, <2>2, <2>3, <2>4, NoCallType DEF Good
<1> QED
  BY <1>6, <1>7

LEMMA FinWait2Good ==
  ASSUME IInv, NEW c \in Conns, NEW s \in Segment, RecvFinWait2(c, s) PROVE Good(c)
<1> DEFINE k == uip_conns[c]
           b == [k EXCEPT !.rcv_nxt = Plus(@, s.len)]
           f(act) == [b EXCEPT !.rcv_nxt = Plus(@, 1), !.timer = 0,
                               !.tcpstate = "TIME_WAIT", !.stopped = (act = "stop")]
<1>0. k \in Conn /\ Local(k) /\ k.tcpstate = "FIN_WAIT_2" /\ k.len = 0
  BY DEF IInv, RecvFinWait2, Local
<1>2. IF "FIN" \in s.flags
      THEN \E act \in EndActs : /\ Set(c, f(act)) /\ Call(c, {"CLOSE"}, act)
                                /\ SendAck(f(act))
      ELSE Set(c, b) /\ NoCall /\ IF s.len > 0 THEN SendAck(b) ELSE Drop
  BY DEF RecvFinWait2
<1> HIDE DEF k
<1>4. Plus(k.rcv_nxt, s.len) \in SeqNo
  BY <1>0, PlusType, Small DEF Conn, Segment
<1>5. /\ b \in Conn /\ SameTuple(k, b) /\ b.tcpstate = "FIN_WAIT_2"
      /\ b.mss = k.mss /\ b.initialmss = k.initialmss /\ b.len = 0
  BY <1>0, <1>4 DEF Conn, SameTuple
<1> HIDE DEF b
<1>6. CASE "FIN" \in s.flags
  <2>0. PICK act \in EndActs : Set(c, f(act)) /\ Call(c, {"CLOSE"}, act) /\ SendAck(f(act))
    BY <1>2, <1>6
  <2>1. Plus(b.rcv_nxt, 1) \in SeqNo
    BY <1>5, PlusType, Small DEF Conn
  <2> DEFINE z == f(act)
  <2>2. /\ z \in Conn /\ SameTuple(k, z) /\ z.mss = k.mss /\ z.initialmss = k.initialmss
        /\ z.len = 0 /\ z.tcpstate = "TIME_WAIT"
    BY <1>5, <2>1, Small DEF Conn, SameTuple, States
  <2>6. Set(c, z) /\ Call(c, {"CLOSE"}, act) /\ SendAck(z)
    BY <2>0
  <2> HIDE DEF z
  <2>3. Local(z)
    BY <1>0, <2>2, LeavesData
  <2>4. uip_buf' \in Out
    BY <2>2, <2>6, SendType DEF SendAck, Flags
  <2>5. CallOK'
    BY <2>6, CallType, EnvAssumption DEF Events, Acts
  <2> QED
    BY <2>2, <2>3, <2>4, <2>5, <2>6 DEF Good, k
<1>7. CASE "FIN" \notin s.flags
  <2>3. Local(b)
    BY <1>0, <1>5, LeavesData
  <2>4. uip_buf' \in Out
    BY <1>2, <1>5, <1>7, SendType, OutNone DEF SendAck, Flags, Drop
  <2> QED
    BY <1>2, <1>5, <1>7, <2>3, <2>4, NoCallType DEF Good, k
<1> QED
  BY <1>6, <1>7

LEMMA TimeWaitGood == ASSUME IInv, NEW c \in Conns, RecvTimeWait(c) PROVE Good(c)
  BY SendType, NoCallType, Untouched DEF RecvTimeWait, SendAck, Flags, IInv

LEMMA ClosingGood ==
  ASSUME IInv, NEW c \in Conns, NEW s \in Segment, RecvClosing(c, s) PROVE Good(c)
<1> DEFINE k == uip_conns[c]
<1>1. CASE ~Acks(k, s)
  BY <1>1, NoCallType, OutNone, Untouched DEF RecvClosing, Drop
<1>2. CASE Acks(k, s)
  <2>1. PICK t \in NewRto(k) :
          Set(c, [Acked(k, s, t) EXCEPT !.tcpstate = "TIME_WAIT", !.stopped = FALSE,
                                        !.timer = 0])
    BY <1>2 DEF RecvClosing
  <2> DEFINE a == Acked(k, s, t)
             z == [a EXCEPT !.tcpstate = "TIME_WAIT", !.stopped = FALSE, !.timer = 0]
  <2>2. Local(k)
    BY DEF IInv
  <2>3. /\ a \in Conn /\ SameTuple(k, a) /\ a.len = 0
        /\ a.mss = k.mss /\ a.initialmss = k.initialmss
    BY <1>2, <2>2, AckedFields DEF SameTuple
  <2> HIDE DEF a
  <2>4. /\ z \in Conn /\ SameTuple(k, z) /\ z.mss = k.mss /\ z.initialmss = k.initialmss
        /\ z.len = 0 /\ z.tcpstate = "TIME_WAIT"
    BY <2>3, Small DEF Conn, SameTuple, States
  <2>5. Local(z)
    BY <2>2, <2>4, LeavesData
  <2> QED
    BY <2>1, <2>4, <2>5, NoCallType, OutNone DEF Good, RecvClosing, Drop, a
<1> QED
  BY <1>1, <1>2

LEMMA ZombieGood ==
  ASSUME IInv, NEW c \in Conns, NEW s \in Segment, RecvZombie(c, s) PROVE Good(c)
<1> DEFINE k == uip_conns[c]
<1>1. PICK t \in NewRto(k) : Set(c, Acked(k, s, t))
  BY DEF RecvZombie
<1>2. Local(k) /\ k.tcpstate = "CLOSED"
  BY DEF IInv, RecvZombie
<1>3. Local(Acked(k, s, t)) /\ SameTuple(k, Acked(k, s, t))
  BY <1>2, AckedLocal, AckedFields DEF SameTuple
<1> QED
  BY <1>1, <1>3, NoCallType, OutNone DEF Good, RecvZombie, Drop

(* Every path of a segment that belongs to a connection.                   *)
LEMMA FoundGood ==
  ASSUME IInv, NEW c \in Conns, NEW s \in Arriving, RecvFound(c, s) PROVE Good(c)
<1>1. s \in Segment /\ s.urgp <= s.len
  BY DEF Arriving
<1> QED
  BY <1>1, RstGood, OutOfOrderGood, SynRcvdGood, SynSentGood, FinGood,
     EstablishedGood, LastAckGood, FinWait1Good, FinWait2Good, TimeWaitGood,
     ClosingGood, ZombieGood DEF RecvFound

-----------------------------------------------------------------------------
(* One lemma per path of the periodic timer.                               *)
LEMMA TickWaitGood == ASSUME IInv, NEW c \in Conns, TickWait(c) PROVE Good(c)
<1> DEFINE k == uip_conns[c]
           n == (k.timer + 1) % TimerMod
           z == [k EXCEPT !.timer = n,
                   !.tcpstate = IF n = UIP_TIME_WAIT_TIMEOUT THEN "CLOSED" ELSE @]
<1>1. k \in Conn /\ Local(k) /\ k.tcpstate \in {"TIME_WAIT", "FIN_WAIT_2"}
  BY DEF IInv, TickWait, Waiting, Is
<1>2. Set(c, z)
  BY DEF TickWait
<1> HIDE DEF k
<1>3. n \in Octet
  <2>1. k.timer \in Nat
    BY <1>1, Small DEF Conn
  <2> QED
    BY <2>1, TimerAssumption DEF Octet
<1>4. k.len = 0
  BY <1>1 DEF Local
<1> HIDE DEF n
<1>5. /\ z \in Conn /\ SameTuple(k, z) /\ z.len = 0
      /\ z.mss = k.mss /\ z.initialmss = k.initialmss
      /\ z.tcpstate \in {"TIME_WAIT", "FIN_WAIT_2", "CLOSED"}
  BY <1>1, <1>3, <1>4 DEF Conn, SameTuple, States
<1> HIDE DEF z
<1>6. Local(z)
  BY <1>1, <1>5, LeavesData
<1> QED
  BY <1>2, <1>5, <1>6, NoCallType, OutNone DEF Good, TickWait, Drop, k

LEMMA TickCountdownGood == ASSUME IInv, NEW c \in Conns, TickCountdown(c) PROVE Good(c)
<1> DEFINE k == uip_conns[c]
           z == [k EXCEPT !.timer = @ - 1]
<1>1. k \in Conn /\ Local(k) /\ k.len > 0 /\ k.timer > 0
  BY DEF IInv, TickCountdown, Armed
<1>2. Set(c, z)
  BY DEF TickCountdown
<1> HIDE DEF k
<1>3. k.timer - 1 \in Octet
  BY <1>1, TimerAssumption DEF Conn, Octet
<1>4. /\ z \in Conn /\ SameTuple(k, z) /\ z.len = k.len /\ z.nrtx = k.nrtx
      /\ z.mss = k.mss /\ z.initialmss = k.initialmss
      /\ z.tcpstate = k.tcpstate /\ z.stopped = k.stopped
  BY <1>1, <1>3 DEF Conn, SameTuple
<1>5. k.len # 0
  BY <1>1
<1> HIDE DEF z
<1>6. Local(z)
  BY <1>1, <1>4, <1>5 DEF Local
<1> QED
  BY <1>2, <1>4, <1>6, NoCallType, OutNone DEF Good, TickCountdown, Drop, k

LEMMA TickTimeoutGood == ASSUME IInv, NEW c \in Conns, TickTimeout(c) PROVE Good(c)
<1> DEFINE k == uip_conns[c]
<1>1. PICK act \in EndActs :
       LET z == [k EXCEPT !.tcpstate = "CLOSED", !.timer = TimerMod - 1,
                          !.stopped = (act = "stop")]
       IN Set(c, z) /\ Call(c, {"TIMEDOUT"}, act) /\ Send(z, {"RST", "ACK"}, 0)
  BY DEF TickTimeout
<1> DEFINE z == [k EXCEPT !.tcpstate = "CLOSED", !.timer = TimerMod - 1,
                          !.stopped = (act = "stop")]
<1>2. Set(c, z) /\ Call(c, {"TIMEDOUT"}, act) /\ Send(z, {"RST", "ACK"}, 0)
  BY <1>1
<1>3. k \in Conn /\ Local(k)
  BY DEF IInv
<1>4. TimerMod - 1 \in Octet
  BY TimerAssumption DEF Octet
<1> HIDE DEF k
<1>5. /\ z \in Conn /\ SameTuple(k, z) /\ z.mss = k.mss /\ z.initialmss = k.initialmss
      /\ z.tcpstate = "CLOSED"
  BY <1>3, <1>4 DEF Conn, SameTuple, States
<1> HIDE DEF z
<1>6. Local(z)
  BY <1>3, <1>5, LeavesData
<1>7. CallOK'
  BY <1>2, CallType, EnvAssumption DEF Events, Acts
<1> QED
  BY <1>2, <1>5, <1>6, <1>7, SendType DEF Good, Flags, k

(* The backed-off record: one more retry, a timer that still fits an       *)
(* octet, everything else kept.                                            *)
LEMMA BackoffLocal ==
  ASSUME NEW k, Local(k), k.len > 0, ~GivesUp(k)
  PROVE  LET z == Backoff(k)
         IN /\ z \in Conn /\ Local(z) /\ SameTuple(k, z)
            /\ z.len = k.len /\ z.tcpstate = k.tcpstate
<1> DEFINE z == Backoff(k)
<1>1. k \in Conn
  BY DEF Local
<1>2. UIP_RTO * Shift(k.nrtx) \in Octet
  <2>1. UIP_RTO \in Nat /\ UIP_RTO * 16 < TimerMod /\ TimerMod \in Nat
    BY TimerAssumption
  <2>2. Shift(k.nrtx) \in {1, 2, 4, 8, 16}
    BY DEF Shift
  <2> QED
    BY <2>1, <2>2 DEF Octet
<1>3. k.nrtx + 1 \in Retries
  BY <1>1, SizeAssumption DEF Conn, Retries, GivesUp
<1>4. k.tcpstate \in {"SYN_SENT", "SYN_RCVD"} => k.nrtx + 1 <= UIP_MAXSYNRTX
  <2>1. k.nrtx \in Nat
    BY <1>1, Small DEF Conn
  <2> QED
    BY <2>1, SizeAssumption DEF Local, GivesUp, Is
<1>5. /\ z \in Conn /\ SameTuple(k, z) /\ z.len = k.len /\ z.nrtx = k.nrtx + 1
      /\ z.mss = k.mss /\ z.initialmss = k.initialmss
      /\ z.tcpstate = k.tcpstate /\ z.stopped = k.stopped
  <2> DEFINE t == UIP_RTO * Shift(k.nrtx)
             n == k.nrtx + 1
  <2>1. z = [k EXCEPT !.timer = t, !.nrtx = n]
    BY <1>1 DEF Backoff, Conn
  <2>2. t \in Octet /\ n \in Retries
    BY <1>2, <1>3
  <2> HIDE DEF t
  <2>3. [k EXCEPT !.timer = t, !.nrtx = n] \in Conn
    <3> HIDE DEF n
    <3> QED
      BY <1>1, <2>2 DEF Conn
  <2> QED
    BY <1>1, <2>1, <2>3 DEF Conn, SameTuple
<1>6. k.len # 0
  BY Small
<1> HIDE DEF z
<1>7. Local(z)
  BY <1>4, <1>5, <1>6 DEF Local
<1> QED
  BY <1>5, <1>7 DEF z

LEMMA TickRexmitGood == ASSUME IInv, NEW c \in Conns, TickRexmit(c) PROVE Good(c)
<1> DEFINE k == uip_conns[c]
           z == Backoff(k)
<1>1. Local(k) /\ k.len > 0 /\ ~GivesUp(k)
  BY DEF IInv, TickRexmit, Retry, Expired, Armed
<1>2. z \in Conn /\ Local(z) /\ SameTuple(k, z)
  BY <1>1, BackoffLocal
<1>3. Set(c, z) /\ NoCall
  BY DEF TickRexmit
<1>4. Send(z, {"SYN", "ACK"}, 0) \/ Send(z, {"SYN"}, 0) \/ Send(z, {"FIN", "ACK"}, 0) \/ Drop
  BY DEF TickRexmit
<1> HIDE DEF z
<1>5. uip_buf' \in Out
  BY <1>2, <1>4, SendType, OutNone DEF Flags, Drop
<1> QED
  BY <1>2, <1>3, <1>5, NoCallType DEF Good

LEMMA TickAppRexmitGood == ASSUME IInv, NEW c \in Conns, TickAppRexmit(c) PROVE Good(c)
<1> DEFINE k == uip_conns[c]
           b == Backoff(k)
<1>1. Local(k) /\ k.len > 0 /\ ~GivesUp(k) /\ k.tcpstate = "ESTABLISHED"
  BY DEF IInv, TickAppRexmit, Retry, Expired, Armed
<1>2. b \in Conn /\ Local(b) /\ SameTuple(k, b) /\ b.len = k.len /\ b.tcpstate = k.tcpstate
  BY <1>1, BackoffLocal
<1>3. PICK r \in Replies : /\ Set(c, Touch(b, r.act)) /\ Call(c, {"REXMIT"}, r.act)
                           /\ AppRexmit(Touch(b, r.act), {"REXMIT"}, r)
  BY DEF TickAppRexmit
<1> DEFINE z == Touch(b, r.act)
<1> HIDE DEF b
<1>4. /\ z \in Conn /\ SameTuple(k, z) /\ z.len = b.len /\ z.tcpstate = b.tcpstate
      /\ z.mss = b.mss /\ z.initialmss = b.initialmss /\ z.timer = b.timer
      /\ z.rto = b.rto
  BY <1>2 DEF Touch, Conn, SameTuple
<1>5. Set(c, z) /\ Call(c, {"REXMIT"}, r.act) /\ AppRexmit(z, {"REXMIT"}, r)
  BY <1>3
<1> HIDE DEF z
<1>6. Local(z)
  BY <1>1, <1>2, <1>4 DEF Local
<1>7. CallOK'
  BY <1>5, CallType, EnvAssumption DEF Events, Reply
<1>8. uip_buf' \in Out
  <2>1. Answer(z, {"ACK", "PSH"}, z.len) \in Segment /\ Answer(z, {"ACK"}, 0) \in Segment
    BY <1>4, Small, AnswerType DEF Flags, Conn
  <2> QED
    BY <1>5, <2>1, OutOne, OutNone DEF AppRexmit, Send, SendAck, Drop
<1> QED
  BY <1>4, <1>5, <1>6, <1>7, <1>8 DEF Good

LEMMA TickPollGood == ASSUME IInv, NEW c \in Conns, TickPoll(c) PROVE Good(c)
<1>1. PICK r \in Replies : AppSend(c, uip_conns[c], {"POLL"}, r)
  BY DEF TickPoll
<1>2. Local(uip_conns[c]) /\ uip_conns[c].tcpstate = "ESTABLISHED"
  BY DEF IInv, TickPoll
<1> QED
  BY <1>1, <1>2, AppSendGood DEF SameTuple, Events

-----------------------------------------------------------------------------
(* The whole invariant after a path that concerns connection c.            *)
LEMMA GoodStep ==
  ASSUME IInv, NEW c \in Conns, Good(c), Live(uip_conns[c]),
         uip_listenports' = uip_listenports, iss' \in SeqNo
  PROVE  IInv'
<1>1. PICK z : Local(z) /\ SameTuple(uip_conns[c], z) /\ Set(c, z)
  BY DEF Good
<1> QED
  BY <1>1, ReplaceConn DEF IInv, Good

LEMMA SameStep ==
  ASSUME IInv, UNCHANGED uip_conns, uip_buf' \in Out, CallOK', iss' \in SeqNo,
         uip_listenports' \in [1..UIP_LISTENPORTS -> Ports \cup {NoPort}]
  PROVE  IInv'
  BY DEF IInv, UniqueTuple

LEMMA ListenStep ==
  ASSUME IInv, NEW c \in Conns, NEW s \in Arriving, NotFound(s), NoCall, Static,
         RecvListen(c, s)
  PROVE  IInv'
<1> DEFINE k == uip_conns[c]
           m == Mss(k, s)
           z == [m EXCEPT
              !.tcpstate = "SYN_RCVD", !.stopped = FALSE,
              !.peer = s.peer, !.lport = s.lport,
              !.rto = UIP_RTO, !.timer = UIP_RTO, !.nrtx = 0,
              !.snd_nxt = iss, !.len = 1, !.rcv_nxt = Plus(s.seqno, 1)]
<1>1. Set(c, z) /\ Send(z, {"SYN", "ACK"}, 0)
  BY DEF RecvListen
<1>2. k \in Conn /\ Local(k) /\ s \in Segment /\ iss \in SeqNo
  BY DEF IInv, Arriving
<1>3. m \in Conn /\ m.mss <= m.initialmss
  <2>1. Lower(s.mss, UIP_TCP_MSS) \in Window
    BY <1>2, SizeAssumption DEF Lower, Window, Segment
  <2>2. k.mss <= k.initialmss
    BY <1>2 DEF Local
  <2>3. \A x \in Window : x <= x
    BY Small
  <2> HIDE DEF k
  <2> QED
    BY <1>2, <2>1, <2>2, <2>3 DEF Mss, Conn
<1>4. Plus(s.seqno, 1) \in SeqNo
  BY <1>2, PlusType, Small DEF Segment
<1>5. UIP_RTO \in Octet
  BY TimerAssumption DEF Octet
<1>6. s.peer \in Peers \cup {NoPeer} /\ s.lport \in Ports \cup {NoPort}
  BY <1>2 DEF Segment
<1> HIDE DEF m
<1>7. /\ z \in Conn /\ z.tcpstate = "SYN_RCVD" /\ z.stopped = FALSE /\ z.len = 1
      /\ z.nrtx = 0 /\ z.mss = m.mss /\ z.initialmss = m.initialmss
      /\ z.peer = s.peer /\ z.lport = s.lport
  BY <1>2, <1>3, <1>4, <1>5, <1>6, Small DEF Conn, States
<1> HIDE DEF z
<1>8. Local(z)
  BY <1>3, <1>7, SizeAssumption DEF Local
<1>9. \A d \in Conns : ~(/\ Live(uip_conns[d])
                         /\ uip_conns[d].lport = z.lport
                         /\ uip_conns[d].peer = z.peer)
  BY <1>7 DEF NotFound, Matches
<1>10. uip_buf' \in Out
  BY <1>1, <1>7, SendType DEF Flags
<1> QED
  BY <1>1, <1>8, <1>9, <1>10, NoCallType, TakeSlot DEF IInv, Static

LEMMA ConnectStep ==
  ASSUME IInv, NEW c \in Conns, NEW p \in Peers, NEW lp \in EphemeralPorts,
         Connect(c, p, lp)
  PROVE  IInv'
<1> DEFINE k == uip_conns[c]
           z == [k EXCEPT
               !.tcpstate = "SYN_SENT", !.stopped = FALSE, !.snd_nxt = iss,
               !.mss = UIP_TCP_MSS, !.initialmss = UIP_TCP_MSS, !.len = 1,
               !.nrtx = 0, !.timer = 1, !.rto = UIP_RTO,
               !.lport = lp, !.peer = p]
<1>1. Set(c, z) /\ Quiet /\ Static
  BY DEF Connect
<1>2. k \in Conn /\ iss \in SeqNo
  BY DEF IInv
<1>3. UIP_RTO \in Octet /\ UIP_TCP_MSS \in Window /\ UIP_TCP_MSS <= UIP_TCP_MSS
  BY TimerAssumption, SizeAssumption DEF Octet, Window
<1>4. p \in Peers \cup {NoPeer} /\ lp \in Ports \cup {NoPort}
  BY EnvAssumption
<1>5. /\ z \in Conn /\ z.tcpstate = "SYN_SENT" /\ z.stopped = FALSE /\ z.len = 1
      /\ z.nrtx = 0 /\ z.mss = UIP_TCP_MSS /\ z.initialmss = UIP_TCP_MSS
      /\ z.peer = p /\ z.lport = lp
  <2> HIDE DEF k
  <2> QED
    BY <1>2, <1>3, <1>4, Small DEF Conn, States
<1> HIDE DEF z
<1>6. Local(z)
  BY <1>3, <1>5, SizeAssumption DEF Local
<1>7. \A d \in Conns : ~(/\ Live(uip_conns[d])
                         /\ uip_conns[d].lport = z.lport
                         /\ uip_conns[d].peer = z.peer)
  BY <1>5 DEF Connect
<1> QED
  BY <1>1, <1>6, <1>7, OutNone, NoCallType, TakeSlot DEF IInv, Static, Quiet, NoCall

-----------------------------------------------------------------------------
LEMMA InitInv == Init => IInv
<1> SUFFICES ASSUME Init PROVE IInv
  OBVIOUS
<1> DEFINE z == [tcpstate |-> "CLOSED", stopped |-> FALSE, peer |-> NoPeer,
        lport |-> NoPort, rcv_nxt |-> 0, snd_nxt |-> 0, len |-> 0, mss |-> 0,
        initialmss |-> 0, rto |-> 0, timer |-> 0, nrtx |-> 0]
<1>1. z \in Conn /\ Local(z) /\ ~Live(z)
  BY Small DEF Conn, Local, Live, Is, States
<1>2. uip_conns = [c \in Conns |-> z]
  BY DEF Init
<1> HIDE DEF z
<1>3. uip_conns \in [Conns -> Conn] /\ \A c \in Conns : Local(uip_conns[c]) /\ ~Live(uip_conns[c])
  BY <1>1, <1>2
<1>4. UniqueTuple
  BY <1>3 DEF UniqueTuple
<1> QED
  BY <1>3, <1>4, OutNone, Small DEF Init, IInv, CallOK

LEMMA InputInv == ASSUME IInv, NEW s \in Arriving, Input(s) PROVE IInv'
<1>1. s \in Segment
  BY DEF Arriving
<1>2. iss' \in SeqNo /\ uip_listenports' = uip_listenports
  BY DEF Input, Static, IInv
<1>3. ASSUME NEW c \in Conns, Found(c, s), RecvFound(c, s) PROVE IInv'
  BY <1>2, <1>3, FoundGood, GoodStep DEF Found, Matches
<1>4. ASSUME NotFound(s), NoCall, RecvListenFull(s) \/ RecvNoConn(s) PROVE IInv'
  BY <1>1, <1>2, <1>4, ResetType, NoCallType, OutNone, SameStep
     DEF RecvListenFull, RecvNoConn, Drop, IInv
<1>5. ASSUME NotFound(s), NoCall, NEW c \in Conns, RecvListen(c, s) PROVE IInv'
  BY <1>5, ListenStep DEF Input
<1> QED
  BY <1>3, <1>4, <1>5 DEF Input

LEMMA PeriodicInv == ASSUME IInv, NEW c \in Conns, Periodic(c) PROVE IInv'
<1>1. iss' \in SeqNo /\ uip_listenports' = uip_listenports
  BY PlusType, Small DEF Periodic, Tick, IInv
<1>2. CASE TickIdle(c)
  BY <1>1, <1>2, NoCallType, OutNone, SameStep DEF TickIdle, Drop, IInv
<1>3. CASE ~TickIdle(c)
  <2>1. Live(uip_conns[c])
    BY <1>3 DEF Periodic, TickWait, TickCountdown, TickTimeout, TickRexmit,
                TickAppRexmit, TickPoll, Retry, Expired, Armed, Waiting, Live, Is
  <2>2. Good(c)
    BY <1>3, TickWaitGood, TickCountdownGood, TickTimeoutGood, TickRexmitGood,
       TickAppRexmitGood, TickPollGood DEF Periodic
  <2> QED
    BY <1>1, <2>1, <2>2, GoodStep
<1> QED
  BY <1>2, <1>3

LEMMA UserInv == ASSUME IInv, User PROVE IInv'
<1>1. ASSUME NEW c \in Conns, NEW p \in Peers, NEW lp \in EphemeralPorts,
             Connect(c, p, lp)
      PROVE  IInv'
  BY <1>1, ConnectStep
<1>2. ASSUME NEW p \in Ports, Listen(p) \/ Unlisten(p) PROVE IInv'
  <2>1. uip_listenports' \in [1..UIP_LISTENPORTS -> Ports \cup {NoPort}]
    BY <1>2 DEF Listen, Unlisten, IInv
  <2> QED
    BY <1>2, <2>1, NoCallType, OutNone, SameStep
       DEF Listen, Unlisten, Quiet, NoCall, IInv
<1>3. ASSUME NEW c \in Conns, PollConn(c) PROVE IInv'
  <2>1. TickPoll(c) /\ iss' \in SeqNo /\ uip_listenports' = uip_listenports
    BY <1>3 DEF PollConn, Static, IInv
  <2>2. Live(uip_conns[c])
    BY <2>1 DEF TickPoll, Live, Is
  <2> QED
    BY <2>1, <2>2, TickPollGood, GoodStep
<1> QED
  BY <1>1, <1>2, <1>3 DEF User

LEMMA NextInv == IInv /\ [Next]_vars => IInv'
<1> SUFFICES ASSUME IInv, [Next]_vars PROVE IInv'
  OBVIOUS
<1>1. CASE Next
  BY <1>1, EnvAssumption, InputInv, PeriodicInv, UserInv DEF Next, Arriving
<1>2. CASE UNCHANGED vars
  BY <1>2 DEF vars, IInv, UniqueTuple, CallOK
<1> QED
  BY <1>1, <1>2

(* The inductive invariant holds in every reachable state.                 *)
THEOREM Invariance == Spec => []IInv
  BY InitInv, NextInv, PTL DEF Spec

(* Type correctness of the connection table, of the segment handed to the  *)
(* driver and of the callback.                                             *)
THEOREM TypeCorrect == Spec => []TypeOK
<1>1. IInv => TypeOK
  BY DEF IInv, TypeOK, CallOK
<1> QED
  BY <1>1, Invariance, PTL

(* No two connections in use share a local port and a remote endpoint.     *)
THEOREM TuplesUnique == Spec => []UniqueTuple
<1>1. IInv => UniqueTuple
  BY DEF IInv
<1> QED
  BY <1>1, Invariance, PTL

(* len says what is outstanding in every state.                            *)
THEOREM LenCoupled == Spec => []LenCoupling
<1>1. IInv => LenCoupling
  BY DEF IInv, LenCoupling, Local
<1> QED
  BY <1>1, Invariance, PTL

(* The retry counter never steps over the limit it is compared with.       *)
THEOREM RetriesBounded == Spec => []RetryBudget
<1>1. IInv => RetryBudget
  <2> SUFFICES ASSUME IInv, NEW c \in Conns
               PROVE  /\ uip_conns[c].nrtx <= UIP_MAXRTX
                      /\ uip_conns[c].tcpstate \in {"SYN_SENT", "SYN_RCVD"} =>
                           uip_conns[c].nrtx <= UIP_MAXSYNRTX
    BY DEF RetryBudget
  <2>1. Local(uip_conns[c])
    BY DEF IInv
  <2>2. uip_conns[c].nrtx \in Retries
    BY <2>1 DEF Local, Conn
  <2> QED
    BY <2>1, <2>2, SizeAssumption DEF Local, Retries
<1> QED
  BY <1>1, Invariance, PTL

(* An idle established connection has its full timeout ready.              *)
THEOREM TimerReady == Spec => []TimerArmed
<1>1. IInv => TimerArmed
  BY DEF IInv, TimerArmed, Local
<1> QED
  BY <1>1, Invariance, PTL

-----------------------------------------------------------------------------
(* A step that gives connection c a new record concerns only c.            *)
LEMMA OthersTakeNothing ==
  ASSUME IInv, NEW c \in Conns, Good(c), TakesNothing(c)
  PROVE  \A d \in Conns : TakesNothing(d)
<1>1. PICK z : Set(c, z)
  BY DEF Good
<1>2. \A d \in Conns : d # c => uip_conns'[d] = uip_conns[d]
  BY <1>1 DEF IInv, Set
<1> QED
  BY <1>2 DEF TakesNothing

(* Whatever the application answers, what was acknowledged stays.          *)
LEMMA AppSendKeepsNext ==
  ASSUME NEW c \in Conns, NEW k \in Conn, NEW ev, NEW r \in Replies, AppSend(c, k, ev, r),
         uip_conns \in [Conns -> Conn]
  PROVE  uip_conns'[c].rcv_nxt = k.rcv_nxt
<1>1. CASE AppAbort(c, k, ev, r)
  BY <1>1 DEF AppAbort, Set, Conn
<1>2. CASE AppClose(c, k, ev, r)
  BY <1>2 DEF AppClose, Set, Conn
<1>3. CASE AppData(c, k, ev, r)
  <2> DEFINE t == Touch(k, r.act)
             n == IF r.slen > 0 /\ t.len = 0 THEN Lower(r.slen, k.mss) ELSE t.len
             z == [t EXCEPT !.len = n, !.nrtx = 0]
  <2>1. t \in Conn /\ t.rcv_nxt = k.rcv_nxt
    BY DEF Touch, Conn
  <2>2. Set(c, z)
    BY <1>3 DEF AppData
  <2> HIDE DEF t, n
  <2>3. z.rcv_nxt = t.rcv_nxt
    BY <2>1 DEF Conn
  <2> QED
    BY <2>1, <2>2, <2>3 DEF Set
<1> QED
  BY <1>1, <1>2, <1>3 DEF AppSend

(* A segment for an established connection that is stopped: the            *)
(* acknowledgement number moves by the bytes taken, which are none.        *)
LEMMA EstablishedTakesNothing ==
  ASSUME IInv, NEW c \in Conns, NEW s \in Segment, RecvEstablished(c, s)
  PROVE  TakesNothing(c)
<1> SUFFICES ASSUME uip_conns[c].stopped
             PROVE  uip_conns'[c].rcv_nxt = uip_conns[c].rcv_nxt
  BY DEF TakesNothing
<1> DEFINE k == uip_conns[c]
<1>1. Local(k) /\ k \in Conn /\ uip_conns \in [Conns -> Conn]
  BY DEF IInv
<1>2. PICK t \in NewRto(k) :
       LET a  == Acked(k, s, t)
           n  == Taken(a, s)
           ev == AckFlag(k, s) \cup NewFlag(n)
           w  == IF s.wnd > a.initialmss \/ s.wnd = 0 THEN a.initialmss ELSE s.wnd
           z  == [a EXCEPT !.rcv_nxt = Plus(@, n), !.mss = w]
       IN IF ev = {} THEN Set(c, z) /\ NoCall /\ Drop
          ELSE \E r \in Replies : AppSend(c, z, ev, r)
  BY DEF RecvEstablished
<1> DEFINE a  == Acked(k, s, t)
           n  == Taken(a, s)
           ev == AckFlag(k, s) \cup NewFlag(n)
           w  == IF s.wnd > a.initialmss \/ s.wnd = 0 THEN a.initialmss ELSE s.wnd
           z  == [a EXCEPT !.rcv_nxt = Plus(@, n), !.mss = w]
<1>3. a \in Conn /\ a.stopped = k.stopped /\ a.rcv_nxt = k.rcv_nxt
  BY <1>1, AckedFields
<1>4. n = 0
  BY <1>3 DEF Taken
<1>5. Plus(a.rcv_nxt, n) = k.rcv_nxt
  BY <1>1, <1>3, <1>4, SeqAssumption DEF Plus, Conn, SeqNo
<1>6. w \in Window
  BY <1>3, SizeAssumption DEF Conn, Window, Segment
<1>7. z \in Conn /\ z.rcv_nxt = k.rcv_nxt
  <2>1. k.rcv_nxt \in SeqNo
    BY <1>1 DEF Conn
  <2> HIDE DEF a, n, w, k
  <2> QED
    BY <1>3, <1>5, <1>6, <2>1 DEF Conn
<1>8. CASE ev = {}
  <2>1. Set(c, z)
    BY <1>2, <1>8
  <2> HIDE DEF z
  <2> QED
    BY <1>1, <1>7, <2>1 DEF Set
<1>9. CASE ev # {}
  <2>1. PICK r \in Replies : AppSend(c, z, ev, r)
    BY <1>2, <1>9
  <2> HIDE DEF z, ev
  <2> QED
    BY <1>1, <1>7, <2>1, AppSendKeepsNext
<1> QED
  BY <1>8, <1>9

LEMMA FoundTakesNothing ==
  ASSUME IInv, NEW c \in Conns, NEW s \in Segments, RecvFound(c, s) PROVE TakesNothing(c)
<1> SUFFICES ASSUME uip_conns[c].tcpstate = "ESTABLISHED", uip_conns[c].stopped
             PROVE  TakesNothing(c)
  BY DEF TakesNothing
<1>1. CASE RecvRst(c)
  <2>1. PICK act \in EndActs :
          Set(c, [uip_conns[c] EXCEPT !.tcpstate = "CLOSED", !.stopped = (act = "stop")])
    BY <1>1 DEF RecvRst
  <2>2. uip_conns'[c].rcv_nxt = uip_conns[c].rcv_nxt
    BY <2>1 DEF Set, IInv, Conn
  <2> QED
    BY <2>2 DEF TakesNothing
<1>2. CASE RecvOutOfOrder(c)
  BY <1>2 DEF RecvOutOfOrder, TakesNothing
<1>3. CASE RecvEstablished(c, s)
  BY <1>3, EnvAssumption, EstablishedTakesNothing
<1> QED
  BY <1>1, <1>2, <1>3 DEF RecvFound, RecvSynRcvd, RecvSynSent, RecvFin, RecvLastAck,
     RecvFinWait1, RecvFinWait2, RecvTimeWait, RecvClosing, RecvZombie

(* The periodic timer acknowledges nothing.                                *)
LEMMA PeriodicTakesNothing ==
  ASSUME IInv, NEW c \in Conns, Periodic(c) PROVE TakesNothing(c)
<1> DEFINE k == uip_conns[c]
<1> SUFFICES ASSUME k.tcpstate = "ESTABLISHED", k.stopped PROVE TakesNothing(c)
  BY DEF TakesNothing
<1>1. k \in Conn /\ uip_conns \in [Conns -> Conn]
  BY DEF IInv
<1>2. CASE TickCountdown(c)
  BY <1>1, <1>2 DEF TickCountdown, Set, TakesNothing, Conn
<1>3. CASE TickTimeout(c)
  <2>1. PICK act \in EndActs :
          Set(c, [k EXCEPT !.tcpstate = "CLOSED", !.timer = TimerMod - 1,
                           !.stopped = (act = "stop")])
    BY <1>3 DEF TickTimeout
  <2>2. uip_conns'[c].rcv_nxt = k.rcv_nxt
    BY <1>1, <2>1 DEF Set, Conn
  <2> QED
    BY <2>2 DEF TakesNothing
<1>4. CASE TickAppRexmit(c)
  <2>1. PICK r \in Replies : Set(c, Touch(Backoff(k), r.act))
    BY <1>4 DEF TickAppRexmit
  <2>2. Touch(Backoff(k), r.act).rcv_nxt = k.rcv_nxt
    BY <1>1 DEF Touch, Backoff, Conn
  <2> HIDE DEF k
  <2> QED
    BY <1>1, <2>1, <2>2 DEF Set, TakesNothing, k
<1>5. CASE TickPoll(c)
  <2>1. PICK r \in Replies : AppSend(c, k, {"POLL"}, r)
    BY <1>5 DEF TickPoll
  <2> QED
    BY <1>1, <2>1, AppSendKeepsNext DEF TakesNothing
<1>6. ~TickRexmit(c)
  <2>1. Backoff(k).tcpstate = k.tcpstate
    BY <1>1 DEF Backoff, Conn
  <2> QED
    BY <2>1 DEF TickRexmit
<1>7. ~TickWait(c) /\ ~TickIdle(c)
  BY DEF TickWait, Waiting, Is, TickIdle
<1> QED
  BY <1>2, <1>3, <1>4, <1>5, <1>6, <1>7 DEF Periodic

LEMMA StepTakesNothing ==
  IInv /\ [Next]_vars => [\A c \in Conns : TakesNothing(c)]_vars
<1> SUFFICES ASSUME IInv, Next PROVE \A c \in Conns : TakesNothing(c)
  OBVIOUS
<1>1. CASE UNCHANGED uip_conns
  BY <1>1 DEF TakesNothing
<1>2. ASSUME NEW c \in Conns, NEW z, Set(c, z), Slot(c)
      PROVE  \A d \in Conns : TakesNothing(d)
  <2>1. uip_conns[c].tcpstate # "ESTABLISHED"
    BY <1>2 DEF Slot, Is
  <2> QED
    BY <1>2, <2>1 DEF Set, TakesNothing, IInv
<1>3. ASSUME NEW s \in Segments, Input(s) PROVE \A c \in Conns : TakesNothing(c)
  <2>1. ASSUME NEW c \in Conns, RecvFound(c, s) PROVE \A d \in Conns : TakesNothing(d)
    BY <2>1, EnvAssumption, FoundGood, FoundTakesNothing, OthersTakeNothing DEF Arriving
  <2>2. CASE RecvListenFull(s) \/ RecvNoConn(s)
    BY <1>1, <2>2 DEF RecvListenFull, RecvNoConn
  <2>3. ASSUME NEW c \in Conns, RecvListen(c, s) PROVE \A d \in Conns : TakesNothing(d)
    <3> DEFINE m == Mss(uip_conns[c], s)
               z == [m EXCEPT
                  !.tcpstate = "SYN_RCVD", !.stopped = FALSE,
                  !.peer = s.peer, !.lport = s.lport,
                  !.rto = UIP_RTO, !.timer = UIP_RTO, !.nrtx = 0,
                  !.snd_nxt = iss, !.len = 1, !.rcv_nxt = Plus(s.seqno, 1)]
    <3>1. Set(c, z) /\ Slot(c)
      BY <2>3 DEF RecvListen
    <3> HIDE DEF z
    <3> QED
      BY <1>2, <3>1
  <2> QED
    BY <1>3, <2>1, <2>2, <2>3 DEF Input
<1>4. ASSUME NEW c \in Conns, Periodic(c) PROVE \A d \in Conns : TakesNothing(d)
  <2>1. CASE TickIdle(c)
    BY <1>1, <2>1 DEF TickIdle
  <2>2. CASE ~TickIdle(c)
    <3>1. Good(c)
      BY <1>4, <2>2, TickWaitGood, TickCountdownGood, TickTimeoutGood, TickRexmitGood,
         TickAppRexmitGood, TickPollGood DEF Periodic
    <3> QED
      BY <1>4, <3>1, PeriodicTakesNothing, OthersTakeNothing
  <2> QED
    BY <2>1, <2>2
<1>5. ASSUME User PROVE \A c \in Conns : TakesNothing(c)
  <2>1. ASSUME NEW c \in Conns, NEW p \in Peers, NEW lp \in EphemeralPorts, Connect(c, p, lp)
        PROVE  \A d \in Conns : TakesNothing(d)
    <3> DEFINE k == uip_conns[c]
               z == [k EXCEPT
                   !.tcpstate = "SYN_SENT", !.stopped = FALSE, !.snd_nxt = iss,
                   !.mss = UIP_TCP_MSS, !.initialmss = UIP_TCP_MSS, !.len = 1,
                   !.nrtx = 0, !.timer = 1, !.rto = UIP_RTO,
                   !.lport = lp, !.peer = p]
    <3>1. Set(c, z) /\ Slot(c)
      BY <2>1 DEF Connect
    <3> HIDE DEF z
    <3> QED
      BY <1>2, <3>1
  <2>2. ASSUME NEW c \in Conns, PollConn(c) PROVE \A d \in Conns : TakesNothing(d)
    <3>1. Good(c)
      BY <2>2, TickPollGood DEF PollConn
    <3>2. PICK r \in Replies : AppSend(c, uip_conns[c], {"POLL"}, r)
      BY <2>2 DEF PollConn, TickPoll
    <3>3. TakesNothing(c)
      BY <3>2, AppSendKeepsNext DEF TakesNothing, IInv
    <3> QED
      BY <3>1, <3>3, OthersTakeNothing
  <2> QED
    BY <1>1, <1>5, <2>1, <2>2 DEF User, Listen, Unlisten
<1> QED
  BY <1>3, <1>4, <1>5 DEF Next

(* A stopped connection acknowledges neither the bytes it throws away nor  *)
(* a FIN, for any number of connections and any segments.                  *)
THEOREM StoppedTakes == Spec => StoppedTakesNothing
BY Invariance, StepTakesNothing, PTL DEF Spec, StoppedTakesNothing

-----------------------------------------------------------------------------
(***************************************************************************)
(* The refinement: each path through uip_process() is a step of one session*)
(* or none.                                                                *)
(***************************************************************************)
(* Replacing connection c moves its session to the view of the new record. *)
LEMMA ViewMoves ==
  ASSUME IInv, NEW c \in Conns, NEW z, Set(c, z)
  PROVE  /\ session' = [session EXCEPT ![c] = View(z)]
         /\ session[c] = View(uip_conns[c])
<1>1. \A d \in Conns : uip_conns'[d] = IF d = c THEN z ELSE uip_conns[d]
  BY DEF IInv, Set
<1> QED
  BY <1>1 DEF session

LEMMA MoveTo ==
  ASSUME IInv, NEW c \in Conns, NEW z, Set(c, z), NEW S, View(z) \in S
  PROVE  Session!Move(c, S)
  BY ViewMoves DEF Session!Move

LEMMA ViewStays ==
  ASSUME IInv, NEW c \in Conns, NEW z, Set(c, z), View(z) = View(uip_conns[c]), NoCall
  PROVE  Session!Idle
<1>1. session' = session
  BY ViewMoves DEF session
<1> QED
  BY <1>1 DEF Session!Idle, Session!Silent, NoCall, call

LEMMA TableStays == ASSUME UNCHANGED uip_conns, NoCall PROVE Session!Idle
  BY DEF Session!Idle, Session!Silent, NoCall, call, session

LEMMA CallMaps ==
  ASSUME NEW c, NEW ev, NEW act, Call(c, ev, act)
  PROVE  Session!Notify(c, ev)
  BY DEF Call, call, Session!Notify

LEMMA SilentMaps == ASSUME NoCall PROVE Session!Silent
  BY DEF NoCall, call, Session!Silent

(* Where the reply of the application can take an established connection.  *)
LEMMA AppSendMoves ==
  ASSUME IInv, NEW c \in Conns, NEW k \in Conn, k.tcpstate = "ESTABLISHED",
         NEW ev, NEW r \in Replies, AppSend(c, k, ev, r)
  PROVE  Session!Move(c, {"open"} \cup Session!Ends) /\ Session!Notify(c, ev)
<1>1. Session!Notify(c, ev)
  BY CallMaps DEF AppSend
<1>2. CASE AppAbort(c, k, ev, r)
  <2> DEFINE z == [k EXCEPT !.tcpstate = "CLOSED", !.stopped = FALSE]
  <2>1. Set(c, z) /\ View(z) = "free"
    BY <1>2 DEF AppAbort, View, Is, Conn
  <2> HIDE DEF z
  <2>5. View(z) \in {"open"} \cup Session!Ends
    BY <2>1 DEF Session!Ends
  <2> QED
    BY <1>1, <2>1, <2>5, MoveTo
<1>3. CASE AppClose(c, k, ev, r)
  <2> DEFINE z == [k EXCEPT !.tcpstate = "FIN_WAIT_1", !.stopped = FALSE,
                            !.len = 1, !.nrtx = 0]
  <2>1. z.tcpstate = "FIN_WAIT_1"
    BY DEF Conn
  <2>2. Set(c, z) /\ View(z) = "closing"
    BY <1>3, <2>1 DEF AppClose, View, Is
  <2> HIDE DEF z
  <2>5. View(z) \in {"open"} \cup Session!Ends
    BY <2>2 DEF Session!Ends
  <2> QED
    BY <1>1, <2>2, <2>5, MoveTo
<1>4. CASE AppData(c, k, ev, r)
  <2> DEFINE z == [Touch(k, r.act) EXCEPT
              !.len = IF r.slen > 0 /\ @ = 0 THEN Lower(r.slen, k.mss) ELSE @,
              !.nrtx = 0]
  <2>1. z.tcpstate = "ESTABLISHED"
    BY DEF Conn, Touch
  <2>2. Set(c, z) /\ View(z) = "open"
    BY <1>4, <2>1 DEF AppData, View, Is
  <2> HIDE DEF z
  <2>5. View(z) \in {"open"} \cup Session!Ends
    BY <2>2 DEF Session!Ends
  <2> QED
    BY <1>1, <2>2, <2>5, MoveTo
<1> QED
  BY <1>1, <1>2, <1>3, <1>4 DEF AppSend

-----------------------------------------------------------------------------
(* The events handed over, and the states of the records handed back.      *)
LEMMA FlagsMap ==
  ASSUME NEW k, NEW s, NEW n
  PROVE  /\ AckFlag(k, s) \in SUBSET {"NEWDATA", "ACKDATA"}
         /\ NewFlag(n) \in SUBSET {"NEWDATA", "ACKDATA"}
  BY DEF AckFlag, NewFlag

(* A segment that belongs to connection c, path by path.                   *)
LEMMA RstMaps ==
  ASSUME IInv, NEW c \in Conns, Live(uip_conns[c]), RecvRst(c)
  PROVE  Session!Killed(c)
<1>1. PICK act \in EndActs :
        /\ Set(c, [uip_conns[c] EXCEPT !.tcpstate = "CLOSED",
                                       !.stopped = (act = "stop")])
        /\ Call(c, {"ABORT"}, act)
  BY DEF RecvRst
<1> DEFINE z == [uip_conns[c] EXCEPT !.tcpstate = "CLOSED", !.stopped = (act = "stop")]
<1>2. z.tcpstate = "CLOSED"
  BY DEF IInv, Conn
<1> HIDE DEF z
<1>3. View(z) \in Session!Ends
  BY <1>2 DEF View, Is, Session!Ends
<1>4. session[c] # "free"
  BY DEF Live, Is, View, session
<1> QED
  BY <1>1, <1>3, <1>4, MoveTo, CallMaps DEF Session!Killed, z

LEMMA SynRcvdMaps ==
  ASSUME IInv, NEW c \in Conns, NEW s \in Segment, RecvSynRcvd(c, s)
  PROVE  Session!Idle \/ Session!Connected(c)
<1> DEFINE k == uip_conns[c]
<1>1. CASE ~Acks(k, s)
  BY <1>1, TableStays DEF RecvSynRcvd
<1>2. CASE Acks(k, s)
  <2>1. PICK t \in NewRto(k), r \in Replies :
          AppSend(c, [Acked(k, s, t) EXCEPT !.tcpstate = "ESTABLISHED",
                                            !.rcv_nxt = Plus(@, s.len)],
                  {"CONNECTED"} \cup NewFlag(s.len), r)
    BY <1>2 DEF RecvSynRcvd
  <2> DEFINE a == Acked(k, s, t)
             z == [a EXCEPT !.tcpstate = "ESTABLISHED", !.rcv_nxt = Plus(@, s.len)]
             ev == {"CONNECTED"} \cup NewFlag(s.len)
  <2>2. a \in Conn
    BY AckedFields DEF IInv
  <2> HIDE DEF a
  <2>3. Plus(a.rcv_nxt, s.len) \in SeqNo
    BY <2>2, PlusType, Small DEF Conn, Segment
  <2>4. z \in Conn /\ z.tcpstate = "ESTABLISHED"
    BY <2>2, <2>3 DEF Conn, States
  <2>5. AppSend(c, z, ev, r)
    BY <2>1 DEF a
  <2> HIDE DEF z
  <2>6. Session!Move(c, {"open"} \cup Session!Ends) /\ Session!Notify(c, ev)
    BY <2>4, <2>5, AppSendMoves
  <2>7. ev \in {{"CONNECTED"}, {"CONNECTED", "NEWDATA"}}
    BY DEF NewFlag
  <2>8. session[c] = "opening"
    BY DEF RecvSynRcvd, session, View, Is
  <2> QED
    BY <2>6, <2>7, <2>8 DEF Session!Connected
<1> QED
  BY <1>1, <1>2

LEMMA SynSentMaps ==
  ASSUME IInv, NEW c \in Conns, NEW s \in Segment, RecvSynSent(c, s)
  PROVE  Session!Connected(c) \/ Session!Killed(c)
<1> DEFINE k == uip_conns[c]
<1>0. session[c] = "opening"
  BY DEF RecvSynSent, session, View, Is
<1>1. PICK t \in NewRto(k) :
        IF Acks(k, s) /\ s.flags = {"SYN", "ACK"}
        THEN \E r \in Replies :
               AppSend(c, [Mss(Acked(k, s, t), s) EXCEPT
                             !.tcpstate = "ESTABLISHED",
                             !.rcv_nxt = Plus(s.seqno, 1)],
                       {"CONNECTED", "NEWDATA"}, r)
        ELSE /\ Set(c, [Acked(k, s, t) EXCEPT !.tcpstate = "CLOSED", !.stopped = FALSE])
             /\ Call(c, {"ABORT"}, "none") /\ Reset(s)
  BY DEF RecvSynSent
<1> DEFINE a == Acked(k, s, t)
<1>2. a \in Conn
  BY AckedFields DEF IInv
<1> HIDE DEF a
<1>3. CASE Acks(k, s) /\ s.flags = {"SYN", "ACK"}
  <2>1. PICK r \in Replies :
          AppSend(c, [Mss(a, s) EXCEPT !.tcpstate = "ESTABLISHED",
                                       !.rcv_nxt = Plus(s.seqno, 1)],
                  {"CONNECTED", "NEWDATA"}, r)
    BY <1>1, <1>3 DEF a
  <2> DEFINE m == Mss(a, s)
             z == [m EXCEPT !.tcpstate = "ESTABLISHED", !.rcv_nxt = Plus(s.seqno, 1)]
  <2>2. m \in Conn
    <3>1. Lower(s.mss, UIP_TCP_MSS) \in Window
      BY SizeAssumption DEF Lower, Window, Segment
    <3> QED
      BY <1>2, <3>1 DEF Mss, Conn
  <2>3. Plus(s.seqno, 1) \in SeqNo
    BY PlusType, Small DEF Segment
  <2>4. AppSend(c, z, {"CONNECTED", "NEWDATA"}, r)
    BY <2>1
  <2> HIDE DEF m
  <2>5. z \in Conn /\ z.tcpstate = "ESTABLISHED"
    BY <2>2, <2>3 DEF Conn, States
  <2> HIDE DEF z
  <2>6. /\ Session!Move(c, {"open"} \cup Session!Ends)
        /\ Session!Notify(c, {"CONNECTED", "NEWDATA"})
    BY <2>4, <2>5, AppSendMoves
  <2> QED
    BY <1>0, <2>6 DEF Session!Connected
<1>4. CASE ~(Acks(k, s) /\ s.flags = {"SYN", "ACK"})
  <2> DEFINE z == [a EXCEPT !.tcpstate = "CLOSED", !.stopped = FALSE]
  <2>1. Set(c, z) /\ Call(c, {"ABORT"}, "none")
    BY <1>1, <1>4 DEF a
  <2>2. z.tcpstate = "CLOSED"
    BY <1>2 DEF Conn
  <2> HIDE DEF z
  <2>3. View(z) \in Session!Ends
    BY <2>2 DEF View, Is, Session!Ends
  <2> QED
    BY <1>0, <2>1, <2>3, MoveTo, CallMaps DEF Session!Killed
<1> QED
  BY <1>3, <1>4

LEMMA FinMaps ==
  ASSUME IInv, NEW c \in Conns, NEW s \in Segment, RecvFin(c, s)
  PROVE  Session!Idle \/ Session!PeerCloses(c)
<1> DEFINE k == uip_conns[c]
<1>0. session[c] = "open"
  BY DEF RecvFin, session, View, Is
<1>1. PICK t \in NewRto(k) :
       LET a == Acked(k, s, t)
           z == [a EXCEPT !.rcv_nxt = Plus(@, 1 + s.len), !.len = 1, !.nrtx = 0,
                          !.tcpstate = "LAST_ACK", !.stopped = FALSE]
       IN IF a.len > 0 THEN UNCHANGED uip_conns /\ NoCall /\ Drop
          ELSE /\ Set(c, z) /\ Send(z, {"FIN", "ACK"}, 0)
               /\ Call(c, {"CLOSE"} \cup AckFlag(k, s) \cup NewFlag(s.len), "none")
  BY DEF RecvFin
<1> DEFINE a == Acked(k, s, t)
           z == [a EXCEPT !.rcv_nxt = Plus(@, 1 + s.len), !.len = 1, !.nrtx = 0,
                          !.tcpstate = "LAST_ACK", !.stopped = FALSE]
           ev == AckFlag(k, s) \cup NewFlag(s.len)
<1>2. CASE a.len > 0
  BY <1>1, <1>2, TableStays
<1>3. CASE ~(a.len > 0)
  <2>1. Set(c, z) /\ Call(c, ev \cup {"CLOSE"}, "none")
    <3>1. {"CLOSE"} \cup AckFlag(k, s) \cup NewFlag(s.len) = ev \cup {"CLOSE"}
      OBVIOUS
    <3> QED
      BY <1>1, <1>3, <3>1
  <2>2. z.tcpstate = "LAST_ACK"
    <3>1. a \in Conn
      BY AckedFields DEF IInv
    <3> HIDE DEF a
    <3> QED
      BY <3>1 DEF Conn
  <2>3. ev \in SUBSET {"NEWDATA", "ACKDATA"}
    BY FlagsMap
  <2> HIDE DEF z, ev
  <2>4. View(z) \in {"closing"}
    BY <2>2 DEF View, Is
  <2> QED
    BY <1>0, <2>1, <2>3, <2>4, MoveTo, CallMaps DEF Session!PeerCloses
<1> QED
  BY <1>2, <1>3

LEMMA EstablishedMaps ==
  ASSUME IInv, NEW c \in Conns, NEW s \in Segment, s.urgp <= s.len,
         RecvEstablished(c, s)
  PROVE  Session!Idle \/ Session!Exchange(c)
<1> DEFINE k == uip_conns[c]
<1>0. session[c] = "open" /\ View(k) = "open" /\ Local(k) /\ k.tcpstate = "ESTABLISHED"
  BY DEF RecvEstablished, session, View, Is, IInv
<1>1. PICK t \in NewRto(k) :
       LET a  == Acked(k, s, t)
           n  == Taken(a, s)
           ev == AckFlag(k, s) \cup NewFlag(n)
           w  == IF s.wnd > a.initialmss \/ s.wnd = 0 THEN a.initialmss ELSE s.wnd
           z  == [a EXCEPT !.rcv_nxt = Plus(@, n), !.mss = w]
       IN IF ev = {} THEN Set(c, z) /\ NoCall /\ Drop
          ELSE \E r \in Replies : AppSend(c, z, ev, r)
  BY DEF RecvEstablished
<1> DEFINE a  == Acked(k, s, t)
           n  == Taken(a, s)
           ev == AckFlag(k, s) \cup NewFlag(n)
           w  == IF s.wnd > a.initialmss \/ s.wnd = 0 THEN a.initialmss ELSE s.wnd
           z  == [a EXCEPT !.rcv_nxt = Plus(@, n), !.mss = w]
<1>2. IF ev = {} THEN Set(c, z) /\ NoCall ELSE \E r \in Replies : AppSend(c, z, ev, r)
  BY <1>1
<1>3. a \in Conn /\ a.tcpstate = "ESTABLISHED"
  BY <1>0, AckedFields
<1>4. ev \in SUBSET Session!Traffic
  BY FlagsMap DEF Session!Traffic
<1> HIDE DEF a
<1>5. n \in Nat
  BY DEF Taken, Urgent, Segment
<1>6. w \in Window
  <2>1. a.initialmss \in 0..UIP_TCP_MSS /\ s.wnd \in Nat
    BY <1>3 DEF Conn, Window, Segment
  <2> QED
    BY <2>1, SizeAssumption DEF Window
<1> HIDE DEF n, ev, w
<1>7. Plus(a.rcv_nxt, n) \in SeqNo
  BY <1>3, <1>5, PlusType, Small DEF Conn
<1>8. z \in Conn /\ z.tcpstate = "ESTABLISHED"
  BY <1>3, <1>6, <1>7 DEF Conn
<1> HIDE DEF z
<1>9. View(z) = "open"
  BY <1>8 DEF View, Is
<1>10. CASE ev = {}
  BY <1>0, <1>2, <1>9, <1>10, ViewStays
<1>11. CASE ev # {}
  <2>1. PICK r \in Replies : AppSend(c, z, ev, r)
    BY <1>2, <1>11
  <2>2. Session!Move(c, {"open"} \cup Session!Ends) /\ Session!Notify(c, ev)
    BY <1>8, <2>1, AppSendMoves
  <2>3. ev \in (SUBSET Session!Traffic) \ {{}}
    BY <1>4, <1>11
  <2> QED
    BY <1>0, <2>2, <2>3 DEF Session!Exchange
<1> QED
  BY <1>10, <1>11

LEMMA LastAckMaps ==
  ASSUME IInv, NEW c \in Conns, NEW s \in Segment, RecvLastAck(c, s)
  PROVE  Session!Idle \/ Session!Finish(c)
<1> DEFINE k == uip_conns[c]
<1>1. CASE ~Acks(k, s)
  BY <1>1, TableStays DEF RecvLastAck
<1>2. CASE Acks(k, s)
  <2>1. PICK t \in NewRto(k), act \in EndActs :
          /\ Set(c, [Acked(k, s, t) EXCEPT !.tcpstate = "CLOSED",
                                           !.stopped = (act = "stop")])
          /\ Call(c, {"CLOSE"}, act)
    BY <1>2 DEF RecvLastAck
  <2> DEFINE a == Acked(k, s, t)
             z == [a EXCEPT !.tcpstate = "CLOSED", !.stopped = (act = "stop")]
  <2>2. a \in Conn
    BY AckedFields DEF IInv
  <2> HIDE DEF a
  <2>3. z.tcpstate = "CLOSED"
    BY <2>2 DEF Conn
  <2>4. Set(c, z)
    BY <2>1 DEF a
  <2> HIDE DEF z
  <2>5. View(z) \in Session!Ends /\ session[c] = "closing"
    BY <2>3 DEF View, Is, Session!Ends, session, RecvLastAck
  <2>6. Session!Move(c, Session!Ends)
    BY <2>4, <2>5, MoveTo
  <2>7. Session!Notify(c, {"CLOSE"})
    BY <2>1, CallMaps
  <2> QED
    BY <2>5, <2>6, <2>7 DEF Session!Finish
<1> QED
  BY <1>1, <1>2

LEMMA FinWait1Maps ==
  ASSUME IInv, NEW c \in Conns, NEW s \in Segment, RecvFinWait1(c, s)
  PROVE  Session!Idle \/ Session!Finish(c)
<1> DEFINE k == uip_conns[c]
           ok == Acks(k, s)
<1>0. View(k) = "closing" /\ session[c] = "closing" /\ k.tcpstate = "FIN_WAIT_1"
  BY DEF RecvFinWait1, View, Is, session
<1>1. PICK t \in NewRto(k), act \in EndActs :
       LET b == [Acked(k, s, t) EXCEPT !.rcv_nxt = Plus(@, s.len)]
           f == [b EXCEPT !.rcv_nxt = Plus(@, 1), !.stopped = (act = "stop"),
                          !.tcpstate = IF ok THEN "TIME_WAIT" ELSE "CLOSING",
                          !.timer = IF ok THEN 0 ELSE @]
       IN IF "FIN" \in s.flags
          THEN Set(c, f) /\ Call(c, {"CLOSE"}, act) /\ SendAck(f)
          ELSE /\ NoCall
               /\ Set(c, [b EXCEPT !.tcpstate = IF ok THEN "FIN_WAIT_2" ELSE @])
               /\ IF ~ok /\ s.len > 0 THEN SendAck(b) ELSE Drop
  BY DEF RecvFinWait1
<1> DEFINE a == Acked(k, s, t)
           b == [a EXCEPT !.rcv_nxt = Plus(@, s.len)]
           f == [b EXCEPT !.rcv_nxt = Plus(@, 1), !.stopped = (act = "stop"),
                          !.tcpstate = IF ok THEN "TIME_WAIT" ELSE "CLOSING",
                          !.timer = IF ok THEN 0 ELSE @]
           g == [b EXCEPT !.tcpstate = IF ok THEN "FIN_WAIT_2" ELSE @]
<1>2. IF "FIN" \in s.flags THEN Set(c, f) /\ Call(c, {"CLOSE"}, act)
      ELSE NoCall /\ Set(c, g)
  BY <1>1
<1>3. a \in Conn /\ a.tcpstate = "FIN_WAIT_1"
  BY <1>0, AckedFields DEF IInv
<1> HIDE DEF a, ok
<1>4. Plus(a.rcv_nxt, s.len) \in SeqNo
  BY <1>3, PlusType, Small DEF Conn, Segment
<1>5. b \in Conn /\ b.tcpstate = "FIN_WAIT_1"
  BY <1>3, <1>4 DEF Conn
<1> HIDE DEF b
<1>6. f.tcpstate \in {"TIME_WAIT", "CLOSING"} /\ g.tcpstate \in {"FIN_WAIT_1", "FIN_WAIT_2"}
  BY <1>5 DEF Conn
<1> HIDE DEF f, g
<1>7. View(f) = "closing" /\ View(g) = "closing"
  BY <1>6 DEF View, Is
<1>8. CASE "FIN" \in s.flags
  <2>1. View(f) \in Session!Ends
    BY <1>7 DEF Session!Ends
  <2> QED
    BY <1>0, <1>2, <1>8, <2>1, MoveTo, CallMaps DEF Session!Finish
<1>9. CASE "FIN" \notin s.flags
  BY <1>0, <1>2, <1>7, <1>9, ViewStays
<1> QED
  BY <1>8, <1>9

LEMMA FinWait2Maps ==
  ASSUME IInv, NEW c \in Conns, NEW s \in Segment, RecvFinWait2(c, s)
  PROVE  Session!Idle \/ Session!Finish(c)
<1> DEFINE k == uip_conns[c]
           b == [k EXCEPT !.rcv_nxt = Plus(@, s.len)]
           f(act) == [b EXCEPT !.rcv_nxt = Plus(@, 1), !.timer = 0,
                               !.tcpstate = "TIME_WAIT", !.stopped = (act = "stop")]
<1>0. /\ View(k) = "closing" /\ session[c] = "closing" /\ k.tcpstate = "FIN_WAIT_2"
      /\ k \in Conn
  BY DEF RecvFinWait2, View, Is, session, IInv
<1>2. IF "FIN" \in s.flags
      THEN \E act \in EndActs : Set(c, f(act)) /\ Call(c, {"CLOSE"}, act)
      ELSE Set(c, b) /\ NoCall
  BY DEF RecvFinWait2
<1>3. b.tcpstate = "FIN_WAIT_2" /\ \A act : f(act).tcpstate = "TIME_WAIT"
  BY <1>0 DEF Conn
<1> HIDE DEF f, b
<1>4. View(b) = "closing" /\ \A act : View(f(act)) = "closing"
  BY <1>3 DEF View, Is
<1>5. CASE "FIN" \in s.flags
  <2>1. PICK act \in EndActs : Set(c, f(act)) /\ Call(c, {"CLOSE"}, act)
    BY <1>2, <1>5
  <2>2. View(f(act)) \in Session!Ends
    BY <1>4 DEF Session!Ends
  <2> QED
    BY <1>0, <2>1, <2>2, MoveTo, CallMaps DEF Session!Finish
<1>6. CASE "FIN" \notin s.flags
  BY <1>0, <1>2, <1>4, <1>6, ViewStays
<1> QED
  BY <1>5, <1>6

LEMMA ClosingMaps ==
  ASSUME IInv, NEW c \in Conns, NEW s \in Segment, RecvClosing(c, s)
  PROVE  Session!Idle
<1> DEFINE k == uip_conns[c]
<1>1. CASE ~Acks(k, s)
  BY <1>1, TableStays DEF RecvClosing
<1>2. CASE Acks(k, s)
  <2>1. PICK t \in NewRto(k) :
          Set(c, [Acked(k, s, t) EXCEPT !.tcpstate = "TIME_WAIT", !.stopped = FALSE,
                                        !.timer = 0])
    BY <1>2 DEF RecvClosing
  <2> DEFINE a == Acked(k, s, t)
             z == [a EXCEPT !.tcpstate = "TIME_WAIT", !.stopped = FALSE, !.timer = 0]
  <2>2. a \in Conn
    BY AckedFields DEF IInv
  <2> HIDE DEF a
  <2>3. z.tcpstate = "TIME_WAIT"
    BY <2>2 DEF Conn
  <2>4. Set(c, z)
    BY <2>1 DEF a
  <2> HIDE DEF z
  <2>5. View(z) = View(k)
    BY <2>3 DEF View, Is, RecvClosing
  <2> QED
    BY <2>4, <2>5, ViewStays DEF RecvClosing
<1> QED
  BY <1>1, <1>2

LEMMA ZombieMaps ==
  ASSUME IInv, NEW c \in Conns, NEW s \in Segment, RecvZombie(c, s)
  PROVE  Session!Idle
<1> DEFINE k == uip_conns[c]
<1>1. PICK t \in NewRto(k) : Set(c, Acked(k, s, t))
  BY DEF RecvZombie
<1> DEFINE z == Acked(k, s, t)
<1>2. z.tcpstate = k.tcpstate /\ z.stopped = k.stopped
  BY AckedFields DEF IInv
<1> HIDE DEF z
<1>3. View(z) = View(k)
  BY <1>2 DEF View, Is
<1> QED
  BY <1>1, <1>3, ViewStays DEF RecvZombie, z

LEMMA FoundMaps ==
  ASSUME IInv, NEW c \in Conns, NEW s \in Segments, Found(c, s), RecvFound(c, s)
  PROVE  Session!Next
<1>1. s \in Segment /\ s.urgp <= s.len /\ Live(uip_conns[c])
  BY EnvAssumption DEF Found, Matches
<1>2. RecvOutOfOrder(c) \/ RecvTimeWait(c) => Session!Idle
  BY TableStays DEF RecvOutOfOrder, RecvTimeWait
<1> QED
  BY <1>1, <1>2, RstMaps, SynRcvdMaps, SynSentMaps, FinMaps, EstablishedMaps,
     LastAckMaps, FinWait1Maps, FinWait2Maps, ClosingMaps, ZombieMaps
     DEF RecvFound, Session!Next

-----------------------------------------------------------------------------
(* A segment that opens a connection, and the periodic timer.              *)
LEMMA ListenMaps ==
  ASSUME IInv, NEW c \in Conns, NEW s \in Segments, NoCall, RecvListen(c, s)
  PROVE  Session!Open(c)
<1> DEFINE k == uip_conns[c]
           m == Mss(k, s)
           z == [m EXCEPT
              !.tcpstate = "SYN_RCVD", !.stopped = FALSE,
              !.peer = s.peer, !.lport = s.lport,
              !.rto = UIP_RTO, !.timer = UIP_RTO, !.nrtx = 0,
              !.snd_nxt = iss, !.len = 1, !.rcv_nxt = Plus(s.seqno, 1)]
<1>1. Set(c, z)
  BY DEF RecvListen
<1>2. m \in Conn
  <2>1. Lower(s.mss, UIP_TCP_MSS) \in Window
    BY EnvAssumption, SizeAssumption DEF Lower, Window, Segment
  <2>2. k \in Conn
    BY DEF IInv
  <2> HIDE DEF k
  <2> QED
    BY <2>1, <2>2 DEF Mss, Conn
<1> HIDE DEF m
<1>3. z.tcpstate = "SYN_RCVD"
  BY <1>2 DEF Conn
<1> HIDE DEF z
<1>4. View(z) \in {"opening"}
  BY <1>3 DEF View, Is
<1>5. session[c] \in Session!Ends
  BY DEF RecvListen, Slot, session, View, Is, Session!Ends
<1> QED
  BY <1>1, <1>4, <1>5, MoveTo, SilentMaps DEF Session!Open

LEMMA ConnectMaps ==
  ASSUME IInv, NEW c \in Conns, NEW p \in Peers, NEW lp \in EphemeralPorts,
         Connect(c, p, lp)
  PROVE  Session!Open(c)
<1> DEFINE k == uip_conns[c]
           z == [k EXCEPT
               !.tcpstate = "SYN_SENT", !.stopped = FALSE, !.snd_nxt = iss,
               !.mss = UIP_TCP_MSS, !.initialmss = UIP_TCP_MSS, !.len = 1,
               !.nrtx = 0, !.timer = 1, !.rto = UIP_RTO,
               !.lport = lp, !.peer = p]
<1>1. Set(c, z) /\ NoCall
  BY DEF Connect, Quiet, NoCall
<1>2. k \in Conn
  BY DEF IInv
<1>3. session[c] \in Session!Ends
  BY DEF Connect, Slot, session, View, Is, Session!Ends
<1>4. z.tcpstate = "SYN_SENT"
  <2> HIDE DEF k
  <2> QED
    BY <1>2 DEF Conn
<1> HIDE DEF z
<1>5. View(z) \in {"opening"}
  BY <1>4 DEF View, Is
<1> QED
  BY <1>1, <1>3, <1>5, MoveTo, SilentMaps DEF Session!Open

LEMMA PollMaps ==
  ASSUME IInv, NEW c \in Conns, TickPoll(c) PROVE Session!Exchange(c)
<1> DEFINE k == uip_conns[c]
<1>1. PICK r \in Replies : AppSend(c, k, {"POLL"}, r)
  BY DEF TickPoll
<1>2. k \in Conn /\ k.tcpstate = "ESTABLISHED"
  BY DEF TickPoll, IInv, Local
<1>3. Session!Move(c, {"open"} \cup Session!Ends) /\ Session!Notify(c, {"POLL"})
  BY <1>1, <1>2, AppSendMoves
<1>4. session[c] = "open"
  BY <1>2 DEF session, View, Is
<1>5. {"POLL"} \in (SUBSET Session!Traffic) \ {{}}
  BY DEF Session!Traffic
<1> QED
  BY <1>3, <1>4, <1>5 DEF Session!Exchange

LEMMA PeriodicMaps ==
  ASSUME IInv, NEW c \in Conns, Periodic(c)
  PROVE  Session!Next
<1> DEFINE k == uip_conns[c]
<1>0. k \in Conn /\ Local(k)
  BY DEF IInv
<1>1. CASE TickWait(c)
  <2> DEFINE n == (k.timer + 1) % TimerMod
             z == [k EXCEPT !.timer = n,
                     !.tcpstate = IF n = UIP_TIME_WAIT_TIMEOUT THEN "CLOSED" ELSE @]
  <2>1. Set(c, z) /\ NoCall
    BY <1>1 DEF TickWait
  <2>2. z.tcpstate \in {k.tcpstate, "CLOSED"} /\ z.stopped = k.stopped
    BY <1>0 DEF Conn
  <2>3. k.tcpstate \in {"TIME_WAIT", "FIN_WAIT_2"}
    BY <1>1 DEF TickWait, Waiting, Is
  <2> HIDE DEF z
  <2>4. View(z) \in Session!Ends /\ session[c] = "closing"
    BY <2>2, <2>3 DEF View, Is, Session!Ends, session
  <2>5. Session!Move(c, Session!Ends)
    BY <2>1, <2>4, MoveTo
  <2> QED
    BY <2>1, <2>4, <2>5, SilentMaps DEF Session!Finish, Session!Next
<1>2. CASE TickCountdown(c)
  <2> DEFINE z == [k EXCEPT !.timer = @ - 1]
  <2>1. Set(c, z) /\ NoCall
    BY <1>2 DEF TickCountdown
  <2>2. z.tcpstate = k.tcpstate /\ z.stopped = k.stopped
    BY <1>0 DEF Conn
  <2> HIDE DEF z
  <2>3. View(z) = View(k)
    BY <2>2 DEF View, Is
  <2> QED
    BY <2>1, <2>3, ViewStays DEF Session!Next
<1>3. CASE TickTimeout(c)
  <2>1. PICK act \in EndActs :
         LET z == [k EXCEPT !.tcpstate = "CLOSED", !.timer = TimerMod - 1,
                            !.stopped = (act = "stop")]
         IN Set(c, z) /\ Call(c, {"TIMEDOUT"}, act)
    BY <1>3 DEF TickTimeout
  <2> DEFINE z == [k EXCEPT !.tcpstate = "CLOSED", !.timer = TimerMod - 1,
                            !.stopped = (act = "stop")]
  <2>2. Set(c, z) /\ Call(c, {"TIMEDOUT"}, act)
    BY <2>1
  <2>3. z.tcpstate = "CLOSED"
    BY <1>0 DEF Conn
  <2> HIDE DEF z
  <2>4. View(z) \in Session!Ends /\ session[c] # "free"
    BY <1>3, <2>3 DEF View, Is, Session!Ends, session, TickTimeout, Expired, Armed, Live
  <2>5. Session!Move(c, Session!Ends) /\ Session!Notify(c, {"TIMEDOUT"})
    BY <2>2, <2>4, MoveTo, CallMaps
  <2> QED
    BY <2>4, <2>5 DEF Session!Killed, Session!Next
<1>4. CASE TickRexmit(c)
  <2> DEFINE z == Backoff(k)
  <2>1. Set(c, z) /\ NoCall
    BY <1>4 DEF TickRexmit
  <2>2. z.tcpstate = k.tcpstate /\ z.stopped = k.stopped
    BY <1>0 DEF Backoff, Conn
  <2> HIDE DEF z
  <2>3. View(z) = View(k)
    BY <2>2 DEF View, Is
  <2> QED
    BY <2>1, <2>3, ViewStays DEF Session!Next
<1>5. CASE TickAppRexmit(c)
  <2>1. PICK r \in Replies : Set(c, Touch(Backoff(k), r.act)) /\ Call(c, {"REXMIT"}, r.act)
    BY <1>5 DEF TickAppRexmit
  <2> DEFINE z == Touch(Backoff(k), r.act)
  <2>2. z.tcpstate = "ESTABLISHED"
    BY <1>0, <1>5 DEF Touch, Backoff, Conn, TickAppRexmit
  <2> HIDE DEF z
  <2>3. View(z) \in {"open"} \cup Session!Ends
    BY <2>2 DEF View, Is
  <2>4. Session!Move(c, {"open"} \cup Session!Ends) /\ Session!Notify(c, {"REXMIT"})
    BY <2>1, <2>3, MoveTo, CallMaps DEF z
  <2>5. session[c] = "open" /\ {"REXMIT"} \in (SUBSET Session!Traffic) \ {{}}
    BY <1>5 DEF TickAppRexmit, session, View, Is, Session!Traffic
  <2> QED
    BY <2>4, <2>5 DEF Session!Exchange, Session!Next
<1>6. CASE TickPoll(c)
  BY <1>6, PollMaps DEF Session!Next
<1>7. CASE TickIdle(c)
  BY <1>7, TableStays DEF TickIdle, Session!Next
<1> QED
  BY <1>1, <1>2, <1>3, <1>4, <1>5, <1>6, <1>7 DEF Periodic

-----------------------------------------------------------------------------
LEMMA SessionInit == Init => Session!Init
  BY DEF Init, Session!Init, session, call, View, Is

LEMMA SessionStep ==
  ASSUME IInv, [Next]_vars
  PROVE  [Session!Next]_(Session!svars)
<1>1. ASSUME NEW s \in Segments, Input(s) PROVE Session!Next
  <2>1. ASSUME NEW c \in Conns, Found(c, s), RecvFound(c, s) PROVE Session!Next
    BY <2>1, FoundMaps
  <2>2. ASSUME NoCall, RecvListenFull(s) \/ RecvNoConn(s) PROVE Session!Next
    BY <2>2, TableStays DEF RecvListenFull, RecvNoConn, Session!Next
  <2>3. ASSUME NoCall, NEW c \in Conns, RecvListen(c, s) PROVE Session!Next
    BY <2>3, ListenMaps DEF Session!Next
  <2> QED
    BY <1>1, <2>1, <2>2, <2>3 DEF Input
<1>2. ASSUME NEW c \in Conns, Periodic(c) PROVE Session!Next
  BY <1>2, PeriodicMaps
<1>3. ASSUME User PROVE Session!Next
  <2>1. ASSUME NEW c \in Conns, NEW p \in Peers, NEW lp \in EphemeralPorts,
               Connect(c, p, lp)
        PROVE  Session!Next
    BY <2>1, ConnectMaps DEF Session!Next
  <2>2. ASSUME NEW p \in Ports, Listen(p) \/ Unlisten(p) PROVE Session!Next
    BY <2>2, TableStays DEF Listen, Unlisten, Quiet, NoCall, Session!Next
  <2>3. ASSUME NEW c \in Conns, PollConn(c) PROVE Session!Next
    BY <2>3, PollMaps DEF PollConn, Session!Next
  <2> QED
    BY <1>3, <2>1, <2>2, <2>3 DEF User
<1>4. CASE UNCHANGED vars
  BY <1>4 DEF vars, session, call, Session!svars
<1> QED
  BY <1>1, <1>2, <1>3, <1>4 DEF Next

(* The callbacks of every slot form sessions, whatever the network and the *)
(* application do.                                                         *)
THEOREM SessionsImplemented == Spec => SessionSpec
  BY SessionInit, SessionStep, Invariance, PTL DEF Spec, SessionSpec, Session!Spec
=============================================================================
