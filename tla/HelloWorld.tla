----------------------------- MODULE HelloWorld -----------------------------
(***************************************************************************)
(* A server written with protosockets, as hello-world.c is, on the TCP     *)
(* engine and its network (TcpLink): the application that TcpLink leaves   *)
(* free is here hello_world_appcall().  A script is the body of            *)
(* handle_connection(): its sends, its read and at its end PSOCK_CLOSE;    *)
(* the protothread continues where it waited and starts again from the     *)
(* beginning when it has ended (PT_END).                                   *)
(*                                                                         *)
(* The name is what the input buffer holds after PSOCK_READTO; it is taken *)
(* to be shorter than the buffer, and the buffer to be empty before.       *)
(***************************************************************************)
EXTENDS TcpLink, Psock

CONSTANTS Scripts,      \* of operations [op, len]
          Polite        \* the peer sends nothing before it has our first message

IsSend(o) == o.op \in {"send", "generator", "sendname"}

(* A generator generates something, and a name is sent after it was read.  *)
ASSUME ScriptAssumption ==
  \A s \in Scripts :
    /\ s \in Seq([op: {"send", "generator", "sendname", "readto", "readbuf"}, len: Nat])
    /\ \A i \in DOMAIN s : s[i].op = "generator" => s[i].len > 0
    /\ \A i, j \in DOMAIN s : ~IsSend(s[i]) /\ s[j].op = "sendname" => i < j

VARIABLES
  app,         \* the application state: script, place in it, protosocket
  said,        \* the place from which uip_send() took data last
  promised     \* own bytes of the sends that have returned

hvars == <<lvars, app, said, promised>>

Op(a)     == a.script[a.pc]
Size(o, m) == IF o.op = "sendname" THEN m ELSE IF IsSend(o) THEN o.len ELSE 0
NameLen(a) == Len(a.psock.buf)

\* Own bytes in the messages before operation n, with a name of m bytes.
Bytes(script, m, n) ==
  LET sum[i \in 0..(n - 1)] == IF i = 0 THEN 0 ELSE sum[i - 1] + Size(script[i], m)
  IN sum[n - 1]
Before(a, n) == Bytes(a.script, NameLen(a), n)

-----------------------------------------------------------------------------
(* One operation of handle_connection(), begun or continued.               *)
Do(a, e) ==
  LET o == Op(a)
      at == Before(a, a.pc) + 1
  IN CASE o.op = "generator" -> psock_generator_send(a.psock, at, o.len, e)
       [] o.op \in {"readto", "readbuf"} ->
            psock_read(a.psock, IF o.op = "readto" THEN "to" ELSE "buf", e)
       [] OTHER -> psock_send(a.psock, at, Size(o, NameLen(a)), e)

(* PT_WAIT_THREAD: while the operation waits, so does the connection.  What*)
(* is left of the application when it has come to operation n.             *)
handle_connection(a, e) ==
  LET run[n \in (a.pc - 1)..Len(a.script)] ==
        IF n = a.pc - 1 THEN a
        ELSE IF run[n - 1].pc < n THEN run[n - 1]
        ELSE LET s == Do(run[n - 1], e)
             IN [run[n - 1] EXCEPT !.psock = s, !.pc = IF s.waiting THEN n ELSE n + 1]
      z == run[Len(a.script)]
  IN IF z.pc > Len(a.script) THEN [z EXCEPT !.close = TRUE, !.pc = 1] ELSE z

AtConnected(a, e) == IF e.connected THEN [a EXCEPT !.psock = psock_init, !.pc = 1] ELSE a
hello_world_appcall(a, e) ==
  handle_connection(AtConnected([a EXCEPT !.psock.out = Nothing, !.close = FALSE], e), e)

(* The callback of this step and what the application makes of it.         *)
Event == [connected |-> "CONNECTED" \in Told, acked |-> "ACKDATA" \in Told,
          rexmit |-> "REXMIT" \in Told, newdata |-> "NEWDATA" \in Told,
          data |-> Rest(fed', Len(fed)), mss |-> uip_conns'[1].mss]

\* The connection as this reply leaves it: act and slen are the callback's.
Replied(a) ==
  LET left == IF Told \cap {"ACKDATA", "CONNECTED"} # {} THEN 0 ELSE conn.len
      n == a.psock.out.len
  IN \/ Told \cap {"CLOSE", "ABORT", "TIMEDOUT"} # {}
     \/ /\ \A x \in appcall' : x.act = IF a.close THEN "close" ELSE "none"
        /\ \/ a.close /\ "REXMIT" \notin Told
           \/ /\ uip_conns'[1].len = IF left = 0 THEN n ELSE left
              /\ (\E b \in uip_buf' : b.len > 0) <=> n > 0

AppCall ==
  IF appcall' = {} THEN UNCHANGED <<app, said, promised>>
  ELSE /\ app' = hello_world_appcall(app, Event)
       /\ Replied(app')
       /\ said' = IF app'.psock.out.len > 0 THEN app'.psock.out.at ELSE said
       /\ promised' = IF uip_conns'[1].tcpstate # "ESTABLISHED" /\ ~app'.close
                      THEN promised
                      ELSE Before(app', IF app'.close THEN Len(app'.script) + 1 ELSE app'.pc)

\* Own bytes before the script reads for the first time.
Greeting == LET reads == {i \in DOMAIN app.script : ~IsSend(app.script[i])}
            IN Before(app, CHOOSE i \in reads : \A j \in reads : i <= j)
Manners == Polite /\ fed' # fed => acked' >= Greeting

HelloInit ==
  /\ LinkInit /\ said = 0 /\ promised = 0
  /\ \E s \in Scripts : app = [script |-> s, pc |-> 1, psock |-> psock_init, close |-> FALSE]

HelloNext ==
  \/ DeliverSyn /\ AppCall
  \/ DeliverText /\ AppCall /\ Manners
  \/ DeliverRst /\ AppCall
  \/ LinkTick /\ AppCall
  \/ (LinkUser \/ \E f \in wire : PeerHears(f)) /\ UNCHANGED <<app, said, promised>>

HelloSpec == HelloInit /\ [][HelloNext]_hvars

-----------------------------------------------------------------------------
(* psock.h:164-166 of PSOCK_SEND: it "blocks until all data has been sent  *)
(* and is known to have been received by the remote end": when a send      *)
(* returns, every byte of it and of those before is acknowledged.  Bytes   *)
(* are counted here; which bytes a segment holds is WritesNext.            *)
SentIsReceived == promised <= acked /\ acked <= Len(peer.heard)

(* uip.h asks an application to send the same data again when it is told   *)
(* to, and the next data once that is acknowledged: what is in flight was  *)
(* always taken from the first unacknowledged byte, through lost and       *)
(* repeated segments, retransmissions, polls and new data in between.  Of  *)
(* a generator's message this is so until it is retransmitted, and from    *)
(* then on the segment holds what the buffer held (place 0), never the     *)
(* bytes of another message.                                               *)
Generating == Op(app).op = "generator"
WritesNext ==
  conn.tcpstate = "ESTABLISHED" /\ conn.len > 0 =>
    said = acked + 1 \/ (Generating /\ said = 0)

(* psock.h:212-215 of a generator function: it "is called by the           *)
(* protosocket layer when the data first is sent, and once for every       *)
(* retransmission that is needed", so that a retransmitted segment, too,   *)
(* holds the generated bytes.                                              *)
GeneratesAgain ==
  conn.tcpstate = "ESTABLISHED" /\ conn.len > 0 /\ Generating => said = acked + 1

(* The protosocket reads the peer's stream from its beginning, without     *)
(* gaps or repeats, across segments: all that was fed while it reads, and  *)
(* the name or the full buffer when it has read.                           *)
ReadPlace == CHOOSE i \in DOMAIN app.script : ~IsSend(app.script[i])
Wanted == IF app.script[ReadPlace].op = "readto"
          THEN SubSeq(fed, 1, ToMarker(fed)) ELSE SubSeq(fed, 1, Smaller(BufSize, Len(fed)))
ReadsStream ==
  conn.tcpstate = "ESTABLISHED" /\ app.pc >= ReadPlace => app.psock.buf = Wanted

(* When the server ends the connection itself, the peer has heard as many  *)
(* bytes as it had to say: greeting, answer and name.                      *)
Farewell ==
  app.close => Len(peer.heard) = Before(app, Len(app.script) + 1)
=============================================================================
