------------------------------- MODULE Psock -------------------------------
(***************************************************************************)
(* Protosockets (psock.c) as functions from a protosocket and one callback *)
(* of the application to what is left of it.  psockpt is a protothread     *)
(* (pt.h, lc-switch.h): a call continues where the last one returned       *)
(* WAITING (s.waiting) and runs to the next wait or to its end.            *)
(*                                                                         *)
(* A byte is named by its place in its stream.  The protosocket s is       *)
(*   state, sendptr, sendlen, waiting, buf (what psock_buf holds),         *)
(*   unread (readptr, readlen), out (the last uip_send of this callback)   *)
(* and the callback e is                                                   *)
(*   acked, rexmit, newdata (uip_flags), data (uip_appdata), mss.          *)
(***************************************************************************)
EXTENDS Naturals, Sequences

CONSTANTS BufSize,         \* bufsize
          EndMarkers       \* the places of the peer's stream that hold a '\n'

ASSUME PsockAssumption == BufSize \in Nat \ {0} /\ EndMarkers \subseteq Nat \ {0}

Nothing == [at |-> 0, len |-> 0]
psock_init == [state |-> "none", sendptr |-> 0, sendlen |-> 0, waiting |-> FALSE,
               buf |-> <<>>, unread |-> <<>>, out |-> Nothing]

Smaller(a, b) == IF a < b THEN a ELSE b
uip_send(s, at, n) == IF n > 0 THEN [s EXCEPT !.out = [at |-> at, len |-> n]] ELSE s

-----------------------------------------------------------------------------
(* data_acked() and send_data(): each returns 1 in the cases of its guard. *)
IsAckedWheneverSent(s, e) == s.state = "sent"         \* mutant
IsAcked(s, e) == s.state = "sent" /\ e.acked
data_acked(s, e) ==
  LET n == Smaller(s.sendlen, e.mss)
  IN IF IsAcked(s, e)
     THEN [s EXCEPT !.state = "acked", !.sendlen = @ - n, !.sendptr = @ + n] ELSE s

Sends(s, e) == s.state # "sent" \/ e.rexmit
SendDataAdvances(s, e) ==                             \* mutant
  LET n == Smaller(s.sendlen, e.mss)
  IN IF Sends(s, e) THEN [uip_send(s, s.sendptr, n) EXCEPT !.state = "sent", !.sendptr = @ + n]
     ELSE s
send_data(s, e) ==
  IF Sends(s, e)
  THEN [uip_send(s, s.sendptr, Smaller(s.sendlen, e.mss)) EXCEPT !.state = "sent"]
  ELSE s

(* while(sendlen > 0) PT_WAIT_UNTIL(data_acked & send_data): both are      *)
(* called, and uip_acked() stays true for the rest of the callback.  A turn*)
(* of the loop that does not wait takes a byte or more from sendlen.       *)
SendTurn(s, e)  == send_data(data_acked(s, e), e)
SentTurn(s, e) == s.sendlen > 0 /\ IsAcked(s, e) /\ Sends(data_acked(s, e), e)
SendLoop(s, e) ==
  LET turns[i \in 0..s.sendlen] ==
        IF i = 0 THEN s
        ELSE IF SentTurn(turns[i - 1], e) THEN SendTurn(turns[i - 1], e) ELSE turns[i - 1]
      z == turns[s.sendlen]
  IN IF z.sendlen = 0 THEN [z EXCEPT !.state = "none", !.waiting = FALSE]
     ELSE [SendTurn(z, e) EXCEPT !.waiting = TRUE]

SendSetup(s, at, n) ==
  IF s.waiting THEN s ELSE [s EXCEPT !.sendptr = at, !.sendlen = n, !.state = "none"]
psock_send(s, at, n, e) ==
  IF n = 0 /\ ~s.waiting THEN s ELSE SendLoop(SendSetup(s, at, n), e)

(* psock_generator_send(): generate() puts the data into uip_appdata when  *)
(* the call begins.  A call that waits continues inside PT_WAIT_UNTIL,     *)
(* behind the test of uip_rexmit(): what it then takes from uip_appdata is *)
(* whatever the stack has put there since (place 0).                       *)
Unknown(s) == [s EXCEPT !.sendptr = 0, !.out.at = 0]
psock_generator_send(s, at, n, e) ==
  LET z == SendLoop(SendSetup(s, at, n), e) IN IF s.waiting THEN Unknown(z) ELSE z

-----------------------------------------------------------------------------
(* psock_newdata() as readto and readbuf call it, with nothing unread: not *)
(* while the protosocket has read the data of this very callback.          *)
HasNew(s, e) == s.unread = <<>> /\ s.state # "read" /\ e.newdata
psock_newdata(s, e) ==
  IF HasNew(s, e) THEN [s EXCEPT !.state = "read", !.unread = e.data]
  ELSE [s EXCEPT !.state = IF @ = "read" THEN "blocked" ELSE @, !.waiting = TRUE]

Fill(b, data) == SubSeq(b \o data, 1, Smaller(BufSize, Len(b) + Len(data)))
Rest(data, k) == SubSeq(data, k + 1, Len(data))

(* buf_bufto() and buf_bufdata(): what is taken from the unread bytes, up  *)
(* to the end marker or up to the size; more than fits is dropped.         *)
ToMarker(data) ==
  LET m == {i \in DOMAIN data : data[i] \in EndMarkers}
  IN IF m = {} THEN Len(data) ELSE CHOOSE i \in m : \A j \in m : i <= j
FoundMarker(data) == \E i \in DOMAIN data : data[i] \in EndMarkers
ToSize(s) == Smaller(BufSize - Len(s.buf), Len(s.unread))

(* One read: "to" is psock_readto('\n'), "buf" is psock_readbuf().         *)
Consume(s, how) ==
  LET k == IF how = "to" THEN ToMarker(s.unread) ELSE ToSize(s)
  IN [s EXCEPT !.buf = Fill(s.buf, SubSeq(s.unread, 1, k)), !.unread = Rest(s.unread, k)]
Ends(s, how) == IF how = "to" THEN FoundMarker(s.unread)
                ELSE Len(s.buf) + Len(s.unread) >= BufSize

(* do { if(readlen == 0) PT_WAIT_UNTIL(psock_newdata); } while(not ended): *)
(* what was left unread, then what is new; after that nothing is.          *)
Got(s, e) == IF s.unread = <<>> THEN psock_newdata(s, e) ELSE s
More(s, how, e) == IF s.unread = <<>> \/ Ends(s, how) THEN s ELSE Got(Consume(s, how), e)
ReadLoop(s, how, e) ==
  LET z == More(More(Got(s, e), how, e), how, e)
  IN IF z.unread = <<>> THEN [z EXCEPT !.waiting = TRUE]
     ELSE [Consume(z, how) EXCEPT !.waiting = FALSE]

ReadSetupAgain(s) == [s EXCEPT !.buf = <<>>]          \* mutant
ReadSetup(s) == IF s.waiting THEN s ELSE [s EXCEPT !.buf = <<>>]
psock_read(s, how, e) == ReadLoop(ReadSetup(s), how, e)
=============================================================================
