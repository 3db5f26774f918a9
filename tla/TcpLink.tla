------------------------------ MODULE TcpLink ------------------------------
(***************************************************************************)
(* The TCP engine and one remote TCP across a network that loses, repeats, *)
(* delays and reorders, for the lifetime of one connection in the only     *)
(* slot (UIP_CONNS of uip-conf.h).                                         *)
(*                                                                         *)
(* A byte is named by its place in its stream: the peer's stream is        *)
(* 1..PeerBytes, the application's 1..AppBytes.  The peer may send any     *)
(* segment of its stream at any time, again or out of order, acknowledging *)
(* any prefix of what it has received.  The application writes from its    *)
(* first unacknowledged byte whenever it writes, which is what uip.h asks  *)
(* of it for a retransmission.                                             *)
(***************************************************************************)
EXTENDS UipTcp, Sequences

CONSTANTS
  PeerBytes, AppBytes,   \* the two streams (bounds)
  PeerIss,               \* the peer's initial sequence number
  MssOpts, Wnds,         \* what it may announce
  Urgps,                 \* urgent pointers it may set
  Careful                \* the application closes only when all is acknowledged

ASSUME LinkAssumption ==
  /\ UIP_CONNS = 1 /\ Peers # {}
  /\ PeerBytes \in Nat /\ AppBytes \in Nat /\ PeerIss \in SeqNo
  /\ SeqMod > PeerBytes + 2 /\ SeqMod > AppBytes + 2
  /\ MssOpts \subseteq Nat /\ Wnds \subseteq Nat /\ Urgps \subseteq Nat
  /\ Careful \in BOOLEAN

VARIABLES
  opener,      \* who opened the connection: "none" yet, "uip" or "peer"
  isn,         \* our initial sequence number in it
  acked,       \* own bytes the application knows to be acknowledged
  wrote,       \* own bytes it has put into a segment
  fed,         \* the peer's bytes it was given
  fedEnd,      \* it was told that the peer has closed
  wire,        \* every SYN, data segment and FIN sent so far
  peer         \* the peer's receiver: [syn, fin: BOOLEAN, heard: Seq(Nat)]

history == <<opener, isn, acked, wrote, fed, fedEnd, wire>>
lvars   == <<vars, history, peer>>

conn         == uip_conns[1]
Places(a, n) == [i \in 1..n |-> a + i - 1]
PeerSeq(i)   == Plus(PeerIss, i)
OwnSeq(i)    == Plus(isn, i)
Told         == UNION {a.flags : a \in appcall'}      \* uip_flags of the callback

-----------------------------------------------------------------------------
(* What the application remembers and what has left for the peer, after a  *)
(* step of the engine.                                                     *)

\* A frame: the place of its first byte (0 for a SYN) and the bytes in it.
Frames ==
  {[at |-> CHOOSE i \in 0..(SeqMod - 1) : b.seqno = Plus(isn', i),
    bytes |-> Places(acked' + 1, b.len),
    syn |-> "SYN" \in b.flags, fin |-> "FIN" \in b.flags] :
     b \in {x \in uip_buf' : /\ "RST" \notin x.flags
                             /\ x.len > 0 \/ x.flags \cap {"SYN", "FIN"} # {}}}

Remember ==
  LET new == uip_conns'[1]
  IN /\ isn' = IF conn.tcpstate = "CLOSED" /\ new.tcpstate = "SYN_RCVD"
               THEN new.snd_nxt ELSE isn
     /\ acked' = IF "ACKDATA" \in Told THEN acked + conn.len ELSE acked
     /\ wrote' = IF new.tcpstate = "ESTABLISHED" /\ acked' + new.len > wrote
                 THEN acked' + new.len ELSE wrote
     /\ wrote' <= AppBytes
     /\ wire' = wire \cup Frames
     /\ fedEnd' = (fedEnd \/ ("CLOSE" \in Told /\ conn.tcpstate = "ESTABLISHED"))

\* uip_close() with data in flight is what a careful application avoids.
Closes == (\E a \in appcall' : a.act = "close") /\ Careful =>
             conn.len = 0 \/ Told \cap {"ACKDATA", "CONNECTED"} # {}

\* The first byte the application sees: urgent data is skipped.
Skip(s) == IF conn.tcpstate = "ESTABLISHED" THEN Urgent(s) ELSE 0

Deliver(s, at) ==
  /\ Input(s) /\ Remember /\ Closes /\ UNCHANGED peer
  /\ fed' = IF "NEWDATA" \in Told
            THEN fed \o Places(at + Skip(s), s.len - Skip(s)) ELSE fed

-----------------------------------------------------------------------------
(* What the peer can have sent by now.                                     *)

PeerAcks == IF ~peer.syn THEN {}
            ELSE {OwnSeq(i) : i \in 1..(1 + Len(peer.heard) +
                                        IF peer.fin THEN 1 ELSE 0)}

Seg(p, lp, fl, at, ack, n, w, m, u) ==
  [peer |-> p, lport |-> lp, flags |-> fl, seqno |-> PeerSeq(at), ackno |-> ack,
   len |-> n, wnd |-> w, mss |-> m, urgp |-> u]

\* Its SYN, while it may still open the connection or repeats that.
DeliverSyn ==
  \E p \in Peers, lp \in Ports, w \in Wnds, m \in MssOpts :
    LET s == Seg(p, lp, {"SYN"}, 0, 0, 0, w, m, 0)
    IN /\ opener = "none" \/ (opener = "peer" /\ Matches(conn, s))
       /\ Deliver(s, 0)
       /\ opener' = IF uip_conns'[1].tcpstate = "SYN_RCVD" THEN "peer" ELSE opener

DeliverSynAck ==
  \E p \in Peers, lp \in Ports, w \in Wnds, m \in MssOpts, a \in PeerAcks :
    /\ opener = "uip" /\ UNCHANGED opener
    /\ Deliver(Seg(p, lp, {"SYN", "ACK"}, 0, a, 0, w, m, 0), 0)

DeliverText ==
  \E p \in Peers, lp \in Ports, w \in Wnds, a \in PeerAcks,
     at \in 1..(PeerBytes + 2), n \in 0..PeerBytes :
    /\ n > 0 => at + n <= PeerBytes + 1
    /\ UNCHANGED opener
    /\ \/ Deliver(Seg(p, lp, {"ACK"}, at, a, n, w, 0, 0), at)
       \/ \E u \in Urgps \cap 1..n :
            Deliver(Seg(p, lp, {"ACK", "URG"}, at, a, n, w, 0, u), at)
       \/ /\ at + n = PeerBytes + 1
          /\ Deliver(Seg(p, lp, {"ACK", "FIN"}, at, a, n, w, 0, 0), at)

DeliverRst ==
  \E p \in Peers, lp \in Ports, w \in Wnds :
    UNCHANGED opener /\ Deliver(Seg(p, lp, {"RST"}, 0, 0, 0, w, 0, 0), 0)

(* The peer receives a frame: what adjoins of its bytes, a FIN in its turn.  *)
PeerHears(f) ==
  LET next == Len(peer.heard) + 1
      last == f.at + Len(f.bytes) - 1
  IN /\ ~peer.fin /\ UNCHANGED <<vars, history>>
     /\ \/ f.syn /\ ~peer.syn /\ peer' = [peer EXCEPT !.syn = TRUE]
        \/ /\ peer.syn /\ f.at <= next /\ next <= last
           /\ peer' = [peer EXCEPT !.heard =
                         @ \o SubSeq(f.bytes, next - f.at + 1, Len(f.bytes))]
        \/ /\ peer.syn /\ f.fin /\ f.at = next
           /\ peer' = [peer EXCEPT !.fin = TRUE]

-----------------------------------------------------------------------------
LinkInit ==
  /\ Init /\ opener = "none" /\ isn = 0 /\ acked = 0 /\ wrote = 0
  /\ fed = <<>> /\ fedEnd = FALSE /\ wire = {}
  /\ peer = [syn |-> FALSE, fin |-> FALSE, heard |-> <<>>]

LinkTick == /\ Periodic(1) /\ Remember /\ Closes
            /\ UNCHANGED <<opener, fed, peer>>

LinkUser ==
  /\ UNCHANGED <<acked, wrote, fed, fedEnd, wire, peer>>
  /\ \/ \E p \in Peers, lp \in EphemeralPorts :
          /\ opener = "none" /\ Connect(1, p, lp)
          /\ opener' = "uip" /\ isn' = iss
     \/ /\ \E p \in Ports : Listen(p)
        /\ UNCHANGED <<opener, isn>>

LinkNext == \/ DeliverSyn \/ DeliverSynAck \/ DeliverText \/ DeliverRst
            \/ \E f \in wire : PeerHears(f)
            \/ LinkTick \/ LinkUser

LinkSpec == LinkInit /\ [][LinkNext]_lvars

(* main() ticks the connection in every round; nothing is asked of the     *)
(* peer or the network.                                                    *)
LinkFair == LinkSpec /\ WF_lvars(LinkTick)

-----------------------------------------------------------------------------
(* uip.c:73 "The application will not be fed with data that is out of      *)
(* sequence": the peer's stream reaches the application in order, without  *)
(* gaps or repeats, and CLOSE comes after its last byte (uip_process,      *)
(* rcv_nxt, uip_stop() and uip_restart() included).                        *)
ToApp == INSTANCE ByteStream
  WITH written <- PeerBytes, closed <- TRUE, read <- fed, eof <- fedEnd
AppStream == ToApp!Spec

(* The same line of uip.c of a peer that also sends urgent data, which is  *)
(* not passed on: what the application is fed is still in sequence, no     *)
(* byte twice.                                                             *)
InSequence == \A i, j \in DOMAIN fed : i < j => fed[i] < fed[j]

(* The other direction, through retransmissions that the application       *)
(* rebuilds: the peer hears what the application wrote, each byte once, in *)
(* order, and the end only after all of it.                                *)
Shut   == \E f \in wire : f.fin
ToPeer == INSTANCE ByteStream
  WITH written <- wrote, closed <- Shut, read <- peer.heard, eof <- peer.fin
PeerStream == ToPeer!Spec

(* One segment is outstanding: the peer has heard at least what the        *)
(* application knows to be acknowledged and at most what is in flight.     *)
OneInFlight ==
  conn.tcpstate = "ESTABLISHED" =>
    /\ conn.snd_nxt = OwnSeq(acked + 1)
    /\ acked <= Len(peer.heard) /\ Len(peer.heard) <= acked + conn.len
    /\ conn.rcv_nxt = PeerSeq(Len(fed) + 1)

(* A connection that waits after its close (FIN_WAIT_2, TIME_WAIT) has     *)
(* been heard to the last byte and the FIN.                                *)
CloseHeard ==
  conn.tcpstate \in {"FIN_WAIT_2", "TIME_WAIT"} =>
    peer.fin /\ Len(peer.heard) = wrote

(* With a peer whose stream ends, a segment does not stay outstanding: it  *)
(* is acknowledged, or the retries run out and the connection is given up, *)
(* although every byte from the peer renews the retry budget (appsend).    *)
Settles == Live(conn) /\ conn.len > 0 ~> ~Live(conn) \/ conn.len = 0
=============================================================================
