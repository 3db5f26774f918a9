------------------------------ MODULE MCUipTcp ------------------------------
(* UipTcp on small instances.                                              *)
EXTENDS UipTcpSession, TLC

CONSTANTS p1, p2, nobody, MaxLen, MssOpts, Wnds, ReplySlens, ReplyActs

MCFlags == {{"SYN"}, {"ACK"}, {"SYN", "ACK"}, {"FIN", "ACK"}, {"RST"}}

\* The segments a peer's TCP builds: what a field is not used for is zero.
MCSegments ==
  {s \in [peer: Peers, lport: Ports, flags: MCFlags, seqno: SeqNo, ackno: SeqNo,
          len: 0..MaxLen, wnd: Wnds, mss: MssOpts \cup {0}, urgp: {0}] :
     /\ "SYN" \in s.flags => s.len = 0 /\ s.wnd = UIP_TCP_MSS
     /\ "SYN" \notin s.flags => s.mss = 0
     /\ "FIN" \in s.flags => s.wnd = UIP_TCP_MSS
     /\ "ACK" \notin s.flags => s.ackno = 0
     /\ "RST" \in s.flags => s.seqno = 0 /\ s.len = 0 /\ s.wnd = UIP_TCP_MSS}

Symmetry == Permutations(Peers)

MCReplies == [act: ReplyActs, slen: ReplySlens]

(* uip.c:1615 "If the remote host advertises a zero window, we set the MSS *)
(* to the initial MSS so that the application will send an entire MSS of   *)
(* data": an established connection can always send something.             *)
CanSend ==
  \A c \in Conns : uip_conns[c].tcpstate = "ESTABLISHED" => uip_conns[c].mss > 0

(* uip.h:566 uip_close() "will close the current connection in a nice      *)
(* way": a callback that returns after uip_close() does not leave the      *)
(* connection established.                                                 *)
CloseTaken ==
  [][\A a \in appcall' :
       a.act = "close" => uip_conns'[a.conn].tcpstate # "ESTABLISHED"]_vars
=============================================================================
