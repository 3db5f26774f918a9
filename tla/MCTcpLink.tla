----------------------------- MODULE MCTcpLink -----------------------------
(* TcpLink on small instances.                                             *)
EXTENDS TcpLink

CONSTANTS p1, nobody, ReplySlens, ReplyActs

(* What later steps depend on: the output of a step is read by no other,   *)
(* and iss not after the connection has been opened.                       *)
LinkView ==
  <<uip_conns, uip_listenports, IF opener = "none" THEN iss ELSE 0, history, peer>>

MCReplies == [act: ReplyActs, slen: ReplySlens]
=============================================================================
