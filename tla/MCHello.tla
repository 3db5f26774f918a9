------------------------------ MODULE MCHello ------------------------------
(* HelloWorld on small instances.                                          *)
EXTENDS HelloWorld

CONSTANTS p1, nobody, GreetLen, ReplySlens

HelloView == <<uip_conns, uip_listenports, IF opener = "none" THEN iss ELSE 0,
               history, peer, app, said, promised>>

MCReplies == [act: {"none", "close"}, slen: ReplySlens]

MCScripts ==
  {<<[op |-> "send", len |-> GreetLen], [op |-> "readto", len |-> 0],
     [op |-> "send", len |-> 1], [op |-> "sendname", len |-> 0]>>,
   <<[op |-> "readbuf", len |-> 0], [op |-> "generator", len |-> 2]>>}
=============================================================================
