--------------------------- MODULE UipTcpSession ---------------------------
(* The connection table as the application sees it, and the claim that it  *)
(* is a table of sessions.                                                 *)
EXTENDS UipTcp

View(k) == CASE Is(k, "CLOSED")                       -> "free"
             [] k.tcpstate \in {"SYN_SENT", "SYN_RCVD"} -> "opening"
             [] k.tcpstate = "ESTABLISHED"            -> "open"
             [] OTHER                                 -> "closing"

session == [c \in Conns |-> View(uip_conns[c])]
call    == {[conn |-> a.conn, flags |-> a.flags] : a \in appcall}

Session == INSTANCE TcpSession WITH Slots <- Conns

(* The callbacks of every slot form sessions: CONNECTED first and once,    *)
(* traffic only while open, nothing of it after CLOSE, ABORT or TIMEDOUT.  *)
SessionSpec == Session!Spec
=============================================================================
