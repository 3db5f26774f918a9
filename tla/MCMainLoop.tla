----------------------------- MODULE MCMainLoop -----------------------------
(* MainLoop with short ARP frames and longer IP frames.                    *)
EXTENDS MainLoop

MCKinds == {[type |-> "arp", size |-> 1], [type |-> "ip", size |-> 2]}
=============================================================================
