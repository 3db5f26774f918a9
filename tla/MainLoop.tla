------------------------------ MODULE MainLoop ------------------------------
(***************************************************************************)
(* The main loop (main.c) around the driver: poll the controller, hand     *)
(* what is in uip_buf to the stack, run the two timers.  uip_buf and       *)
(* uip_len are global and shared by everything in the loop; an iteration   *)
(* either receives or processes, and processes whatever the buffer holds.  *)
(*                                                                         *)
(* The stack is seen from outside: a call may leave a frame to be sent in  *)
(* the buffer.  It drops what it is not given a length for (uip.c:856,     *)
(* uip_arp.c:281) and its own frames, which are addressed to others.  The  *)
(* timers may have expired or not whenever they are asked (SysTimer).      *)
(***************************************************************************)
EXTENDS Enc28j60

VARIABLE handled        \* the number of the frame the stack took last

lvars == <<pc, econ1, rxvars, txvars, bufvars, handled>>

Init ==
  /\ pc = "init" /\ back = "periodic" /\ econ1 = {}
  /\ rxmem = [c \in Cells |-> Blank]
  /\ erxwrpt = 0 /\ erxrdpt = 0 /\ erdpt = 0 /\ epktcnt = 0 /\ arrived = 0
  /\ hdr = NoHeader
  /\ txmem = 0 /\ air = 0 /\ given = 0
  /\ got = Nothing /\ uip_buf = Nothing /\ uip_len = FALSE /\ handled = 0

PollAlwaysReceives ==                                 \* mutant
  /\ pc = "count" /\ pc' = (IF epktcnt # 0 THEN "rxHeader" ELSE "process")
  /\ uip_len' = FALSE
  /\ econ1' = Select(1) /\ UNCHANGED <<rxvars, txvars, uip_buf, handled>>
PollCount ==
  /\ pc = "count" /\ pc' = (IF epktcnt # 0 THEN "rxHeader" ELSE "process")
  /\ econ1' = Select(1) /\ UNCHANGED <<rxvars, txvars, bufvars, handled>>

\* A frame of ours, told by its number from the one in the transmit buffer.
Ours(t) == [from |-> "us", id |-> IF txmem = 1 THEN 2 ELSE 1, type |-> t]

SendOff(f, to) ==
  /\ uip_buf' = f /\ uip_len' = TRUE /\ pc' = "txWait" /\ back' = to
NothingToSend(to) == uip_len' = FALSE /\ pc' = to /\ UNCHANGED <<uip_buf, back>>

TakenWhatever == uip_buf.from = "wire"                \* mutant
Taken == uip_len /\ uip_buf.from = "wire"
Stack(replies) ==
  /\ pc = "process"
  /\ IF Taken
     THEN /\ handled' = uip_buf.id
          /\ \/ NothingToSend("periodic")
             \/ \E t \in replies : SendOff(Ours(t), "periodic")
     ELSE NothingToSend("periodic") /\ UNCHANGED handled
  /\ UNCHANGED <<econ1, rxvars, txmem, air, given>>

\* uip_arp_out() makes an IP packet an ARP request if it has to ask first.
IsIpUnswapped == FALSE                                \* mutant
IsIp == uip_buf.type = "ip"
IsArp == uip_buf.type = "arp"
ProcessIp  == IsIp /\ Stack({"ip", "arp"})
ProcessArp == IsArp /\ Stack({"arp"})
ProcessOther == /\ ~IsIp /\ ~IsArp /\ Goto("process", "periodic")
                /\ UNCHANGED <<econ1, rxvars, txvars, bufvars, handled>>

(* uip_periodic() clears uip_len first: what was received is gone.         *)
PeriodicExpired ==
  /\ pc = "periodic"
  /\ \/ NothingToSend("arpTimer")
     \/ \E t \in {"ip", "arp"} : SendOff(Ours(t), "arpTimer")
  /\ UNCHANGED <<econ1, rxvars, txmem, air, given, handled>>
PeriodicNotYet == /\ Goto("periodic", "arpTimer")
                  /\ UNCHANGED <<econ1, rxvars, txvars, bufvars, handled>>

\* uip_arp_timer() changes the ARP table only.
ArpTimer == /\ Goto("arpTimer", "link")
            /\ UNCHANGED <<econ1, rxvars, txvars, bufvars, handled>>

Receive == \/ ReadHeader \/ ReadContent \/ MoveErdpt \/ FreeSpace \/ ReturnSize
Transmit == TxWait \/ TxPointers \/ TxWrite \/ TxGo
Driver == (Enc28j60Init \/ ReadLinkStatus \/ Receive \/ Transmit) /\ UNCHANGED handled
Main == \/ PollCount \/ ProcessIp \/ ProcessArp \/ ProcessOther
        \/ PeriodicExpired \/ PeriodicNotYet \/ ArpTimer
Chip == /\ \/ \E k \in Kinds, good \in BOOLEAN : Arrive(k, good)
           \/ Transmitted
        /\ UNCHANGED handled

Next == Driver \/ Main \/ Chip
Spec == Init /\ [][Next]_lvars
(* The processor keeps running; nothing is asked of the network.           *)
FairSpec == Spec /\ WF_lvars(Driver \/ Main)

-----------------------------------------------------------------------------
(* main.c:91 processes uip_buf in every iteration without a frame waiting, *)
(* but no frame is taken twice or after a later one, in any order of       *)
(* receptions, replies and timers.                                         *)
TakenOnce ==
  [][pc = "process" /\ pc' # pc /\ Taken /\ (IsIp \/ IsArp) => handled' > handled]_lvars

(* A frame received and not yet taken leaves the buffer only because the   *)
(* stack takes it, because the next frame is read over it, or because the  *)
(* periodic timer expired in the iteration that received it.               *)
Pending == uip_len /\ uip_buf.from = "wire" /\ uip_buf.type \in {"ip", "arp"}
FrameFate ==
  [][Pending /\ ~Pending' => \/ handled' > handled
                             \/ pc \in {"rxData", "rxDec", "periodic"}]_lvars

(* And it does leave it: nothing stays in the buffer unseen.               *)
PendingEnds == Pending ~> ~Pending

(* Once the network is quiet the ring is emptied, good frames and bad.     *)
Drains == epktcnt > 0 ~> epktcnt = 0
=============================================================================
