------------------------------ MODULE Enc28j60 ------------------------------
(***************************************************************************)
(* The driver of the ENC28J60 Ethernet controller (enc28j60.c) and what it *)
(* relies on of the chip: a receive ring the chip fills by itself, and a   *)
(* transmit buffer it sends from while the TXRTS bit is set.  The driver   *)
(* runs in the main loop and reaches the chip over SPI, so every action of *)
(* the driver is a few registers or one buffer transfer, and the chip may  *)
(* act between any two.  pc is the place in the loop and in the driver.    *)
(*                                                                         *)
(* Abstracted: a packet takes one cell of the ring for its header and one  *)
(* per size unit, addresses count cells from ERXST, a frame is its number  *)
(* and its type.  Frames fit into uip_buf; MAC and PHY settings and the    *)
(* link status change nothing the rest reads.                              *)
(***************************************************************************)
EXTENDS Naturals, Sequences

CONSTANTS RxSize,              \* cells of the receive ring
          Kinds,               \* the frames on the network: [type, size]
          MaxFrames            \* frames that arrive (bound)

ASSUME RingAssumption == /\ RxSize \in Nat /\ RxSize > 2 /\ MaxFrames \in Nat
                         /\ Kinds \subseteq [type : STRING, size : Nat \ {0}]

\* A frame; 0 numbers what is not the content of one frame.
Types  == {k.type : k \in Kinds} \cup {"ip", "arp", "none"}
Frame  == [from : {"wire", "us"}, id : 0..(MaxFrames + 2), type : Types]
Nothing == [from |-> "us", id |-> 0, type |-> "none"]
Cells  == 0..(RxSize - 1)
Blank  == [head |-> FALSE, next |-> 0, size |-> 0, ok |-> FALSE, frame |-> Nothing]
NoHeader == [at |-> 0, next |-> 0, size |-> 0, ok |-> FALSE]

VARIABLES
  pc, back,            \* where the processor is; where tx_packet_send returns to
  econ1,               \* the bits set in register ECON1
  rxmem, erxwrpt, erxrdpt, erdpt, epktcnt,   \* the ring, its pointers, the count
  txmem, air,          \* the frame in the transmit buffer; the one being sent
  given,               \* the one that must be sent: none if two calls overlap
  hdr,                 \* next_packet, size, status of the packet being read
  got,                 \* what rx_packet_receive is about to return
  arrived,             \* frames the network has delivered
  uip_buf, uip_len     \* the buffer; whether uip_len is more than 0

rxvars == <<rxmem, erxwrpt, erxrdpt, erdpt, epktcnt, hdr, got, arrived>>
txvars == <<txmem, air, given, back>>
bufvars == <<uip_buf, uip_len>>
Goto(from, to) == pc = from /\ pc' = to

Step(at, n) == (at + n) % RxSize

(* enc28j60_select_bank: clear both bank bits, then set those of the bank; *)
(* the other bits of ECON1 stay.                                           *)
BankBits(b) == CASE b = 0 -> {} [] b = 1 -> {"BSEL0"}
                 [] b = 2 -> {"BSEL1"} [] b = 3 -> {"BSEL0", "BSEL1"}
SelectByWriting(b) == BankBits(b)                     \* mutant
Select(b) == (econ1 \ {"BSEL0", "BSEL1"}) \cup BankBits(b)

-----------------------------------------------------------------------------
(* The chip.                                                               *)

\* ERXRDPT is where it stops: one cell always stays free.
Space == IF erxwrpt >= erxrdpt THEN RxSize - 1 - (erxwrpt - erxrdpt)
         ELSE erxrdpt - erxwrpt - 1

\* A frame comes in and is stored if there is room, else it is lost.
Arrive(k, good) ==
  LET n == k.size
      f == [from |-> "wire", id |-> arrived + 1, type |-> k.type]
      end == Step(erxwrpt, n + 1)
  IN /\ "RXEN" \in econ1 /\ arrived < MaxFrames /\ n + 1 <= Space
     /\ arrived' = arrived + 1 /\ epktcnt' = epktcnt + 1 /\ erxwrpt' = end
     /\ rxmem' = [c \in Cells |->
          IF c = erxwrpt THEN [head |-> TRUE, next |-> end, size |-> n,
                               ok |-> good, frame |-> f]
          ELSE IF \E i \in 1..n : c = Step(erxwrpt, i) THEN [Blank EXCEPT !.frame = f]
          ELSE rxmem[c]]
     /\ UNCHANGED <<pc, econ1, txvars, bufvars, erxrdpt, erdpt, hdr, got>>

\* A transmission ends.
Transmitted ==
  /\ "TXRTS" \in econ1 /\ econ1' = econ1 \ {"TXRTS"} /\ air' = 0 /\ given' = 0
  /\ UNCHANGED <<pc, rxvars, bufvars, txmem, back>>

\* What writing to the transmit buffer does to a transmission under way.
Disturbed == IF "TXRTS" \in econ1 THEN {air, 0} ELSE {air}

-----------------------------------------------------------------------------
(* enc28j60_init: the ring and its pointers, then the receiver is enabled. *)
Enc28j60Init ==
  /\ Goto("init", "link")
  /\ erxrdpt' = 0 /\ erdpt' = 0 /\ econ1' = {"RXEN"}
  /\ UNCHANGED <<rxmem, erxwrpt, epktcnt, hdr, got, arrived, txvars, bufvars>>

(* enc28j60_read_link_status, through the PHY: main() only logs it.        *)
ReadLinkStatus ==
  /\ Goto("link", "count") /\ econ1' = Select(2)
  /\ UNCHANGED <<rxvars, txvars, bufvars>>

(* enc28j60_rx_packet_receive: the header, the content if the status is    *)
(* good, both read pointers, the packet counter.                           *)
ReadHeaderFreeing ==                                  \* mutant
  /\ Goto("rxHeader", "rxData")
  /\ hdr' = [at |-> erdpt, next |-> rxmem[erdpt].next,
             size |-> rxmem[erdpt].size, ok |-> rxmem[erdpt].ok]
  /\ erdpt' = Step(erdpt, 1) /\ erxrdpt' = hdr'.next
  /\ UNCHANGED <<econ1, rxmem, erxwrpt, epktcnt, got, arrived, txvars, bufvars>>
ReadHeader ==
  /\ Goto("rxHeader", "rxData")
  /\ hdr' = [at |-> erdpt, next |-> rxmem[erdpt].next,
             size |-> rxmem[erdpt].size, ok |-> rxmem[erdpt].ok]
  /\ erdpt' = Step(erdpt, 1)
  /\ UNCHANGED <<econ1, rxmem, erxwrpt, erxrdpt, epktcnt, got, arrived, txvars, bufvars>>

\* What n cells from a on hold: a frame, if they are its content.
Content(a, n) ==
  IF \A i \in 0..(n - 1) : /\ ~rxmem[Step(a, i)].head
                           /\ rxmem[Step(a, i)].frame = rxmem[a].frame
  THEN rxmem[a].frame ELSE Nothing

ReadContent ==
  /\ Goto("rxData", "rxNext")
  /\ IF hdr.ok
     THEN uip_buf' = Content(erdpt, hdr.size) /\ erdpt' = Step(erdpt, hdr.size)
     ELSE UNCHANGED <<uip_buf, erdpt>>
  /\ UNCHANGED <<econ1, rxmem, erxwrpt, erxrdpt, epktcnt, hdr, got, arrived, txvars, uip_len>>

MoveErdpt ==
  /\ Goto("rxNext", "rxFree") /\ econ1' = Select(0) /\ erdpt' = hdr.next
  /\ UNCHANGED <<rxmem, erxwrpt, erxrdpt, epktcnt, hdr, got, arrived, txvars, bufvars>>

FreeSpace ==
  /\ Goto("rxFree", "rxDec") /\ econ1' = Select(0) /\ erxrdpt' = hdr.next
  /\ got' = IF hdr.ok THEN uip_buf ELSE Nothing
  /\ UNCHANGED <<rxmem, erxwrpt, erdpt, epktcnt, hdr, arrived, txvars, bufvars>>

DecrementIfGood == IF hdr.ok THEN epktcnt - 1 ELSE epktcnt      \* mutant
Decrement == epktcnt - 1
ReturnSize ==
  /\ Goto("rxDec", "periodic") /\ epktcnt' = Decrement /\ uip_len' = hdr.ok
  /\ hdr' = NoHeader /\ got' = Nothing
  /\ UNCHANGED <<econ1, rxmem, erxwrpt, erxrdpt, erdpt, arrived, txvars, uip_buf>>

(* enc28j60_tx_packet_send.  & binds weaker than !=, so the loop that is   *)
(* to wait for the last transmission tests bit 0 of ECON1, BSEL0, which    *)
(* reading ECON1 has just cleared: it never waits.                         *)
TxWait ==
  /\ pc = "txWait" /\ econ1' = Select(0)
  /\ pc' = IF "BSEL0" \in econ1' THEN "txWait" ELSE "txPointers"
  /\ given' = 0
  /\ UNCHANGED <<rxvars, bufvars, txmem, air, back>>

TxStartsEarly ==                                      \* mutant
  /\ Goto("txPointers", "txWrite") /\ econ1' = Select(0) \cup {"TXRTS"}
  /\ air' = IF "TXRTS" \in econ1 THEN air ELSE txmem
  /\ given' = IF "TXRTS" \in econ1 THEN 0 ELSE uip_buf.id
  /\ UNCHANGED <<rxvars, bufvars, txmem, back>>
TxPointers ==
  /\ Goto("txPointers", "txWrite") /\ econ1' = Select(0) /\ air' \in Disturbed
  /\ UNCHANGED <<rxvars, bufvars, txmem, given, back>>

TxWrite ==
  /\ Goto("txWrite", "txGo") /\ txmem' = uip_buf.id /\ air' \in Disturbed
  /\ UNCHANGED <<rxvars, bufvars, econ1, given, back>>

\* Setting TXRTS again while it is set starts nothing.
TxGo ==
  /\ pc = "txGo" /\ pc' = back /\ econ1' = econ1 \cup {"TXRTS"}
  /\ air' = IF "TXRTS" \in econ1 THEN air ELSE txmem
  /\ given' = IF "TXRTS" \in econ1 THEN 0 ELSE uip_buf.id
  /\ UNCHANGED <<rxvars, bufvars, txmem, back>>

-----------------------------------------------------------------------------
(* The packets the driver has not read, as it will find them: from the     *)
(* next header on, each at the address the one before names.  A packet     *)
(* counts as read when its space is given back (ERXRDPT).                  *)
Unread ==
  LET first == IF pc \in {"rxData", "rxNext", "rxFree"} THEN hdr.at ELSE erdpt
      n     == IF pc = "rxDec" THEN epktcnt - 1 ELSE epktcnt
      at[i \in 1..(n + 1)] == IF i = 1 THEN first ELSE rxmem[at[i - 1]].next
  IN [i \in 1..n |-> IF rxmem[at[i]].ok THEN Content(Step(at[i], 1), rxmem[at[i]].size)
                     ELSE Nothing]

(* The ring hands over what the chip stored, in order, once and unaltered, *)
(* whatever arrives between two steps of enc28j60_rx_packet_receive().     *)
Queue == INSTANCE FrameQueue WITH queue <- Unread, none <- Nothing
ReceivesInOrder == Queue!Spec

(* What goes out is the frame tx_packet_send was given last, unless it was *)
(* called while the transmission before it was running.                    *)
SendsIntact == given # 0 => "TXRTS" \in econ1 /\ air = given

(* Selecting a register bank leaves the receiver on (it shares ECON1 with  *)
(* the bank bits).                                                         *)
ReceiverStaysOn == pc # "init" => "RXEN" \in econ1
=============================================================================
