-------------------------- MODULE MainLoop_proofs --------------------------
(***************************************************************************)
(* Register ECON1, which the driver shares with the chip and in which it   *)
(* also selects register banks: the receiver stays on, and a transmission  *)
(* that no later call overlaps sends the frame it was given.  The receive  *)
(* ring: it implements FrameQueue, and the main loop gives what comes out  *)
(* of it to the stack in order.                                            *)
(***************************************************************************)
EXTENDS MainLoop, SequenceTheorems, Numbers_proofs

Returns == {"periodic", "arpTimer"}
InTx == {"txPointers", "txWrite", "txGo"}

\* Nothing is promised before the start, nor from the first step of
\* tx_packet_send() to its last, when the transmit buffer holds what is in uip_buf.
TxInv ==
  /\ back \in Returns
  /\ pc \in InTx \cup {"init"} => given = 0
  /\ pc = "txGo" => txmem = uip_buf.id
  /\ SendsIntact

IInv == TxInv /\ ReceiverStaysOn

-----------------------------------------------------------------------------
(* Selecting a bank leaves the bits that are not bank bits.                *)
LEMMA SelectKeeps ==
  ASSUME NEW b \in 0..3
  PROVE  /\ "TXRTS" \in Select(b) <=> "TXRTS" \in econ1
         /\ "RXEN" \in Select(b) <=> "RXEN" \in econ1
BY DEF Select, BankBits

\* A step of the processor outside tx_packet_send() that starts no transmission.
Plain == /\ pc' \notin InTx \cup {"init"} /\ pc \notin {"init"}
         /\ UNCHANGED <<txmem, air, given>> /\ back' \in Returns
         /\ "TXRTS" \in econ1' <=> "TXRTS" \in econ1
         /\ "RXEN" \in econ1' <=> "RXEN" \in econ1

LEMMA PlainInv == IInv /\ Plain => IInv'
BY DEF IInv, TxInv, SendsIntact, ReceiverStaysOn, Plain, InTx

(* Receiving, polling, the link status, the stack and the timers are such  *)
(* steps.                                                                  *)
LEMMA ReceivePlain == back \in Returns /\ (Receive \/ ReadLinkStatus) => Plain
<1> SUFFICES ASSUME back \in Returns, Receive \/ ReadLinkStatus PROVE Plain
  OBVIOUS
<1> USE DEF Goto, txvars, Plain, InTx
<1>1. CASE ReadHeader
  BY <1>1 DEF ReadHeader
<1>2. CASE ReadContent
  BY <1>2 DEF ReadContent
<1>3. CASE MoveErdpt
  BY <1>3, SelectKeeps DEF MoveErdpt
<1>4. CASE FreeSpace
  BY <1>4, SelectKeeps DEF FreeSpace
<1>5. CASE ReturnSize
  BY <1>5 DEF ReturnSize
<1>6. CASE ReadLinkStatus
  BY <1>6, SelectKeeps DEF ReadLinkStatus
<1> QED
  BY <1>1, <1>2, <1>3, <1>4, <1>5, <1>6 DEF Receive

LEMMA MainPlain == back \in Returns /\ Main => Plain
<1> SUFFICES ASSUME back \in Returns, Main PROVE Plain
  OBVIOUS
<1> USE DEF Goto, txvars, Plain, InTx, Returns
<1>1. ASSUME NEW replies, Stack(replies) PROVE Plain
  BY <1>1 DEF Stack, NothingToSend, SendOff
<1>2. CASE PollCount
  BY <1>2, SelectKeeps DEF PollCount
<1>3. CASE ProcessIp
  BY <1>1, <1>3 DEF ProcessIp
<1>4. CASE ProcessArp
  BY <1>1, <1>4 DEF ProcessArp
<1>5. CASE ProcessOther
  BY <1>5 DEF ProcessOther
<1>6. CASE PeriodicExpired
  BY <1>6 DEF PeriodicExpired, NothingToSend, SendOff
<1>7. CASE PeriodicNotYet
  BY <1>7 DEF PeriodicNotYet
<1>8. CASE ArpTimer
  BY <1>8 DEF ArpTimer
<1> QED
  BY <1>2, <1>3, <1>4, <1>5, <1>6, <1>7, <1>8 DEF Main

(* tx_packet_send(): while it runs nothing is promised, and at its end the *)
(* buffer it wrote is sent, if no transmission is under way.               *)
LEMMA TransmitInv == IInv /\ Transmit => IInv'
<1> SUFFICES ASSUME IInv, Transmit PROVE IInv'
  OBVIOUS
<1> USE DEF IInv, TxInv, SendsIntact, ReceiverStaysOn, InTx, Goto, bufvars
<1>1. CASE TxWait
  BY <1>1, SelectKeeps DEF TxWait
<1>2. CASE TxPointers
  BY <1>2, SelectKeeps DEF TxPointers
<1>3. CASE TxWrite
  BY <1>3 DEF TxWrite
<1>4. CASE TxGo
  <2>1. CASE "TXRTS" \in econ1
    BY <1>4, <2>1 DEF TxGo, Returns
  <2>2. CASE "TXRTS" \notin econ1
    <3>1. air' = uip_buf.id /\ given' = uip_buf.id /\ "TXRTS" \in econ1'
      BY <1>4, <2>2 DEF TxGo
    <3> QED
      BY <1>4, <3>1 DEF TxGo, Returns
  <2> QED
    BY <2>1, <2>2
<1> QED
  BY <1>1, <1>2, <1>3, <1>4 DEF Transmit

(* A frame that comes in touches the ring only; the end of a transmission  *)
(* ends the promise.                                                       *)
LEMMA ChipInv == IInv /\ Chip => IInv'
<1> SUFFICES ASSUME IInv, Chip PROVE IInv'
  OBVIOUS
<1> USE DEF IInv, TxInv, SendsIntact, ReceiverStaysOn
<1>1. ASSUME NEW k, NEW good, Arrive(k, good) PROVE IInv'
  <2>1. UNCHANGED <<pc, econ1, txmem, air, given, back, uip_buf>>
    BY <1>1 DEF Arrive, txvars, bufvars
  <2> QED
    BY <2>1
<1>2. CASE Transmitted
  BY <1>2 DEF Transmitted, bufvars
<1> QED
  BY <1>1, <1>2 DEF Chip

LEMMA InitInv == Init => IInv
BY DEF Init, IInv, TxInv, SendsIntact, ReceiverStaysOn, Returns, InTx, Nothing

LEMMA StepInv == IInv /\ [Next]_lvars => IInv'
<1> SUFFICES ASSUME IInv, [Next]_lvars PROVE IInv'
  OBVIOUS
<1>1. back \in Returns
  BY DEF IInv, TxInv
<1>2. CASE Enc28j60Init
  BY <1>2 DEF Enc28j60Init, Goto, txvars, bufvars, IInv, TxInv, SendsIntact,
              ReceiverStaysOn, InTx
<1>3. CASE Receive \/ ReadLinkStatus
  BY <1>1, <1>3, ReceivePlain, PlainInv
<1>4. CASE Transmit
  BY <1>4, TransmitInv
<1>5. CASE Main
  BY <1>1, <1>5, MainPlain, PlainInv
<1>6. CASE Chip
  BY <1>6, ChipInv
<1>7. CASE UNCHANGED lvars
  BY <1>7 DEF lvars, txvars, bufvars, IInv, TxInv, SendsIntact, ReceiverStaysOn
<1> QED
  BY <1>2, <1>3, <1>4, <1>5, <1>6, <1>7 DEF Next, Driver

-----------------------------------------------------------------------------
(* The receiver, enabled once at the start, is never switched off by the   *)
(* bank selections that rewrite its register, for every ring and network.  *)
THEOREM ReceiverOn == Spec => []ReceiverStaysOn
<1>1. IInv => ReceiverStaysOn
  BY DEF IInv
<1> QED
  BY InitInv, StepInv, <1>1, PTL DEF Spec

(* What goes out is the frame tx_packet_send() was called with last,       *)
(* unless it was called while a transmission was running, for every ring   *)
(* and network.                                                            *)
THEOREM SentIntact == Spec => []SendsIntact
<1>1. IInv => SendsIntact
  BY DEF IInv, TxInv
<1> QED
  BY InitInv, StepInv, <1>1, PTL DEF Spec

-----------------------------------------------------------------------------
(* The receive ring, seen from ERXRDPT: the packets the driver has not     *)
(* given back stand behind one another at the offsets d[1] = 0, d[2], ...  *)
(* and the chip writes next at the last offset, d[n + 1].                  *)
Reading == {"rxData", "rxNext", "rxFree"}
Waiting == IF pc = "rxDec" THEN epktcnt - 1 ELSE epktcnt

\* A packet between the offsets a and b: header, then cells of one frame.
Frame1(m, r, a) == m[Step(r, a + 1)].frame
Packet(m, r, a, b) ==
  /\ m[Step(r, a)].size \in Nat \ {0} /\ b = a + (m[Step(r, a)].size + 1)
  /\ m[Step(r, a)].next = Step(r, b)
  /\ \A c \in (a + 1)..(b - 1) :
       ~m[Step(r, c)].head /\ m[Step(r, c)].frame = Frame1(m, r, a)

Ring(m, r, w, d, n) ==
  /\ d \in [1..(n + 1) -> 0..(RxSize - 1)] /\ d[1] = 0 /\ w = Step(r, d[n + 1])
  /\ \A i, j \in 1..(n + 1) : i < j => d[i] < d[j]
  /\ \A i \in 1..n : Packet(m, r, d[i], d[i + 1])

\* The frames come in the order of their numbers: those the stack took, the
\* one in uip_buf, those in the ring.
Number(i, d) == Frame1(rxmem, erxrdpt, d[i]).id
Numbered(d, n) ==
  /\ \A i \in 1..n : /\ Frame1(rxmem, erxrdpt, d[i]).from = "wire"
                     /\ Number(i, d) \in Nat
                     /\ handled < Number(i, d) /\ Number(i, d) <= arrived
  /\ \A i, j \in 1..n : i < j => Number(i, d) < Number(j, d)
  /\ uip_buf.from = "wire" =>
       \A i \in 1..n : (pc \in {"rxNext", "rxFree"} => i > 1) => uip_buf.id < Number(i, d)

\* What is in uip_buf as a frame received.
Received == /\ uip_buf.from = "wire"
            /\ IF pc \in {"rxNext", "rxFree", "rxDec"} THEN hdr.ok ELSE uip_len

PlaceInv ==
  /\ erxrdpt \in Cells /\ epktcnt \in Nat
  /\ pc \in Reading \cup {"rxHeader", "rxDec"} => epktcnt # 0
  /\ pc \notin Reading => erdpt = erxrdpt
  /\ pc = "init" => econ1 = {} /\ erxrdpt = 0 /\ erxwrpt = 0 /\ epktcnt = 0
  /\ pc \in Reading => hdr = [at |-> erxrdpt, next |-> rxmem[erxrdpt].next,
                              size |-> rxmem[erxrdpt].size, ok |-> rxmem[erxrdpt].ok]
  /\ pc = "rxData" => erdpt = Step(erxrdpt, 1)
  /\ pc = "rxFree" => erdpt = hdr.next
  /\ pc \in {"rxNext", "rxFree"} /\ hdr.ok => uip_buf = Frame1(rxmem, erxrdpt, 0)

CountInv ==
  /\ arrived \in Nat /\ handled \in Nat /\ handled <= arrived
  /\ uip_buf.from = "wire" => uip_buf.id \in Nat /\ uip_buf.id <= arrived
  /\ Received => handled < uip_buf.id

Chained == \E d \in [1..(Waiting + 1) -> 0..(RxSize - 1)] :
             Ring(rxmem, erxrdpt, erxwrpt, d, Waiting) /\ Numbered(d, Waiting)

RingInv == PlaceInv /\ CountInv /\ Chained

-----------------------------------------------------------------------------
(* Addresses in the ring, for distances shorter than the ring.             *)
LEMMA StepCases ==
  ASSUME NEW a \in Cells, NEW i \in 0..(RxSize - 1)
  PROVE  Step(a, i) = IF a + i < RxSize THEN a + i ELSE a + i - RxSize
<1>1. RxSize \in Nat /\ RxSize > 0 /\ a \in Nat /\ i \in Nat /\ a < RxSize /\ i < RxSize
  BY RingAssumption DEF Cells
<1>2. ASSUME NEW x \in Nat, x < RxSize PROVE x % RxSize = x
  BY <1>1, <1>2
<1>3. ASSUME NEW x \in Nat, x < RxSize PROVE (x + RxSize) % RxSize = x
  BY <1>1, <1>3
<1>4. CASE a + i < RxSize
  BY <1>1, <1>2, <1>4 DEF Step
<1>5. CASE ~(a + i < RxSize)
  <2>1. a + i - RxSize \in Nat /\ a + i - RxSize < RxSize
    BY <1>1, <1>5
  <2>2. a + i = (a + i - RxSize) + RxSize
    BY <1>1
  <2> QED
    BY <1>3, <1>5, <2>1, <2>2 DEF Step
<1> QED
  BY <1>4, <1>5

LEMMA StepInjective ==
  ASSUME NEW a \in Cells, NEW i \in 0..(RxSize - 1), NEW j \in 0..(RxSize - 1),
         Step(a, i) = Step(a, j)
  PROVE  i = j
  BY StepCases, RingAssumption DEF Cells

LEMMA StepType ==
  ASSUME NEW a \in Cells, NEW i \in 0..(RxSize - 1)
  PROVE  Step(a, i) \in Cells
  BY StepCases, RingAssumption DEF Cells

LEMMA StepStep ==
  ASSUME NEW a \in Cells, NEW i \in Nat, NEW n \in Nat, i + n < RxSize
  PROVE  Step(Step(a, i), n) = Step(a, i + n)
<1>1. i \in 0..(RxSize - 1) /\ n \in 0..(RxSize - 1) /\ i + n \in 0..(RxSize - 1)
  BY RingAssumption
<1> DEFINE b == Step(a, i)
<1>2. b \in Cells
  BY <1>1, StepType
<1>3. b = IF a + i < RxSize THEN a + i ELSE a + i - RxSize
  BY <1>1, StepCases
<1>4. Step(a, i + n) = IF a + (i + n) < RxSize THEN a + (i + n) ELSE a + (i + n) - RxSize
  BY <1>1, StepCases
<1>5. Step(b, n) = IF b + n < RxSize THEN b + n ELSE b + n - RxSize
  BY <1>1, <1>2, StepCases
<1> HIDE DEF b
<1>6. Step(b, n) = Step(a, i + n)
  BY <1>1, <1>3, <1>4, <1>5, RingAssumption DEF Cells
<1> QED
  BY <1>6 DEF b

LEMMA StepZero == ASSUME NEW a \in Cells PROVE Step(a, 0) = a
  BY StepCases, RingAssumption DEF Cells

(* The room the chip finds is what the packets leave, but for one cell.    *)
LEMMA SpaceIs ==
  ASSUME erxrdpt \in Cells, NEW e \in 0..(RxSize - 1), erxwrpt = Step(erxrdpt, e)
  PROVE  Space = RxSize - 1 - e
<1>1. erxwrpt = IF erxrdpt + e < RxSize THEN erxrdpt + e ELSE erxrdpt + e - RxSize
  BY StepCases
<1> QED
  BY <1>1, RingAssumption DEF Space, Cells

-----------------------------------------------------------------------------
(* What a packet of the ring holds is one frame, and what the driver finds *)
(* by following the addresses are the packets of the ring.                 *)
Delivers(m, r, a) == IF m[Step(r, a)].ok THEN Frame1(m, r, a) ELSE Nothing

LEMMA PacketSpan ==
  ASSUME NEW m, NEW r, NEW a \in 0..(RxSize - 1), NEW b \in 0..(RxSize - 1), Packet(m, r, a, b)
  PROVE  /\ m[Step(r, a)].size \in Nat \ {0} /\ b = a + (m[Step(r, a)].size + 1)
         /\ a + 1 < b /\ a + 1 \in 0..(RxSize - 1)
  BY RingAssumption DEF Packet

LEMMA ContentIs ==
  ASSUME NEW r \in Cells, NEW a \in 0..(RxSize - 1), NEW b \in 0..(RxSize - 1),
         Packet(rxmem, r, a, b)
  PROVE  Content(Step(Step(r, a), 1), rxmem[Step(r, a)].size) = Frame1(rxmem, r, a)
<1> DEFINE n == rxmem[Step(r, a)].size
<1>1. /\ n \in Nat \ {0} /\ b = a + (n + 1) /\ a + 1 < b /\ a + 1 \in 0..(RxSize - 1)
      /\ \A c \in (a + 1)..(b - 1) : ~rxmem[Step(r, c)].head
                                     /\ rxmem[Step(r, c)].frame = Frame1(rxmem, r, a)
  BY PacketSpan DEF Packet
<1> HIDE DEF n
<1>2. Step(Step(r, a), 1) = Step(r, a + 1)
  BY <1>1, StepStep, RingAssumption
<1>3. ASSUME NEW i \in 0..(n - 1)
      PROVE  /\ ~rxmem[Step(Step(r, a + 1), i)].head
             /\ rxmem[Step(Step(r, a + 1), i)].frame = rxmem[Step(r, a + 1)].frame
  <2>1. /\ a + 1 + i \in (a + 1)..(b - 1) /\ a + 1 \in Nat /\ i \in Nat
        /\ (a + 1) + i < RxSize
    BY <1>1, RingAssumption
  <2>2. Step(Step(r, a + 1), i) = Step(r, a + 1 + i)
    BY <2>1, StepStep
  <2> QED
    BY <1>1, <2>1, <2>2 DEF Frame1
<1>4. Content(Step(r, a + 1), n) = rxmem[Step(r, a + 1)].frame
  BY <1>3 DEF Content
<1> QED
  BY <1>2, <1>4 DEF n, Frame1

LEMMA UnreadIs ==
  ASSUME PlaceInv, NEW n \in Nat, n = Waiting, NEW d, Ring(rxmem, erxrdpt, erxwrpt, d, n)
  PROVE  Unread = [i \in 1..n |-> Delivers(rxmem, erxrdpt, d[i])]
<1> DEFINE first == IF pc \in {"rxData", "rxNext", "rxFree"} THEN hdr.at ELSE erdpt
           cnt   == IF pc = "rxDec" THEN epktcnt - 1 ELSE epktcnt
           F(g)  == [i \in 1..(cnt + 1) |-> IF i = 1 THEN first ELSE rxmem[g[i - 1]].next]
           at    == CHOOSE g : g = F(g)
<1>1. Unread = [i \in 1..cnt |-> IF rxmem[at[i]].ok
                                 THEN Content(Step(at[i], 1), rxmem[at[i]].size) ELSE Nothing]
  BY DEF Unread
<1>2. cnt = n
  BY DEF Waiting
<1>3. first = erxrdpt /\ erxrdpt \in Cells
  BY DEF PlaceInv, Reading
<1> HIDE DEF first, cnt
<1>4. /\ d \in [1..(n + 1) -> 0..(RxSize - 1)] /\ d[1] = 0
      /\ \A i \in 1..n : Packet(rxmem, erxrdpt, d[i], d[i + 1])
  BY DEF Ring
<1> DEFINE g == [i \in 1..(n + 1) |-> Step(erxrdpt, d[i])]
<1>5. g = F(g)
  <2>1. ASSUME NEW i \in 1..(n + 1) PROVE g[i] = F(g)[i]
    <3>1. CASE i = 1
      BY <1>2, <1>3, <1>4, <3>1, StepZero
    <3>2. CASE i # 1
      <4>1. i - 1 \in 1..n /\ i - 1 \in 1..(n + 1) /\ (i - 1) + 1 = i
        BY <3>2
      <4>2. Packet(rxmem, erxrdpt, d[i - 1], d[i])
        BY <1>4, <4>1
      <4>3. rxmem[g[i - 1]].next = g[i]
        BY <4>1, <4>2 DEF Packet
      <4> QED
        BY <1>2, <3>2, <4>3
    <3> QED
      BY <3>1, <3>2
  <2> QED
    BY <1>2, <2>1
<1>6. at = F(at)
  BY <1>5
<1> DEFINE P == {i \in 1..(n + 1) : at[i] = g[i]}
<1> HIDE DEF at
<1>7. 1 \in P
  <2>1. 1 \in 1..(n + 1)
    OBVIOUS
  <2>2. at[1] = first
    BY <1>2, <1>6, <2>1
  <2> QED
    BY <1>3, <1>4, <2>1, <2>2, StepZero
<1>8. \A i \in 1..((n + 1) - 1) : i \in P => i + 1 \in P
  <2> SUFFICES ASSUME NEW i \in 1..n, i \in P PROVE i + 1 \in P
    OBVIOUS
  <2>1. i + 1 \in 1..(n + 1) /\ i + 1 # 1 /\ (i + 1) - 1 = i /\ i \in 1..(n + 1)
    OBVIOUS
  <2>2. at[i + 1] = rxmem[at[i]].next
    BY <1>2, <1>6, <2>1
  <2>3. g[i + 1] = rxmem[g[i]].next
    BY <1>4, <2>1 DEF Packet
  <2>4. at[i] = g[i]
    OBVIOUS
  <2> QED
    BY <2>1, <2>2, <2>3, <2>4
<1>9. \A i \in 1..(n + 1) : at[i] = Step(erxrdpt, d[i])
  <2>1. n + 1 \in Nat
    OBVIOUS
  <2> HIDE DEF P
  <2>2. \A i \in 1..(n + 1) : i \in P
    BY <1>7, <1>8, <2>1, FromTo
  <2> QED
    BY <2>2 DEF P
<1>10. ASSUME NEW i \in 1..n
       PROVE  Content(Step(at[i], 1), rxmem[at[i]].size) = Frame1(rxmem, erxrdpt, d[i])
  <2>1. i \in 1..(n + 1) /\ i + 1 \in 1..(n + 1)
    OBVIOUS
  <2>2. d[i] \in 0..(RxSize - 1) /\ d[i + 1] \in 0..(RxSize - 1)
    BY <1>4, <2>1
  <2> QED
    BY <1>3, <1>4, <1>9, <2>1, <2>2, ContentIs
<1>11. \A i \in 1..n : i \in 1..(n + 1)
  OBVIOUS
<1> QED
  BY <1>1, <1>2, <1>9, <1>10, <1>11 DEF Delivers

-----------------------------------------------------------------------------
(* A frame that comes in is a packet behind the others, which it leaves    *)
(* alone.                                                                  *)
SameCells(m, r, e) == \A c \in 0..(e - 1) : m[Step(r, c)] = rxmem[Step(r, c)]
Incoming(k) == [from |-> "wire", id |-> arrived + 1, type |-> k.type]
Longer(d, n, e) == [i \in 1..(n + 2) |-> IF i = n + 2 THEN e ELSE d[i]]

LEMMA PacketStays ==
  ASSUME NEW m, NEW r, NEW e \in 0..(RxSize - 1), SameCells(m, r, e),
         NEW a \in 0..(RxSize - 1), NEW b \in 0..(RxSize - 1), b <= e,
         Packet(rxmem, r, a, b)
  PROVE  /\ Packet(m, r, a, b) /\ Frame1(m, r, a) = Frame1(rxmem, r, a)
         /\ m[Step(r, a)] = rxmem[Step(r, a)]
<1>1. a + 1 < b
  BY PacketSpan
<1>2. a \in 0..(e - 1) /\ a + 1 \in 0..(e - 1)
  BY <1>1, RingAssumption
<1>3. m[Step(r, a)] = rxmem[Step(r, a)] /\ m[Step(r, a + 1)] = rxmem[Step(r, a + 1)]
  BY <1>2 DEF SameCells
<1>4. ASSUME NEW c \in (a + 1)..(b - 1) PROVE m[Step(r, c)] = rxmem[Step(r, c)]
  <2>1. c \in 0..(e - 1)
    BY RingAssumption
  <2> QED
    BY <2>1 DEF SameCells
<1> QED
  BY <1>3, <1>4 DEF Packet, Frame1

LEMMA RingOffsets ==
  ASSUME NEW m, NEW r, NEW w, NEW n \in Nat, NEW d, Ring(m, r, w, d, n)
  PROVE  /\ \A i \in 1..(n + 1) : d[i] \in 0..(RxSize - 1) /\ d[i] <= d[n + 1]
         /\ n > 0 => d[2] \in 0..(RxSize - 1) /\ Packet(m, r, 0, d[2])
<1>1. /\ d \in [1..(n + 1) -> 0..(RxSize - 1)] /\ d[1] = 0
      /\ \A i, j \in 1..(n + 1) : i < j => d[i] < d[j]
      /\ \A i \in 1..n : Packet(m, r, d[i], d[i + 1])
  BY DEF Ring
<1>2. ASSUME NEW i \in 1..(n + 1) PROVE d[i] \in 0..(RxSize - 1) /\ d[i] <= d[n + 1]
  <2>1. n + 1 \in 1..(n + 1) /\ (i = n + 1 \/ i < n + 1)
    OBVIOUS
  <2>2. d[i] \in 0..(RxSize - 1) /\ d[n + 1] \in 0..(RxSize - 1)
    BY <1>1, <2>1
  <2>3. i < n + 1 => d[i] < d[n + 1]
    BY <1>1, <2>1
  <2> QED
    BY <2>1, <2>2, <2>3, RingAssumption
<1>3. n > 0 => 1 \in 1..n /\ 2 \in 1..(n + 1) /\ 1 + 1 = 2
  OBVIOUS
<1> QED
  BY <1>1, <1>2, <1>3

LEMMA ArriveCells ==
  ASSUME erxrdpt \in Cells, NEW e \in 0..(RxSize - 1), erxwrpt = Step(erxrdpt, e),
         NEW k \in Kinds, NEW good, Arrive(k, good)
  PROVE  /\ k.size \in Nat \ {0} /\ e + (k.size + 1) \in 0..(RxSize - 1)
         /\ erxwrpt' = Step(erxrdpt, e + (k.size + 1))
         /\ SameCells(rxmem', erxrdpt, e)
         /\ Packet(rxmem', erxrdpt, e, e + (k.size + 1))
         /\ rxmem'[Step(erxrdpt, e)].ok = good /\ Frame1(rxmem', erxrdpt, e) = Incoming(k)
<1> DEFINE s == k.size
<1>1. s \in Nat \ {0}
  BY RingAssumption
<1>2. s + 1 <= RxSize - 1 - e
  BY SpaceIs DEF Arrive
<1>3. erxwrpt' = Step(erxwrpt, s + 1)
  BY DEF Arrive
<1>4. \A c \in Cells : rxmem'[c] =
          IF c = erxwrpt THEN [head |-> TRUE, next |-> erxwrpt', size |-> s,
                               ok |-> good, frame |-> Incoming(k)]
          ELSE IF \E i \in 1..s : c = Step(erxwrpt, i) THEN [Blank EXCEPT !.frame = Incoming(k)]
          ELSE rxmem[c]
  BY <1>3 DEF Arrive, Incoming
<1> HIDE DEF s
<1>5. /\ e + (s + 1) \in 0..(RxSize - 1)
      /\ \A i \in 0..(s + 1) : i \in Nat /\ e + i < RxSize /\ e + i \in 0..(RxSize - 1)
  BY <1>1, <1>2, RingAssumption
<1>6. ASSUME NEW i \in 0..(s + 1) PROVE Step(erxwrpt, i) = Step(erxrdpt, e + i)
  BY <1>5, StepStep
<1>7. erxwrpt' = Step(erxrdpt, e + (s + 1))
  <2>1. s + 1 \in 0..(s + 1)
    BY <1>1
  <2> QED
    BY <1>3, <1>6, <2>1
<1>8. ASSUME NEW c \in 0..(e - 1) PROVE rxmem'[Step(erxrdpt, c)] = rxmem[Step(erxrdpt, c)]
  <2>1. c \in 0..(RxSize - 1) /\ c # e
    BY RingAssumption
  <2>2. Step(erxrdpt, c) \in Cells /\ Step(erxrdpt, c) # erxwrpt
    BY <2>1, StepType, StepInjective
  <2>3. ASSUME NEW i \in 1..s PROVE Step(erxrdpt, c) # Step(erxwrpt, i)
    <3>1. i \in 0..(s + 1) /\ e + i # c
      BY <1>1
    <3>2. Step(erxrdpt, e + i) # Step(erxrdpt, c)
      BY <1>5, <2>1, <3>1, StepInjective
    <3> QED
      BY <1>6, <3>1, <3>2
  <2> QED
    BY <1>4, <2>2, <2>3
<1>9. rxmem'[erxwrpt] = [head |-> TRUE, next |-> erxwrpt', size |-> s,
                         ok |-> good, frame |-> Incoming(k)]
  BY <1>4, StepType
<1>10. ASSUME NEW c \in (e + 1)..(e + (s + 1) - 1)
       PROVE  ~rxmem'[Step(erxrdpt, c)].head /\ rxmem'[Step(erxrdpt, c)].frame = Incoming(k)
  <2>1. /\ c \in 0..(RxSize - 1) /\ c # e /\ c - e \in 1..s /\ c - e \in 0..(s + 1)
        /\ e + (c - e) = c
    BY <1>1, <1>5, RingAssumption
  <2>2. Step(erxrdpt, c) \in Cells /\ Step(erxrdpt, c) # erxwrpt
    BY <2>1, StepType, StepInjective
  <2>3. Step(erxrdpt, c) = Step(erxwrpt, c - e)
    BY <1>6, <2>1
  <2>4. rxmem'[Step(erxrdpt, c)] = [Blank EXCEPT !.frame = Incoming(k)]
    BY <1>4, <2>1, <2>2, <2>3
  <2> QED
    BY <2>4 DEF Blank
<1>11. e + 1 \in (e + 1)..(e + (s + 1) - 1)
  BY <1>1
<1>12. Frame1(rxmem', erxrdpt, e) = Incoming(k)
  BY <1>10, <1>11 DEF Frame1
<1>13. Packet(rxmem', erxrdpt, e, e + (s + 1))
  BY <1>1, <1>7, <1>9, <1>10, <1>12 DEF Packet
<1> QED
  BY <1>1, <1>5, <1>7, <1>8, <1>9, <1>12, <1>13 DEF s, SameCells

LEMMA ArriveRing ==
  ASSUME erxrdpt \in Cells, NEW n \in Nat, NEW d, Ring(rxmem, erxrdpt, erxwrpt, d, n),
         NEW k \in Kinds, NEW good, Arrive(k, good),
         NEW e, e = d[n + 1] + (k.size + 1)
  PROVE  /\ Ring(rxmem', erxrdpt, erxwrpt', Longer(d, n, e), n + 1)
         /\ SameCells(rxmem', erxrdpt, d[n + 1])
         /\ rxmem'[Step(erxrdpt, d[n + 1])].ok = good
         /\ Frame1(rxmem', erxrdpt, d[n + 1]) = Incoming(k)
<1> DEFINE f == d[n + 1]  dd == Longer(d, n, e)
<1>1. /\ f \in 0..(RxSize - 1) /\ erxwrpt = Step(erxrdpt, f) /\ d[1] = 0
      /\ \A i \in 1..(n + 1) : d[i] \in 0..(RxSize - 1) /\ d[i] <= f
      /\ \A i, j \in 1..(n + 1) : i < j => d[i] < d[j]
      /\ \A i \in 1..n : Packet(rxmem, erxrdpt, d[i], d[i + 1])
  <2>1. n + 1 \in 1..(n + 1)
    OBVIOUS
  <2> QED
    BY <2>1, RingOffsets DEF Ring
<1> HIDE DEF f
<1>2. /\ k.size \in Nat \ {0} /\ f + (k.size + 1) \in 0..(RxSize - 1)
      /\ erxwrpt' = Step(erxrdpt, f + (k.size + 1))
      /\ SameCells(rxmem', erxrdpt, f)
      /\ Packet(rxmem', erxrdpt, f, f + (k.size + 1))
      /\ rxmem'[Step(erxrdpt, f)].ok = good /\ Frame1(rxmem', erxrdpt, f) = Incoming(k)
  BY <1>1, ArriveCells
<1>3. e = f + (k.size + 1)
  BY DEF f
<1>4. e \in 0..(RxSize - 1) /\ f < e
  BY <1>1, <1>2, <1>3, RingAssumption
<1>5. /\ \A i \in 1..(n + 1) : i \in 1..(n + 2) /\ i # n + 2 /\ dd[i] = d[i]
      /\ n + 2 \in 1..(n + 2) /\ dd[n + 2] = e
  BY DEF Longer
<1>6. dd \in [1..(n + 2) -> 0..(RxSize - 1)]
  BY <1>1, <1>4 DEF Longer
<1> HIDE DEF dd
<1>7. ASSUME NEW i \in 1..(n + 2), NEW j \in 1..(n + 2), i < j PROVE dd[i] < dd[j]
  <2>1. i \in 1..(n + 1)
    BY <1>7
  <2>2. CASE j \in 1..(n + 1)
    BY <1>1, <1>5, <1>7, <2>1, <2>2
  <2>3. CASE j = n + 2
    <3>1. d[i] \in 0..(RxSize - 1) /\ d[i] <= f
      BY <1>1, <2>1
    <3>2. d[i] < e
      BY <1>1, <1>4, <3>1, RingAssumption
    <3> QED
      BY <1>5, <2>1, <2>3, <3>2
  <2> QED
    BY <2>2, <2>3
<1>8. ASSUME NEW i \in 1..(n + 1) PROVE Packet(rxmem', erxrdpt, dd[i], dd[i + 1])
  <2>1. CASE i = n + 1
    <3>1. dd[i] = f /\ dd[i + 1] = e
      BY <1>5, <2>1 DEF f
    <3> QED
      BY <1>2, <1>3, <3>1
  <2>2. CASE i # n + 1
    <3>1. i \in 1..n /\ i + 1 \in 1..(n + 1)
      BY <2>2
    <3>2. dd[i] = d[i] /\ dd[i + 1] = d[i + 1] /\ d[i + 1] <= f
          /\ d[i] \in 0..(RxSize - 1) /\ d[i + 1] \in 0..(RxSize - 1)
      BY <1>1, <1>5, <3>1
    <3>3. Packet(rxmem, erxrdpt, d[i], d[i + 1])
      BY <1>1, <3>1
    <3> QED
      BY <1>1, <1>2, <3>2, <3>3, PacketStays
  <2> QED
    BY <2>1, <2>2
<1>9. 1 \in 1..(n + 1) /\ (n + 1) + 1 = n + 2
  OBVIOUS
<1>10. Ring(rxmem', erxrdpt, erxwrpt', dd, n + 1)
  BY <1>1, <1>2, <1>3, <1>5, <1>6, <1>7, <1>8, <1>9 DEF Ring
<1> QED
  BY <1>2, <1>10 DEF dd, f

(* Giving back the first packet leaves the others, counted from where they *)
(* begin now.                                                              *)
Shorter(d, n) == [i \in 1..n |-> d[i + 1] - d[2]]

LEMMA PacketMoves ==
  ASSUME NEW r \in Cells, NEW o \in 0..(RxSize - 1),
         NEW a \in 0..(RxSize - 1), NEW b \in 0..(RxSize - 1), o <= a, NEW m,
         Packet(m, r, a, b)
  PROVE  /\ Packet(m, Step(r, o), a - o, b - o)
         /\ Frame1(m, Step(r, o), a - o) = Frame1(m, r, a)
         /\ Step(Step(r, o), a - o) = Step(r, a)
<1> DEFINE q == Step(r, o)
<1>1. /\ m[Step(r, a)].size \in Nat \ {0} /\ b = a + (m[Step(r, a)].size + 1)
      /\ a + 1 < b /\ a + 1 \in 0..(RxSize - 1)
  BY PacketSpan
<1>2. ASSUME NEW c \in 0..(RxSize - 1), o <= c PROVE Step(q, c - o) = Step(r, c)
  <2>1. o \in Nat /\ c - o \in Nat /\ o + (c - o) = c /\ o + (c - o) < RxSize
    BY <1>2, RingAssumption
  <2> QED
    BY <2>1, StepStep
<1> HIDE DEF q
<1>3. Step(q, a - o) = Step(r, a) /\ Step(q, b - o) = Step(r, b)
  <2>1. o <= b
    BY <1>1, RingAssumption
  <2> QED
    BY <1>2, <2>1
<1>4. Step(q, (a - o) + 1) = Step(r, a + 1)
  <2>1. o <= a + 1 /\ (a - o) + 1 = (a + 1) - o
    BY RingAssumption
  <2> QED
    BY <1>1, <1>2, <2>1
<1>5. ASSUME NEW c \in ((a - o) + 1)..((b - o) - 1)
      PROVE  ~m[Step(q, c)].head /\ m[Step(q, c)].frame = Frame1(m, r, a)
  <2>1. /\ c + o \in (a + 1)..(b - 1) /\ c + o \in 0..(RxSize - 1) /\ o <= c + o
        /\ (c + o) - o = c
    BY RingAssumption
  <2>2. Step(q, c) = Step(r, c + o)
    BY <1>2, <2>1
  <2>3. ~m[Step(r, c + o)].head /\ m[Step(r, c + o)].frame = Frame1(m, r, a)
    BY <2>1 DEF Packet
  <2> QED
    BY <2>2, <2>3
<1>6. Frame1(m, q, a - o) = Frame1(m, r, a)
  BY <1>4 DEF Frame1
<1>7. m[Step(r, a)].next = Step(r, b)
  BY DEF Packet
<1> DEFINE s == m[Step(r, a)].size
<1>8. s \in Nat \ {0} /\ b = a + (s + 1)
  BY <1>1
<1> HIDE DEF s
<1>9. b - o = (a - o) + (s + 1)
  BY <1>8, RingAssumption
<1>10. Packet(m, q, a - o, b - o)
  BY <1>3, <1>5, <1>6, <1>7, <1>8, <1>9 DEF Packet, s
<1> QED
  BY <1>3, <1>6, <1>10 DEF q

Moved(m, r, w, d, n) ==
  /\ Step(r, d[2]) \in Cells /\ Ring(m, Step(r, d[2]), w, Shorter(d, n), n - 1)
  /\ \A i \in 1..(n - 1) :
       /\ Frame1(m, Step(r, d[2]), Shorter(d, n)[i]) = Frame1(m, r, d[i + 1])
       /\ Delivers(m, Step(r, d[2]), Shorter(d, n)[i]) = Delivers(m, r, d[i + 1])

LEMMA FreeRing ==
  ASSUME NEW m, NEW r \in Cells, NEW w, NEW n \in Nat, n > 0, NEW d, Ring(m, r, w, d, n)
  PROVE  Moved(m, r, w, d, n)
<1> DEFINE o == d[2]  q == Step(r, o)  dd == Shorter(d, n)
<1>1. /\ d[1] = 0 /\ w = Step(r, d[n + 1])
      /\ \A i \in 1..(n + 1) : d[i] \in 0..(RxSize - 1)
      /\ \A i, j \in 1..(n + 1) : i < j => d[i] < d[j]
      /\ \A i \in 1..n : Packet(m, r, d[i], d[i + 1])
  BY RingOffsets DEF Ring
<1>2. 2 \in 1..(n + 1) /\ 1 \in 1..n /\ (n - 1) + 1 = n
  OBVIOUS
<1>3. o \in 0..(RxSize - 1)
  BY <1>1, <1>2
<1>4. q \in Cells
  BY <1>3, StepType
<1>5. ASSUME NEW i \in 1..n
      PROVE  /\ i + 1 \in 1..(n + 1) /\ dd[i] = d[i + 1] - o
             /\ d[i + 1] \in 0..(RxSize - 1) /\ o <= d[i + 1]
  <2>1. i + 1 \in 1..(n + 1) /\ dd[i] = d[i + 1] - o
    BY DEF Shorter
  <2>2. d[i + 1] \in 0..(RxSize - 1)
    BY <1>1, <2>1
  <2>3. i + 1 = 2 \/ 2 < i + 1
    OBVIOUS
  <2>4. d[i + 1] = o \/ o < d[i + 1]
    BY <1>1, <1>2, <2>1, <2>3
  <2> QED
    BY <1>3, <2>1, <2>2, <2>4, RingAssumption
<1>6. ASSUME NEW i \in 1..n PROVE dd[i] \in 0..(RxSize - 1)
  <2> DEFINE x == d[i + 1]
  <2>1. dd[i] = x - o /\ x \in 0..(RxSize - 1) /\ o <= x
    BY <1>5
  <2> HIDE DEF x, dd, o
  <2> QED
    BY <1>3, <2>1, RingAssumption
<1>7. dd \in [1..n -> 0..(RxSize - 1)]
  <2>1. dd = [i \in 1..n |-> dd[i]]
    BY DEF Shorter
  <2> HIDE DEF dd
  <2> QED
    BY <1>6, <2>1
<1>8. ASSUME NEW i \in 1..n, NEW j \in 1..n, i < j PROVE dd[i] < dd[j]
  <2> DEFINE x == d[i + 1]  y == d[j + 1]
  <2>1. i + 1 < j + 1
    BY <1>8
  <2>2. x < y
    BY <1>1, <1>5, <2>1
  <2>3. dd[i] = x - o /\ dd[j] = y - o /\ x \in 0..(RxSize - 1) /\ y \in 0..(RxSize - 1)
    BY <1>5
  <2> HIDE DEF x, y, dd, o
  <2> QED
    BY <1>3, <2>2, <2>3, RingAssumption
<1>9. ASSUME NEW i \in 1..(n - 1)
      PROVE  /\ Packet(m, q, dd[i], dd[i + 1])
             /\ Frame1(m, q, dd[i]) = Frame1(m, r, d[i + 1])
             /\ Step(q, dd[i]) = Step(r, d[i + 1])
  <2>1. i \in 1..n /\ i + 1 \in 1..n
    OBVIOUS
  <2> DEFINE x == d[i + 1]  y == d[(i + 1) + 1]
  <2>2. dd[i] = x - o /\ x \in 0..(RxSize - 1) /\ o <= x
    BY <1>5, <2>1
  <2>3. dd[i + 1] = y - o /\ y \in 0..(RxSize - 1)
    BY <1>5, <2>1
  <2>4. Packet(m, r, x, y)
    BY <1>1, <2>1
  <2> HIDE DEF x, y, dd, o
  <2>5. /\ Packet(m, Step(r, o), x - o, y - o)
        /\ Frame1(m, Step(r, o), x - o) = Frame1(m, r, x)
        /\ Step(Step(r, o), x - o) = Step(r, x)
    BY <1>3, <2>2, <2>3, <2>4, PacketMoves
  <2> QED
    BY <2>2, <2>3, <2>5 DEF x
<1>10. w = Step(q, dd[n])
  <2> DEFINE z == d[n + 1]
  <2>1. n \in 1..n
    OBVIOUS
  <2>2. dd[n] = z - o /\ z \in 0..(RxSize - 1) /\ o <= z
    BY <1>5, <2>1
  <2>3. w = Step(r, z)
    BY <1>1
  <2> HIDE DEF z, dd, o
  <2>4. o \in Nat /\ z - o \in Nat /\ o + (z - o) = z /\ o + (z - o) < RxSize
    BY <1>3, <2>2, RingAssumption
  <2>5. Step(Step(r, o), z - o) = Step(r, z)
    BY <2>4, StepStep
  <2> QED
    BY <2>2, <2>3, <2>5
<1>11. dd[1] = 0
  BY <1>2, <1>3, <1>5
<1> HIDE DEF dd, q
<1>12. Ring(m, q, w, dd, n - 1)
  BY <1>2, <1>7, <1>8, <1>9, <1>10, <1>11 DEF Ring
<1>13. \A i \in 1..(n - 1) : Delivers(m, q, dd[i]) = Delivers(m, r, d[i + 1])
  BY <1>9 DEF Delivers
<1> QED
  BY <1>4, <1>9, <1>12, <1>13 DEF Moved, dd, q, o

-----------------------------------------------------------------------------
(* The queue that the ring stands for, in this state and in the next.      *)
Unreads ==
  PlaceInv => \A d : Ring(rxmem, erxrdpt, erxwrpt, d, Waiting) =>
                Unread = [i \in 1..Waiting |-> Delivers(rxmem, erxrdpt, d[i])]

LEMMA WaitingType == PlaceInv => Waiting \in Nat /\ (pc \in Reading => Waiting > 0)
  BY DEF PlaceInv, Waiting, Reading

LEMMA UnreadNow == Unreads
  BY WaitingType, UnreadIs DEF Unreads

LEMMA UnreadThen == Unreads'
  BY UnreadNow, PTL

(* The network: a frame joins the queue, or Nothing in the place of a bad  *)
(* one.                                                                    *)
LEMMA ArriveStep ==
  ASSUME RingInv, NEW k \in Kinds, NEW good \in BOOLEAN, Arrive(k, good), handled' = handled
  PROVE  RingInv' /\ Unread' = Append(Unread, IF good THEN Incoming(k) ELSE Nothing)
<1>0. PICK n : n = Waiting
  OBVIOUS
<1>1. n \in Nat /\ (pc \in Reading => n > 0) /\ PlaceInv /\ CountInv /\ erxrdpt \in Cells
  BY <1>0, WaitingType DEF RingInv, PlaceInv
<1>2. PICK d \in [1..(n + 1) -> 0..(RxSize - 1)] :
        Ring(rxmem, erxrdpt, erxwrpt, d, n) /\ Numbered(d, n)
  BY <1>0 DEF RingInv, Chained
<1> DEFINE f == d[n + 1]  e == f + (k.size + 1)  dd == Longer(d, n, e)  m == rxmem'
<1>3. /\ Ring(m, erxrdpt, erxwrpt', dd, n + 1) /\ SameCells(m, erxrdpt, f)
      /\ m[Step(erxrdpt, f)].ok = good /\ Frame1(m, erxrdpt, f) = Incoming(k)
  BY <1>1, <1>2, ArriveRing
<1>4. /\ pc' = pc /\ econ1' = econ1 /\ uip_buf' = uip_buf /\ uip_len' = uip_len
      /\ erxrdpt' = erxrdpt /\ erdpt' = erdpt /\ hdr' = hdr
      /\ epktcnt' = epktcnt + 1 /\ arrived' = arrived + 1
      /\ pc # "init"
  BY <1>1 DEF Arrive, bufvars, PlaceInv
<1>5. Waiting' = n + 1
  BY <1>0, <1>1, <1>4 DEF Waiting, PlaceInv
<1>6. ASSUME NEW i \in 1..n
      PROVE  /\ d[i] \in 0..(RxSize - 1) /\ d[i + 1] \in 0..(RxSize - 1)
             /\ d[i + 1] <= f /\ Packet(rxmem, erxrdpt, d[i], d[i + 1])
  <2>1. i \in 1..(n + 1) /\ i + 1 \in 1..(n + 1)
    BY <1>1
  <2> QED
    BY <1>1, <1>2, <2>1, RingOffsets DEF Ring
<1>7. f \in 0..(RxSize - 1)
  <2>1. n + 1 \in 1..(n + 1)
    BY <1>1
  <2> QED
    BY <1>2, <2>1
<1> HIDE DEF f, m
<1>8. ASSUME NEW i \in 1..n
      PROVE  /\ dd[i] = d[i] /\ Frame1(m, erxrdpt, d[i]) = Frame1(rxmem, erxrdpt, d[i])
             /\ m[Step(erxrdpt, d[i])] = rxmem[Step(erxrdpt, d[i])]
  <2>1. i \in 1..(n + 2) /\ i # n + 2
    BY <1>1
  <2>2. dd[i] = d[i]
    BY <2>1 DEF Longer
  <2> QED
    BY <1>3, <1>6, <1>7, <2>2, PacketStays DEF m
<1>9. dd[n + 1] = f
  <2>1. n + 1 \in 1..(n + 2) /\ n + 1 # n + 2
    BY <1>1
  <2> QED
    BY <2>1 DEF Longer, f
<1>10. PlaceInv'
  <2>1. pc \in Reading => m[erxrdpt] = rxmem[erxrdpt] /\ Frame1(m, erxrdpt, 0) = Frame1(rxmem, erxrdpt, 0)
    <3> SUFFICES ASSUME pc \in Reading
                 PROVE  m[erxrdpt] = rxmem[erxrdpt] /\ Frame1(m, erxrdpt, 0) = Frame1(rxmem, erxrdpt, 0)
      OBVIOUS
    <3>1. 1 \in 1..n
      BY <1>1
    <3>2. d[1] = 0
      BY <1>2 DEF Ring
    <3> QED
      BY <1>1, <1>8, <3>1, <3>2, StepZero
  <2> QED
    BY <1>1, <1>4, <2>1 DEF PlaceInv, m, Reading
<1>11. CountInv'
  BY <1>1, <1>4 DEF CountInv, Received
<1> DEFINE Id(i) == Frame1(m, erxrdpt, dd[i]).id
<1>12. ASSUME NEW i \in 1..(n + 1)
       PROVE  /\ Frame1(m, erxrdpt, dd[i]).from = "wire" /\ Id(i) \in Nat
              /\ handled < Id(i) /\ Id(i) <= arrived + 1
              /\ i \in 1..n \/ Id(i) = arrived + 1
  <2>1. CASE i \in 1..n
    <3>1. Id(i) = Number(i, d)
      BY <1>8, <2>1 DEF Number
    <3>2. Number(i, d) \in Nat /\ handled < Number(i, d) /\ Number(i, d) <= arrived
          /\ Frame1(rxmem, erxrdpt, d[i]).from = "wire"
      BY <1>2, <2>1 DEF Numbered
    <3> HIDE DEF Id
    <3> QED
      BY <1>1, <1>8, <2>1, <3>1, <3>2 DEF CountInv
  <2>2. CASE i \notin 1..n
    <3>1. i = n + 1
      BY <1>1, <2>2
    <3>2. Frame1(m, erxrdpt, dd[i]) = Incoming(k)
      BY <1>3, <1>9, <3>1
    <3>3. Id(i) = arrived + 1 /\ Frame1(m, erxrdpt, dd[i]).from = "wire"
      BY <3>2 DEF Incoming
    <3> HIDE DEF Id
    <3> QED
      BY <1>1, <3>3 DEF CountInv
  <2> QED
    BY <2>1, <2>2
<1>13. ASSUME NEW i \in 1..(n + 1), NEW j \in 1..(n + 1), i < j PROVE Id(i) < Id(j)
  <2>1. i \in 1..n
    BY <1>1, <1>13
  <2>2. Id(i) = Number(i, d) /\ Number(i, d) \in Nat /\ Number(i, d) <= arrived
    BY <1>2, <1>8, <2>1 DEF Number, Numbered
  <2>3. CASE j \in 1..n
    <3>1. Id(j) = Number(j, d) /\ Number(i, d) < Number(j, d)
      BY <1>2, <1>8, <1>13, <2>1, <2>3 DEF Number, Numbered
    <3> QED
      BY <2>2, <3>1
  <2>4. CASE Id(j) = arrived + 1
    <3> HIDE DEF Id
    <3> QED
      BY <1>1, <2>2, <2>4 DEF CountInv
  <2> QED
    BY <1>12, <2>3, <2>4
<1>14. ASSUME uip_buf.from = "wire", NEW i \in 1..(n + 1), pc \in {"rxNext", "rxFree"} => i > 1
       PROVE  uip_buf.id < Id(i)
  <2>1. CASE i \in 1..n
    BY <1>2, <1>8, <1>14, <2>1 DEF Number, Numbered
  <2>2. CASE Id(i) = arrived + 1
    <3>1. uip_buf.id \in Nat /\ uip_buf.id <= arrived /\ arrived \in Nat
      BY <1>1, <1>14 DEF CountInv
    <3> HIDE DEF Id
    <3> QED
      BY <2>2, <3>1
  <2> QED
    BY <1>12, <2>1, <2>2
<1> HIDE DEF dd
<1>15. Numbered(dd, n + 1)'
  BY <1>4, <1>12, <1>13, <1>14 DEF Numbered, Number, m
<1>16. /\ Ring(rxmem', erxrdpt', erxwrpt', dd, n + 1)
       /\ dd \in [1..(Waiting' + 1) -> 0..(RxSize - 1)]
  BY <1>3, <1>4, <1>5 DEF Ring, m
<1>17. Chained'
  BY <1>5, <1>15, <1>16 DEF Chained
<1> DEFINE q == IF good THEN Incoming(k) ELSE Nothing
<1>18. Unread = [i \in 1..n |-> Delivers(rxmem, erxrdpt, d[i])]
  BY <1>0, <1>1, <1>2, UnreadNow DEF Unreads
<1>19. Unread' = [i \in 1..(n + 1) |-> Delivers(m, erxrdpt, dd[i])]
  BY <1>4, <1>5, <1>10, <1>16, UnreadThen DEF Unreads, m
<1>20. \A i \in 1..n : Delivers(m, erxrdpt, dd[i]) = Delivers(rxmem, erxrdpt, d[i])
  BY <1>8 DEF Delivers
<1>21. Delivers(m, erxrdpt, dd[n + 1]) = q
  BY <1>3, <1>9 DEF Delivers
<1> DEFINE u == Unread
<1>22. Append(u, q) = [i \in 1..(n + 1) |-> IF i = n + 1 THEN q ELSE u[i]]
  <2>1. u \in Seq({u[i] : i \in 1..n}) /\ Len(u) = n
    BY <1>1, <1>18, SMTT(30)
  <2> QED
    BY <1>1, <2>1
<1>23. \A i \in 1..(n + 1) : Delivers(m, erxrdpt, dd[i]) = IF i = n + 1 THEN q ELSE u[i]
  <2>1. \A i \in 1..(n + 1) : i = n + 1 \/ i \in 1..n
    BY <1>1
  <2> HIDE DEF q
  <2>2. \A i \in 1..n : u[i] = Delivers(rxmem, erxrdpt, d[i]) /\ i # n + 1
    BY <1>1, <1>18
  <2> QED
    BY <1>20, <1>21, <2>1, <2>2
<1> HIDE DEF q
<1>24. Unread' = Append(u, q)
  BY <1>19, <1>22, <1>23
<1> QED
  BY <1>10, <1>11, <1>17, <1>24 DEF RingInv, q

(* Steps that leave the ring as it is.                                     *)
SameRing == /\ rxmem' = rxmem /\ erxrdpt' = erxrdpt /\ erxwrpt' = erxwrpt
            /\ arrived' = arrived /\ Waiting' = Waiting

LEMMA UnreadStays == ASSUME RingInv, SameRing, PlaceInv' PROVE Unread' = Unread
<1>0. PICK n : n = Waiting
  OBVIOUS
<1>1. PICK d \in [1..(n + 1) -> 0..(RxSize - 1)] : Ring(rxmem, erxrdpt, erxwrpt, d, n)
  BY <1>0 DEF RingInv, Chained
<1>2. Unread = [i \in 1..n |-> Delivers(rxmem, erxrdpt, d[i])]
  BY <1>0, <1>1, UnreadNow DEF Unreads, RingInv
<1>3. Waiting' = n /\ Ring(rxmem', erxrdpt', erxwrpt', d, n)
  BY <1>0, <1>1 DEF SameRing
<1>4. Unread' = [i \in 1..n |-> Delivers(rxmem', erxrdpt', d[i])]
  BY <1>3, UnreadThen DEF Unreads
<1> QED
  BY <1>2, <1>4 DEF SameRing

\* What may happen to uip_buf and to what the stack took.
BufferMoves ==
  /\ \/ handled' = handled
     \/ handled' = uip_buf.id /\ uip_buf.from = "wire" /\ pc \notin {"rxNext", "rxFree"}
  /\ \/ uip_buf' = uip_buf /\ (pc \in {"rxNext", "rxFree"} => pc' \in {"rxNext", "rxFree"})
     \/ uip_buf'.from = "us"
     \/ uip_buf' = Frame1(rxmem, erxrdpt, 0) /\ pc' = "rxNext"

LEMMA ChainStays == ASSUME RingInv, SameRing, BufferMoves PROVE Chained'
<1>0. PICK n : n = Waiting
  OBVIOUS
<1>1. PICK d \in [1..(n + 1) -> 0..(RxSize - 1)] :
        Ring(rxmem, erxrdpt, erxwrpt, d, n) /\ Numbered(d, n)
  BY <1>0 DEF RingInv, Chained
<1>2. n \in Nat /\ Waiting' = n /\ d[1] = 0 /\ handled \in Nat
  BY <1>0, <1>1, WaitingType DEF RingInv, SameRing, Ring, CountInv
<1>3. ASSUME NEW i \in 1..n
      PROVE  /\ Number(i, d)' = Number(i, d) /\ handled' < Number(i, d)
             /\ (uip_buf'.from = "wire" /\ (pc' \in {"rxNext", "rxFree"} => i > 1))
                  => uip_buf'.id < Number(i, d)
  <2>1. Number(i, d)' = Number(i, d)
    BY DEF Number, Frame1, SameRing
  <2>2. handled < Number(i, d)
    BY <1>1 DEF Numbered
  <2>3. uip_buf.from = "wire" /\ (pc \in {"rxNext", "rxFree"} => i > 1)
          => uip_buf.id < Number(i, d)
    BY <1>1 DEF Numbered
  <2>4. i > 1 => Number(1, d) < Number(i, d)
    <3>1. i > 1 => 1 \in 1..n /\ 1 < i
      BY <1>2
    <3> QED
      BY <1>1, <3>1 DEF Numbered
  <2>5. handled' < Number(i, d)
    BY <2>2, <2>3 DEF BufferMoves
  <2>6. ASSUME uip_buf'.from = "wire", pc' \in {"rxNext", "rxFree"} => i > 1
        PROVE  uip_buf'.id < Number(i, d)
    <3>1. CASE uip_buf' = uip_buf /\ (pc \in {"rxNext", "rxFree"} => pc' \in {"rxNext", "rxFree"})
      BY <2>3, <2>6, <3>1
    <3>2. CASE uip_buf' = Frame1(rxmem, erxrdpt, 0) /\ pc' = "rxNext"
      <4>1. uip_buf'.id = Number(1, d)
        BY <1>2, <3>2 DEF Number
      <4> QED
        BY <2>4, <2>6, <3>2, <4>1
    <3> QED
      BY <2>6, <3>1, <3>2 DEF BufferMoves
  <2> QED
    BY <2>1, <2>5, <2>6
<1>4. Numbered(d, n)'
  <2>1. \A i, j \in 1..n : i < j => Number(i, d)' < Number(j, d)'
    BY <1>1, <1>3 DEF Numbered
  <2>2. ASSUME NEW i \in 1..n
        PROVE  /\ Frame1(rxmem', erxrdpt', d[i]).from = "wire"
               /\ Number(i, d)' \in Nat /\ Number(i, d)' <= arrived'
    BY <1>1, <1>3 DEF Numbered, SameRing
  <2> QED
    BY <1>3, <2>1, <2>2 DEF Numbered
<1>5. Ring(rxmem', erxrdpt', erxwrpt', d, n)
  BY <1>1 DEF SameRing
<1> QED
  BY <1>2, <1>4, <1>5 DEF Chained

-----------------------------------------------------------------------------
(* enc28j60_rx_packet_receive() reads the first packet of the ring.        *)
LEMMA FirstFrame ==
  ASSUME RingInv, pc \in Reading
  PROVE  /\ Content(Step(erxrdpt, 1), rxmem[erxrdpt].size) = Frame1(rxmem, erxrdpt, 0)
         /\ Frame1(rxmem, erxrdpt, 0).from = "wire" /\ Frame1(rxmem, erxrdpt, 0).id \in Nat
         /\ handled < Frame1(rxmem, erxrdpt, 0).id /\ Frame1(rxmem, erxrdpt, 0).id <= arrived
<1>0. PICK n : n = Waiting
  OBVIOUS
<1>1. PICK d \in [1..(n + 1) -> 0..(RxSize - 1)] :
        Ring(rxmem, erxrdpt, erxwrpt, d, n) /\ Numbered(d, n)
  BY <1>0 DEF RingInv, Chained
<1>2. n \in Nat /\ n > 0 /\ erxrdpt \in Cells /\ d[1] = 0 /\ 1 \in 1..n
  BY <1>0, <1>1, WaitingType DEF RingInv, Ring, PlaceInv
<1>3. 0 \in 0..(RxSize - 1) /\ d[2] \in 0..(RxSize - 1) /\ Packet(rxmem, erxrdpt, 0, d[2])
  BY <1>1, <1>2, RingOffsets, RingAssumption
<1>4. Content(Step(erxrdpt, 1), rxmem[erxrdpt].size) = Frame1(rxmem, erxrdpt, 0)
  BY <1>2, <1>3, ContentIs, StepZero
<1> QED
  BY <1>1, <1>2, <1>4 DEF Numbered, Number

LEMMA HeaderStep ==
  ASSUME RingInv, ReadHeader, handled' = handled PROVE RingInv' /\ Unread' = Unread
<1>1. PlaceInv /\ CountInv /\ pc = "rxHeader" /\ pc' = "rxData"
  BY DEF RingInv, ReadHeader, Goto
<1>2. SameRing /\ BufferMoves
  BY <1>1 DEF SameRing, BufferMoves, ReadHeader, Waiting, bufvars
<1>3. PlaceInv'
  BY <1>1 DEF PlaceInv, ReadHeader, Reading, bufvars
<1>4. CountInv'
  BY <1>1 DEF CountInv, Received, ReadHeader, bufvars
<1> QED
  BY <1>2, <1>3, <1>4, ChainStays, UnreadStays DEF RingInv

LEMMA ContentStep ==
  ASSUME RingInv, ReadContent, handled' = handled PROVE RingInv' /\ Unread' = Unread
<1>1. PlaceInv /\ CountInv /\ pc = "rxData" /\ pc' = "rxNext"
  BY DEF RingInv, ReadContent, Goto
<1>2. pc \in Reading
  BY <1>1 DEF Reading
<1>3. hdr.ok => uip_buf' = Frame1(rxmem, erxrdpt, 0)
  <2>1. erdpt = Step(erxrdpt, 1) /\ hdr.size = rxmem[erxrdpt].size
    BY <1>1, <1>2 DEF PlaceInv
  <2> QED
    BY <1>2, <2>1, FirstFrame DEF ReadContent
<1>4. ~hdr.ok => uip_buf' = uip_buf
  BY DEF ReadContent
<1>5. SameRing /\ BufferMoves
  BY <1>1, <1>3, <1>4 DEF SameRing, BufferMoves, ReadContent, Waiting
<1>6. PlaceInv'
  BY <1>1, <1>3 DEF PlaceInv, ReadContent, Reading, Frame1
<1>7. CountInv'
  <2>1. arrived' = arrived /\ hdr' = hdr
    BY DEF ReadContent
  <2>2. CASE hdr.ok
    BY <1>1, <1>2, <1>3, <2>1, <2>2, FirstFrame DEF CountInv, Received
  <2>3. CASE ~hdr.ok
    BY <1>1, <1>4, <2>1, <2>3 DEF CountInv, Received
  <2> QED
    BY <2>2, <2>3
<1> QED
  BY <1>5, <1>6, <1>7, ChainStays, UnreadStays DEF RingInv

LEMMA ErdptStep ==
  ASSUME RingInv, MoveErdpt, handled' = handled PROVE RingInv' /\ Unread' = Unread
<1>1. PlaceInv /\ CountInv /\ pc = "rxNext" /\ pc' = "rxFree"
  BY DEF RingInv, MoveErdpt, Goto
<1>2. SameRing /\ BufferMoves
  BY <1>1 DEF SameRing, BufferMoves, MoveErdpt, Waiting, bufvars
<1>3. PlaceInv'
  BY <1>1 DEF PlaceInv, MoveErdpt, Reading, bufvars, Frame1
<1>4. CountInv'
  BY <1>1 DEF CountInv, Received, MoveErdpt, bufvars
<1> QED
  BY <1>2, <1>3, <1>4, ChainStays, UnreadStays DEF RingInv

LEMMA ReturnStep ==
  ASSUME RingInv, ReturnSize, handled' = handled PROVE RingInv' /\ Unread' = Unread
<1>1. PlaceInv /\ CountInv /\ pc = "rxDec" /\ pc' = "periodic"
  BY DEF RingInv, ReturnSize, Goto
<1>2. SameRing /\ BufferMoves
  BY <1>1 DEF SameRing, BufferMoves, ReturnSize, Decrement, Waiting
<1>3. PlaceInv'
  BY <1>1 DEF PlaceInv, ReturnSize, Decrement, Reading
<1>4. CountInv'
  BY <1>1 DEF CountInv, Received, ReturnSize
<1> QED
  BY <1>2, <1>3, <1>4, ChainStays, UnreadStays DEF RingInv

\* Its space is given back: the frame is handed over.
LEMMA FreeStep ==
  ASSUME RingInv, FreeSpace, handled' = handled
  PROVE  RingInv' /\ Unread # <<>> /\ got' = Head(Unread) /\ Unread' = Tail(Unread)
<1>0. PICK n : n = Waiting
  OBVIOUS
<1>1. PICK d \in [1..(n + 1) -> 0..(RxSize - 1)] :
        Ring(rxmem, erxrdpt, erxwrpt, d, n) /\ Numbered(d, n)
  BY <1>0 DEF RingInv, Chained
<1>2. PlaceInv /\ CountInv /\ pc = "rxFree" /\ pc' = "rxDec" /\ pc \in Reading
  BY DEF RingInv, FreeSpace, Goto, Reading
<1>3. n \in Nat /\ n > 0 /\ erxrdpt \in Cells /\ d[1] = 0 /\ 1 \in 1..n /\ epktcnt = n
  BY <1>0, <1>1, <1>2, WaitingType DEF Ring, PlaceInv, Waiting
<1>4. /\ rxmem' = rxmem /\ erxwrpt' = erxwrpt /\ arrived' = arrived /\ epktcnt' = epktcnt
      /\ erdpt' = erdpt /\ erxrdpt' = hdr.next /\ hdr' = hdr
      /\ uip_buf' = uip_buf /\ uip_len' = uip_len
      /\ got' = IF hdr.ok THEN uip_buf ELSE Nothing
  BY DEF FreeSpace, bufvars
<1>5. Waiting' = n - 1
  BY <1>2, <1>3, <1>4 DEF Waiting
<1>6. /\ hdr.next = rxmem[erxrdpt].next /\ hdr.ok = rxmem[erxrdpt].ok /\ erdpt = hdr.next
      /\ hdr.ok => uip_buf = Frame1(rxmem, erxrdpt, 0)
  BY <1>2 DEF PlaceInv
<1>7. 0 \in 0..(RxSize - 1) /\ d[2] \in 0..(RxSize - 1) /\ Packet(rxmem, erxrdpt, 0, d[2])
  BY <1>1, <1>3, RingOffsets, RingAssumption
<1>8. erxrdpt' = Step(erxrdpt, d[2])
  BY <1>3, <1>4, <1>6, <1>7, StepZero DEF Packet
<1> DEFINE dd == Shorter(d, n)
<1>9. /\ erxrdpt' \in Cells /\ Ring(rxmem', erxrdpt', erxwrpt', dd, n - 1)
      /\ \A i \in 1..(n - 1) :
           /\ Frame1(rxmem', erxrdpt', dd[i]) = Frame1(rxmem, erxrdpt, d[i + 1])
           /\ Delivers(rxmem', erxrdpt', dd[i]) = Delivers(rxmem, erxrdpt, d[i + 1])
  <2>1. Moved(rxmem, erxrdpt, erxwrpt, d, n)
    BY <1>1, <1>3, FreeRing
  <2>2. rxmem' = rxmem /\ erxwrpt' = erxwrpt
    BY <1>4
  <2> DEFINE q == Step(erxrdpt, d[2])  k == n - 1
  <2>3. erxrdpt' = q
    BY <1>8
  <2> HIDE DEF q, k
  <2>4. Ring(rxmem', erxrdpt', erxwrpt', dd, k)
    BY <2>1, <2>2, <2>3 DEF Moved, q, k
  <2>5. ASSUME NEW i \in 1..k
        PROVE  /\ Frame1(rxmem', erxrdpt', dd[i]) = Frame1(rxmem, erxrdpt, d[i + 1])
               /\ Delivers(rxmem', erxrdpt', dd[i]) = Delivers(rxmem, erxrdpt, d[i + 1])
    BY <2>1, <2>2, <2>3 DEF Moved, q, k
  <2> QED
    BY <2>1, <2>3, <2>4, <2>5 DEF Moved, q, k
<1> HIDE DEF dd
<1>10. PlaceInv'
  BY <1>2, <1>3, <1>4, <1>6, <1>9 DEF PlaceInv, Reading
<1>11. CountInv'
  BY <1>2, <1>4 DEF CountInv, Received
<1>12. ASSUME NEW i \in 1..(n - 1)
       PROVE  i \in 1..n /\ i + 1 \in 1..n /\ i + 1 > 1 /\ Number(i, dd)' = Number(i + 1, d)
  BY <1>3, <1>9 DEF Number
<1>13. Numbered(dd, n - 1)'
  <2>1. ASSUME NEW i \in 1..(n - 1)
        PROVE  /\ Frame1(rxmem', erxrdpt', dd[i]).from = "wire" /\ Number(i, dd)' \in Nat
               /\ handled' < Number(i, dd)' /\ Number(i, dd)' <= arrived'
               /\ uip_buf'.from = "wire" => uip_buf'.id < Number(i, dd)'
    BY <1>1, <1>4, <1>9, <1>12 DEF Numbered
  <2>2. ASSUME NEW i \in 1..(n - 1), NEW j \in 1..(n - 1), i < j
        PROVE  Number(i, dd)' < Number(j, dd)'
    <3>1. i + 1 < j + 1
      BY <2>2
    <3> QED
      BY <1>1, <1>12, <3>1 DEF Numbered
  <2> QED
    BY <2>1, <2>2 DEF Numbered
<1>14. Chained'
  <2>1. dd \in [1..(Waiting' + 1) -> 0..(RxSize - 1)]
    BY <1>5, <1>9 DEF Ring
  <2> QED
    BY <1>5, <1>9, <1>13, <2>1 DEF Chained
<1> DEFINE u == Unread
<1>15. u = [i \in 1..n |-> Delivers(rxmem, erxrdpt, d[i])]
  BY <1>0, <1>1, <1>2, UnreadNow DEF Unreads
<1>16. Unread' = [i \in 1..(n - 1) |-> Delivers(rxmem', erxrdpt', dd[i])]
  BY <1>5, <1>9, <1>10, UnreadThen DEF Unreads
<1>17. u \in Seq({u[i] : i \in 1..n}) /\ Len(u) = n /\ u # <<>>
  <2> DEFINE S == {u[i] : i \in 1..n}
  <2>1. n \in Nat /\ n # 0
    BY <1>3
  <2>2. u \in [1..n -> S] /\ DOMAIN u = 1..n
    BY <1>15
  <2> HIDE DEF u, S
  <2>3. u \in Seq(S)
    BY <2>1, <2>2, SeqDef
  <2>4. Len(u) = n
    BY <2>1, <2>2, <2>3, LenProperties
  <2>5. u # <<>>
    BY <2>1, <2>4
  <2> QED
    BY <2>3, <2>4, <2>5 DEF S
<1>18. got' = u[1]
  BY <1>3, <1>4, <1>6, <1>15, StepZero DEF Delivers
<1>19. Head(u) = u[1] /\ Tail(u) = [i \in 1..(n - 1) |-> u[i + 1]]
  <2> DEFINE S == {u[i] : i \in 1..n}  t == Tail(u)
  <2>1. u \in Seq(S) /\ u # <<>> /\ Len(u) = n
    BY <1>17
  <2> HIDE DEF u, S
  <2>2. t \in Seq(S) /\ Len(t) = n - 1 /\ \A i \in 1..(n - 1) : t[i] = u[i + 1]
    BY <2>1, HeadTailProperties
  <2>3. Head(u) = u[1]
    BY <2>1
  <2> HIDE DEF t
  <2>4. t = [i \in 1..(n - 1) |-> t[i]]
    BY <2>2
  <2>5. t = [i \in 1..(n - 1) |-> u[i + 1]]
    BY <2>2, <2>4
  <2> QED
    BY <2>3, <2>5 DEF t
<1>20. \A i \in 1..(n - 1) : i + 1 \in 1..n
  BY <1>3
<1>21. Unread' = Tail(u)
  BY <1>9, <1>15, <1>16, <1>19, <1>20
<1> QED
  BY <1>10, <1>11, <1>14, <1>17, <1>18, <1>19, <1>21 DEF RingInv

-----------------------------------------------------------------------------
(* Every other step of the processor leaves the receiver alone; the stack  *)
(* may take the frame in uip_buf, and a frame of ours may replace it.      *)
Calm ==
  /\ UNCHANGED rxvars
  /\ pc \notin Reading \cup {"rxHeader", "rxDec", "init"}
  /\ pc' \notin Reading \cup {"rxDec", "init"} /\ (pc' = "rxHeader" => epktcnt # 0)
  /\ \/ handled' = handled /\ uip_buf' = uip_buf /\ (uip_len' = uip_len \/ uip_len' = FALSE)
     \/ handled' = handled /\ uip_buf'.from = "us"
     \/ /\ Taken /\ handled' = uip_buf.id
        /\ uip_buf'.from = "us" \/ (uip_buf' = uip_buf /\ uip_len' = FALSE)

LEMMA CalmStep == ASSUME RingInv, Calm PROVE RingInv' /\ Unread' = Unread /\ got' = got
<1>1. PlaceInv /\ CountInv
  BY DEF RingInv
<1>2. SameRing
  BY DEF Calm, SameRing, rxvars, Waiting, Reading
<1>3. BufferMoves
  BY DEF Calm, BufferMoves, Taken, Reading
<1>4. PlaceInv'
  BY <1>1 DEF PlaceInv, Calm, rxvars, Reading
<1>5. CountInv'
  <2>1. arrived' = arrived
    BY DEF Calm, rxvars
  <2>2. CASE handled' = handled /\ uip_buf' = uip_buf /\ (uip_len' = uip_len \/ uip_len' = FALSE)
    BY <1>1, <2>1, <2>2 DEF CountInv, Received, Calm, Reading
  <2>3. CASE handled' = handled /\ uip_buf'.from = "us"
    BY <1>1, <2>1, <2>3 DEF CountInv, Received
  <2>4. CASE /\ Taken /\ handled' = uip_buf.id
             /\ uip_buf'.from = "us" \/ (uip_buf' = uip_buf /\ uip_len' = FALSE)
    <3>1. ~Received'
      BY <2>4 DEF Received, Calm, Reading
    <3> QED
      BY <1>1, <2>1, <2>4, <3>1 DEF CountInv, Taken
  <2> QED
    BY <2>2, <2>3, <2>4 DEF Calm
<1>6. got' = got
  BY DEF Calm, rxvars
<1> QED
  BY <1>2, <1>3, <1>4, <1>5, <1>6, ChainStays, UnreadStays DEF RingInv

LEMMA ProcessorCalm ==
  ASSUME back \in Returns,
         ((ReadLinkStatus \/ Transmit) /\ UNCHANGED handled) \/ Main
  PROVE  Calm
<1> USE DEF Goto, Reading, Returns, Calm, rxvars, bufvars
<1>1. ASSUME ReadLinkStatus, handled' = handled PROVE Calm
  BY <1>1 DEF ReadLinkStatus
<1>2. ASSUME Transmit, handled' = handled PROVE Calm
  BY <1>2 DEF Transmit, TxWait, TxPointers, TxWrite, TxGo
<1>3. ASSUME NEW replies, Stack(replies) PROVE Calm
  <2>1. CASE Taken
    <3>1. /\ handled' = uip_buf.id /\ UNCHANGED rxvars /\ pc = "process"
          /\ NothingToSend("periodic") \/ \E t \in replies : SendOff(Ours(t), "periodic")
      BY <1>3, <2>1 DEF Stack
    <3>2. CASE NothingToSend("periodic")
      BY <2>1, <3>1, <3>2 DEF NothingToSend
    <3>3. ASSUME NEW t \in replies, SendOff(Ours(t), "periodic") PROVE Calm
      <4>1. pc' = "txWait" /\ uip_buf'.from = "us"
        BY <3>3 DEF SendOff, Ours
      <4> QED
        BY <2>1, <3>1, <4>1
    <3> QED
      BY <3>1, <3>2, <3>3
  <2>2. CASE ~Taken
    BY <1>3, <2>2 DEF Stack, NothingToSend
  <2> QED
    BY <2>1, <2>2
<1>4. CASE PollCount
  BY <1>4 DEF PollCount
<1>5. CASE ProcessIp
  BY <1>3, <1>5 DEF ProcessIp
<1>6. CASE ProcessArp
  BY <1>3, <1>6 DEF ProcessArp
<1>7. CASE ProcessOther
  BY <1>7 DEF ProcessOther
<1>8. CASE PeriodicExpired
  BY <1>8 DEF PeriodicExpired, NothingToSend, SendOff, Ours
<1>9. CASE PeriodicNotYet
  BY <1>9 DEF PeriodicNotYet
<1>10. CASE ArpTimer
  BY <1>10 DEF ArpTimer
<1> QED
  BY <1>1, <1>2, <1>4, <1>5, <1>6, <1>7, <1>8, <1>9, <1>10 DEF Main

(* The start of the receiver, the end of a transmission, a pause.          *)
LEMMA QuietStep ==
  ASSUME RingInv,
         \/ Enc28j60Init /\ handled' = handled
         \/ Transmitted /\ handled' = handled
         \/ UNCHANGED lvars
  PROVE  RingInv' /\ Unread' = Unread /\ got' = got
<1>1. PlaceInv /\ CountInv
  BY DEF RingInv
<1>2. CASE Enc28j60Init /\ handled' = handled
  <2>1. SameRing /\ BufferMoves /\ got' = got
    BY <1>1, <1>2 DEF SameRing, BufferMoves, Enc28j60Init, Goto, Waiting, bufvars, PlaceInv
  <2>2. PlaceInv'
    BY <1>1, <1>2 DEF PlaceInv, Enc28j60Init, Goto, Reading
  <2>3. CountInv'
    BY <1>1, <1>2 DEF CountInv, Received, Enc28j60Init, Goto, bufvars
  <2> QED
    BY <2>1, <2>2, <2>3, ChainStays, UnreadStays DEF RingInv
<1>3. CASE (Transmitted /\ handled' = handled) \/ UNCHANGED lvars
  <2>1. /\ UNCHANGED <<pc, rxvars, bufvars, handled>>
        /\ pc = "init" => econ1' = econ1
    BY <1>1, <1>3 DEF Transmitted, PlaceInv, lvars
  <2>2. SameRing /\ BufferMoves /\ got' = got
    BY <2>1 DEF SameRing, BufferMoves, Waiting, rxvars, bufvars
  <2>3. PlaceInv'
    BY <1>1, <2>1 DEF PlaceInv, rxvars, bufvars, Reading, Frame1
  <2>4. CountInv'
    BY <1>1, <2>1 DEF CountInv, Received, rxvars, bufvars
  <2> QED
    BY <2>2, <2>3, <2>4, ChainStays, UnreadStays DEF RingInv
<1> QED
  BY <1>2, <1>3

-----------------------------------------------------------------------------
(* The ring and the stack together.                                        *)
NodeInv == IInv /\ RingInv

QueueNext == (\E f \in Frame : Queue!Accept(f)) \/ Queue!HandOver \/ Queue!Done
QueueStep == QueueNext \/ (Unread' = Unread /\ got' = got)

LEMMA InitNode == Init => NodeInv /\ Unread = <<>> /\ got = Nothing
<1> SUFFICES ASSUME Init PROVE NodeInv /\ Unread = <<>> /\ got = Nothing
  OBVIOUS
<1>1. IInv
  BY InitInv
<1>2. PlaceInv
  BY RingAssumption DEF Init, PlaceInv, Reading, Cells
<1>3. CountInv
  BY DEF Init, CountInv, Received, Nothing
<1> DEFINE d == [i \in 1..1 |-> 0]
<1>4. Waiting = 0
  BY DEF Init, Waiting
<1>5. /\ d \in [1..(0 + 1) -> 0..(RxSize - 1)]
      /\ Ring(rxmem, erxrdpt, erxwrpt, d, 0) /\ Numbered(d, 0)
  <2>1. 0 \in 0..(RxSize - 1) /\ 1..(0 + 1) = 1..1 /\ 1..0 = {} /\ 1 \in 1..1
    BY RingAssumption
  <2>2. \A i, j \in 1..1 : ~(i < j)
    OBVIOUS
  <2>3. erxwrpt = Step(erxrdpt, 0)
    BY <1>2, StepZero DEF Init, PlaceInv
  <2> QED
    BY <2>1, <2>2, <2>3 DEF Ring, Numbered
<1>6. Chained
  BY <1>4, <1>5 DEF Chained
<1> HIDE DEF d
<1>7. Unread = [i \in 1..0 |-> Delivers(rxmem, erxrdpt, d[i])]
  BY <1>2, <1>4, <1>5, UnreadNow DEF Unreads
<1>8. Unread = <<>>
  BY <1>7
<1>9. got = Nothing
  BY DEF Init
<1> QED
  BY <1>1, <1>2, <1>3, <1>6, <1>8, <1>9 DEF NodeInv, RingInv

LEMMA NodeStep == NodeInv /\ [Next]_lvars => NodeInv' /\ QueueStep
<1> SUFFICES ASSUME NodeInv, [Next]_lvars PROVE RingInv' /\ QueueStep
  BY StepInv DEF NodeInv
<1>1. RingInv /\ back \in Returns
  BY DEF NodeInv, IInv, TxInv
<1>2. ASSUME NEW k \in Kinds, NEW good \in BOOLEAN, Arrive(k, good), handled' = handled
      PROVE  RingInv' /\ QueueStep
  <2> DEFINE f == IF good THEN Incoming(k) ELSE Nothing
  <2>1. RingInv' /\ Unread' = Append(Unread, f)
    BY <1>1, <1>2, ArriveStep
  <2>2. f \in Frame
    <3>1. arrived \in Nat /\ arrived < MaxFrames
      BY <1>1, <1>2 DEF RingInv, CountInv, Arrive
    <3>2. k.type \in Types
      BY DEF Types
    <3>3. arrived + 1 \in 0..(MaxFrames + 2) /\ 0 \in 0..(MaxFrames + 2) /\ "none" \in Types
      BY <3>1, RingAssumption DEF Types
    <3>4. Incoming(k) \in Frame /\ Nothing \in Frame
      BY <3>2, <3>3 DEF Incoming, Nothing, Frame
    <3> QED
      BY <3>4
  <2>3. got' = got
    BY <1>2 DEF Arrive
  <2> HIDE DEF f
  <2> QED
    BY <2>1, <2>2, <2>3 DEF QueueStep, QueueNext, Queue!Accept
<1>3. CASE Receive /\ handled' = handled
  <2>1. CASE ReadHeader
    BY <1>1, <1>3, <2>1, HeaderStep DEF QueueStep, ReadHeader
  <2>2. CASE ReadContent
    BY <1>1, <1>3, <2>2, ContentStep DEF QueueStep, ReadContent
  <2>3. CASE MoveErdpt
    BY <1>1, <1>3, <2>3, ErdptStep DEF QueueStep, MoveErdpt
  <2>4. CASE FreeSpace
    BY <1>1, <1>3, <2>4, FreeStep DEF QueueStep, QueueNext, Queue!HandOver
  <2>5. CASE ReturnSize
    <3>1. RingInv' /\ Unread' = Unread
      BY <1>1, <1>3, <2>5, ReturnStep
    <3>2. got' = Nothing
      BY <2>5 DEF ReturnSize
    <3> QED
      BY <3>1, <3>2 DEF QueueStep, QueueNext, Queue!Done
  <2> QED
    BY <1>3, <2>1, <2>2, <2>3, <2>4, <2>5 DEF Receive
<1>4. CASE Calm
  BY <1>1, <1>4, CalmStep DEF QueueStep
<1>5. CASE \/ Enc28j60Init /\ handled' = handled
           \/ Transmitted /\ handled' = handled
           \/ UNCHANGED lvars
  BY <1>1, <1>5, QuietStep DEF QueueStep
<1> QED
  BY <1>1, <1>2, <1>3, <1>4, <1>5, ProcessorCalm DEF Next, Driver, Chip

(* The stack takes frames in the order in which they came, each once.      *)
TakesOnce == pc = "process" /\ pc' # pc /\ Taken /\ (IsIp \/ IsArp) => handled' > handled
Fate == Pending /\ ~Pending' => \/ handled' > handled
                                \/ pc \in {"rxData", "rxDec", "periodic"}

LEMMA TakenNewer == ASSUME NodeInv, pc = "process", Taken PROVE uip_buf.id > handled
<1>1. CountInv /\ Received
  BY DEF NodeInv, RingInv, Received, Taken
<1> QED
  BY <1>1 DEF CountInv, Received

LEMMA ProcessStep ==
  ASSUME NodeInv, pc = "process", [Next]_lvars
  PROVE  \/ Taken /\ handled' = uip_buf.id
         \/ ~Taken
         \/ UNCHANGED <<pc, bufvars>>
         \/ ProcessOther
<1>1. CASE Main
  BY <1>1 DEF Main, PollCount, ProcessIp, ProcessArp, Stack, PeriodicExpired, PeriodicNotYet,
              ArpTimer, Goto
<1>2. CASE Chip
  BY <1>2 DEF Chip, Arrive, Transmitted
<1>3. ~Driver
  <2>1. ~Receive
    BY DEF Receive, ReadHeader, ReadContent, MoveErdpt, FreeSpace, ReturnSize, Goto
  <2>2. ~Transmit
    BY DEF Transmit, TxWait, TxPointers, TxWrite, TxGo, Goto
  <2>3. back \in Returns
    BY DEF NodeInv, IInv, TxInv
  <2> QED
    BY <2>1, <2>2 DEF Driver, Enc28j60Init, ReadLinkStatus, Goto
<1>4. CASE UNCHANGED lvars
  BY <1>4 DEF lvars
<1> QED
  BY <1>1, <1>2, <1>3, <1>4 DEF Next

LEMMA TakesOnceStep == NodeInv /\ [Next]_lvars => TakesOnce
<1> SUFFICES ASSUME NodeInv, [Next]_lvars, pc = "process", pc' # pc, Taken, IsIp \/ IsArp
             PROVE  handled' > handled
  BY DEF TakesOnce
<1>1. handled' = uip_buf.id
  BY ProcessStep DEF ProcessOther
<1> QED
  BY <1>1, TakenNewer

LEMMA FateStep == NodeInv /\ [Next]_lvars => Fate
<1> SUFFICES ASSUME NodeInv, [Next]_lvars, Pending, ~Pending', pc \notin {"rxData", "rxDec", "periodic"}
             PROVE  handled' > handled
  BY DEF Fate
<1>1. ~(UNCHANGED bufvars)
  BY DEF Pending, bufvars
<1>2. pc = "process"
  <2>1. ~Chip
    BY <1>1 DEF Chip, Arrive, Transmitted
  <2>2. ~Driver
    BY <1>1 DEF Driver, Enc28j60Init, ReadLinkStatus, Receive, ReadHeader, ReadContent, MoveErdpt,
                FreeSpace, ReturnSize, Transmit, TxWait, TxPointers, TxWrite, TxGo, Goto, bufvars
  <2>3. ASSUME Main PROVE pc = "process"
    BY <1>1, <2>3 DEF Main, PollCount, ProcessIp, ProcessArp, ProcessOther, Stack, PeriodicExpired,
                      PeriodicNotYet, ArpTimer, Goto
  <2> QED
    BY <1>1, <2>1, <2>2, <2>3 DEF Next, lvars
<1>3. Taken /\ (IsIp \/ IsArp)
  BY DEF Pending, Taken, IsIp, IsArp
<1>4. handled' = uip_buf.id
  BY <1>1, <1>2, <1>3, ProcessStep DEF ProcessOther
<1> QED
  BY <1>2, <1>3, <1>4, TakenNewer

-----------------------------------------------------------------------------
(* enc28j60_rx_packet_receive() hands over the frames the chip accepted in *)
(* their order, each once and unaltered, whatever arrives between its      *)
(* accesses to the chip, for every ring, every frame size and any number   *)
(* of frames.                                                              *)
THEOREM FramesInOrder == Spec => ReceivesInOrder
<1>1. NodeInv /\ [Next]_lvars => [QueueNext]_<<Unread, got>>
  BY NodeStep DEF QueueStep
<1>2. NodeInv /\ [Next]_lvars => NodeInv'
  BY NodeStep
<1> QED
  BY InitNode, <1>1, <1>2, PTL DEF Spec, ReceivesInOrder, Queue!Spec, QueueNext

(* The main loop gives the stack no frame twice and none after a later     *)
(* one, for every ring and network.                                        *)
THEOREM NoneTakenTwice == Spec => TakenOnce
<1>1. NodeInv /\ [Next]_lvars => NodeInv'
  BY NodeStep
<1>2. NodeInv /\ [Next]_lvars => [TakesOnce]_lvars
  BY TakesOnceStep
<1> QED
  BY InitNode, <1>1, <1>2, PTL DEF Spec, TakenOnce, TakesOnce

(* A frame that waits in uip_buf leaves it in the three ways the code has: *)
(* the stack takes it, the next one is read over it, or the periodic timer *)
(* clears uip_len, for every ring and network.                             *)
THEOREM FateKnown == Spec => FrameFate
<1>1. NodeInv /\ [Next]_lvars => NodeInv'
  BY NodeStep
<1>2. NodeInv /\ [Next]_lvars => [Fate]_lvars
  BY FateStep
<1> QED
  BY InitNode, <1>1, <1>2, PTL DEF Spec, FrameFate, Fate
=============================================================================
