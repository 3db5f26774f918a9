------------------------------ MODULE Checksum ------------------------------
(***************************************************************************)
(* The arithmetic of uip.c on bytes: chksum() and its carries, the         *)
(* checksum of an echo reply made from that of the request, and            *)
(* uip_add32() on four bytes.  A byte has Base values (256), a 16 bit word *)
(* is two of them.  The processor is little-endian (uip-conf.h).           *)
(***************************************************************************)
EXTENDS Naturals, Sequences

CONSTANTS Base, MsgLens,     \* values of a byte; lengths of an ICMP message: a word
          ICMP_ECHO,         \* 8
          Adds               \* what is added to a sequence number

Byte == 0..(Base - 1)
Word == Base * Base
ASSUME ByteAssumption == /\ Base \in Nat /\ Base > 1 /\ ICMP_ECHO \in 1..(Base - 1)
                         /\ MsgLens \subseteq 4..(Word - 1)
                         /\ Adds \subseteq 0..(Word - 1)

VARIABLES
  msg,            \* an ICMP message: type, code, checksum, rest
  at, sum,        \* dataptr and sum of the chksum() under way
  verdict,        \* the sums of the request and of the reply, once known
  op32, added     \* a sequence number, high byte first; what was added to it

sumvars == <<msg, at, sum, verdict, op32, added>>

SumTypeOK ==
  /\ msg \in Seq(Byte) /\ at \in 1..(Len(msg) + 2) /\ sum \in 0..(Word - 1)
  /\ op32 \in [1..4 -> Byte] /\ verdict \in Seq(0..(Word - 1)) /\ Len(verdict) <= 2

SumInit ==
  /\ \E n \in MsgLens : msg \in {m \in [1..n -> Byte] : m[1] = ICMP_ECHO /\ m[2] = 0}
  /\ at = 1 /\ sum = 0 /\ verdict = <<>>
  /\ op32 = [i \in 1..4 |-> 0] /\ added = 0

(* One turn of the loop of chksum(): two bytes, or the last one and a zero *)
(* byte, added with an end-around carry.                                   *)
AddWordNoCarry(s, t) == (s + t) % Word                \* mutant
AddWord(s, t) == IF (s + t) % Word < t THEN ((s + t) % Word) + 1 ELSE s + t
SumStep ==
  /\ at <= Len(msg) /\ Len(verdict) < 2
  /\ LET t == msg[at] * Base + (IF at < Len(msg) THEN msg[at + 1] ELSE 0)
     IN sum' = AddWord(sum, t)
  /\ at' = at + 2 /\ UNCHANGED <<msg, verdict, op32, added>>

(* ICMP input: an echo request becomes the reply.  The field is a u16_t in *)
(* the byte order of the network, read by a little-endian processor.       *)
Field(m) == m[3] + m[4] * Base
HTONS(w) == (w % Base) * Base + (w \div Base)
ReplyCarryLost(f) == (f + HTONS(ICMP_ECHO * Base)) % Word      \* mutant
ReplyField(f) ==
  (f + HTONS(ICMP_ECHO * Base)
     + (IF f >= HTONS(Word - 1 - ICMP_ECHO * Base) THEN 1 ELSE 0)) % Word
EchoReply ==
  /\ at > Len(msg) /\ verdict = <<>> /\ verdict' = <<sum>>
  /\ msg' = [msg EXCEPT ![1] = 0, ![3] = ReplyField(Field(msg)) % Base,
                        ![4] = ReplyField(Field(msg)) \div Base]
  /\ at' = 1 /\ sum' = 0 /\ UNCHANGED <<op32, added>>

(* The peer sums up the reply.                                             *)
ReplySummed ==
  /\ at > Len(msg) /\ Len(verdict) = 1 /\ verdict' = Append(verdict, sum)
  /\ UNCHANGED <<msg, at, sum, op32, added>>

(* uip_add32(): bytes from the right, with the carries by hand.            *)
Add32NoRipple(op, n) ==                               \* mutant
  LET lo == n % Base  hi == n \div Base
      b4 == (op[4] + lo) % Base
      b3 == (op[3] + hi + (IF b4 < lo THEN 1 ELSE 0)) % Base
  IN <<op[1], (op[2] + (IF b3 < hi THEN 1 ELSE 0)) % Base, b3, b4>>
Add32(op, n) ==
  LET lo == n % Base  hi == n \div Base
      b4 == (op[4] + lo) % Base
      b3 == (op[3] + hi) % Base
      c3 == IF b3 < hi THEN 1 ELSE 0            \* into byte 2
      b2 == (op[2] + c3) % Base
      b1 == (op[1] + (IF c3 = 1 /\ b2 = 0 THEN 1 ELSE 0)) % Base
      c4 == IF b4 < lo THEN 1 ELSE 0            \* into byte 3
      d3 == (b3 + c4) % Base
      e3 == IF c4 = 1 /\ d3 = 0 THEN 1 ELSE 0
      d2 == (b2 + e3) % Base
      e2 == IF e3 = 1 /\ d2 = 0 THEN 1 ELSE 0
  IN <<(b1 + e2) % Base, d2, d3, b4>>
Add == \E n \in Adds :
         /\ at = 1 /\ verdict = <<>> /\ sum = 0 /\ Len(msg) = 4 /\ Field(msg) = 0
         /\ op32' = Add32(op32, n) /\ added' = (added + n) % (Word * Word)
         /\ UNCHANGED <<msg, at, sum, verdict>>

SumNext == SumStep \/ EchoReply \/ ReplySummed \/ Add
SumSpec == SumInit /\ [][SumNext]_sumvars

-----------------------------------------------------------------------------
Valid(s) == s = Word - 1

(* The sum is the one's complement sum of the words read so far: the same  *)
(* remainder modulo Word - 1, and zero only if all of them are.            *)
WordAt(i) == msg[i] * Base + (IF i < Len(msg) THEN msg[i + 1] ELSE 0)
Total[n \in 0..(Base * Base)] ==
  IF n = 0 THEN 0 ELSE Total[n - 1] + (IF n % 2 = 1 THEN WordAt(n) ELSE 0)
OnesComplement ==
  LET total == Total[at - 1]
  IN sum % (Word - 1) = total % (Word - 1) /\ (sum = 0 <=> total = 0)

(* uip.c:976 "we only change the ICMP type from ECHO to ECHO_REPLY and     *)
(* adjust the ICMP checksum": an echo reply has a valid checksum exactly   *)
(* if its request had one; the one exception is a request that is zero but *)
(* for its type and checksum, whose reply gets checksum 0 for 0xffff.      *)
Answered == Len(verdict) = 2 => (Valid(verdict[1]) <=> Valid(verdict[2]))
EchoKeepsChecksum == (\E i \in 5..Len(msg) : msg[i] # 0) => Answered

(* Sequence numbers count modulo 2^32 through any series of additions.     *)
Add32Exact == op32[4] + Base * (op32[3] + Base * (op32[2] + Base * op32[1])) = added
=============================================================================
