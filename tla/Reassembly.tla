----------------------------- MODULE Reassembly -----------------------------
(***************************************************************************)
(* IP input up to the protocols (uip.c): the checks of a datagram, and     *)
(* uip_reass(), the one reassembly buffer for fragments (compiled in with  *)
(* UIP_REASSEMBLY).  The network repeats, reorders and drops fragments,    *)
(* and cuts a datagram in more than one way.                               *)
(*                                                                         *)
(* Abstracted: a datagram (addresses and ipid) is a number, a byte is the  *)
(* datagram it belongs to, and a bit of the bitmap stands for Unit bytes   *)
(* (8), a byte of it for Width bits (8).  The two masks the code sets for  *)
(* a fragment are together the units it touches first up to its end.  int  *)
(* has 16 bits, as on the AVR.  reasslen is the payload only: what is      *)
(* passed on lacks the last IPH_LEN (20) bytes of it.  reassbuf is the     *)
(* part of the array behind the header.  A fragment that passes the test   *)
(* of the code but ends outside of one of the two arrays is noted          *)
(* (overran); what the memory holds after that is not described.           *)
(***************************************************************************)
EXTENDS Naturals, FiniteSets

CONSTANTS Datagrams, PayloadLen,     \* the datagrams and their lengths
          Ours,                      \* those addressed to us
          Unit, Width,               \* bytes per bit, bits per byte
          BufSize,                   \* UIP_REASS_BUFSIZE
          IPH_LEN,                   \* UIP_IPH_LEN
          REASS_MAXAGE               \* UIP_REASS_MAXAGE

ASSUME ReassAssumption ==
  /\ Datagrams \subseteq Nat \ {0} /\ PayloadLen \in [Datagrams -> Nat \ {0}]
  /\ {Unit, Width, BufSize} \subseteq Nat \ {0} /\ IPH_LEN \in Nat
  /\ IPH_LEN < BufSize /\ REASS_MAXAGE \in Nat \ {0} /\ Ours \subseteq Datagrams

VARIABLES
  reassbuf,          \* the datagram each byte of payload is from, 0: none
  bitmap,            \* the units marked
  owner,             \* the datagram whose header is in the buffer
  reasslen, lastfrag, reasstmr,
  overran,           \* a fragment was written outside of uip_reassbuf or its bitmap
  delivered          \* what IP input passed on in this step: at most one

reassvars == <<reassbuf, bitmap, owner, reasslen, lastfrag, reasstmr, overran, delivered>>

Places == 0..(BufSize - IPH_LEN - 1)
MapBytes == BufSize \div (Unit * Width)
ReassTypeOK ==
  /\ reassbuf \in [Places -> Datagrams \cup {0}] /\ bitmap \subseteq 0..(MapBytes * Width - 1)
  /\ owner \in Datagrams \cup {0} /\ reasslen \in 0..(BufSize - IPH_LEN)
  /\ lastfrag \in BOOLEAN /\ reasstmr \in 0..REASS_MAXAGE /\ overran \in BOOLEAN

ReassInit ==
  /\ reassbuf = [p \in Places |-> 0] /\ bitmap = {} /\ owner = 0
  /\ reasslen = 0 /\ lastfrag = FALSE /\ reasstmr = 0 /\ overran = FALSE /\ delivered = {}

(* The bytes of the bitmap that are looked at: those before the last but   *)
(* one, and the last one, which must hold the right bits and no others.    *)
(* n - 1 wraps for n = 0: every byte is looked at, and one is not full.    *)
FullByte(map, i) == \A u \in (i * Width)..(i * Width + Width - 1) : u \in map
LastByteOK(map, len) ==
  LET n == len \div (Unit * Width)
  IN {u \in map : u \div Width = n} = (n * Width)..((len \div Unit) - 1)
CompleteIfAllFull(map, len) ==                        \* mutant
  \A i \in 0..(len \div (Unit * Width)) : FullByte(map, i)
CompleteIfLastFits(map, len) ==                       \* mutant
  len >= Unit * Width /\ LastByteOK(map, len)
Complete(map, len) ==
  LET n == len \div (Unit * Width)
  IN /\ n # 0 /\ \A i \in 0..n : i + 1 < n => FullByte(map, i)
     /\ LastByteOK(map, len)

\* The destination is looked at only when a datagram is complete.
PassOn(d, len, buf) ==
  delivered' = IF d \in Ours
               THEN {[of |-> d, len |-> len,
                      bytes |-> [p \in 0..(len - IPH_LEN - 1) |-> buf[p]]]}
               ELSE {}

Overflows(off, n) == off > BufSize \/ off + n > BufSize

\* The bytes written, and the byte of the bitmap that their end is marked in.
Inside(off, n) == /\ IPH_LEN + off + n <= BufSize
                  /\ (off + n) \div (Unit * Width) < MapBytes

(* uip_reass() for n bytes of datagram d at an offset.                     *)
Starts == reasstmr = 0
Reass(d, off, n, more) ==
  LET mine == IF Starts THEN d ELSE owner
      map  == (IF Starts THEN {} ELSE bitmap) \cup (off \div Unit)..(((off + n) \div Unit) - 1)
      last == (IF Starts THEN FALSE ELSE lastfrag) \/ ~more
      len  == IF more THEN reasslen ELSE off + n
      full == last /\ Complete(map, len)
      buf  == [p \in Places |-> IF p \in off..(off + n - 1) THEN d ELSE reassbuf[p]]
  IN IF mine # d
     THEN /\ delivered' = {}
          /\ UNCHANGED <<reassbuf, bitmap, owner, reasslen, lastfrag, reasstmr, overran>>
     ELSE IF Overflows(off, n)
     THEN /\ reasstmr' = 0 /\ delivered' = {} /\ owner' = d
          /\ bitmap' = (IF Starts THEN {} ELSE bitmap)
          /\ lastfrag' = (IF Starts THEN FALSE ELSE lastfrag)
          /\ UNCHANGED <<reassbuf, reasslen, overran>>
     ELSE IF ~Inside(off, n)
     THEN /\ overran' = TRUE /\ delivered' = {}
          /\ UNCHANGED <<reassbuf, bitmap, owner, reasslen, lastfrag, reasstmr>>
     ELSE /\ owner' = d /\ bitmap' = map /\ lastfrag' = last /\ reasslen' = len
          /\ reassbuf' = buf /\ UNCHANGED overran
          /\ reasstmr' = IF full THEN 0 ELSE IF Starts THEN REASS_MAXAGE ELSE reasstmr
          /\ IF full THEN PassOn(d, len, buf) ELSE delivered' = {}

(* A datagram that is no fragment: its version, length and checksum are    *)
(* checked, then its destination.                                          *)
Whole ==
  \E d \in Datagrams, intact \in BOOLEAN :
    /\ IF intact /\ PayloadLen[d] <= BufSize
       THEN PassOn(d, PayloadLen[d] + IPH_LEN, [p \in 0..(PayloadLen[d] - 1) |-> d])
       ELSE delivered' = {}
    /\ UNCHANGED <<reassbuf, bitmap, owner, reasslen, lastfrag, reasstmr, overran>>

(* A fragment arrives; all but the last are a multiple of Unit long.       *)
Fragment ==
  \E d \in Datagrams : \E off \in 0..(PayloadLen[d] - 1) :
    \E n \in 1..(PayloadLen[d] - off) :
      LET more == off + n < PayloadLen[d]
      IN /\ off % Unit = 0 /\ (more => n % Unit = 0) /\ (more \/ off > 0)
         /\ Reass(d, off, n, more)

(* The periodic timer counts reasstmr, a u8_t, down to 0.                  *)
ReassTickAlways ==                                    \* mutant
  /\ reasstmr' = (reasstmr + 255) % 256 /\ delivered' = {}
  /\ UNCHANGED <<reassbuf, bitmap, owner, reasslen, lastfrag, overran>>
ReassTick ==
  /\ reasstmr > 0 /\ reasstmr' = reasstmr - 1 /\ delivered' = {}
  /\ UNCHANGED <<reassbuf, bitmap, owner, reasslen, lastfrag, overran>>

ReassNext == ~overran /\ (Whole \/ Fragment \/ ReassTick)
ReassSpec == ReassInit /\ [][ReassNext]_reassvars

-----------------------------------------------------------------------------
(* A datagram put together contains nothing of another one, in spite of    *)
(* what the buffer held before, except in the bytes of the last but one    *)
(* byte of the bitmap, which the loop of uip.c:636 leaves out; until a     *)
(* fragment was first written outside of the buffer.                       *)
ReassUnmixed ==
  \A x \in delivered : \A p \in DOMAIN x.bytes :
    p \div (Unit * Width) # (x.len \div (Unit * Width)) - 1 => x.bytes[p] = x.of

(* Fragments that are all there are put together at once, whatever their   *)
(* order and overlap, if there are at least Unit * Width bytes of them;    *)
(* until a fragment was first written outside of the buffer.               *)
ReassPrompt ==
  reasstmr > 0 /\ lastfrag /\ reasslen >= Unit * Width =>
    bitmap # 0..((reasslen \div Unit) - 1)

(* uip.c:584 "If the offset or the offset + fragment length overflows the  *)
(* reassembly buffer, we discard the entire packet": nothing is written    *)
(* outside of uip_reassbuf and uip_reassbitmap.                            *)
ReassInside == ~overran
=============================================================================
