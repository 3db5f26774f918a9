----------------------------- MODULE ByteStream -----------------------------
(***************************************************************************)
(* One direction of a TCP connection as its two ends see it: the reader    *)
(* gets the bytes 1, 2, 3, ... in the order in which they were written,    *)
(* each once, and the end of the stream only after the last of them.  The  *)
(* stream may stop anywhere.                                               *)
(***************************************************************************)
EXTENDS Naturals, Sequences

VARIABLES
  written,     \* bytes the writer has handed over
  closed,      \* the writer has closed
  read,        \* what the reader has got
  eof          \* the reader has seen the end

bvars == <<written, closed, read, eof>>

Init == written \in Nat /\ closed \in BOOLEAN /\ read = <<>> /\ ~eof

Writes == /\ ~closed /\ written' \in Nat /\ written' >= written
          /\ closed' \in BOOLEAN

\* The reader takes the bytes up to and including byte n.
Reads ==
  \E n \in Len(read)..written' :
    /\ read' = read \o [i \in 1..(n - Len(read)) |-> Len(read) + i]
    /\ eof' => eof \/ (closed' /\ n = written')
    /\ eof => eof' /\ n = Len(read)

Next == /\ Writes \/ UNCHANGED <<written, closed>>
        /\ Reads

Spec == Init /\ [][Next]_bvars
=============================================================================
