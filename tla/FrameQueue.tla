----------------------------- MODULE FrameQueue -----------------------------
(***************************************************************************)
(* What a network driver promises of its receive side: frames come out in  *)
(* the order they were accepted, each once and unaltered.  Frames may be   *)
(* refused, never lost after they were accepted.                           *)
(***************************************************************************)
EXTENDS Sequences

CONSTANTS Frame, none
VARIABLES queue,        \* accepted and not yet handed over
          got           \* the frame being handed over

Accept(f) == queue' = Append(queue, f) /\ UNCHANGED got
HandOver  == queue # <<>> /\ got' = Head(queue) /\ queue' = Tail(queue)
Done      == got' = none /\ UNCHANGED queue

Spec == /\ queue = <<>> /\ got = none
        /\ [][(\E f \in Frame : Accept(f)) \/ HandOver \/ Done]_<<queue, got>>
=============================================================================
