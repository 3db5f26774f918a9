----------------------------- MODULE TcpSession -----------------------------
(***************************************************************************)
(* What uIP promises the application about the callbacks it gets for one   *)
(* slot of the connection table (the tests uip_connected(), uip_newdata(), *)
(* uip_acked(), uip_poll(), uip_rexmit(), uip_closed(), uip_aborted() and  *)
(* uip_timedout() of uip.h): a session opens before it carries traffic,    *)
(* and once it is closing, aborted or timed out no traffic callback comes  *)
(* for it again.                                                           *)
(***************************************************************************)
CONSTANT Slots

VARIABLES
  session,     \* [Slots -> {"free", "opening", "open", "closing"}]
  call         \* the callback of the last step: none or one

svars == <<session, call>>

Ends    == {"free", "closing"}
Traffic == {"NEWDATA", "ACKDATA", "POLL", "REXMIT"}

Move(c, to)    == \E x \in to : session' = [session EXCEPT ![c] = x]
Notify(c, ev)  == call' = {[conn |-> c, flags |-> ev]}
Silent         == call' = {}

Init == session = [c \in Slots |-> "free"] /\ call = {}

Open(c) == session[c] \in Ends /\ Move(c, {"opening"}) /\ Silent

\* The application may end the session in the very callback that opens it.
Connected(c) ==
  /\ session[c] = "opening" /\ Move(c, {"open"} \cup Ends)
  /\ \E ev \in {{"CONNECTED"}, {"CONNECTED", "NEWDATA"}} : Notify(c, ev)

Exchange(c) ==
  /\ session[c] = "open" /\ Move(c, {"open"} \cup Ends)
  /\ \E ev \in (SUBSET Traffic) \ {{}} : Notify(c, ev)

PeerCloses(c) ==
  /\ session[c] = "open" /\ Move(c, {"closing"})
  /\ \E ev \in SUBSET {"NEWDATA", "ACKDATA"} : Notify(c, ev \cup {"CLOSE"})

Finish(c) == /\ session[c] = "closing" /\ Move(c, Ends)
             /\ Silent \/ Notify(c, {"CLOSE"})

Killed(c) == /\ session[c] # "free" /\ Move(c, Ends)
             /\ Notify(c, {"ABORT"}) \/ Notify(c, {"TIMEDOUT"})

Idle == Silent /\ UNCHANGED session

Next == \/ \E c \in Slots : \/ Open(c) \/ Connected(c) \/ Exchange(c)
                            \/ PeerCloses(c) \/ Finish(c) \/ Killed(c)
        \/ Idle

Spec == Init /\ [][Next]_svars
=============================================================================
