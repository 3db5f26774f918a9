------------------------- MODULE HelloWorld_proofs -------------------------
(* Proofs about HelloWorld: what a protosocket sends is received, what it  *)
(* reads is the peer's stream, and the server ends when all is said, for   *)
(* every script, as long as each operation fits one segment.               *)
EXTENDS HelloWorld, TcpLink_proofs, Numbers_proofs

-----------------------------------------------------------------------------
(* The bytes of a script, counted.                                         *)
Sizes(script, m, k) == [i \in 1..k |-> Size(script[i], m)]

LEMMA BytesAre ==
  ASSUME NEW script, NEW m, NEW n \in Nat, n > 0
  PROVE  \E f : SumsTo(f, Sizes(script, m, n - 1), n - 1) /\ Bytes(script, m, n) = f[n - 1]
<1> DEFINE g == Sizes(script, m, n - 1)
           T(f) == f = [i \in 0..(n - 1) |-> IF i = 0 THEN 0 ELSE f[i - 1] + Size(script[i], m)]
<1>1. n - 1 \in Nat
  OBVIOUS
<1>2. \A f : SumsTo(f, g, n - 1) <=> T(f)
  <2>1. \A i \in 0..(n - 1) : i # 0 => g[i] = Size(script[i], m)
    BY DEF Sizes
  <2> HIDE DEF g
  <2> QED
    BY <2>1 DEF SumsTo
<1>3. PICK f : T(f)
  BY <1>1, <1>2, SumsExist
<1>4. Bytes(script, m, n) = (CHOOSE h : T(h))[n - 1]
  BY DEF Bytes
<1> HIDE DEF T, g
<1>5. T(CHOOSE h : T(h))
  BY <1>3
<1> QED
  BY <1>2, <1>4, <1>5 DEF g

LEMMA BytesOne == ASSUME NEW script, NEW m PROVE Bytes(script, m, 1) = 0
<1>1. PICK f : SumsTo(f, Sizes(script, m, 1 - 1), 1 - 1) /\ Bytes(script, m, 1) = f[1 - 1]
  BY BytesAre
<1>2. 1 - 1 = 0 /\ 0 \in 0..0
  OBVIOUS
<1> QED
  BY <1>1, <1>2 DEF SumsTo

LEMMA BytesNext ==
  ASSUME NEW script, NEW m, NEW n \in Nat, n > 0
  PROVE  Bytes(script, m, n + 1) = Bytes(script, m, n) + Size(script[n], m)
<1>1. n + 1 \in Nat /\ n + 1 > 0 /\ (n + 1) - 1 = n /\ n - 1 \in Nat /\ n - 1 <= n
      /\ n \in 0..n /\ n # 0 /\ n \in 1..n
  OBVIOUS
<1>2. PICK f : SumsTo(f, Sizes(script, m, n), n) /\ Bytes(script, m, n + 1) = f[n]
  BY <1>1, BytesAre
<1>3. PICK e : SumsTo(e, Sizes(script, m, n - 1), n - 1) /\ Bytes(script, m, n) = e[n - 1]
  BY BytesAre
<1>4. \A i \in 1..(n - 1) : Sizes(script, m, n)[i] = Sizes(script, m, n - 1)[i]
  BY DEF Sizes
<1>5. f[n - 1] = e[n - 1]
  BY <1>1, <1>2, <1>3, <1>4, SumsAgree
<1>6. f[n] = f[n - 1] + Sizes(script, m, n)[n]
  BY <1>1, <1>2 DEF SumsTo
<1>7. Sizes(script, m, n)[n] = Size(script[n], m)
  BY <1>1 DEF Sizes
<1> QED
  BY <1>2, <1>3, <1>5, <1>6, <1>7

(* What a script is made of.                                               *)
LEMMA ScriptFacts ==
  ASSUME NEW script \in Scripts
  PROVE  /\ Len(script) \in Nat
         /\ \A i \in 1..Len(script) :
              /\ script[i].op \in {"send", "generator", "sendname", "readto", "readbuf"}
              /\ script[i].len \in Nat
              /\ script[i].op = "generator" => script[i].len > 0
              /\ \A m \in Nat : Size(script[i], m) \in Nat
         /\ \A i, j \in 1..Len(script) : ~IsSend(script[i]) /\ script[j].op = "sendname" => i < j
<1> DEFINE O == [op: {"send", "generator", "sendname", "readto", "readbuf"}, len: Nat]
<1>1. script \in Seq(O)
  BY ScriptAssumption
<1> HIDE DEF O
<1>2. Len(script) \in Nat /\ DOMAIN script = 1..Len(script) /\ \A i \in 1..Len(script) : script[i] \in O
  BY <1>1, LenProperties, ElementOfSeq
<1>3. \A i \in 1..Len(script) : script[i].op = "generator" => script[i].len > 0
  BY <1>2, ScriptAssumption
<1>4. \A i, j \in 1..Len(script) : ~IsSend(script[i]) /\ script[j].op = "sendname" => i < j
  BY <1>2, ScriptAssumption
<1>5. \A i \in 1..Len(script) :
        /\ script[i].op \in {"send", "generator", "sendname", "readto", "readbuf"}
        /\ script[i].len \in Nat
  BY <1>2 DEF O
<1>6. \A i \in 1..Len(script), m \in Nat : Size(script[i], m) \in Nat
  BY <1>5 DEF Size
<1> QED
  BY <1>2, <1>3, <1>4, <1>5, <1>6

LEMMA BytesType ==
  ASSUME NEW script \in Scripts, NEW m \in Nat
  PROVE  \A n \in 1..(Len(script) + 1) : Bytes(script, m, n) \in Nat
<1> DEFINE P == {n \in Nat : Bytes(script, m, n) \in Nat}
<1>1. Len(script) \in Nat /\ \A i \in 1..Len(script) : Size(script[i], m) \in Nat
  BY ScriptFacts
<1>2. 1 \in P
  BY BytesOne
<1>3. ASSUME NEW i \in 1..((Len(script) + 1) - 1), i \in P
      PROVE  i + 1 \in P
  <2>1. i \in 1..Len(script) /\ i \in Nat /\ i > 0 /\ i + 1 \in Nat
    BY <1>1
  <2>2. Bytes(script, m, i + 1) = Bytes(script, m, i) + Size(script[i], m)
    BY <2>1, BytesNext
  <2>3. Bytes(script, m, i) \in Nat /\ Size(script[i], m) \in Nat
    BY <1>1, <1>3, <2>1
  <2> QED
    BY <2>1, <2>2, <2>3
<1> HIDE DEF P
<1>4. 1 \in Nat /\ Len(script) + 1 \in Nat
  BY <1>1
<1>5. \A n \in 1..(Len(script) + 1) : n \in P
  BY <1>2, <1>3, <1>4, FromTo
<1> QED
  BY <1>5 DEF P

LEMMA BytesGrow ==
  ASSUME NEW script \in Scripts, NEW m \in Nat, NEW i \in 1..(Len(script) + 1),
         NEW j \in i..(Len(script) + 1)
  PROVE  Bytes(script, m, i) <= Bytes(script, m, j)
<1> DEFINE P == {n \in Nat : Bytes(script, m, i) <= Bytes(script, m, n)}
<1>0. /\ Len(script) \in Nat /\ \A n \in 1..Len(script) : Size(script[n], m) \in Nat
      /\ \A n \in 1..(Len(script) + 1) : Bytes(script, m, n) \in Nat
  BY ScriptFacts, BytesType
<1>1. i \in Nat /\ j \in Nat /\ i <= j /\ i > 0 /\ j <= Len(script) + 1 /\ Bytes(script, m, i) \in Nat
  BY <1>0
<1>2. i \in P
  BY <1>1
<1>3. ASSUME NEW n \in i..(j - 1), n \in P
      PROVE  n + 1 \in P
  <2>1. n \in 1..Len(script) /\ n \in Nat /\ n > 0 /\ n + 1 \in Nat /\ n \in 1..(Len(script) + 1)
    BY <1>0, <1>1
  <2>2. Bytes(script, m, n + 1) = Bytes(script, m, n) + Size(script[n], m)
    BY <2>1, BytesNext
  <2>3. /\ Bytes(script, m, n) \in Nat /\ Size(script[n], m) \in Nat /\ Bytes(script, m, i) \in Nat
        /\ Bytes(script, m, i) <= Bytes(script, m, n)
    BY <1>0, <1>1, <1>3, <2>1
  <2> QED
    BY <2>1, <2>2, <2>3
<1> HIDE DEF P
<1>4. \A n \in i..j : n \in P
  BY <1>1, <1>2, <1>3, FromTo
<1>5. j \in i..j
  BY <1>1
<1> QED
  BY <1>4, <1>5 DEF P

\* Before the name is sent, its length does not count.
LEMMA BytesNameless ==
  ASSUME NEW script \in Scripts, NEW m \in Nat, NEW k \in Nat, NEW n \in 1..(Len(script) + 1),
         \A i \in 1..(n - 1) : script[i].op # "sendname"
  PROVE  Bytes(script, m, n) = Bytes(script, k, n)
<1> DEFINE P == {i \in Nat : Bytes(script, m, i) = Bytes(script, k, i)}
<1>1. Len(script) \in Nat
  BY ScriptFacts
<1>2. 1 \in P
  BY BytesOne
<1>3. ASSUME NEW i \in 1..(n - 1), i \in P
      PROVE  i + 1 \in P
  <2>1. i \in Nat /\ i > 0 /\ i + 1 \in Nat
    BY <1>1
  <2>2. Size(script[i], m) = Size(script[i], k)
    BY <1>3 DEF Size
  <2>3. /\ Bytes(script, m, i + 1) = Bytes(script, m, i) + Size(script[i], m)
        /\ Bytes(script, k, i + 1) = Bytes(script, k, i) + Size(script[i], k)
    BY <2>1, BytesNext
  <2> QED
    BY <1>3, <2>1, <2>2, <2>3
<1> HIDE DEF P
<1>4. 1 \in Nat /\ n \in Nat
  BY <1>1
<1>5. \A i \in 1..n : i \in P
  BY <1>2, <1>3, <1>4, FromTo
<1>6. n \in 1..n
  BY <1>1
<1> QED
  BY <1>5, <1>6 DEF P

-----------------------------------------------------------------------------
(* Protosockets: one call of psock_send() or of a read.                    *)
Psocket == [state: {"none", "sent", "acked", "read", "blocked"}, sendptr: Nat, sendlen: Nat,
            waiting: BOOLEAN, buf: Seq(Nat), unread: Seq(Nat), out: [at: Nat, len: Nat]]
Callback == [connected: BOOLEAN, acked: BOOLEAN, rexmit: BOOLEAN, newdata: BOOLEAN,
             data: Seq(Nat), mss: Nat]

Turn(s, e) == IF SentTurn(s, e) THEN SendTurn(s, e) ELSE s
Turns(f, s, e) ==
  f = [i \in 0..s.sendlen |->
         IF i = 0 THEN s ELSE IF SentTurn(f[i - 1], e) THEN SendTurn(f[i - 1], e) ELSE f[i - 1]]

\* The loop ends after one turn that does not wait.
LEMMA OneTurn ==
  ASSUME NEW s, NEW e, s.sendlen \in Nat, ~SentTurn(Turn(s, e), e)
  PROVE  LET z == IF s.sendlen = 0 THEN s ELSE Turn(s, e)
         IN SendLoop(s, e) = IF z.sendlen = 0 THEN [z EXCEPT !.state = "none", !.waiting = FALSE]
                             ELSE [SendTurn(z, e) EXCEPT !.waiting = TRUE]
<1> DEFINE r == Turn(s, e)
           n == s.sendlen
<1>0. r = (IF SentTurn(s, e) THEN SendTurn(s, e) ELSE s) /\ ~SentTurn(r, e)
  BY DEF Turn
<1> DEFINE h == [i \in 0..n |-> IF i = 0 THEN s ELSE r]
<1>1. Turns(h, s, e)
  <2>1. ASSUME NEW i \in 0..n
        PROVE  h[i] = IF i = 0 THEN s
                      ELSE IF SentTurn(h[i - 1], e) THEN SendTurn(h[i - 1], e) ELSE h[i - 1]
    <3>1. CASE i = 0
      BY <3>1
    <3>2. CASE i = 1
      <4>1. h[i] = r /\ h[i - 1] = s
        BY <3>2
      <4> HIDE DEF h, r
      <4> QED
        BY <1>0, <3>2, <4>1
    <3>3. CASE i # 0 /\ i # 1
      <4>1. h[i] = r /\ h[i - 1] = r
        BY <3>3
      <4> HIDE DEF h
      <4> QED
        BY <3>3, <4>1
    <3> QED
      BY <3>1, <3>2, <3>3
  <2>2. h = [i \in 0..n |-> h[i]]
    OBVIOUS
  <2> HIDE DEF h
  <2> QED
    BY <2>1, <2>2 DEF Turns
<1> HIDE DEF h
<1>2. ASSUME NEW f, Turns(f, s, e) PROVE f[n] = IF n = 0 THEN s ELSE r
  <2> DEFINE P == {i \in 0..n : f[i] = IF i = 0 THEN s ELSE r}
  <2>1. 0 \in P
    <3>1. 0 \in 0..n
      OBVIOUS
    <3> QED
      BY <1>2, <3>1 DEF Turns
  <2>2. ASSUME NEW i \in 0..(n - 1), i \in P PROVE i + 1 \in P
    <3>1. i + 1 \in 0..n /\ (i + 1) - 1 = i /\ i + 1 # 0
      OBVIOUS
    <3>2. f[i + 1] = IF SentTurn(f[i], e) THEN SendTurn(f[i], e) ELSE f[i]
      BY <1>2, <3>1 DEF Turns
    <3>3. f[i] = s \/ f[i] = r
      BY <2>2
    <3> HIDE DEF r
    <3>4. f[i + 1] = r
      BY <1>0, <2>2, <3>2, <3>3
    <3> QED
      BY <3>1, <3>4 DEF r
  <2> HIDE DEF P
  <2>3. \A i \in 0..n : i \in P
    <3>1. 0 \in Nat /\ n \in Nat
      OBVIOUS
    <3> QED
      BY <2>1, <2>2, <3>1, FromTo
  <2>4. n \in P
    BY <2>3
  <2> QED
    BY <2>4 DEF P
<1> DEFINE f == CHOOSE g : Turns(g, s, e)
<1>3. Turns(f, s, e)
  BY <1>1
<1>4. SendLoop(s, e) = IF f[n].sendlen = 0 THEN [f[n] EXCEPT !.state = "none", !.waiting = FALSE]
                       ELSE [SendTurn(f[n], e) EXCEPT !.waiting = TRUE]
  BY DEF SendLoop, Turns
<1>5. f[n] = IF n = 0 THEN s ELSE r
  BY <1>2, <1>3
<1> HIDE DEF f, r
<1> QED
  BY <1>4, <1>5 DEF r

LEMMA SendAcked ==
  ASSUME NEW s \in Psocket, NEW e \in Callback, s.sendlen > 0, s.sendlen <= e.mss, IsAcked(s, e)
  PROVE  SendLoop(s, e) = [s EXCEPT !.state = "none", !.waiting = FALSE, !.sendlen = 0,
                                    !.sendptr = s.sendptr + s.sendlen]
<1>0. s.sendlen \in Nat /\ e.mss \in Nat /\ s.sendptr \in Nat
  BY DEF Psocket, Callback
<1>1. Smaller(s.sendlen, e.mss) = s.sendlen /\ Smaller(0, e.mss) = 0
  BY <1>0 DEF Smaller
<1> DEFINE a == [s EXCEPT !.state = "acked", !.sendlen = 0, !.sendptr = s.sendptr + s.sendlen]
           r == [a EXCEPT !.state = "sent"]
<1>2. data_acked(s, e) = a
  <2>1. s.sendlen - s.sendlen = 0
    BY <1>0
  <2>2. data_acked(s, e) = [s EXCEPT !.state = "acked", !.sendlen = @ - s.sendlen,
                                     !.sendptr = @ + s.sendlen]
    BY <1>1 DEF data_acked
  <2> QED
    BY <2>1, <2>2
<1>3. a.state = "acked" /\ a.sendlen = 0 /\ a \in Psocket
  <2>1. s.sendptr + s.sendlen \in Nat /\ 0 \in Nat
    BY <1>0
  <2> QED
    BY <2>1 DEF Psocket
<1>4. Sends(a, e) /\ SentTurn(s, e)
  <2> HIDE DEF a
  <2>1. Sends(a, e)
    BY <1>3 DEF Sends
  <2> QED
    BY <1>2, <2>1 DEF SentTurn
<1>5. uip_send(a, a.sendptr, 0) = a
  BY DEF uip_send
<1>6. SendTurn(s, e) = r
  BY <1>1, <1>2, <1>3, <1>4, <1>5 DEF SendTurn, send_data
<1>7. Turn(s, e) = r /\ r.sendlen = 0
  <2>1. r.sendlen = 0
    BY <1>3 DEF Psocket
  <2> QED
    BY <1>4, <1>6, <2>1 DEF Turn
<1>8. ~SentTurn(Turn(s, e), e)
  <2> HIDE DEF r
  <2> QED
    BY <1>7 DEF SentTurn
<1>9. SendLoop(s, e) = [r EXCEPT !.state = "none", !.waiting = FALSE]
  <2> HIDE DEF r
  <2>1. s.sendlen # 0
    BY <1>0
  <2> QED
    BY <1>0, <1>7, <1>8, <2>1, OneTurn
<1> QED
  BY <1>9 DEF Psocket

LEMMA SendWaits ==
  ASSUME NEW s \in Psocket, NEW e, s.sendlen > 0, ~IsAcked(s, e)
  PROVE  SendLoop(s, e) = [send_data(s, e) EXCEPT !.waiting = TRUE]
<1>1. ~SentTurn(s, e) /\ s.sendlen \in Nat /\ s.sendlen # 0
  <2>1. s.sendlen \in Nat
    BY DEF Psocket
  <2> QED
    BY <2>1 DEF SentTurn
<1>2. Turn(s, e) = s
  BY <1>1 DEF Turn
<1>3. SendTurn(s, e) = send_data(s, e)
  BY DEF SendTurn, data_acked
<1> QED
  BY <1>1, <1>2, <1>3, OneTurn

(* What is left of an operation: Sending when it waits for n bytes to be   *)
(* acknowledged, Idle when it has returned.                                *)
Idle(s) == ~s.waiting /\ s.state # "sent"
Sending(s, n) == s.waiting /\ s.state = "sent" /\ s.sendlen = n /\ n > 0
SameRead(z, s) == z.buf = s.buf /\ z.unread = s.unread

LEMMA Sent ==
  ASSUME NEW s \in Psocket, NEW e \in Callback, s.sendlen > 0, ~IsAcked(s, e)
  PROVE  LET z == SendLoop(s, e)
         IN /\ z \in Psocket /\ Sending(z, s.sendlen) /\ SameRead(z, s) /\ z.sendptr = s.sendptr
            /\ Sends(s, e) /\ s.sendlen <= e.mss => z.out = [at |-> s.sendptr, len |-> s.sendlen]
            /\ ~Sends(s, e) => z.out = s.out
<1> DEFINE z == [send_data(s, e) EXCEPT !.waiting = TRUE]
           n == Smaller(s.sendlen, e.mss)
<1>0. s.sendlen \in Nat /\ e.mss \in Nat /\ s.sendptr \in Nat /\ n \in Nat
      /\ (s.sendlen <= e.mss => n = s.sendlen)
  BY DEF Psocket, Callback, Smaller
<1> HIDE DEF n
<1>1. SendLoop(s, e) = z
  BY SendWaits
<1>2. CASE Sends(s, e)
  <2> DEFINE o == IF n > 0 THEN [at |-> s.sendptr, len |-> n] ELSE s.out
  <2>1. send_data(s, e) = [s EXCEPT !.out = o, !.state = "sent"]
    <3>1. CASE n > 0
      <4>1. uip_send(s, s.sendptr, n) = [s EXCEPT !.out = o]
        BY <3>1 DEF uip_send
      <4> QED
        BY <1>2, <4>1 DEF send_data, n, Psocket
    <3>2. CASE ~(n > 0)
      <4>1. uip_send(s, s.sendptr, n) = s
        BY <3>2 DEF uip_send
      <4> QED
        BY <1>2, <3>2, <4>1 DEF send_data, n, Psocket
    <3> QED
      BY <3>1, <3>2
  <2>2. o \in [at: Nat, len: Nat]
    BY <1>0 DEF Psocket
  <2>3. s.sendlen <= e.mss => o = [at |-> s.sendptr, len |-> s.sendlen]
    BY <1>0
  <2> HIDE DEF o
  <2>4. z = [s EXCEPT !.out = o, !.state = "sent", !.waiting = TRUE]
    BY <2>1 DEF Psocket
  <2> HIDE DEF z
  <2>5. z \in Psocket /\ z.out = o /\ z.state = "sent" /\ z.waiting /\ z.sendlen = s.sendlen
    BY <2>2, <2>4 DEF Psocket
  <2>6. SameRead(z, s) /\ z.sendptr = s.sendptr
    BY <2>4 DEF Psocket, SameRead
  <2> QED
    BY <1>1, <1>2, <2>3, <2>5, <2>6 DEF Sending, z
<1>3. CASE ~Sends(s, e)
  <2>1. z = [s EXCEPT !.waiting = TRUE] /\ s.state = "sent"
    BY <1>3 DEF send_data, Sends
  <2> HIDE DEF z
  <2>2. z \in Psocket /\ z.out = s.out /\ z.state = "sent" /\ z.waiting /\ z.sendlen = s.sendlen
    BY <2>1 DEF Psocket
  <2>3. SameRead(z, s) /\ z.sendptr = s.sendptr
    BY <2>1 DEF Psocket, SameRead
  <2> QED
    BY <1>1, <1>3, <2>2, <2>3 DEF Sending, z
<1> QED
  BY <1>2, <1>3

\* A send begins ...
LEMMA SendBegins ==
  ASSUME NEW s \in Psocket, NEW e \in Callback, NEW at \in Nat, NEW n \in Nat, n > 0, Idle(s),
         NEW z \in {psock_send(s, at, n, e), psock_generator_send(s, at, n, e)}
  PROVE  /\ z \in Psocket /\ Sending(z, n) /\ SameRead(z, s) /\ z.sendptr = at
         /\ n <= e.mss => z.out = [at |-> at, len |-> n]
<1> DEFINE t == [s EXCEPT !.sendptr = at, !.sendlen = n, !.state = "none"]
<1>1. z = SendLoop(t, e)
  <2>1. psock_send(s, at, n, e) = SendLoop(t, e)
    BY DEF psock_send, SendSetup, Idle
  <2>2. psock_generator_send(s, at, n, e) = SendLoop(t, e)
    BY DEF psock_generator_send, SendSetup, Idle
  <2> QED
    BY <2>1, <2>2
<1>2. /\ t \in Psocket /\ t.sendlen = n /\ t.sendptr = at /\ t.state = "none"
      /\ t.buf = s.buf /\ t.unread = s.unread
  BY DEF Psocket
<1> HIDE DEF t
<1>3. Sends(t, e) /\ ~IsAcked(t, e)
  BY <1>2 DEF Sends, IsAcked
<1> QED
  BY <1>1, <1>2, <1>3, Sent DEF SameRead

\* ... and goes on until it is acknowledged ...
LEMMA LoopGoesOn ==
  ASSUME NEW s \in Psocket, NEW e \in Callback, NEW n \in Nat, Sending(s, n), e.acked => n <= e.mss,
         NEW w, w = SendLoop(s, e)
  PROVE  /\ w \in Psocket /\ SameRead(w, s)
         /\ e.acked => Idle(w) /\ w.state = "none" /\ w.out = s.out
         /\ ~e.acked => /\ Sending(w, n) /\ w.sendptr = s.sendptr
                        /\ ~e.rexmit => w.out = s.out
                        /\ e.rexmit /\ n <= e.mss => w.out = [at |-> s.sendptr, len |-> n]
<1>1. s.sendlen = n /\ n > 0 /\ s.state = "sent" /\ s.sendptr \in Nat
  BY DEF Psocket, Sending
<1>2. (IsAcked(s, e) <=> e.acked) /\ (Sends(s, e) <=> e.rexmit)
  BY <1>1 DEF IsAcked, Sends, Callback
<1>3. CASE ~e.acked
  BY <1>1, <1>2, <1>3, Sent
<1>4. CASE e.acked
  <2>1. w = [s EXCEPT !.state = "none", !.waiting = FALSE, !.sendlen = 0,
                      !.sendptr = s.sendptr + s.sendlen]
    BY <1>1, <1>2, <1>4, SendAcked
  <2>2. s.sendptr + s.sendlen \in Nat /\ 0 \in Nat
    BY <1>1
  <2>3. w \in Psocket /\ ~w.waiting /\ w.state = "none" /\ w.out = s.out
    BY <2>1, <2>2 DEF Psocket
  <2>4. w.buf = s.buf /\ w.unread = s.unread
    BY <2>1 DEF Psocket
  <2> QED
    BY <1>4, <2>3, <2>4 DEF Idle, SameRead
<1> QED
  BY <1>3, <1>4

\* ... and with the same data unless it is a generator's.
Place(g, at) == IF g THEN 0 ELSE at

LEMMA SendGoesOn ==
  ASSUME NEW s \in Psocket, NEW e \in Callback, NEW at \in Nat, NEW n \in Nat, Sending(s, n),
         s.out = Nothing, NEW g \in BOOLEAN, ~g => s.sendptr = at, e.acked => n <= e.mss,
         NEW z, z = IF g THEN psock_generator_send(s, at, n, e) ELSE psock_send(s, at, n, e)
  PROVE  /\ z \in Psocket /\ SameRead(z, s)
         /\ e.acked => Idle(z) /\ z.state = "none" /\ z.out = s.out
         /\ ~e.acked => /\ Sending(z, n) /\ (~g => z.sendptr = at)
                        /\ ~e.rexmit => z.out = s.out
                        /\ e.rexmit /\ n <= e.mss => z.out = [at |-> Place(g, at), len |-> n]
<1> DEFINE w == SendLoop(s, e)
<1>1. /\ w \in Psocket /\ SameRead(w, s)
      /\ e.acked => Idle(w) /\ w.state = "none" /\ w.out = s.out
      /\ ~e.acked => /\ Sending(w, n) /\ w.sendptr = s.sendptr
                     /\ ~e.rexmit => w.out = s.out
                     /\ e.rexmit /\ n <= e.mss => w.out = [at |-> s.sendptr, len |-> n]
  BY LoopGoesOn
<1>2. CASE ~g
  <2>1. z = w
    BY <1>2 DEF psock_send, SendSetup, Sending
  <2> QED
    BY <1>1, <1>2, <2>1 DEF Place
<1>3. CASE g
  <2>1. z = Unknown(w)
    BY <1>3 DEF psock_generator_send, SendSetup, Sending
  <2> HIDE DEF w
  <2>2. 0 \in Nat /\ w.out.at \in Nat /\ w.out.len \in Nat
    BY <1>1 DEF Psocket
  <2>3. /\ z \in Psocket /\ z.out = [at |-> 0, len |-> w.out.len]
        /\ z.state = w.state /\ z.waiting = w.waiting /\ z.sendlen = w.sendlen
        /\ z.buf = w.buf /\ z.unread = w.unread
    <3> DEFINE o == [at |-> 0, len |-> w.out.len]
    <3>1. o = [w.out EXCEPT !.at = 0] /\ o \in [at: Nat, len: Nat]
      BY <1>1, <2>2 DEF Psocket
    <3>2. z = [w EXCEPT !.sendptr = 0, !.out = o]
      <4>1. z = [w EXCEPT !.sendptr = 0, !.out = [w.out EXCEPT !.at = 0]]
        BY <1>1, <2>1 DEF Unknown, Psocket
      <4> QED
        BY <3>1, <4>1
    <3> HIDE DEF o
    <3>3. /\ z \in Psocket /\ z.out = o
          /\ z.state = w.state /\ z.waiting = w.waiting /\ z.sendlen = w.sendlen
          /\ z.buf = w.buf /\ z.unread = w.unread
      BY <1>1, <2>2, <3>1, <3>2 DEF Psocket
    <3> QED
      BY <3>3 DEF o
  <2>4. w.out = s.out => z.out = s.out
    BY <2>3 DEF Nothing
  <2>5. w.out = [at |-> s.sendptr, len |-> n] => z.out = [at |-> 0, len |-> n]
    BY <2>3
  <2>6. SameRead(z, s)
    BY <1>1, <2>3 DEF SameRead
  <2>7. e.acked => Idle(z) /\ z.state = "none"
    BY <1>1, <2>3 DEF Idle
  <2>8. ~e.acked => Sending(z, n)
    BY <1>1, <2>3 DEF Sending
  <2> QED
    BY <1>1, <1>3, <2>3, <2>4, <2>5, <2>6, <2>7, <2>8 DEF Place
<1> QED
  BY <1>2, <1>3

-----------------------------------------------------------------------------
(* A read of a protosocket: bytes of the peer's stream.                    *)
LEMMA BufBounds == BufSize \in Nat /\ BufSize > 0 /\ EndMarkers \subseteq Nat
  BY PsockAssumption

LEMMA FillType ==
  ASSUME NEW b \in Seq(Nat), NEW data \in Seq(Nat)
  PROVE  /\ Fill(b, data) \in Seq(Nat) /\ Len(Fill(b, data)) <= BufSize
         /\ Len(b) + Len(data) <= BufSize => Fill(b, data) = b \o data
<1> DEFINE c == b \o data
           k == Smaller(BufSize, Len(b) + Len(data))
<1>1. c \in Seq(Nat) /\ Len(c) = Len(b) + Len(data) /\ Len(b) \in Nat /\ Len(data) \in Nat
  BY ConcatProperties, LenProperties
<1>2. k \in Nat /\ k <= Len(c) /\ k <= BufSize /\ (Len(c) <= BufSize => k = Len(c))
  BY <1>1, BufBounds DEF Smaller
<1>3. SubSeq(c, 1, k) \in Seq(Nat) /\ Len(SubSeq(c, 1, k)) = k
  <2> HIDE DEF c, k
  <2>1. 1 \in 1..(Len(c) + 1) /\ k \in 1 - 1..Len(c) /\ (IF 1 <= k THEN k - 1 + 1 ELSE 0) = k
    BY <1>1, <1>2
  <2> QED
    BY <1>1, <2>1, SubSeqProperties
<1>4. k = Len(c) => SubSeq(c, 1, k) = c
  <2> HIDE DEF c, k
  <2> QED
    BY <1>1, <1>2
<1> QED
  BY <1>1, <1>2, <1>3, <1>4 DEF Fill

LEMMA CutType ==
  ASSUME NEW data \in Seq(Nat), NEW k \in 0..Len(data)
  PROVE  /\ SubSeq(data, 1, k) \in Seq(Nat) /\ Len(SubSeq(data, 1, k)) = k
         /\ Rest(data, k) \in Seq(Nat) /\ Len(Rest(data, k)) = Len(data) - k
<1>1. Len(data) \in Nat /\ \A i \in 1..Len(data) : data[i] \in Nat
  BY LenProperties, ElementOfSeq
<1>2. k \in Int /\ Len(data) \in Int /\ 1 \in Int /\ k + 1 \in Int /\ k \in Nat
  BY <1>1
<1>3. SubSeq(data, 1, k) \in Seq(Nat) /\ Len(SubSeq(data, 1, k)) = k
  <2>1. \A i \in 1..k : data[i] \in Nat
    BY <1>1
  <2>2. (IF 1 <= k THEN k - 1 + 1 ELSE 0) = k
    BY <1>2
  <2> QED
    BY <1>2, <2>1, <2>2, SubSeqProperties
<1>4. Rest(data, k) \in Seq(Nat) /\ Len(Rest(data, k)) = Len(data) - k
  <2>1. \A i \in (k + 1)..Len(data) : data[i] \in Nat
    BY <1>1
  <2>2. (IF k + 1 <= Len(data) THEN Len(data) - (k + 1) + 1 ELSE 0) = Len(data) - k
    BY <1>1
  <2> QED
    BY <1>2, <2>1, <2>2, SubSeqProperties DEF Rest
<1> QED
  BY <1>3, <1>4

(* The end of the line is the first marker, if there is one.               *)
LEMMA MarkerIs ==
  ASSUME NEW data \in Seq(Nat)
  PROVE  /\ ToMarker(data) \in 0..Len(data)
         /\ IF FoundMarker(data)
            THEN /\ ToMarker(data) > 0 /\ data[ToMarker(data)] \in EndMarkers
                 /\ \A i \in 1..Len(data) : data[i] \in EndMarkers => ToMarker(data) <= i
            ELSE ToMarker(data) = Len(data)
<1> DEFINE m == {i \in DOMAIN data : data[i] \in EndMarkers}
           c == CHOOSE i \in m : \A j \in m : i <= j
<1>1. DOMAIN data = 1..Len(data) /\ Len(data) \in Nat
  BY LenProperties
<1>2. FoundMarker(data) <=> m # {}
  BY DEF FoundMarker
<1>3. ToMarker(data) = IF m = {} THEN Len(data) ELSE c
  BY DEF ToMarker
<1>4. CASE m = {}
  BY <1>1, <1>2, <1>3, <1>4
<1>5. CASE m # {}
  <2>1. \E i \in m : \A j \in m : i <= j
    <3>1. m \subseteq Nat
      BY <1>1
    <3> HIDE DEF m
    <3> QED
      BY <1>5, <3>1, LeastNumber
  <2>2. c \in m /\ \A j \in m : c <= j
    BY <2>1
  <2>3. ToMarker(data) = c
    BY <1>3, <1>5
  <2>4. FoundMarker(data) /\ c \in 1..Len(data) /\ data[c] \in EndMarkers
    BY <1>1, <1>2, <1>5, <2>2
  <2>5. \A i \in 1..Len(data) : data[i] \in EndMarkers => c <= i
    BY <1>1, <2>2
  <2> HIDE DEF c, m
  <2> QED
    BY <1>1, <2>3, <2>4, <2>5
<1> QED
  BY <1>4, <1>5

Sock(s) == s \in Psocket /\ Len(s.buf) <= BufSize
Reading(s, t) == Sock(s) /\ s.state # "sent" /\ s.out = t.out

LEMMA Consumed ==
  ASSUME NEW s, Sock(s), NEW how
  PROVE  LET k == IF how = "to" THEN ToMarker(s.unread) ELSE ToSize(s)
             z == Consume(s, how)
         IN /\ k \in 0..Len(s.unread)
            /\ Reading(s, s) => Reading(z, s)
            /\ z.buf = Fill(s.buf, SubSeq(s.unread, 1, k)) /\ z.unread = Rest(s.unread, k)
            /\ z.state = s.state /\ z.waiting = s.waiting
<1> DEFINE k == IF how = "to" THEN ToMarker(s.unread) ELSE ToSize(s)
           b == Fill(s.buf, SubSeq(s.unread, 1, k))
           u == Rest(s.unread, k)
           z == Consume(s, how)
<1>1. s \in Psocket /\ s.buf \in Seq(Nat) /\ s.unread \in Seq(Nat) /\ Len(s.buf) <= BufSize
  BY DEF Sock, Psocket
<1>2. k \in 0..Len(s.unread)
  <2>1. Len(s.unread) \in Nat /\ Len(s.buf) \in Nat
    BY <1>1, LenProperties
  <2>2. ToMarker(s.unread) \in 0..Len(s.unread)
    BY <1>1, MarkerIs
  <2>3. ToSize(s) \in 0..Len(s.unread)
    BY <1>1, <2>1, BufBounds DEF ToSize, Smaller
  <2> QED
    BY <2>2, <2>3
<1>3. z = [s EXCEPT !.buf = b, !.unread = u]
  BY DEF Consume
<1> HIDE DEF k
<1>4. b \in Seq(Nat) /\ Len(b) <= BufSize /\ u \in Seq(Nat)
  BY <1>1, <1>2, CutType, FillType
<1> HIDE DEF b, u, z
<1>5. /\ z \in Psocket /\ z.buf = b /\ z.unread = u /\ z.state = s.state /\ z.waiting = s.waiting
      /\ z.out = s.out
  BY <1>1, <1>3, <1>4 DEF Psocket
<1> QED
  BY <1>2, <1>4, <1>5 DEF Reading, Sock, k, b, u, z

\* Looking for new data.
LEMMA GotType ==
  ASSUME NEW s, NEW t, Reading(s, t), NEW e \in Callback
  PROVE  LET z == Got(s, e)
         IN /\ Reading(z, t)
            /\ z.buf = s.buf
            /\ HasNew(s, e) => z.unread = e.data /\ z.state = "read" /\ z.waiting = s.waiting
            /\ ~HasNew(s, e) => z.unread = s.unread
            /\ s.unread = <<>> /\ ~HasNew(s, e) => z.waiting /\ z.state # "read"
<1> DEFINE z == Got(s, e)
<1>1. s \in Psocket /\ Len(s.buf) <= BufSize /\ s.state # "sent" /\ s.out = t.out
  BY DEF Reading, Sock
<1>2. CASE s.unread # <<>>
  BY <1>2 DEF Got, HasNew
<1>3. CASE s.unread = <<>> /\ HasNew(s, e)
  <2>1. z = [s EXCEPT !.state = "read", !.unread = e.data] /\ e.data \in Seq(Nat)
    BY <1>3 DEF Got, psock_newdata, Callback
  <2> HIDE DEF z
  <2>2. /\ z \in Psocket /\ z.buf = s.buf /\ z.unread = e.data /\ z.state = "read"
        /\ z.waiting = s.waiting /\ z.out = s.out
    BY <1>1, <2>1 DEF Psocket
  <2> QED
    BY <1>1, <1>3, <2>2 DEF Reading, Sock, z
<1>4. CASE s.unread = <<>> /\ ~HasNew(s, e)
  <2> DEFINE st == IF s.state = "read" THEN "blocked" ELSE s.state
  <2>1. z = [s EXCEPT !.state = st, !.waiting = TRUE]
    BY <1>4 DEF Got, psock_newdata
  <2>2. st \in {"none", "acked", "blocked"}
    BY <1>1 DEF Psocket
  <2> HIDE DEF z, st
  <2>3. /\ z \in Psocket /\ z.buf = s.buf /\ z.unread = s.unread /\ z.state = st
        /\ z.waiting /\ z.out = s.out
    BY <1>1, <2>1, <2>2 DEF Psocket
  <2> QED
    BY <1>1, <1>4, <2>2, <2>3 DEF Reading, Sock, z
<1> QED
  BY <1>2, <1>3, <1>4

LEMMA MoreType ==
  ASSUME NEW s, NEW t, Reading(s, t), NEW e \in Callback, NEW how
  PROVE  Reading(More(s, how, e), t)
<1>1. Reading(s, s)
  BY DEF Reading
<1>2. Sock(s) /\ s.out = t.out
  BY DEF Reading
<1>3. Reading(Consume(s, how), s)
  BY <1>1, <1>2, Consumed
<1>4. Reading(Consume(s, how), t)
  BY <1>2, <1>3 DEF Reading
<1>5. Reading(Got(Consume(s, how), e), t)
  BY <1>4, GotType
<1> QED
  BY <1>5 DEF More

\* A read returns or waits for new data, with nothing unread.
LEMMA ReadType ==
  ASSUME NEW s, Sock(s), s.state # "sent", NEW e \in Callback, NEW how
  PROVE  LET z == psock_read(s, how, e)
         IN /\ Reading(z, s)
            /\ z.waiting => z.unread = <<>>
            /\ s.unread = <<>> /\ ~e.newdata => z.waiting
<1> DEFINE t == ReadSetup(s)
           g == Got(t, e)
           y == More(More(g, how, e), how, e)
           z == psock_read(s, how, e)
<1>1. Reading(t, s) /\ t.unread = s.unread
  <2>1. CASE s.waiting
    BY <2>1 DEF Reading, ReadSetup
  <2>2. CASE ~s.waiting
    <3>1. t = [s EXCEPT !.buf = <<>>]
      BY <2>2 DEF ReadSetup
    <3>2. <<>> \in Seq(Nat) /\ Len(<<>>) <= BufSize
      BY EmptySeq, BufBounds
    <3> HIDE DEF t
    <3>3. t \in Psocket /\ t.buf = <<>> /\ t.state = s.state /\ t.unread = s.unread /\ t.out = s.out
      BY <3>1, <3>2 DEF Sock, Psocket
    <3> QED
      BY <3>2, <3>3 DEF Reading, Sock
  <2> QED
    BY <2>1, <2>2
<1> HIDE DEF t
<1>2. Reading(g, s) /\ (s.unread = <<>> /\ ~e.newdata => g.unread = <<>>)
  BY <1>1, GotType DEF HasNew
<1> HIDE DEF g
<1>3. Reading(y, s)
  BY <1>2, MoreType
<1>4. g.unread = <<>> => y = g
  BY DEF More
<1> HIDE DEF y
<1>5. z = IF y.unread = <<>> THEN [y EXCEPT !.waiting = TRUE]
          ELSE [Consume(y, how) EXCEPT !.waiting = FALSE]
  BY DEF psock_read, ReadLoop, y, g, t
<1> HIDE DEF z
<1>6. CASE y.unread = <<>>
  <2>1. /\ z \in Psocket /\ z.buf = y.buf /\ z.unread = y.unread /\ z.state = y.state
        /\ z.waiting /\ z.out = y.out
    BY <1>3, <1>5, <1>6 DEF Reading, Sock, Psocket
  <2> QED
    BY <1>3, <1>6, <2>1 DEF Reading, Sock, z
<1>7. CASE y.unread # <<>>
  <2> DEFINE c == Consume(y, how)
  <2>1. Reading(c, s)
    <3>1. Sock(y) /\ Reading(y, y) /\ y.out = s.out
      BY <1>3 DEF Reading
    <3>2. Reading(c, y)
      BY <3>1, Consumed
    <3> QED
      BY <3>1, <3>2 DEF Reading
  <2>2. z = [c EXCEPT !.waiting = FALSE]
    BY <1>5, <1>7
  <2> HIDE DEF c
  <2>3. /\ z \in Psocket /\ z.buf = c.buf /\ z.state = c.state
        /\ ~z.waiting /\ z.out = c.out
    BY <2>1, <2>2 DEF Reading, Sock, Psocket
  <2> QED
    BY <1>2, <1>4, <1>7, <2>1, <2>3 DEF Reading, Sock, z
<1> QED
  BY <1>6, <1>7

-----------------------------------------------------------------------------
(* The script.  A size m fits if whatever an operation sends fits in it.   *)
Fits(m) == m \in Nat /\ BufSize <= m /\ \A s \in Scripts : \A i \in DOMAIN s : s[i].len <= m
Suits(e) == e \in Callback /\ (e.acked => Fits(e.mss))

App == [script: Scripts, pc: Nat, psock: Psocket, close: BOOLEAN]
AppOK(a) == a \in App /\ Sock(a.psock)
OpSize(a) == Size(Op(a), NameLen(a))

\* Where a callback leaves the application: in an operation that waits ...
WaitsAt(a) ==
  /\ a.pc \in 1..Len(a.script) /\ a.psock.waiting
  /\ IsSend(Op(a)) => /\ Sending(a.psock, OpSize(a))
                      /\ Op(a).op # "generator" => a.psock.sendptr = Before(a, a.pc) + 1
  /\ ~IsSend(Op(a)) => a.psock.state # "sent" /\ a.psock.unread = <<>>

\* ... with g bytes acknowledged, and the bytes of a send on their way.
Passed(a, n, g) == /\ AppOK(a) /\ a.pc = n /\ Idle(a.psock) /\ a.psock.out = Nothing
                   /\ Before(a, n) = g
Stuck(a, n, g, e) ==
  /\ AppOK(a) /\ a.pc = n /\ WaitsAt(a) /\ Before(a, n) = g
  /\ IsSend(Op(a)) /\ Fits(e.mss) => a.psock.out = [at |-> g + 1, len |-> OpSize(a)]
  /\ ~IsSend(Op(a)) => a.psock.out = Nothing
Again(a, n, g, e) ==
  /\ AppOK(a) /\ a.pc = n /\ WaitsAt(a) /\ Before(a, n) = g
  /\ IsSend(Op(a)) /\ Fits(e.mss) =>
       a.psock.out = [at |-> Place(Op(a).op = "generator", g + 1), len |-> OpSize(a)]
Still(a, n, g) == /\ AppOK(a) /\ a.pc = n /\ WaitsAt(a) /\ Before(a, n) = g
                  /\ a.psock.out = Nothing

OpStep(a, e, n) ==
  [a EXCEPT !.psock = Do(a, e), !.pc = IF Do(a, e).waiting THEN n ELSE n + 1]

LEMMA AppFacts ==
  ASSUME NEW a, AppOK(a)
  PROVE  /\ a.script \in Scripts /\ a.pc \in Nat /\ a.psock \in Psocket /\ a.close \in BOOLEAN
         /\ NameLen(a) \in Nat /\ NameLen(a) <= BufSize /\ Len(a.script) \in Nat
<1>1. a.script \in Scripts /\ a.pc \in Nat /\ a.psock \in Psocket /\ a.close \in BOOLEAN
  BY DEF AppOK, App
<1>2. a.psock.buf \in Seq(Nat)
  BY <1>1 DEF Psocket
<1>3. NameLen(a) \in Nat /\ NameLen(a) <= BufSize
  BY <1>2, LenProperties DEF AppOK, Sock, NameLen
<1> QED
  BY <1>1, <1>3, ScriptFacts

LEMMA OpFacts ==
  ASSUME NEW a, AppOK(a), a.pc \in 1..Len(a.script)
  PROVE  /\ Op(a).op \in {"send", "generator", "sendname", "readto", "readbuf"}
         /\ OpSize(a) \in Nat /\ (Op(a).op = "generator" => OpSize(a) > 0)
         /\ ~IsSend(Op(a)) => OpSize(a) = 0
         /\ \A m : Fits(m) => OpSize(a) <= m
         /\ Before(a, a.pc) \in Nat
         /\ Before(a, a.pc + 1) = Before(a, a.pc) + OpSize(a)
<1>1. /\ a.script \in Scripts /\ NameLen(a) \in Nat /\ NameLen(a) <= BufSize
      /\ Len(a.script) \in Nat /\ a.pc \in Nat /\ a.pc > 0
  BY AppFacts
<1>2. /\ Op(a).op \in {"send", "generator", "sendname", "readto", "readbuf"}
      /\ Op(a).len \in Nat /\ (Op(a).op = "generator" => Op(a).len > 0)
      /\ OpSize(a) \in Nat
  BY <1>1, ScriptFacts DEF Op, OpSize
<1>3. /\ Op(a).op = "generator" => OpSize(a) > 0
      /\ ~IsSend(Op(a)) => OpSize(a) = 0
  BY <1>2 DEF OpSize, Size, IsSend
<1>4. ASSUME NEW m, Fits(m) PROVE OpSize(a) <= m
  <2>1. a.pc \in DOMAIN a.script
    <3>1. \A s \in Scripts : DOMAIN s = 1..Len(s)
      BY ScriptAssumption, LenProperties
    <3> QED
      BY <1>1, <3>1
  <2>2. Op(a).len <= m /\ BufSize <= m /\ m \in Nat
    BY <1>1, <1>4, <2>1 DEF Fits, Op
  <2> QED
    BY <1>1, <1>2, <2>2, BufBounds DEF OpSize, Size
<1>5. Before(a, a.pc) \in Nat
  BY <1>1, BytesType DEF Before
<1>6. Before(a, a.pc + 1) = Before(a, a.pc) + OpSize(a)
  BY <1>1, BytesNext DEF Before, Op, OpSize
<1> QED
  BY <1>2, <1>3, <1>4, <1>5, <1>6

LEMMA StepFields ==
  ASSUME NEW a, AppOK(a), NEW e, NEW n \in Nat, NEW s, s = Do(a, e), Sock(s)
  PROVE  LET y == OpStep(a, e, n)
         IN /\ AppOK(y) /\ y.script = a.script /\ y.close = a.close /\ y.psock = s
            /\ y.pc = IF s.waiting THEN n ELSE n + 1
<1> DEFINE y == OpStep(a, e, n)
           k == IF s.waiting THEN n ELSE n + 1
<1>1. y = [a EXCEPT !.psock = s, !.pc = k]
  BY DEF OpStep
<1>2. k \in Nat
  OBVIOUS
<1> HIDE DEF k, y
<1>3. /\ y \in App /\ y.script = a.script /\ y.close = a.close /\ y.psock = s /\ y.pc = k
  BY <1>1, <1>2 DEF AppOK, App, Sock
<1> QED
  BY <1>3 DEF AppOK, k, y

\* No name is sent up to a read, so that what it reads does not matter.
LEMMA ReadCounts ==
  ASSUME NEW a, AppOK(a), a.pc \in 1..Len(a.script), ~IsSend(Op(a)),
         NEW y, AppOK(y), y.script = a.script
  PROVE  Before(y, a.pc) = Before(a, a.pc) /\ Before(y, a.pc + 1) = Before(a, a.pc)
<1> DEFINE n == a.pc
<1>1. a.script \in Scripts /\ NameLen(a) \in Nat /\ NameLen(y) \in Nat /\ Len(a.script) \in Nat /\ n \in Nat
  BY AppFacts
<1>2. \A i \in 1..n : a.script[i].op # "sendname"
  <2>1. ASSUME NEW i \in 1..n PROVE i \in 1..Len(a.script) /\ ~(n < i)
    BY <1>1
  <2>2. ~IsSend(a.script[n])
    BY DEF Op
  <2> QED
    BY <1>1, <2>1, <2>2, ScriptFacts
<1>3. /\ n \in 1..(Len(a.script) + 1) /\ n + 1 \in 1..(Len(a.script) + 1)
      /\ (n + 1) - 1 = n /\ \A i \in 1..(n - 1) : i \in 1..n
  BY <1>1
<1>4. /\ \A i \in 1..(n - 1) : a.script[i].op # "sendname"
      /\ \A i \in 1..((n + 1) - 1) : a.script[i].op # "sendname"
  BY <1>2, <1>3
<1>5. /\ Bytes(a.script, NameLen(y), n) = Bytes(a.script, NameLen(a), n)
      /\ Bytes(a.script, NameLen(y), n + 1) = Bytes(a.script, NameLen(a), n + 1)
  <2> HIDE DEF n
  <2> QED
    BY <1>1, <1>3, <1>4, BytesNameless
<1>6. Before(a, n + 1) = Before(a, n)
  <2>1. Before(a, n + 1) = Before(a, n) + OpSize(a) /\ OpSize(a) = 0 /\ Before(a, n) \in Nat
    BY OpFacts
  <2> QED
    BY <2>1
<1> QED
  BY <1>5, <1>6 DEF Before

\* The operation of a script, and which function of psock.c it is.
Way(a) == IF Op(a).op = "readto" THEN "to" ELSE "buf"

LEMMA DoIs ==
  ASSUME NEW a, AppOK(a), a.pc \in 1..Len(a.script), NEW e
  PROVE  LET at == Before(a, a.pc) + 1
         IN IF IsSend(Op(a))
            THEN Do(a, e) = IF Op(a).op = "generator"
                            THEN psock_generator_send(a.psock, at, OpSize(a), e)
                            ELSE psock_send(a.psock, at, OpSize(a), e)
            ELSE Do(a, e) = psock_read(a.psock, Way(a), e)
<1> DEFINE at == Before(a, a.pc) + 1
<1>1. Op(a).op \in {"send", "generator", "sendname", "readto", "readbuf"}
  BY OpFacts
<1>2. Op(a).op = "generator" => OpSize(a) = Op(a).len
  BY DEF OpSize, Size, IsSend
<1>3. CASE IsSend(Op(a))
  <2>1. CASE Op(a).op = "generator"
    BY <1>2, <1>3, <2>1 DEF Do
  <2>2. CASE Op(a).op # "generator"
    <3>1. Op(a).op \notin {"generator", "readto", "readbuf"}
      BY <1>3, <2>2 DEF IsSend
    <3>2. Do(a, e) = psock_send(a.psock, at, OpSize(a), e)
      <4> DEFINE g == psock_generator_send(a.psock, at, Op(a).len, e)
                 r == psock_read(a.psock, IF Op(a).op = "readto" THEN "to" ELSE "buf", e)
                 t == psock_send(a.psock, at, OpSize(a), e)
      <4>1. Do(a, e) = CASE Op(a).op = "generator" -> g
                         [] Op(a).op \in {"readto", "readbuf"} -> r
                         [] OTHER -> t
        BY DEF Do, OpSize
      <4> HIDE DEF g, r, t
      <4>2. Do(a, e) = t
        BY <3>1, <4>1
      <4> QED
        BY <4>2 DEF t
    <3> QED
      BY <1>3, <2>2, <3>2
  <2> QED
    BY <2>1, <2>2
<1>4. CASE ~IsSend(Op(a))
  <2>1. Op(a).op \in {"readto", "readbuf"}
    BY <1>1, <1>4 DEF IsSend
  <2>2. Do(a, e) = psock_read(a.psock, IF Op(a).op = "readto" THEN "to" ELSE "buf", e)
    <3> DEFINE g == psock_generator_send(a.psock, at, Op(a).len, e)
               r == psock_read(a.psock, IF Op(a).op = "readto" THEN "to" ELSE "buf", e)
               t == psock_send(a.psock, at, OpSize(a), e)
    <3>1. Do(a, e) = CASE Op(a).op = "generator" -> g
                       [] Op(a).op \in {"readto", "readbuf"} -> r
                       [] OTHER -> t
      BY DEF Do, OpSize
    <3> HIDE DEF g, r, t
    <3>2. Do(a, e) = r
      BY <2>1, <3>1
    <3> QED
      BY <3>2 DEF r
  <2> QED
    BY <1>4, <2>2 DEF Way
<1> QED
  BY <1>3, <1>4

\* An operation that keeps the buffer keeps the count.
LEMMA SameBuf ==
  ASSUME NEW a, NEW y, y.script = a.script, y.psock.buf = a.psock.buf
  PROVE  /\ \A n : Before(y, n) = Before(a, n)
         /\ y.pc = a.pc => Op(y) = Op(a) /\ OpSize(y) = OpSize(a)
  BY DEF Before, NameLen, Op, OpSize

\* What a read leaves, from whatever it was in.
LEMMA ReadStep ==
  ASSUME NEW a, AppOK(a), a.pc \in 1..Len(a.script), ~IsSend(Op(a)), a.psock.state # "sent",
         a.psock.out = Nothing, NEW e, Suits(e), NEW g, Before(a, a.pc) = g
  PROVE  LET y == OpStep(a, e, a.pc)
         IN /\ y.script = a.script /\ y.close = a.close
            /\ Passed(y, a.pc + 1, g) \/ Stuck(y, a.pc, g, e)
            /\ a.psock.unread = <<>> /\ ~e.newdata => Stuck(y, a.pc, g, e)
<1> DEFINE s == Do(a, e)
           y == OpStep(a, e, a.pc)
           n == a.pc
<1>0. n \in Nat /\ n # n + 1 /\ Sock(a.psock) /\ e \in Callback
  BY AppFacts DEF AppOK, Suits
<1>1. /\ Sock(s) /\ s.state # "sent" /\ s.out = Nothing /\ (s.waiting => s.unread = <<>>)
      /\ a.psock.unread = <<>> /\ ~e.newdata => s.waiting
  <2> DEFINE how == Way(a)
  <2>1. s = psock_read(a.psock, how, e)
    BY DoIs
  <2> HIDE DEF s, how
  <2> QED
    BY <1>0, <2>1, ReadType DEF Reading
<1>2. /\ AppOK(y) /\ y.script = a.script /\ y.close = a.close /\ y.psock = s
      /\ y.pc = IF s.waiting THEN n ELSE n + 1
  BY <1>0, <1>1, StepFields
<1> HIDE DEF y, s
<1>3. Before(y, n) = g /\ Before(y, n + 1) = g
  BY <1>2, ReadCounts
<1>4. CASE s.waiting
  <2>1. Op(y) = Op(a) /\ y.pc = n
    BY <1>2, <1>4 DEF Op
  <2>2. WaitsAt(y)
    BY <1>1, <1>2, <1>4, <2>1 DEF WaitsAt
  <2> QED
    BY <1>1, <1>2, <1>3, <1>4, <2>1, <2>2 DEF Stuck, y
<1>5. CASE ~s.waiting
  BY <1>1, <1>2, <1>3, <1>5 DEF Passed, Idle, y
<1> QED
  BY <1>4, <1>5

\* An operation that begins returns at once or waits with its bytes sent.
LEMMA IdleStep ==
  ASSUME NEW a, NEW n, NEW g, Passed(a, n, g), n \in 1..Len(a.script), NEW e, Suits(e)
  PROVE  LET y == OpStep(a, e, n)
         IN /\ y.script = a.script /\ y.close = a.close
            /\ Passed(y, n + 1, g) \/ Stuck(y, n, g, e)
<1> DEFINE s == Do(a, e)
           y == OpStep(a, e, n)
           k == OpSize(a)
           at == Before(a, n) + 1
<1>0. /\ AppOK(a) /\ a.pc = n /\ Idle(a.psock) /\ a.psock.out = Nothing /\ Before(a, n) = g
      /\ n \in Nat /\ n # n + 1 /\ Sock(a.psock) /\ a.psock \in Psocket /\ e \in Callback
  BY AppFacts DEF Passed, AppOK, Suits
<1>1. /\ k \in Nat /\ (Op(a).op = "generator" => k > 0) /\ g \in Nat /\ at \in Nat
      /\ \A m : Fits(m) => k <= m
      /\ Before(a, n + 1) = g + k
  BY <1>0, OpFacts
<1>2. CASE ~IsSend(Op(a))
  <2>1. a.psock.state # "sent"
    BY <1>0 DEF Idle
  <2> QED
    BY <1>0, <1>2, <2>1, ReadStep
<1>3. CASE IsSend(Op(a)) /\ k = 0
  <2>1. s = a.psock
    <3>1. s = psock_send(a.psock, at, k, e)
      BY <1>0, <1>1, <1>3, DoIs
    <3> HIDE DEF s, k, at
    <3> QED
      BY <1>0, <1>3, <3>1 DEF psock_send, Idle
  <2>2. /\ AppOK(y) /\ y.script = a.script /\ y.close = a.close /\ y.psock = a.psock
        /\ y.pc = n + 1
    <3>1. ~s.waiting
      BY <1>0, <2>1 DEF Idle
    <3> QED
      BY <1>0, <2>1, <3>1, StepFields
  <2> HIDE DEF y, s, k
  <2>3. Before(y, n + 1) = g
    <3>1. y.psock.buf = a.psock.buf
      BY <2>2
    <3>2. Before(y, n + 1) = Before(a, n + 1)
      BY <2>2, <3>1, SameBuf
    <3> QED
      BY <1>1, <1>3, <3>2
  <2> QED
    BY <1>0, <2>2, <2>3 DEF Passed, y
<1>4. CASE IsSend(Op(a)) /\ k > 0
  <2>1. s \in {psock_send(a.psock, at, k, e), psock_generator_send(a.psock, at, k, e)}
    BY <1>0, <1>4, DoIs
  <2> HIDE DEF s
  <2>2. /\ s \in Psocket /\ Sending(s, k) /\ SameRead(s, a.psock) /\ s.sendptr = at
        /\ k <= e.mss => s.out = [at |-> at, len |-> k]
    <3> HIDE DEF k, at
    <3> QED
      BY <1>0, <1>1, <1>4, <2>1, SendBegins
  <2>3. Sock(s) /\ s.waiting /\ s.buf = a.psock.buf
    BY <1>0, <2>2 DEF Sock, SameRead, Sending
  <2>4. /\ AppOK(y) /\ y.script = a.script /\ y.close = a.close /\ y.psock = s
        /\ y.pc = n
    BY <1>0, <2>3, StepFields DEF s
  <2> HIDE DEF y
  <2>5. Before(y, n) = g /\ Op(y) = Op(a) /\ OpSize(y) = k
    BY <1>0, <2>3, <2>4, SameBuf
  <2>6. WaitsAt(y)
    BY <1>0, <1>4, <2>2, <2>3, <2>4, <2>5 DEF WaitsAt
  <2>7. Fits(e.mss) => y.psock.out = [at |-> g + 1, len |-> OpSize(y)]
    <3>1. Fits(e.mss) => k <= e.mss
      BY <1>1
    <3> HIDE DEF k
    <3> QED
      BY <1>0, <2>2, <2>4, <2>5, <3>1
  <2> QED
    BY <1>4, <2>4, <2>5, <2>6, <2>7 DEF Stuck, y
<1>5. k = 0 \/ k > 0
  BY <1>1
<1> QED
  BY <1>2, <1>3, <1>4, <1>5

\* An operation that waits goes on only with what it waits for.
LEMMA WaitStep ==
  ASSUME NEW a, AppOK(a), WaitsAt(a), a.psock.out = Nothing, NEW e, Suits(e), NEW n, n = a.pc,
         NEW g, Before(a, n) = g
  PROVE  LET y == OpStep(a, e, n)
         IN /\ y.script = a.script /\ y.close = a.close
            /\ IsSend(Op(a)) =>
                 /\ y.psock.buf = a.psock.buf
                 /\ e.acked => Passed(y, n + 1, g + OpSize(a))
                 /\ ~e.acked /\ e.rexmit => Again(y, n, g, e)
                 /\ ~e.acked /\ ~e.rexmit => Still(y, n, g)
            /\ ~IsSend(Op(a)) => /\ Passed(y, n + 1, g) \/ Stuck(y, n, g, e)
                                 /\ ~e.newdata => Stuck(y, n, g, e)
<1> DEFINE s == Do(a, e)
           y == OpStep(a, e, n)
           k == OpSize(a)
           at == Before(a, n) + 1
<1>0. /\ n \in Nat /\ n # n + 1 /\ n \in 1..Len(a.script) /\ Sock(a.psock) /\ a.psock \in Psocket
      /\ e \in Callback
  BY AppFacts DEF AppOK, Suits, WaitsAt
<1>1. /\ k \in Nat /\ g \in Nat /\ at \in Nat /\ at = g + 1
      /\ \A m : Fits(m) => k <= m
      /\ Before(a, n + 1) = g + k
  BY <1>0, OpFacts
<1>2. CASE ~IsSend(Op(a))
  <2>1. a.psock.state # "sent" /\ a.psock.unread = <<>>
    BY <1>2 DEF WaitsAt
  <2> QED
    BY <1>0, <1>2, <2>1, ReadStep
<1>3. CASE IsSend(Op(a))
  <2> DEFINE gen == Op(a).op = "generator"
  <2>1. s = IF gen THEN psock_generator_send(a.psock, at, k, e) ELSE psock_send(a.psock, at, k, e)
    BY <1>0, <1>3, DoIs
  <2>2. Sending(a.psock, k) /\ (~gen => a.psock.sendptr = at) /\ gen \in BOOLEAN
    BY <1>3 DEF WaitsAt
  <2>3. e.acked => k <= e.mss
    BY <1>1 DEF Suits
  <2> HIDE DEF s, gen
  <2>4. /\ s \in Psocket /\ SameRead(s, a.psock)
        /\ e.acked => Idle(s) /\ s.out = a.psock.out
        /\ ~e.acked => /\ Sending(s, k) /\ (~gen => s.sendptr = at)
                       /\ ~e.rexmit => s.out = a.psock.out
                       /\ e.rexmit /\ k <= e.mss => s.out = [at |-> Place(gen, at), len |-> k]
    <3> HIDE DEF k, at
    <3> QED
      BY <1>0, <1>1, <2>1, <2>2, <2>3, SendGoesOn
  <2>5. Sock(s) /\ s.buf = a.psock.buf
    BY <1>0, <2>4 DEF Sock, SameRead
  <2>6. /\ AppOK(y) /\ y.script = a.script /\ y.close = a.close /\ y.psock = s
        /\ y.pc = IF s.waiting THEN n ELSE n + 1
    BY <1>0, <2>5, StepFields DEF s
  <2> HIDE DEF y
  <2>7. Before(y, n) = g /\ Before(y, n + 1) = g + k
    <3>1. y.psock.buf = a.psock.buf
      BY <2>5, <2>6
    <3>2. Before(y, n + 1) = Before(a, n + 1) /\ Before(y, n) = Before(a, n)
      BY <2>6, <3>1, SameBuf
    <3> QED
      BY <1>1, <3>2
  <2>8. e.acked => Passed(y, n + 1, g + k)
    <3>1. e.acked => ~s.waiting /\ Idle(s) /\ s.out = Nothing
      BY <2>4 DEF Idle
    <3> QED
      BY <2>6, <2>7, <3>1 DEF Passed
  <2>9. ASSUME ~e.acked
        PROVE  AppOK(y) /\ y.pc = n /\ WaitsAt(y) /\ Op(y) = Op(a) /\ OpSize(y) = k
    <3>1. s.waiting /\ y.pc = n /\ y.psock = s
      BY <2>4, <2>6, <2>9 DEF Sending
    <3>2. Op(y) = Op(a) /\ OpSize(y) = k
      BY <2>5, <2>6, <3>1, SameBuf
    <3>3. Sending(s, k) /\ (Op(a).op # "generator" => s.sendptr = Before(y, n) + 1)
      <4>1. Before(y, n) + 1 = at
        BY <1>1, <2>7
      <4> QED
        BY <2>4, <2>9, <4>1 DEF gen
    <3>4. WaitsAt(y)
      BY <1>0, <1>3, <2>6, <3>1, <3>2, <3>3 DEF WaitsAt
    <3> QED
      BY <2>6, <3>1, <3>2, <3>4
  <2>10. ~e.acked /\ e.rexmit => Again(y, n, g, e)
    <3>1. ASSUME ~e.acked, e.rexmit, Fits(e.mss)
          PROVE  y.psock.out = [at |-> Place(Op(y).op = "generator", g + 1), len |-> OpSize(y)]
      <4>1. k <= e.mss
        BY <1>1, <3>1
      <4>2. s.out = [at |-> Place(gen, at), len |-> k]
        BY <2>4, <3>1, <4>1
      <4>3. OpSize(y) = k /\ y.psock = s /\ (Op(y).op = "generator" <=> gen)
        BY <2>6, <2>9, <3>1 DEF gen
      <4> QED
        BY <1>1, <4>2, <4>3 DEF Place
    <3> QED
      BY <1>3, <2>7, <2>9, <3>1 DEF Again
  <2>11. ~e.acked /\ ~e.rexmit => Still(y, n, g)
    BY <2>4, <2>6, <2>7, <2>9 DEF Still
  <2>12. y.psock.buf = a.psock.buf
    BY <2>5, <2>6
  <2> QED
    BY <1>3, <2>6, <2>8, <2>10, <2>11, <2>12 DEF y
<1> QED
  BY <1>2, <1>3

-----------------------------------------------------------------------------
(* One call of handle_connection(): as many operations as do not wait.     *)
RunStep(b, e, n) == IF b.pc < n THEN b ELSE OpStep(b, e, n)
RunsTo(f, a, e, k) ==
  f = [n \in (a.pc - 1)..k |-> IF n = a.pc - 1 THEN a ELSE RunStep(f[n - 1], e, n)]

LEMMA RunExists ==
  ASSUME NEW a, a.pc \in Nat, NEW k \in Nat, a.pc <= k + 1, a.pc > 0, NEW e
  PROVE  \E f : RunsTo(f, a, e, k)
<1> DEFINE o == a.pc - 1
           P == {j \in Nat : \E f : RunsTo(f, a, e, j)}
<1>0. o \in Nat /\ o <= k
  OBVIOUS
<1>1. o \in P
  <2> DEFINE f == [n \in o..o |-> a]
  <2>1. f = [n \in o..o |-> IF n = o THEN a ELSE RunStep(f[n - 1], e, n)]
    BY <1>0
  <2> HIDE DEF f
  <2> QED
    BY <1>0, <2>1 DEF RunsTo
<1>2. ASSUME NEW j \in o..(k - 1), j \in P
      PROVE  j + 1 \in P
  <2>1. PICK f : RunsTo(f, a, e, j)
    BY <1>2
  <2> HIDE DEF o
  <2> DEFINE h == [n \in o..(j + 1) |-> IF n = j + 1 THEN RunStep(f[j], e, n) ELSE f[n]]
  <2>2. ASSUME NEW n \in o..(j + 1)
        PROVE  h[n] = IF n = o THEN a ELSE RunStep(h[n - 1], e, n)
    <3>1. CASE n = o
      <4>1. n # j + 1 /\ n \in o..j /\ o \in o..j
        BY <1>0, <3>1
      <4>2. h[n] = f[n]
        BY <4>1
      <4>3. f[n] = a
        BY <2>1, <3>1, <4>1 DEF RunsTo, o
      <4> QED
        BY <3>1, <4>2, <4>3
    <3>2. CASE n = j + 1
      <4>1. j \in o..(j + 1) /\ j # j + 1 /\ n - 1 = j /\ n # o
        BY <1>0, <3>2
      <4>2. h[j] = f[j] /\ h[n] = RunStep(f[j], e, n)
        BY <3>2, <4>1
      <4> HIDE DEF h
      <4> QED
        BY <4>1, <4>2
    <3>3. CASE n # o /\ n # j + 1
      <4>1. n \in o..j /\ n - 1 \in o..(j + 1) /\ n - 1 # j + 1
        BY <1>0, <3>3
      <4>2. h[n] = f[n] /\ h[n - 1] = f[n - 1]
        BY <3>3, <4>1
      <4>3. f[n] = RunStep(f[n - 1], e, n)
        BY <2>1, <3>3, <4>1 DEF RunsTo, o
      <4> HIDE DEF h
      <4> QED
        BY <3>3, <4>2, <4>3
    <3> QED
      BY <3>1, <3>2, <3>3
  <2>3. h = [n \in o..(j + 1) |-> h[n]]
    OBVIOUS
  <2> HIDE DEF h
  <2>4. RunsTo(h, a, e, j + 1)
    BY <2>2, <2>3 DEF RunsTo, o
  <2>5. j + 1 \in Nat
    BY <1>0
  <2> QED
    BY <2>4, <2>5
<1> HIDE DEF P
<1>3. k \in P
  <2>1. \A j \in o..k : j \in P
    BY <1>0, <1>1, <1>2, FromTo
  <2> QED
    BY <1>0, <2>1
<1> QED
  BY <1>3 DEF P

LEMMA HandleIs ==
  ASSUME NEW a, AppOK(a), a.pc \in 1..(Len(a.script) + 1), NEW e
  PROVE  \E f : /\ RunsTo(f, a, e, Len(a.script))
                /\ handle_connection(a, e) =
                     IF f[Len(a.script)].pc > Len(a.script)
                     THEN [f[Len(a.script)] EXCEPT !.close = TRUE, !.pc = 1]
                     ELSE f[Len(a.script)]
<1> DEFINE T(h) == RunsTo(h, a, e, Len(a.script))
           f == CHOOSE h : T(h)
<1>1. T(f)
  <2>1. a.pc \in Nat /\ Len(a.script) \in Nat /\ a.pc <= Len(a.script) + 1 /\ a.pc > 0
    BY AppFacts
  <2>2. \E h : T(h)
    BY <2>1, RunExists
  <2> QED
    BY <2>2
<1>2. handle_connection(a, e) = IF f[Len(a.script)].pc > Len(a.script)
                                THEN [f[Len(a.script)] EXCEPT !.close = TRUE, !.pc = 1]
                                ELSE f[Len(a.script)]
  BY DEF handle_connection, RunsTo, RunStep, OpStep
<1> HIDE DEF f
<1> QED
  BY <1>1, <1>2

Runs(b, n, g, e) == Passed(b, n + 1, g) \/ \E j \in 1..n : Stuck(b, j, g, e)

RunFrom(f, a, e, g, m) ==
  /\ RunsTo(f, a, e, Len(a.script)) /\ m \in (a.pc - 1)..Len(a.script)
  /\ Runs(f[m], m, g, e) /\ f[m].script = a.script /\ f[m].close = a.close

LEMMA RunEach ==
  ASSUME NEW a, AppOK(a), a.pc > 0, NEW e, Suits(e), NEW f, NEW g, NEW m, RunFrom(f, a, e, g, m),
         NEW k \in m..Len(a.script)
  PROVE  Runs(f[k], k, g, e) /\ f[k].script = a.script /\ f[k].close = a.close
<1> DEFINE l == Len(a.script)
           P == {n \in m..l : Runs(f[n], n, g, e) /\ f[n].script = a.script /\ f[n].close = a.close}
<1>0. l \in Nat /\ a.pc \in Nat /\ m \in Nat /\ m <= l /\ RunsTo(f, a, e, l) /\ m \in (a.pc - 1)..l
  BY AppFacts DEF RunFrom
<1>1. m \in P
  BY <1>0 DEF RunFrom
<1>2. ASSUME NEW n \in m..(l - 1), n \in P
      PROVE  n + 1 \in P
  <2>1. /\ n \in Nat /\ n + 1 \in m..l /\ n + 1 \in 1..l /\ n + 1 \in (a.pc - 1)..l
        /\ n + 1 # a.pc - 1 /\ (n + 1) - 1 = n /\ ~(n + 1 < n + 1)
    BY <1>0
  <2>2. f[n + 1] = RunStep(f[n], e, n + 1)
    BY <1>0, <2>1 DEF RunsTo
  <2> DEFINE b == f[n]
             y == f[n + 1]
  <2>3. Runs(b, n, g, e) /\ b.script = a.script /\ b.close = a.close
    BY <1>2
  <2>4. y = IF b.pc < n + 1 THEN b ELSE OpStep(b, e, n + 1)
    BY <2>2 DEF RunStep
  <2> HIDE DEF b, y, l
  <2>5. CASE Passed(b, n + 1, g)
    <3>1. b.pc = n + 1
      BY <2>5 DEF Passed
    <3>2. y = OpStep(b, e, n + 1)
      BY <2>1, <2>4, <3>1
    <3>3. n + 1 \in 1..Len(b.script)
      BY <2>1, <2>3 DEF l
    <3>4. /\ y.script = a.script /\ y.close = a.close
          /\ Passed(y, (n + 1) + 1, g) \/ Stuck(y, n + 1, g, e)
      BY <2>1, <2>3, <2>5, <3>2, <3>3, IdleStep
    <3>5. n + 1 \in 1..(n + 1)
      BY <2>1
    <3>6. Runs(y, n + 1, g, e)
      BY <3>4, <3>5 DEF Runs
    <3> QED
      BY <2>1, <3>4, <3>6 DEF y
  <2>6. ASSUME NEW j \in 1..n, Stuck(b, j, g, e) PROVE n + 1 \in P
    <3>1. b.pc = j /\ j < n + 1 /\ j \in 1..(n + 1)
      BY <2>1, <2>6 DEF Stuck
    <3>2. y = b
      BY <2>4, <3>1
    <3>3. Runs(y, n + 1, g, e)
      BY <2>6, <3>1, <3>2 DEF Runs
    <3> QED
      BY <2>1, <2>3, <3>2, <3>3 DEF y
  <2> QED
    BY <2>3, <2>5, <2>6 DEF Runs
<1> HIDE DEF P
<1>3. \A n \in m..l : n \in P
  BY <1>0, <1>1, <1>2, FromTo
<1> QED
  BY <1>3 DEF P

LEMMA RunPasses ==
  ASSUME NEW a, AppOK(a), a.pc > 0, NEW e, Suits(e), NEW f, RunsTo(f, a, e, Len(a.script)), NEW g,
         NEW m \in (a.pc - 1)..Len(a.script), Runs(f[m], m, g, e),
         f[m].script = a.script, f[m].close = a.close
  PROVE  LET z == f[Len(a.script)]
         IN Runs(z, Len(a.script), g, e) /\ z.script = a.script /\ z.close = a.close
<1>1. Len(a.script) \in m..Len(a.script)
  <2>1. Len(a.script) \in Nat /\ a.pc \in Nat
    BY AppFacts
  <2> QED
    BY <2>1
<1>2. RunFrom(f, a, e, g, m)
  BY DEF RunFrom
<1> QED
  BY <1>1, <1>2, RunEach

(* What is left of the application when g bytes are acknowledged: the      *)
(* script has ended, or an operation of it waits.                          *)
Ended(z, g) == /\ z.close /\ z.pc = 1 /\ AppOK(z) /\ Idle(z.psock) /\ z.psock.out = Nothing
               /\ Before(z, Len(z.script) + 1) = g
Left(z, a, g, e) == /\ z.script = a.script
                    /\ Ended(z, g) \/ (z.close = a.close /\ Stuck(z, z.pc, g, e))

LEMMA CloseEnds ==
  ASSUME NEW y, NEW g, Passed(y, Len(y.script) + 1, g), NEW z, z = [y EXCEPT !.close = TRUE, !.pc = 1]
  PROVE  Ended(z, g) /\ z.script = y.script
<1>1. AppOK(y) /\ Idle(y.psock) /\ y.psock.out = Nothing /\ Before(y, Len(y.script) + 1) = g
  BY DEF Passed
<1>2. AppOK(z) /\ z.close = TRUE /\ z.pc = 1 /\ z.psock = y.psock /\ z.script = y.script
  BY <1>1 DEF AppOK, App
<1>3. \A n : Before(z, n) = Before(y, n)
  BY <1>2 DEF Before, NameLen
<1> QED
  BY <1>1, <1>2, <1>3 DEF Ended

LEMMA RunLeaves ==
  ASSUME NEW a, AppOK(a), a.pc > 0, NEW e, Suits(e), NEW f, RunsTo(f, a, e, Len(a.script)), NEW g,
         NEW m \in (a.pc - 1)..Len(a.script), Runs(f[m], m, g, e),
         f[m].script = a.script, f[m].close = a.close,
         NEW z, z = IF f[Len(a.script)].pc > Len(a.script)
                    THEN [f[Len(a.script)] EXCEPT !.close = TRUE, !.pc = 1]
                    ELSE f[Len(a.script)]
  PROVE  Left(z, a, g, e)
<1> DEFINE y == f[Len(a.script)]
           l == Len(a.script)
<1>0. l \in Nat
  BY AppFacts
<1>1. Runs(y, l, g, e) /\ y.script = a.script /\ y.close = a.close
  BY RunPasses, ZenonT(40)
<1>2. z = IF y.pc > l THEN [y EXCEPT !.close = TRUE, !.pc = 1] ELSE y
  OBVIOUS
<1> HIDE DEF y, l
<1>3. CASE Passed(y, l + 1, g)
  <2>1. y.pc = l + 1 /\ y.pc > l /\ l = Len(y.script)
    BY <1>0, <1>1, <1>3 DEF Passed, l
  <2>2. z = [y EXCEPT !.close = TRUE, !.pc = 1]
    BY <1>2, <2>1
  <2>3. Ended(z, g) /\ z.script = y.script
    BY <1>3, <2>1, <2>2, CloseEnds
  <2> QED
    BY <1>1, <2>3 DEF Left
<1>4. ASSUME NEW j \in 1..l, Stuck(y, j, g, e) PROVE Left(z, a, g, e)
  <2>1. y.pc = j /\ ~(j > l)
    BY <1>0, <1>4 DEF Stuck
  <2> QED
    BY <1>1, <1>2, <1>4, <2>1 DEF Left
<1> QED
  BY <1>1, <1>3, <1>4 DEF Runs

LEMMA RunStays ==
  ASSUME NEW a, AppOK(a), a.pc > 0, NEW e, NEW f, RunsTo(f, a, e, Len(a.script)),
         NEW m \in (a.pc - 1)..Len(a.script), f[m].pc \in Nat, f[m].pc <= m
  PROVE  f[Len(a.script)] = f[m]
<1> DEFINE l == Len(a.script)
           P == {n \in m..l : f[n] = f[m]}
<1>0. l \in Nat /\ a.pc \in Nat /\ m \in Nat /\ m <= l
  BY AppFacts
<1>1. m \in P
  BY <1>0
<1>2. ASSUME NEW n \in m..(l - 1), n \in P
      PROVE  n + 1 \in P
  <2>1. /\ n \in Nat /\ n + 1 \in m..l /\ n + 1 \in (a.pc - 1)..l
        /\ n + 1 # a.pc - 1 /\ (n + 1) - 1 = n
    BY <1>0
  <2>2. f[n + 1] = RunStep(f[n], e, n + 1)
    BY <2>1 DEF RunsTo
  <2>3. f[n] = f[m] /\ f[m].pc < n + 1
    BY <1>0, <1>2, <2>1
  <2>4. f[n + 1] = f[m]
    BY <2>2, <2>3 DEF RunStep
  <2> QED
    BY <2>1, <2>4
<1> HIDE DEF P
<1>3. \A n \in m..l : n \in P
  BY <1>0, <1>1, <1>2, FromTo
<1>4. l \in P
  BY <1>0, <1>3
<1> QED
  BY <1>4 DEF P

\* From the beginning of the script.
LEMMA HandleIdle ==
  ASSUME NEW a, AppOK(a), a.pc = 1, Idle(a.psock), a.psock.out = Nothing, NEW e, Suits(e)
  PROVE  Left(handle_connection(a, e), a, 0, e)
<1> DEFINE l == Len(a.script)
           z == handle_connection(a, e)
<1>0. l \in Nat /\ a.pc \in 1..(l + 1) /\ 0 \in (a.pc - 1)..l /\ a.pc > 0 /\ a.pc - 1 = 0 /\ 0 + 1 = 1
  BY AppFacts
<1>1. PICK f : RunsTo(f, a, e, l) /\ z = IF f[l].pc > l THEN [f[l] EXCEPT !.close = TRUE, !.pc = 1]
                                         ELSE f[l]
  BY <1>0, HandleIs
<1>2. f[0] = a
  BY <1>0, <1>1 DEF RunsTo
<1>3. Before(a, 1) = 0
  BY BytesOne DEF Before
<1>4. Runs(f[0], 0, 0, e)
  BY <1>0, <1>2, <1>3 DEF Runs, Passed
<1> HIDE DEF z
<1>5. Left(z, a, 0, e)
  BY <1>0, <1>1, <1>2, <1>4, RunLeaves
<1> QED
  BY <1>5 DEF z

\* From an operation that waits.
Stays(z, a) == z.script = a.script /\ z.close = a.close /\ z.pc = a.pc

LEMMA HandleWaits ==
  ASSUME NEW a, AppOK(a), WaitsAt(a), a.psock.out = Nothing, NEW e, Suits(e), NEW z,
         z = handle_connection(a, e), NEW g, g = Before(a, a.pc)
  PROVE  /\ IsSend(Op(a)) =>
              /\ e.acked => Left(z, a, g + OpSize(a), e)
              /\ ~e.acked => z.psock.buf = a.psock.buf
              /\ ~e.acked /\ e.rexmit => Stays(z, a) /\ Again(z, a.pc, g, e)
              /\ ~e.acked /\ ~e.rexmit => Stays(z, a) /\ Still(z, a.pc, g)
         /\ ~IsSend(Op(a)) => /\ Left(z, a, g, e)
                              /\ ~e.newdata => Stays(z, a) /\ Stuck(z, a.pc, g, e)
<1> DEFINE l == Len(a.script)
           n == a.pc
           y == OpStep(a, e, n)
<1>0. /\ l \in Nat /\ n \in Nat /\ n \in 1..l /\ n \in 1..(l + 1) /\ n > 0 /\ n \in (n - 1)..l /\ n # n - 1
      /\ n - 1 \in (n - 1)..l /\ ~(n < n) /\ n \in 1..n /\ ~(n > l) /\ n <= n
  BY AppFacts DEF WaitsAt
<1>1. PICK f : RunsTo(f, a, e, l) /\ z = IF f[l].pc > l THEN [f[l] EXCEPT !.close = TRUE, !.pc = 1]
                                         ELSE f[l]
  BY <1>0, HandleIs
<1>2. f[n - 1] = a
  BY <1>0, <1>1 DEF RunsTo
<1>3. f[n] = y
  <2>1. f[n] = RunStep(f[n - 1], e, n)
    BY <1>0, <1>1 DEF RunsTo
  <2> QED
    BY <1>0, <1>2, <2>1 DEF RunStep
<1>4. /\ y.script = a.script /\ y.close = a.close
      /\ IsSend(Op(a)) =>
           /\ y.psock.buf = a.psock.buf
           /\ e.acked => Passed(y, n + 1, g + OpSize(a))
           /\ ~e.acked /\ e.rexmit => Again(y, n, g, e)
           /\ ~e.acked /\ ~e.rexmit => Still(y, n, g)
      /\ ~IsSend(Op(a)) => /\ Passed(y, n + 1, g) \/ Stuck(y, n, g, e)
                           /\ ~e.newdata => Stuck(y, n, g, e)
  BY WaitStep
<1> HIDE DEF y
<1>5. ASSUME NEW h, Passed(y, n + 1, h) \/ Stuck(y, n, h, e) PROVE Left(z, a, h, e)
  <2>1. Runs(f[n], n, h, e)
    BY <1>0, <1>3, <1>5 DEF Runs
  <2> QED
    BY <1>0, <1>1, <1>3, <1>4, <2>1, RunLeaves
<1>6. ASSUME y.pc = n PROVE z = y /\ Stays(z, a)
  <2>1. f[l] = y
    BY <1>0, <1>1, <1>3, <1>6, RunStays, ZenonT(40)
  <2>2. z = y
    BY <1>0, <1>1, <1>6, <2>1
  <2> QED
    BY <1>4, <1>6, <2>2 DEF Stays
<1>7. ASSUME NEW h, Stuck(y, n, h, e) PROVE Stays(z, a) /\ Stuck(z, n, h, e)
  <2>1. y.pc = n
    BY <1>7 DEF Stuck
  <2> QED
    BY <1>6, <1>7, <2>1
<1>10. ASSUME NEW h, Again(y, n, h, e) PROVE Stays(z, a) /\ Again(z, n, h, e)
  <2>1. y.pc = n
    BY <1>10 DEF Again
  <2> QED
    BY <1>6, <1>10, <2>1
<1>8. ASSUME NEW h, Still(y, n, h) PROVE Stays(z, a) /\ Still(z, n, h)
  <2>1. y.pc = n
    BY <1>8 DEF Still
  <2> QED
    BY <1>6, <1>8, <2>1
<1>9. IsSend(Op(a)) /\ ~e.acked => z.psock.buf = a.psock.buf
  <2>1. IsSend(Op(a)) /\ ~e.acked => y.pc = n /\ y.psock.buf = a.psock.buf
    BY <1>4 DEF Again, Still
  <2> QED
    BY <1>6, <2>1
<1> QED
  BY <1>4, <1>5, <1>7, <1>8, <1>9, <1>10

-----------------------------------------------------------------------------
(* One callback of the application.                                        *)
Cleared(a) == [a EXCEPT !.psock.out = Nothing, !.close = FALSE]
Leaves(z, a, g, e) == /\ z.script = a.script
                      /\ Ended(z, g) \/ (z.close = FALSE /\ Stuck(z, z.pc, g, e))
Remains(z, a) == z.script = a.script /\ z.close = FALSE /\ z.pc = a.pc

LEMMA ClearFields ==
  ASSUME NEW a, AppOK(a)
  PROVE  LET b == Cleared(a)
         IN /\ AppOK(b) /\ b.script = a.script /\ b.pc = a.pc /\ b.close = FALSE
            /\ b.psock.out = Nothing
            /\ Idle(a.psock) => Idle(b.psock)
            /\ WaitsAt(a) => WaitsAt(b)
            /\ Op(b) = Op(a) /\ OpSize(b) = OpSize(a) /\ \A n : Before(b, n) = Before(a, n)
            /\ b.psock.unread = a.psock.unread /\ b.psock.buf = a.psock.buf
            /\ b.psock.state = a.psock.state /\ b.psock.waiting = a.psock.waiting
<1> DEFINE s == [a.psock EXCEPT !.out = Nothing]
           b == Cleared(a)
<1>1. a \in App /\ a.psock \in Psocket /\ Len(a.psock.buf) <= BufSize
  BY DEF AppOK, App, Sock
<1>2. Nothing \in [at: Nat, len: Nat]
  BY DEF Nothing
<1>3. /\ s \in Psocket /\ s.out = Nothing /\ s.waiting = a.psock.waiting /\ s.state = a.psock.state
      /\ s.sendptr = a.psock.sendptr /\ s.sendlen = a.psock.sendlen
      /\ s.buf = a.psock.buf /\ s.unread = a.psock.unread
  BY <1>1, <1>2 DEF Psocket
<1>4. b = [a EXCEPT !.psock = s, !.close = FALSE]
  BY <1>1 DEF Cleared, App
<1> HIDE DEF s, b
<1>5. b \in App /\ b.script = a.script /\ b.pc = a.pc /\ b.close = FALSE /\ b.psock = s
  BY <1>1, <1>3, <1>4 DEF App
<1>6. AppOK(b) /\ b.psock.out = Nothing
  BY <1>1, <1>3, <1>5 DEF AppOK, Sock
<1>7. b.psock.buf = a.psock.buf
  BY <1>3, <1>5
<1>8. Op(b) = Op(a) /\ OpSize(b) = OpSize(a) /\ \A n : Before(b, n) = Before(a, n)
  BY <1>5, <1>7, SameBuf
<1>9. Idle(a.psock) => Idle(b.psock)
  BY <1>3, <1>5 DEF Idle
<1>10. WaitsAt(a) => WaitsAt(b)
  BY <1>3, <1>5, <1>8 DEF WaitsAt, Sending
<1> QED
  BY <1>3, <1>5, <1>6, <1>7, <1>8, <1>9, <1>10 DEF b

LEMMA InitType == psock_init \in Psocket /\ Sock(psock_init) /\ Idle(psock_init)
                  /\ psock_init.out = Nothing /\ psock_init.unread = <<>> /\ psock_init.state = "none"
<1>1. <<>> \in Seq(Nat) /\ Len(<<>>) <= BufSize
  BY EmptySeq, BufBounds
<1>2. Nothing \in [at: Nat, len: Nat]
  BY DEF Nothing
<1>3. psock_init \in Psocket /\ psock_init.buf = <<>>
  BY <1>1, <1>2 DEF psock_init, Psocket
<1> QED
  BY <1>1, <1>3 DEF Sock, Idle, psock_init

\* The first of a connection, and any other.
LEMMA CallConnected ==
  ASSUME NEW a, AppOK(a), NEW e, Suits(e), e.connected = TRUE
  PROVE  Leaves(hello_world_appcall(a, e), a, 0, e)
<1> DEFINE b == Cleared(a)
           c == [b EXCEPT !.psock = psock_init, !.pc = 1]
           z == handle_connection(c, e)
<1>1. hello_world_appcall(a, e) = z
  BY DEF hello_world_appcall, AtConnected, Cleared
<1>2. b \in App /\ b.script = a.script /\ b.close = FALSE
  BY ClearFields DEF AppOK
<1> HIDE DEF b
<1>3. c \in App /\ c.script = a.script /\ c.close = FALSE /\ c.psock = psock_init /\ c.pc = 1
  BY <1>2, InitType DEF App
<1> HIDE DEF c
<1>4. AppOK(c) /\ Idle(c.psock) /\ c.psock.out = Nothing
  BY <1>3, InitType DEF AppOK
<1>5. Left(z, c, 0, e)
  BY <1>3, <1>4, HandleIdle
<1> QED
  BY <1>1, <1>3, <1>5 DEF Left, Leaves

LEMMA CallIdle ==
  ASSUME NEW a, AppOK(a), a.pc = 1, Idle(a.psock), NEW e, Suits(e), e.connected = FALSE
  PROVE  Leaves(hello_world_appcall(a, e), a, 0, e)
<1> DEFINE b == Cleared(a)
           z == handle_connection(b, e)
<1>1. hello_world_appcall(a, e) = z
  BY DEF hello_world_appcall, AtConnected, Cleared
<1>2. AppOK(b) /\ b.pc = 1 /\ b.script = a.script /\ b.close = FALSE /\ Idle(b.psock) /\ b.psock.out = Nothing
  BY ClearFields
<1> HIDE DEF b
<1>3. Left(z, b, 0, e)
  BY <1>2, HandleIdle
<1> QED
  BY <1>1, <1>2, <1>3 DEF Left, Leaves

LEMMA CallWaits ==
  ASSUME NEW a, AppOK(a), WaitsAt(a), NEW e, Suits(e), e.connected = FALSE, NEW z,
         z = hello_world_appcall(a, e), NEW g, g = Before(a, a.pc)
  PROVE  /\ IsSend(Op(a)) =>
              /\ e.acked => Leaves(z, a, g + OpSize(a), e)
              /\ ~e.acked => z.psock.buf = a.psock.buf
              /\ ~e.acked /\ e.rexmit => Remains(z, a) /\ Again(z, a.pc, g, e)
              /\ ~e.acked /\ ~e.rexmit => Remains(z, a) /\ Still(z, a.pc, g)
         /\ ~IsSend(Op(a)) => /\ Leaves(z, a, g, e)
                              /\ ~e.newdata => Remains(z, a) /\ Stuck(z, a.pc, g, e)
<1> DEFINE b == Cleared(a)
<1>1. z = handle_connection(b, e)
  BY DEF hello_world_appcall, AtConnected, Cleared
<1>2. /\ AppOK(b) /\ b.pc = a.pc /\ b.script = a.script /\ b.close = FALSE /\ WaitsAt(b)
      /\ b.psock.out = Nothing /\ Op(b) = Op(a) /\ OpSize(b) = OpSize(a)
      /\ Before(b, b.pc) = g /\ b.psock.buf = a.psock.buf
  BY ClearFields
<1> HIDE DEF b
<1>3. /\ IsSend(Op(b)) =>
           /\ e.acked => Left(z, b, g + OpSize(b), e)
           /\ ~e.acked => z.psock.buf = a.psock.buf
           /\ ~e.acked /\ e.rexmit => Stays(z, b) /\ Again(z, b.pc, g, e)
           /\ ~e.acked /\ ~e.rexmit => Stays(z, b) /\ Still(z, b.pc, g)
      /\ ~IsSend(Op(b)) => /\ Left(z, b, g, e)
                           /\ ~e.newdata => Stays(z, b) /\ Stuck(z, b.pc, g, e)
  BY <1>1, <1>2, HandleWaits
<1>4. /\ \A h : Left(z, b, h, e) => Leaves(z, a, h, e)
      /\ Stays(z, b) => Remains(z, a)
  BY <1>2 DEF Left, Leaves, Stays, Remains
<1> QED
  BY <1>2, <1>3, <1>4

-----------------------------------------------------------------------------
(* What one segment may carry.  If the peer's MSS and every window it ever *)
(* opens take each message of the scripts, so does a connection.           *)
OneSegment == \A m \in MssOpts \cup (Wnds \ {0}) \cup {UIP_TCP_MSS} : Fits(m)

Fit(k) == Fits(k.mss) /\ Fits(k.initialmss)
FitSeg(s) == /\ s.wnd # 0 => Fits(s.wnd)
             /\ "SYN" \in s.flags => s.mss # 0 /\ Fits(s.mss)
FitInv == conn.tcpstate = "CLOSED" \/ Fit(conn)

SameSizes(z, k) == z.mss = k.mss /\ z.initialmss = k.initialmss

LEMMA AppSendFit ==
  ASSUME IInv, NEW y \in Conn, Fit(y), NEW ev, NEW r \in Replies, AppSend(1, y, ev, r)
  PROVE  Fit(next)
<1>1. CASE AppAbort(1, y, ev, r)
  <2> DEFINE z == [y EXCEPT !.tcpstate = "CLOSED", !.stopped = FALSE]
  <2>1. Set(1, z) /\ z.mss = y.mss /\ z.initialmss = y.initialmss
    BY <1>1 DEF AppAbort, Conn
  <2> HIDE DEF z
  <2> QED
    BY <2>1, SetNext DEF Fit
<1>2. CASE AppClose(1, y, ev, r)
  <2> DEFINE z == [y EXCEPT !.tcpstate = "FIN_WAIT_1", !.stopped = FALSE, !.len = 1, !.nrtx = 0]
  <2>1. Set(1, z) /\ z.mss = y.mss /\ z.initialmss = y.initialmss
    BY <1>2 DEF AppClose, Conn
  <2> HIDE DEF z
  <2> QED
    BY <2>1, SetNext DEF Fit
<1>3. CASE AppData(1, y, ev, r)
  <2> DEFINE t == Touch(y, r.act)
             n == IF r.slen > 0 /\ t.len = 0 THEN Lower(r.slen, y.mss) ELSE t.len
             z == [t EXCEPT !.len = n, !.nrtx = 0]
  <2>1. t \in Conn /\ t.mss = y.mss /\ t.initialmss = y.initialmss
    BY DEF Touch, Conn
  <2>2. Set(1, z)
    BY <1>3 DEF AppData
  <2> HIDE DEF t, n
  <2>3. z.mss = y.mss /\ z.initialmss = y.initialmss
    BY <2>1 DEF Conn
  <2> HIDE DEF z
  <2> QED
    BY <2>2, <2>3, SetNext DEF Fit
<1> QED
  BY <1>1, <1>2, <1>3 DEF AppSend

LEMMA AckedFit ==
  ASSUME NEW k \in Conn, Fit(k), NEW s \in Segment, NEW t \in NewRto(k)
  PROVE  LET a == Acked(k, s, t)
         IN a \in Conn /\ Fit(a) /\ a.initialmss = k.initialmss
<1>1. s.ackno \in SeqNo /\ 0 \in Length /\ t \in Octet
  BY TimerAssumption, Small DEF Segment, NewRto, Conn, Octet
<1> QED
  BY <1>1 DEF Acked, Conn, Fit

\* One lemma for every path that leaves both sizes alone.
LEMMA KeptFit ==
  ASSUME IInv, Fit(conn), NEW z, Set(1, z), z.mss = conn.mss, z.initialmss = conn.initialmss
  PROVE  Fit(next)
  BY SetNext DEF Fit
LEMMA UnchangedFit == ASSUME IInv, Fit(conn), UNCHANGED uip_conns PROVE Fit(next)
  BY SameNext DEF Fit

LEMMA SameFit ==
  ASSUME IInv, Fit(conn), NEW k, SameSizes(k, conn), NEW z, SameSizes(z, k), Set(1, z)
  PROVE  Fit(next)
  BY KeptFit DEF SameSizes

LEMMA AckedSizes ==
  ASSUME IInv, NEW s \in Segment, NEW t \in NewRto(conn)
  PROVE  Acked(conn, s, t) \in Conn /\ SameSizes(Acked(conn, s, t), conn)
  BY OneConn, AckedFields DEF SameSizes

LEMMA OpeningFit ==
  ASSUME IInv, Fit(conn), NEW s \in Segment, RecvSynRcvd(1, s)
  PROVE  Fit(next)
<1>1. CASE ~Acks(conn, s)
  BY <1>1, UnchangedFit DEF RecvSynRcvd, conn
<1>2. CASE Acks(conn, s)
  <2>1. PICK t \in NewRto(conn), r \in Replies :
          AppSend(1, [Acked(conn, s, t) EXCEPT !.tcpstate = "ESTABLISHED", !.rcv_nxt = Plus(@, s.len)],
                  {"CONNECTED"} \cup NewFlag(s.len), r)
    BY <1>2 DEF RecvSynRcvd, conn
  <2> DEFINE k == Acked(conn, s, t)
             q == Plus(k.rcv_nxt, s.len)
             y == [k EXCEPT !.tcpstate = "ESTABLISHED", !.rcv_nxt = q]
             ev == {"CONNECTED"} \cup NewFlag(s.len)
  <2>2. k \in Conn /\ SameSizes(k, conn)
    BY AckedSizes
  <2>3. AppSend(1, y, ev, r)
    BY <2>1
  <2> HIDE DEF k, ev
  <2>4. q \in SeqNo
    <3>1. k.rcv_nxt \in Nat /\ s.len \in Nat
      BY <2>2, Small DEF Conn, Segment
    <3> QED
      BY <3>1, PlusType
  <2> HIDE DEF q
  <2>5. y \in Conn /\ SameSizes(y, k)
    BY <2>2, <2>4 DEF Conn, States, SameSizes
  <2> HIDE DEF y
  <2>6. Fit(y)
    BY <2>2, <2>5 DEF Fit, SameSizes
  <2> QED
    BY <2>3, <2>5, <2>6, AppSendFit
<1> QED
  BY <1>1, <1>2

LEMMA MssFit ==
  ASSUME OneSegment, NEW k \in Conn, NEW s, FitSeg(s), "SYN" \in s.flags, s.mss \in Nat
  PROVE  Mss(k, s) \in Conn /\ Fit(Mss(k, s))
<1> DEFINE m == Lower(s.mss, UIP_TCP_MSS)
<1>1. s.mss # 0 /\ Fits(s.mss) /\ Fits(UIP_TCP_MSS)
  BY DEF FitSeg, OneSegment
<1>2. m \in Window /\ Fits(m)
  BY <1>1, SizeAssumption DEF Lower, Window
<1>3. Mss(k, s) = [k EXCEPT !.mss = m, !.initialmss = m]
  BY <1>1 DEF Mss
<1> HIDE DEF m
<1> QED
  BY <1>2, <1>3 DEF Conn, Fit

LEMMA SynSentFit ==
  ASSUME IInv, OneSegment, Fit(conn), NEW s \in Segment, FitSeg(s), RecvSynSent(1, s)
  PROVE  Fit(next)
<1>1. PICK t \in NewRto(conn) :
        LET k == Acked(conn, s, t)
        IN IF Acks(conn, s) /\ s.flags = {"SYN", "ACK"}
           THEN \E r \in Replies :
                  AppSend(1, [Mss(k, s) EXCEPT !.tcpstate = "ESTABLISHED",
                                               !.rcv_nxt = Plus(s.seqno, 1)],
                          {"CONNECTED", "NEWDATA"}, r)
           ELSE /\ Set(1, [k EXCEPT !.tcpstate = "CLOSED", !.stopped = FALSE])
                /\ Call(1, {"ABORT"}, "none") /\ Reset(s)
  BY DEF RecvSynSent, conn
<1> DEFINE k == Acked(conn, s, t)
<1>2. k \in Conn /\ SameSizes(k, conn)
  BY AckedSizes
<1>3. CASE Acks(conn, s) /\ s.flags = {"SYN", "ACK"}
  <2> DEFINE m == Mss(k, s)
             q == Plus(s.seqno, 1)
             y == [m EXCEPT !.tcpstate = "ESTABLISHED", !.rcv_nxt = q]
             ev == {"CONNECTED", "NEWDATA"}
  <2>1. PICK r \in Replies : AppSend(1, y, ev, r)
    BY <1>1, <1>3
  <2>2. m \in Conn /\ Fit(m)
    BY <1>2, <1>3, MssFit DEF Segment
  <2>3. q \in SeqNo
    <3>1. s.seqno \in Nat /\ 1 \in Nat
      BY Small DEF Segment
    <3> QED
      BY <3>1, PlusType
  <2> HIDE DEF m, q, ev, k
  <2>4. y \in Conn /\ y.mss = m.mss /\ y.initialmss = m.initialmss
    BY <2>2, <2>3 DEF Conn, States
  <2> HIDE DEF y
  <2> QED
    BY <2>1, <2>2, <2>4, AppSendFit DEF Fit
<1>4. CASE ~(Acks(conn, s) /\ s.flags = {"SYN", "ACK"})
  <2> DEFINE z == [k EXCEPT !.tcpstate = "CLOSED", !.stopped = FALSE]
  <2>1. Set(1, z)
    BY <1>1, <1>4
  <2> HIDE DEF k
  <2>2. SameSizes(z, k)
    BY <1>2 DEF Conn, SameSizes
  <2> HIDE DEF z
  <2> QED
    BY <1>2, <2>1, <2>2, SameFit
<1> QED
  BY <1>3, <1>4

LEMMA FinFit ==
  ASSUME IInv, Fit(conn), NEW s \in Segment, RecvFin(1, s)
  PROVE  Fit(next)
<1>1. PICK t \in NewRto(conn) :
        LET k == Acked(conn, s, t)
            z == [k EXCEPT !.rcv_nxt = Plus(@, 1 + s.len), !.len = 1, !.nrtx = 0,
                           !.tcpstate = "LAST_ACK", !.stopped = FALSE]
        IN \/ UNCHANGED uip_conns
           \/ Set(1, z)
  BY DEF RecvFin, conn
<1> DEFINE k == Acked(conn, s, t)
           z == [k EXCEPT !.rcv_nxt = Plus(@, 1 + s.len), !.len = 1, !.nrtx = 0,
                          !.tcpstate = "LAST_ACK", !.stopped = FALSE]
<1>2. k \in Conn /\ SameSizes(k, conn)
  BY AckedSizes
<1>3. UNCHANGED uip_conns \/ Set(1, z)
  BY <1>1
<1> HIDE DEF k
<1>4. SameSizes(z, k)
  BY <1>2 DEF Conn, SameSizes
<1> HIDE DEF z
<1> QED
  BY <1>2, <1>3, <1>4, SameFit, UnchangedFit

LEMMA EstablishedFit ==
  ASSUME IInv, Fit(conn), NEW s \in Segment, FitSeg(s), RecvEstablished(1, s)
  PROVE  Fit(next)
<1>1. PICK t \in NewRto(conn) :
        LET k  == Acked(conn, s, t)
            n  == Taken(k, s)
            ev == AckFlag(conn, s) \cup NewFlag(n)
            w  == IF s.wnd > k.initialmss \/ s.wnd = 0 THEN k.initialmss ELSE s.wnd
            z  == [k EXCEPT !.rcv_nxt = Plus(@, n), !.mss = w]
        IN \/ Set(1, z)
           \/ \E r \in Replies : AppSend(1, z, ev, r)
  BY DEF RecvEstablished, conn
<1> DEFINE k == Acked(conn, s, t)
           n == Taken(k, s)
           ev == AckFlag(conn, s) \cup NewFlag(n)
           w == IF s.wnd > k.initialmss \/ s.wnd = 0 THEN k.initialmss ELSE s.wnd
           q == Plus(k.rcv_nxt, n)
           z == [k EXCEPT !.rcv_nxt = q, !.mss = w]
<1>2. k \in Conn /\ SameSizes(k, conn)
  BY AckedSizes
<1>3. Set(1, z) \/ \E r \in Replies : AppSend(1, z, ev, r)
  BY <1>1
<1> HIDE DEF k, ev
<1>4. Fits(w) /\ w \in Window
  BY <1>2, SizeAssumption DEF Fit, FitSeg, Conn, Window, Segment, SameSizes
<1>5. q \in SeqNo
  <2>1. k.rcv_nxt \in SeqNo
    BY <1>2 DEF Conn
  <2>2. n \in Int
    BY DEF Taken, Segment, Urgent
  <2> HIDE DEF n
  <2> QED
    BY <2>1, <2>2, SeqAssumption DEF Plus, SeqNo
<1> HIDE DEF w, q, n
<1>6. z \in Conn /\ z.mss = w /\ z.initialmss = k.initialmss
  BY <1>2, <1>4, <1>5 DEF Conn
<1> HIDE DEF z
<1>7. Fit(z)
  BY <1>2, <1>4, <1>6 DEF Fit, SameSizes
<1>8. CASE Set(1, z)
  BY <1>7, <1>8, SetNext
<1> QED
  BY <1>3, <1>6, <1>7, <1>8, AppSendFit

\* Towards the end of a connection nothing sets the sizes any more.
LEMMA LastAckFit ==
  ASSUME IInv, Fit(conn), NEW s \in Segment, RecvLastAck(1, s) \/ RecvClosing(1, s) \/ RecvZombie(1, s)
  PROVE  Fit(next)
<1>1. CASE UNCHANGED uip_conns
  BY <1>1, UnchangedFit
<1>2. ASSUME NEW t \in NewRto(conn), NEW act, NEW z, Set(1, z),
             LET k == Acked(conn, s, t)
             IN z \in {k, [k EXCEPT !.tcpstate = "CLOSED", !.stopped = (act = "stop")],
                       [k EXCEPT !.tcpstate = "TIME_WAIT", !.stopped = FALSE, !.timer = 0]}
      PROVE  Fit(next)
  <2> DEFINE k == Acked(conn, s, t)
  <2>1. k \in Conn /\ SameSizes(k, conn)
    BY AckedSizes
  <2>2. \/ z = k \/ z = [k EXCEPT !.tcpstate = "CLOSED", !.stopped = (act = "stop")]
        \/ z = [k EXCEPT !.tcpstate = "TIME_WAIT", !.stopped = FALSE, !.timer = 0]
    BY <1>2
  <2> HIDE DEF k
  <2>3. SameSizes(z, k)
    BY <2>1, <2>2 DEF Conn, SameSizes
  <2> QED
    BY <1>2, <2>1, <2>3, SameFit
<1>3. CASE RecvLastAck(1, s)
  BY <1>1, <1>2, <1>3 DEF RecvLastAck, conn
<1>4. CASE RecvClosing(1, s)
  BY <1>1, <1>2, <1>4 DEF RecvClosing, conn
<1>5. CASE RecvZombie(1, s)
  BY <1>2, <1>5 DEF RecvZombie, conn
<1> QED
  BY <1>3, <1>4, <1>5

LEMMA FinWait1Fit ==
  ASSUME IInv, Fit(conn), NEW s \in Segment, RecvFinWait1(1, s)
  PROVE  Fit(next)
<1>1. PICK t \in NewRto(conn), act \in EndActs :
        LET ok == Acks(conn, s)
            k  == [Acked(conn, s, t) EXCEPT !.rcv_nxt = Plus(@, s.len)]
            f  == [k EXCEPT !.rcv_nxt = Plus(@, 1), !.stopped = (act = "stop"),
                            !.tcpstate = IF ok THEN "TIME_WAIT" ELSE "CLOSING",
                            !.timer = IF ok THEN 0 ELSE @]
        IN \/ Set(1, f)
           \/ Set(1, [k EXCEPT !.tcpstate = IF ok THEN "FIN_WAIT_2" ELSE @])
  BY DEF RecvFinWait1, conn
<1> DEFINE ok == Acks(conn, s)
           a  == Acked(conn, s, t)
           k  == [a EXCEPT !.rcv_nxt = Plus(@, s.len)]
           f  == [k EXCEPT !.rcv_nxt = Plus(@, 1), !.stopped = (act = "stop"),
                           !.tcpstate = IF ok THEN "TIME_WAIT" ELSE "CLOSING",
                           !.timer = IF ok THEN 0 ELSE @]
           h  == [k EXCEPT !.tcpstate = IF ok THEN "FIN_WAIT_2" ELSE @]
<1>2. a \in Conn /\ SameSizes(a, conn)
  BY AckedSizes
<1>3. Set(1, f) \/ Set(1, h)
  BY <1>1
<1> HIDE DEF a, ok
<1>4. k \in Conn /\ SameSizes(k, conn)
  <2>1. Plus(a.rcv_nxt, s.len) \in SeqNo
    <3>1. a.rcv_nxt \in Nat /\ s.len \in Nat
      BY <1>2, Small DEF Conn, Segment
    <3> QED
      BY <3>1, PlusType
  <2> QED
    BY <1>2, <2>1 DEF Conn, SameSizes
<1> HIDE DEF k
<1>5. SameSizes(f, k) /\ SameSizes(h, k)
  BY <1>4 DEF Conn, SameSizes
<1> HIDE DEF f, h
<1> QED
  BY <1>3, <1>4, <1>5, SameFit

LEMMA FinWait2Fit ==
  ASSUME IInv, Fit(conn), NEW s \in Segment, RecvFinWait2(1, s)
  PROVE  Fit(next)
<1> DEFINE k == [conn EXCEPT !.rcv_nxt = Plus(@, s.len)]
           f(act) == [k EXCEPT !.rcv_nxt = Plus(@, 1), !.timer = 0,
                               !.tcpstate = "TIME_WAIT", !.stopped = (act = "stop")]
<1>1. Set(1, k) \/ \E act \in EndActs : Set(1, f(act))
  BY DEF RecvFinWait2, conn
<1>2. k \in Conn /\ SameSizes(k, conn)
  <2>1. Plus(conn.rcv_nxt, s.len) \in SeqNo /\ conn \in Conn
    <3>1. conn.rcv_nxt \in Nat /\ s.len \in Nat
      BY OneConn, Small DEF Conn, Segment
    <3> QED
      BY <3>1, PlusType, OneConn
  <2> QED
    BY <2>1 DEF Conn, SameSizes
<1> HIDE DEF k
<1>3. \A act : SameSizes(f(act), k)
  BY <1>2 DEF Conn, SameSizes
<1>4. SameSizes(k, k)
  BY DEF SameSizes
<1> HIDE DEF f
<1> QED
  BY <1>1, <1>2, <1>3, <1>4, SameFit

LEMMA FoundFit ==
  ASSUME IInv, OneSegment, Fit(conn), NEW s \in Segment, FitSeg(s), RecvFound(1, s)
  PROVE  Fit(next)
<1>1. CASE RecvRst(1)
  <2>1. PICK act \in EndActs : Set(1, [conn EXCEPT !.tcpstate = "CLOSED", !.stopped = (act = "stop")])
    BY <1>1 DEF RecvRst, conn
  <2> DEFINE z == [conn EXCEPT !.tcpstate = "CLOSED", !.stopped = (act = "stop")]
  <2>2. SameSizes(z, conn) /\ SameSizes(conn, conn) /\ Set(1, z)
    BY <2>1, OneConn DEF Conn, SameSizes
  <2> HIDE DEF z
  <2> QED
    BY <2>2, SameFit
<1>2. CASE RecvOutOfOrder(1) \/ RecvTimeWait(1)
  BY <1>2, UnchangedFit DEF RecvOutOfOrder, RecvTimeWait
<1>3. \/ RecvRst(1) \/ RecvOutOfOrder(1)
      \/ RecvSynRcvd(1, s)  \/ RecvSynSent(1, s)  \/ RecvFin(1, s)
      \/ RecvEstablished(1, s) \/ RecvLastAck(1, s) \/ RecvFinWait1(1, s)
      \/ RecvFinWait2(1, s) \/ RecvTimeWait(1) \/ RecvClosing(1, s)
      \/ RecvZombie(1, s)
  BY Zenon DEF RecvFound
<1> QED
  BY <1>1, <1>2, <1>3, OpeningFit, SynSentFit, FinFit, EstablishedFit, LastAckFit,
     FinWait1Fit, FinWait2Fit

LEMMA ListenFit ==
  ASSUME IInv, OneSegment, NEW s \in Segment, FitSeg(s), RecvListen(1, s)
  PROVE  Fit(next)
<1> DEFINE m == Mss(conn, s)
           z == [m EXCEPT
              !.tcpstate = "SYN_RCVD", !.stopped = FALSE,
              !.peer = s.peer, !.lport = s.lport,
              !.rto = UIP_RTO, !.timer = UIP_RTO, !.nrtx = 0,
              !.snd_nxt = iss, !.len = 1, !.rcv_nxt = Plus(s.seqno, 1)]
<1>1. Set(1, z) /\ s.flags = {"SYN"}
  BY DEF RecvListen, Opens, conn
<1>2. m \in Conn /\ Fit(m)
  BY <1>1, OneConn, MssFit DEF Segment
<1> HIDE DEF m
<1>3. z.mss = m.mss /\ z.initialmss = m.initialmss
  BY <1>2 DEF Conn
<1> HIDE DEF z
<1> QED
  BY <1>1, <1>2, <1>3, SetNext DEF Fit

LEMMA ConnectFit ==
  ASSUME IInv, OneSegment, NEW p, NEW lp, Connect(1, p, lp)
  PROVE  Fit(next)
<1> DEFINE z == [uip_conns[1] EXCEPT
               !.tcpstate = "SYN_SENT", !.stopped = FALSE, !.snd_nxt = iss,
               !.mss = UIP_TCP_MSS, !.initialmss = UIP_TCP_MSS, !.len = 1,
               !.nrtx = 0, !.timer = 1, !.rto = UIP_RTO,
               !.lport = lp, !.peer = p]
<1>1. next = z
  BY SetNext DEF Connect
<1>2. z.mss = UIP_TCP_MSS /\ z.initialmss = UIP_TCP_MSS
  BY OneConn DEF conn, Conn
<1> QED
  BY <1>1, <1>2 DEF OneSegment, Fit

LEMMA BackoffSizes == ASSUME NEW k \in Conn PROVE SameSizes(Backoff(k), k)
  BY DEF Backoff, Conn, SameSizes

LEMMA TickFit ==
  ASSUME IInv, Fit(conn), Periodic(1)
  PROVE  Fit(next)
<1>0. conn \in Conn /\ Local(conn) /\ uip_conns[1] = conn /\ SameSizes(conn, conn)
  BY OneConn DEF conn, SameSizes
<1>1. CASE TickWait(1)
  <2> DEFINE n == (conn.timer + 1) % TimerMod
             z == [conn EXCEPT !.timer = n,
                     !.tcpstate = IF n = UIP_TIME_WAIT_TIMEOUT THEN "CLOSED" ELSE @]
  <2>1. Set(1, z)
    BY <1>0, <1>1 DEF TickWait
  <2> HIDE DEF n
  <2>2. SameSizes(z, conn)
    BY <1>0 DEF Conn, SameSizes
  <2> HIDE DEF z
  <2> QED
    BY <1>0, <2>1, <2>2, SameFit
<1>2. CASE TickCountdown(1)
  <2> DEFINE z == [conn EXCEPT !.timer = @ - 1]
  <2>1. Set(1, z) /\ SameSizes(z, conn)
    BY <1>0, <1>2 DEF TickCountdown, Conn, SameSizes
  <2> HIDE DEF z
  <2> QED
    BY <1>0, <2>1, SameFit
<1>3. CASE TickTimeout(1)
  <2>1. PICK act \in EndActs :
          Set(1, [conn EXCEPT !.tcpstate = "CLOSED", !.timer = TimerMod - 1, !.stopped = (act = "stop")])
    BY <1>0, <1>3 DEF TickTimeout
  <2> DEFINE z == [conn EXCEPT !.tcpstate = "CLOSED", !.timer = TimerMod - 1, !.stopped = (act = "stop")]
  <2>2. Set(1, z) /\ SameSizes(z, conn)
    BY <1>0, <2>1 DEF Conn, SameSizes
  <2> HIDE DEF z
  <2> QED
    BY <1>0, <2>2, SameFit
<1>4. CASE TickRexmit(1)
  <2>1. Set(1, Backoff(conn)) /\ SameSizes(Backoff(conn), conn)
    BY <1>0, <1>4, BackoffSizes DEF TickRexmit
  <2> QED
    BY <1>0, <2>1, SameFit
<1>5. CASE TickAppRexmit(1)
  <2>1. /\ ~GivesUp(conn) /\ conn.len > 0
        /\ \E r \in Replies : Set(1, Touch(Backoff(conn), r.act))
    BY <1>0, <1>5 DEF TickAppRexmit, Retry, Expired, Armed
  <2>2. PICK r \in Replies : Set(1, Touch(Backoff(conn), r.act))
    BY <2>1
  <2>3. Backoff(conn) \in Conn /\ SameSizes(Backoff(conn), conn)
    BY <1>0, <2>1, BackoffLocal, BackoffSizes
  <2>4. SameSizes(Touch(Backoff(conn), r.act), Backoff(conn))
    BY <2>3 DEF Touch, Conn, SameSizes
  <2> QED
    BY <2>2, <2>3, <2>4, SameFit
<1>6. CASE TickPoll(1)
  BY <1>0, <1>6, AppSendFit DEF TickPoll
<1>7. CASE TickIdle(1)
  BY <1>7, UnchangedFit DEF TickIdle
<1> QED
  BY <1>1, <1>2, <1>3, <1>4, <1>5, <1>6, <1>7 DEF Periodic

-----------------------------------------------------------------------------
(* The inductive invariant: what the server knows of the connection.  In an*)
(* established connection it waits in an operation of its script; every    *)
(* byte before that is acknowledged and, if the operation sends, all of it *)
(* is in flight, taken from its beginning unless a generator's message was *)
(* retransmitted.                                                          *)
Awaits(a, k, n, sd) ==
  /\ WaitsAt(a) /\ a.close = FALSE /\ n = Before(a, a.pc)
  /\ IsSend(Op(a)) =>
       /\ k.len = OpSize(a)
       /\ sd = n + 1 \/ (Op(a).op = "generator" /\ sd = 0)
  /\ ~IsSend(Op(a)) => k.len = 0
ServerOK(a, k, n, sd, pr) ==
  /\ AppOK(a) /\ pr \in Nat /\ pr <= n
  /\ (a.pc = 1 /\ Idle(a.psock)) \/ WaitsAt(a)
  /\ k.tcpstate = "ESTABLISHED" => Awaits(a, k, n, sd)
AppInv == ServerOK(app, conn, acked, said, promised)

(* A connection that it has closed is over, and all was acknowledged.      *)
SaidAll(a, k, o, n, w) ==
  a.close = TRUE => /\ k.tcpstate \notin OpenStates /\ o # "none" /\ w = n
                    /\ n = Before(a, Len(a.script) + 1)
CloseInv == SaidAll(app, conn, opener, acked, wrote)

saidN     == said'
promisedN == promised'
ServerNext == ServerOK(app', next, ackedN, saidN, promisedN)
CloseNext  == SaidAll(app', next, opener', ackedN, wroteN)

LEMMA NextMeans == /\ ServerNext => AppInv'
                   /\ CloseNext => CloseInv'
<1>1. conn' = next
  BY DEF conn, next
<1> QED
  BY <1>1 DEF ServerNext, CloseNext, AppInv, CloseInv, ServerOK, SaidAll, Awaits,
              saidN, promisedN, ackedN, wroteN

\* The callback of a step.
LEMMA EventIs ==
  ASSUME StreamInv, StreamInv'
  PROVE  /\ Event \in Callback /\ Event.mss = next.mss
         /\ Event.connected <=> "CONNECTED" \in Told
         /\ Event.acked <=> "ACKDATA" \in Told
         /\ Event.rexmit <=> "REXMIT" \in Told
         /\ Event.newdata <=> "NEWDATA" \in Told
         /\ Event.data = Rest(fed', Len(fed))
<1> DEFINE d == Rest(fed', Len(fed))
<1>1. fed \in Seq(Nat) /\ fed' \in Seq(Nat) /\ next \in Conn
  <2>1. IInv' /\ RecvInv /\ RecvInv'
    BY DEF StreamInv, LinkInv
  <2>2. uip_conns' \in [Conns -> Conn] /\ 1 \in Conns
    BY <2>1, LinkAssumption DEF IInv, Conns
  <2> QED
    BY <2>1, <2>2 DEF RecvInv, next
<1>2. d \in Seq(Nat)
  <2>1. Len(fed) \in Nat /\ Len(fed') \in Nat /\ \A i \in 1..Len(fed') : fed'[i] \in Nat
    BY <1>1, LenProperties, ElementOfSeq
  <2> DEFINE m == Len(fed) + 1
             n == Len(fed')
             f == fed'
  <2>2. m \in Int /\ n \in Int /\ \A i \in m..n : f[i] \in Nat
    BY <2>1
  <2>3. SubSeq(f, m, n) \in Seq(Nat)
    <3> HIDE DEF m, n, f
    <3> QED
      BY <2>2, SubSeqProperties
  <2> QED
    BY <2>3 DEF Rest
<1>3. next.mss \in Nat
  BY <1>1, Small DEF Conn
<1> HIDE DEF d
<1>4. Event = [connected |-> "CONNECTED" \in Told, acked |-> "ACKDATA" \in Told,
               rexmit |-> "REXMIT" \in Told, newdata |-> "NEWDATA" \in Told,
               data |-> d, mss |-> next.mss]
  BY DEF Event, next, d
<1>5. \A b1, b2, b3, b4 \in BOOLEAN :
        LET e == [connected |-> b1, acked |-> b2, rexmit |-> b3, newdata |-> b4,
                  data |-> d, mss |-> next.mss]
        IN /\ e \in Callback /\ e.mss = next.mss /\ e.data = d
           /\ (e.connected <=> b1) /\ (e.acked <=> b2) /\ (e.rexmit <=> b3) /\ (e.newdata <=> b4)
  BY <1>2, <1>3 DEF Callback
<1>6. /\ ("CONNECTED" \in Told) \in BOOLEAN /\ ("ACKDATA" \in Told) \in BOOLEAN
      /\ ("REXMIT" \in Told) \in BOOLEAN /\ ("NEWDATA" \in Told) \in BOOLEAN
  OBVIOUS
<1> QED
  BY <1>4, <1>5, <1>6 DEF d

\* What the model does with the answer.
LEMMA Called ==
  ASSUME AppCall, appcall' # {}
  PROVE  /\ app' = hello_world_appcall(app, Event) /\ Replied(app')
         /\ saidN = IF app'.psock.out.len > 0 THEN app'.psock.out.at ELSE said
         /\ promisedN = IF next.tcpstate # "ESTABLISHED" /\ ~app'.close THEN promised
                        ELSE Before(app', IF app'.close THEN Len(app'.script) + 1 ELSE app'.pc)
  BY DEF AppCall, saidN, promisedN, next

LEMMA NotCalled ==
  ASSUME AppCall, appcall' = {}
  PROVE  app' = app /\ saidN = said /\ promisedN = promised
  BY DEF AppCall, saidN, promisedN

\* Where a callback leaves the accounts, as far as the application decides it.
LEMMA LeavesFacts ==
  ASSUME NEW z, NEW a, NEW g \in Nat, NEW e, Leaves(z, a, g, e), AppOK(a)
  PROVE  /\ AppOK(z)
         /\ \/ /\ Ended(z, g) /\ z.close = TRUE /\ z.pc = 1 /\ Idle(z.psock)
               /\ Before(z, Len(z.script) + 1) = g
            \/ /\ z.close = FALSE /\ WaitsAt(z) /\ Before(z, z.pc) = g
               /\ IsSend(Op(z)) => OpSize(z) \in Nat /\ OpSize(z) > 0
               /\ IsSend(Op(z)) /\ Fits(e.mss) => z.psock.out.at = g + 1 /\ z.psock.out.len = OpSize(z)
               /\ ~IsSend(Op(z)) => z.psock.out.len = 0
<1>1. CASE Ended(z, g)
  <2>1. z.close \in BOOLEAN
    BY <1>1, AppFacts DEF Ended
  <2> QED
    BY <1>1, <2>1 DEF Ended
<1>2. CASE z.close = FALSE /\ Stuck(z, z.pc, g, e)
  <2>1. /\ AppOK(z) /\ WaitsAt(z) /\ Before(z, z.pc) = g
        /\ IsSend(Op(z)) /\ Fits(e.mss) => z.psock.out = [at |-> g + 1, len |-> OpSize(z)]
        /\ ~IsSend(Op(z)) => z.psock.out = Nothing
    BY <1>2 DEF Stuck
  <2>2. IsSend(Op(z)) => OpSize(z) > 0
    BY <2>1 DEF WaitsAt, Sending
  <2>3. OpSize(z) \in Nat
    BY <2>1, OpFacts DEF WaitsAt
  <2> QED
    BY <1>2, <2>1, <2>2, <2>3 DEF Nothing
<1> QED
  BY <1>1, <1>2 DEF Leaves

\* After all that was in flight is acknowledged, or at the beginning.
LEMMA AnsweredServer ==
  ASSUME NEW e, NEW y \in Conn, AppOK(app), Leaves(app', app, ackedN, e), Fits(e.mss), Replied(app'),
         ackedN \in Nat, Answered(y), y.len = 0, Remember, wrote = ackedN,
         Told \cap {"ACKDATA", "CONNECTED"} # {} \/ conn.len = 0,
         Told \cap Final = {}, "REXMIT" \notin Told,
         saidN = IF app'.psock.out.len > 0 THEN app'.psock.out.at ELSE said,
         promisedN = IF next.tcpstate # "ESTABLISHED" /\ ~app'.close THEN promised
                     ELSE Before(app', IF app'.close THEN Len(app'.script) + 1 ELSE app'.pc),
         promised \in Nat, promised <= ackedN, opener' # "none"
  PROVE  ServerNext /\ CloseNext
<1> DEFINE z == app'
<1>1. /\ \A x \in appcall' : x.act = IF z.close THEN "close" ELSE "none"
      /\ \/ z.close
         \/ next.len = IF conn.len = 0 \/ Told \cap {"ACKDATA", "CONNECTED"} # {} THEN z.psock.out.len
                       ELSE conn.len
  BY DEF Replied, Final, next
<1>2. wroteN = IF next.tcpstate = "ESTABLISHED" /\ ackedN + next.len > wrote
               THEN ackedN + next.len ELSE wrote
  BY RememberFacts
<1> HIDE DEF z
<1>3. AppOK(z)
  BY LeavesFacts DEF z
<1>4. CASE /\ z.close = TRUE /\ z.pc = 1 /\ Idle(z.psock) /\ Before(z, Len(z.script) + 1) = ackedN
  <2>1. next.tcpstate \in {"CLOSED", "FIN_WAIT_1"}
    BY <1>1, <1>4 DEF Answered
  <2>2. wroteN = ackedN
    BY <1>2, <2>1
  <2>3. promisedN = ackedN
    BY <1>4 DEF z
  <2> QED
    BY <1>3, <1>4, <2>1, <2>2, <2>3 DEF ServerNext, CloseNext, ServerOK, SaidAll, OpenStates, SynStates, z
<1>5. CASE /\ z.close = FALSE /\ WaitsAt(z) /\ Before(z, z.pc) = ackedN
           /\ IsSend(Op(z)) => OpSize(z) \in Nat /\ OpSize(z) > 0
           /\ IsSend(Op(z)) => z.psock.out.at = ackedN + 1 /\ z.psock.out.len = OpSize(z)
           /\ ~IsSend(Op(z)) => z.psock.out.len = 0
  <2>1. promisedN \in Nat /\ promisedN <= ackedN
    BY <1>5 DEF z
  <2>2. next.len = z.psock.out.len
    BY <1>1, <1>5
  <2>3. Awaits(z, next, ackedN, saidN)
    <3>1. IsSend(Op(z)) => next.len = OpSize(z) /\ saidN = ackedN + 1
      BY <1>5, <2>2 DEF z
    <3> QED
      BY <1>5, <2>2, <3>1 DEF Awaits
  <2> QED
    BY <1>3, <1>5, <2>1, <2>3 DEF ServerNext, CloseNext, ServerOK, SaidAll, z
<1> QED
  BY <1>4, <1>5, LeavesFacts DEF z

\* After the peer has closed: no answer is asked for.
LEMMA ClosedServer ==
  ASSUME NEW e, AppOK(app), Leaves(app', app, ackedN, e), ackedN \in Nat,
         next.tcpstate = "LAST_ACK", wroteN = ackedN,
         promisedN = IF next.tcpstate # "ESTABLISHED" /\ ~app'.close THEN promised
                     ELSE Before(app', IF app'.close THEN Len(app'.script) + 1 ELSE app'.pc),
         promised \in Nat, promised <= ackedN, opener' # "none"
  PROVE  ServerNext /\ CloseNext
<1> DEFINE z == app'
<1> HIDE DEF z
<1>1. AppOK(z)
  BY LeavesFacts DEF z
<1>2. CASE /\ z.close = TRUE /\ z.pc = 1 /\ Idle(z.psock) /\ Before(z, Len(z.script) + 1) = ackedN
  <2>1. promisedN = ackedN
    BY <1>2 DEF z
  <2> QED
    BY <1>1, <1>2, <2>1 DEF ServerNext, CloseNext, ServerOK, SaidAll, OpenStates, SynStates, z
<1>3. CASE z.close = FALSE /\ WaitsAt(z)
  <2>1. promisedN = promised
    BY <1>3 DEF z
  <2> QED
    BY <1>1, <1>3, <2>1 DEF ServerNext, CloseNext, ServerOK, SaidAll, z
<1> QED
  BY <1>2, <1>3, LeavesFacts DEF z

\* Every script has something to say.
Talks == \A s \in Scripts : \E i \in DOMAIN s : s[i].op \in {"send", "generator"} /\ s[i].len > 0

LEMMA TalksBytes ==
  ASSUME Talks, NEW a, AppOK(a)
  PROVE  Before(a, Len(a.script) + 1) # 0
<1> DEFINE t == a.script
           m == NameLen(a)
<1>1. t \in Scripts /\ m \in Nat /\ Len(t) \in Nat
  BY AppFacts
<1> HIDE DEF t, m
<1>2. PICK i \in DOMAIN t : t[i].op \in {"send", "generator"} /\ t[i].len > 0
  BY <1>1 DEF Talks
<1>3. i \in 1..Len(t)
  <2>1. t \in Seq([op: {"send", "generator", "sendname", "readto", "readbuf"}, len: Nat])
    BY <1>1, ScriptAssumption
  <2> QED
    BY <1>2, <2>1, LenProperties
<1>4. Size(t[i], m) > 0 /\ Size(t[i], m) \in Nat
  BY <1>1, <1>2, <1>3, ScriptFacts DEF Size, IsSend
<1>5. /\ i \in Nat /\ i > 0 /\ i \in 1..(Len(t) + 1) /\ i + 1 \in 1..(Len(t) + 1)
      /\ Len(t) + 1 \in (i + 1)..(Len(t) + 1) /\ Len(t) + 1 \in 1..(Len(t) + 1)
  BY <1>1, <1>3
<1>6. /\ Bytes(t, m, i + 1) = Bytes(t, m, i) + Size(t[i], m)
      /\ Bytes(t, m, i) \in Nat /\ Bytes(t, m, i + 1) \in Nat /\ Bytes(t, m, Len(t) + 1) \in Nat
  BY <1>1, <1>5, BytesNext, BytesType
<1>7. Bytes(t, m, i + 1) <= Bytes(t, m, Len(t) + 1)
  BY <1>1, <1>5, BytesGrow
<1>8. Bytes(t, m, Len(t) + 1) # 0
  BY <1>4, <1>6, <1>7
<1> QED
  BY <1>8 DEF Before, t, m

\* A callback that ends the connection.
LEMMA FinalServer ==
  ASSUME StreamInv, StreamInv', AppInv, AppCall, appcall' # {}, Told \subseteq Final,
         next.tcpstate # "ESTABLISHED", ackedN = acked
  PROVE  ServerNext /\ (Talks => CloseNext)
<1> DEFINE z == app'
           e == Event
<1>1. /\ AppOK(app) /\ promised \in Nat /\ promised <= acked /\ acked \in Nat
      /\ (app.pc = 1 /\ Idle(app.psock)) \/ WaitsAt(app)
  BY DEF AppInv, ServerOK, StreamInv, LinkInv, SendInv
<1>2. /\ z = hello_world_appcall(app, e)
      /\ promisedN = IF next.tcpstate # "ESTABLISHED" /\ ~z.close THEN promised
                     ELSE Before(z, IF z.close THEN Len(z.script) + 1 ELSE z.pc)
  BY Called
<1>3. /\ e \in Callback /\ e.connected = FALSE /\ e.acked = FALSE /\ e.rexmit = FALSE
      /\ e.newdata = FALSE
  <2>1. e \in Callback /\ ~e.connected /\ ~e.acked /\ ~e.rexmit /\ ~e.newdata
    BY EventIs DEF Final
  <2> QED
    BY <2>1 DEF Callback
<1>4. Suits(e)
  BY <1>3 DEF Suits
<1> HIDE DEF z, e
<1>5. ASSUME AppOK(z), WaitsAt(z), z.close = FALSE PROVE ServerNext /\ CloseNext
  <2>1. promisedN = promised
    BY <1>2, <1>5
  <2> QED
    BY <1>1, <1>5, <2>1 DEF ServerNext, CloseNext, ServerOK, SaidAll, z
<1>6. CASE WaitsAt(app)
  <2>1. Remains(z, app) /\ AppOK(z) /\ WaitsAt(z)
    BY <1>1, <1>2, <1>3, <1>4, <1>6, CallWaits DEF Stuck, Still
  <2> QED
    BY <1>5, <2>1 DEF Remains
<1>7. CASE app.pc = 1 /\ Idle(app.psock)
  <2>1. Leaves(z, app, 0, e)
    BY <1>1, <1>2, <1>3, <1>4, <1>7, CallIdle
  <2>2. \/ AppOK(z) /\ z.close = TRUE /\ z.pc = 1 /\ Idle(z.psock) /\ Before(z, Len(z.script) + 1) = 0
        \/ AppOK(z) /\ z.close = FALSE /\ WaitsAt(z)
    BY <1>1, <2>1, LeavesFacts
  <2>3. CASE AppOK(z) /\ z.close = TRUE /\ z.pc = 1 /\ Idle(z.psock) /\ Before(z, Len(z.script) + 1) = 0
    <3>1. promisedN = 0 /\ ~Talks
      BY <1>2, <2>3, TalksBytes
    <3> QED
      BY <1>1, <2>3, <3>1 DEF ServerNext, ServerOK, z
  <2> QED
    BY <1>5, <2>2, <2>3
<1> QED
  BY <1>1, <1>6, <1>7

\* A step in which the application is not called.
LEMMA SilentServer ==
  ASSUME AppInv, app' = app, saidN = said, promisedN = promised, ackedN = acked,
         next.tcpstate = "ESTABLISHED" => conn.tcpstate = "ESTABLISHED" /\ next.len = conn.len
  PROVE  ServerNext
<1>1. ServerOK(app, conn, acked, said, promised)
  BY DEF AppInv
<1>2. ServerOK(app, next, acked, said, promised)
  BY <1>1 DEF ServerOK, Awaits
<1> QED
  BY <1>2 DEF ServerNext

\* A segment that is sent again, or an answer while one is in flight.
LEMMA WaitingServer ==
  ASSUME StreamInv, StreamInv', AppInv, AppCall, appcall' # {}, conn.tcpstate = "ESTABLISHED",
         Told \subseteq {"REXMIT", "NEWDATA", "POLL"}, IsSend(Op(app)), ackedN = acked,
         next.tcpstate = "ESTABLISHED" => next.len = conn.len, "REXMIT" \in Told => Fits(next.mss)
  PROVE  ServerNext /\ CloseNext
<1> DEFINE z == app'
           e == Event
           g == Before(app, app.pc)
<1>1. /\ AppOK(app) /\ promised \in Nat /\ promised <= acked /\ acked \in Nat
      /\ WaitsAt(app) /\ acked = g /\ conn.len = OpSize(app)
      /\ said = acked + 1 \/ (Op(app).op = "generator" /\ said = 0)
  BY DEF AppInv, ServerOK, StreamInv, LinkInv, SendInv, Awaits
<1>2. /\ z = hello_world_appcall(app, e)
      /\ saidN = IF z.psock.out.len > 0 THEN z.psock.out.at ELSE said
      /\ promisedN = IF next.tcpstate # "ESTABLISHED" /\ ~z.close THEN promised
                     ELSE Before(z, IF z.close THEN Len(z.script) + 1 ELSE z.pc)
  BY Called
<1>3. e \in Callback /\ ~e.connected /\ ~e.acked /\ (e.rexmit <=> "REXMIT" \in Told) /\ e.mss = next.mss
  BY EventIs
<1>4. Suits(e) /\ e.connected = FALSE
  BY <1>3 DEF Suits, Callback
<1> HIDE DEF z, e
<1>5. /\ z.psock.buf = app.psock.buf /\ Remains(z, app) /\ AppOK(z) /\ WaitsAt(z)
      /\ Before(z, z.pc) = g
      /\ e.rexmit => Again(z, app.pc, g, e)
      /\ ~e.rexmit => z.psock.out = Nothing
  <2> HIDE DEF g
  <2>1. /\ z.psock.buf = app.psock.buf
        /\ e.rexmit => Remains(z, app) /\ Again(z, app.pc, g, e)
        /\ ~e.rexmit => Remains(z, app) /\ Still(z, app.pc, g)
    BY <1>1, <1>2, <1>3, <1>4, CallWaits DEF g
  <2> QED
    BY <2>1 DEF Again, Still
<1>6. z.close = FALSE /\ Op(z) = Op(app) /\ OpSize(z) = OpSize(app)
  BY <1>5, SameBuf DEF Remains
<1>7. saidN = acked + 1 \/ (Op(z).op = "generator" /\ saidN = 0)
  <2>1. CASE e.rexmit
    <3>1. z.psock.out = [at |-> Place(Op(z).op = "generator", g + 1), len |-> OpSize(z)]
      BY <1>1, <1>3, <1>5, <1>6, <2>1 DEF Again
    <3>2. z.psock.out.at = g + 1 \/ (Op(z).op = "generator" /\ z.psock.out.at = 0)
      BY <3>1 DEF Place
    <3> QED
      BY <1>1, <1>2, <1>6, <3>2
  <2>2. CASE ~e.rexmit
    BY <1>1, <1>2, <1>5, <1>6, <2>2 DEF Nothing
  <2> QED
    BY <2>1, <2>2
<1>8. promisedN \in Nat /\ promisedN <= acked
  BY <1>1, <1>2, <1>5, <1>6
<1>9. next.tcpstate = "ESTABLISHED" => Awaits(z, next, acked, saidN)
  BY <1>1, <1>5, <1>6, <1>7 DEF Awaits
<1> QED
  BY <1>5, <1>6, <1>8, <1>9 DEF ServerNext, CloseNext, ServerOK, SaidAll, z

-----------------------------------------------------------------------------
(* Every kind of step.                                                     *)
Serves == /\ StreamInv /\ StreamInv' /\ AppInv /\ AppCall /\ Remember
          /\ opener' \in {opener, "peer"}
ServedBy == ServerNext /\ (Talks /\ CloseInv => CloseNext)

LEMMA ServesFacts ==
  ASSUME Serves
  PROVE  /\ IInv /\ SendInv /\ OpenInv
         /\ acked \in Nat /\ wrote \in Nat /\ conn.len \in Nat
         /\ ackedN = IF "ACKDATA" \in Told THEN acked + conn.len ELSE acked
         /\ next.tcpstate # "ESTABLISHED" => wroteN = wrote
         /\ AppOK(app) /\ promised \in Nat /\ promised <= acked
         /\ conn.tcpstate # "CLOSED" => opener' # "none"
<1>1. IInv /\ SendInv /\ OpenInv /\ Remember /\ AppInv
  BY DEF Serves, StreamInv, LinkInv
<1>2. conn.tcpstate # "CLOSED" => opener' # "none"
  BY <1>1 DEF OpenInv, Serves
<1>3. AppOK(app) /\ promised \in Nat /\ promised <= acked
  BY <1>1 DEF AppInv, ServerOK
<1> QED
  BY <1>1, <1>2, <1>3, SendFacts, RememberFacts

LEMMA OverServer ==
  ASSUME Serves, Told \subseteq Final, next.tcpstate \notin OpenStates
  PROVE  ServedBy
<1>1. ackedN = acked /\ wroteN = wrote /\ next.tcpstate # "ESTABLISHED"
  BY ServesFacts DEF Final, OpenStates
<1>2. CASE appcall' # {}
  BY <1>1, <1>2, FinalServer DEF Serves, ServedBy
<1>3. CASE appcall' = {}
  <2>1. app' = app /\ saidN = said /\ promisedN = promised
    BY <1>3, NotCalled DEF Serves
  <2>2. ServerNext
    BY <1>1, <2>1, SilentServer DEF Serves
  <2>3. CloseInv => CloseNext
    BY <1>1, <2>1 DEF Serves, CloseInv, CloseNext, SaidAll
  <2> QED
    BY <2>2, <2>3 DEF ServedBy
<1> QED
  BY <1>2, <1>3

LEMMA EndServer ==
  ASSUME Serves, NEW ok, Dies \/ Finishes(ok)
  PROVE  ServedBy
<1>1. Told \subseteq Final /\ next.tcpstate \notin OpenStates
  BY DEF Dies, Finishes, OpenStates, SynStates, Waits
<1> QED
  BY <1>1, OverServer

LEMMA KeepsServer ==
  ASSUME Serves, Keeps, conn.tcpstate # "CLOSED" => Fit(next)
  PROVE  ServedBy
<1>1. ackedN = acked /\ next.tcpstate = conn.tcpstate /\ next.len = conn.len
  BY ServesFacts DEF Keeps
<1>2. CASE appcall' = {}
  <2>1. app' = app /\ saidN = said /\ promisedN = promised
    BY <1>2, NotCalled DEF Serves
  <2>2. ServerNext
    BY <1>1, <2>1, SilentServer DEF Serves
  <2>3. conn.tcpstate \notin OpenStates => wroteN = wrote
    BY <1>1, ServesFacts DEF OpenStates
  <2>4. CloseInv => CloseNext
    BY <1>1, <2>1, <2>3 DEF Serves, CloseInv, CloseNext, SaidAll
  <2> QED
    BY <2>2, <2>4 DEF ServedBy
<1>3. CASE Told = {"REXMIT"} /\ conn.tcpstate = "ESTABLISHED" /\ conn.len > 0 /\ appcall' # {}
  <2>1. IsSend(Op(app))
    BY <1>3, ServesFacts DEF Serves, AppInv, ServerOK, Awaits
  <2>2. Fits(next.mss)
    BY <1>3 DEF Fit
  <2> QED
    BY <1>1, <1>3, <2>1, <2>2, WaitingServer DEF Serves, ServedBy
<1> QED
  BY <1>2, <1>3 DEF Keeps

LEMMA StartsServer ==
  ASSUME Serves, NEW s, Starts(s), opener = "none"
  PROVE  ServedBy
<1>1. Told = {} /\ appcall' = {} /\ next.tcpstate = "SYN_RCVD"
  BY DEF Starts
<1>2. app' = app /\ saidN = said /\ promisedN = promised /\ ackedN = acked
  BY <1>1, NotCalled, ServesFacts DEF Serves
<1>3. ServerNext
  BY <1>1, <1>2, SilentServer DEF Serves
<1>4. CloseInv => CloseNext
  BY <1>2 DEF CloseInv, CloseNext, SaidAll
<1> QED
  BY <1>3, <1>4 DEF ServedBy

\* What was in flight is acknowledged, if anything was.
LEMMA AckedLeaves ==
  ASSUME Serves, appcall' # {}, conn.tcpstate = "ESTABLISHED", "CONNECTED" \notin Told,
         Fits(next.mss), "ACKDATA" \in Told \/ ~IsSend(Op(app))
  PROVE  /\ Leaves(app', app, ackedN, Event) /\ ackedN \in Nat /\ promised <= ackedN
         /\ "ACKDATA" \in Told \/ conn.len = 0
<1> DEFINE z == app'
           e == Event
           g == Before(app, app.pc)
<1>1. /\ AppOK(app) /\ WaitsAt(app) /\ acked = g /\ g \in Nat
      /\ IsSend(Op(app)) => conn.len = OpSize(app)
      /\ ~IsSend(Op(app)) => conn.len = 0
  BY ServesFacts DEF Serves, AppInv, ServerOK, Awaits
<1>2. z = hello_world_appcall(app, e)
  BY Called DEF Serves
<1>3. /\ e \in Callback /\ e.connected = FALSE /\ e.mss = next.mss
      /\ e.acked <=> "ACKDATA" \in Told
  <2>1. /\ e \in Callback /\ ~e.connected /\ e.mss = next.mss
        /\ e.acked <=> "ACKDATA" \in Told
    BY EventIs DEF Serves
  <2> QED
    BY <2>1 DEF Callback
<1>4. Suits(e)
  BY <1>3 DEF Suits
<1>5. ackedN = IF "ACKDATA" \in Told THEN g + conn.len ELSE g
  BY <1>1, ServesFacts
<1>6. promised <= acked /\ promised \in Nat /\ conn.len \in Nat
  BY ServesFacts
<1> HIDE DEF z, e, g
<1>7. CASE IsSend(Op(app))
  <2>1. e.acked /\ ackedN = g + OpSize(app)
    BY <1>1, <1>3, <1>5, <1>7
  <2>2. Leaves(z, app, g + OpSize(app), e)
    BY <1>1, <1>2, <1>3, <1>4, <1>7, <2>1, CallWaits DEF g
  <2>3. ackedN \in Nat /\ promised <= ackedN
    BY <1>1, <1>5, <1>6
  <2> QED
    BY <1>7, <2>1, <2>2, <2>3 DEF z, e
<1>8. CASE ~IsSend(Op(app))
  <2>1. ackedN = g /\ conn.len = 0
    BY <1>1, <1>5, <1>8
  <2>2. Leaves(z, app, g, e)
    BY <1>1, <1>2, <1>3, <1>4, <1>8, CallWaits DEF g
  <2> QED
    BY <1>1, <1>6, <2>1, <2>2 DEF z, e
<1> QED
  BY <1>7, <1>8

LEMMA PeerClosesServer ==
  ASSUME Serves, NEW ok, PeerCloses(ok), ok => Len(peer.heard) = wrote, Fit(next)
  PROVE  ServedBy
<1>1. PICK y \in Conn : AckStep(ok, y) /\ y.len = 0
  BY DEF PeerCloses
<1>2. /\ conn.tcpstate = "ESTABLISHED" /\ next.tcpstate = "LAST_ACK" /\ "CONNECTED" \notin Told
      /\ appcall' # {} /\ Fits(next.mss)
  BY DEF PeerCloses, Final, Told, Fit
<1>3. wrote = ackedN
  <2>1. ackedN \in Nat /\ wrote = ackedN + y.len
    BY <1>1, <1>2, ServesFacts, AckAccounts DEF Serves
  <2> QED
    BY <1>1, <2>1
<1>4. "ACKDATA" \in Told \/ ~IsSend(Op(app))
  <2>1. /\ IsSend(Op(app)) => conn.len = OpSize(app) /\ OpSize(app) > 0
        /\ "ACKDATA" \notin Told => y.len = conn.len
    BY <1>1, <1>2 DEF Serves, AppInv, ServerOK, Awaits, WaitsAt, Sending, AckStep
  <2> QED
    BY <1>1, <2>1
<1>5. Leaves(app', app, ackedN, Event) /\ ackedN \in Nat /\ promised <= ackedN
  BY <1>2, <1>4, AckedLeaves
<1>6. /\ promisedN = IF next.tcpstate # "ESTABLISHED" /\ ~app'.close THEN promised
                     ELSE Before(app', IF app'.close THEN Len(app'.script) + 1 ELSE app'.pc)
      /\ wroteN = wrote /\ opener' # "none" /\ AppOK(app) /\ promised \in Nat
  BY <1>2, Called, ServesFacts DEF Serves
<1> QED
  BY <1>2, <1>3, <1>5, <1>6, ClosedServer DEF ServedBy

LEMMA ExchangesServer ==
  ASSUME Serves, NEW ok, NEW m, Exchanges(ok, m), ok => Len(peer.heard) = wrote, Fit(next)
  PROVE  ServedBy
<1>1. PICK y \in Conn : AckStep(ok, y) /\ Answered(y)
  BY DEF Exchanges
<1>2. /\ conn.tcpstate = "ESTABLISHED" /\ Told \subseteq {"ACKDATA", "NEWDATA", "POLL"}
      /\ appcall' # {} /\ Fits(next.mss)
  BY <1>1 DEF Exchanges, Answered, Fit
<1>3. ackedN \in Nat /\ wrote = ackedN + y.len
  BY <1>1, <1>2, ServesFacts, AckAccounts DEF Serves
<1>4. CASE "ACKDATA" \in Told \/ ~IsSend(Op(app))
  <2>1. /\ Leaves(app', app, ackedN, Event) /\ promised <= ackedN
        /\ "ACKDATA" \in Told \/ conn.len = 0
    BY <1>2, <1>4, AckedLeaves
  <2>2. y.len = 0
    BY <1>1, <2>1 DEF AckStep
  <2>3. wrote = ackedN
    BY <1>3, <2>2
  <2>4. /\ Replied(app') /\ Event.mss = next.mss
        /\ saidN = IF app'.psock.out.len > 0 THEN app'.psock.out.at ELSE said
        /\ promisedN = IF next.tcpstate # "ESTABLISHED" /\ ~app'.close THEN promised
                       ELSE Before(app', IF app'.close THEN Len(app'.script) + 1 ELSE app'.pc)
    BY <1>2, Called, EventIs DEF Serves
  <2>5. /\ Told \cap Final = {} /\ "REXMIT" \notin Told /\ Remember
        /\ opener' # "none" /\ AppOK(app) /\ promised \in Nat
        /\ Told \cap {"ACKDATA", "CONNECTED"} # {} \/ conn.len = 0
    BY <1>2, <2>1, ServesFacts DEF Final, Serves
  <2> QED
    BY <1>1, <1>2, <1>3, <2>1, <2>2, <2>3, <2>4, <2>5, AnsweredServer DEF ServedBy
<1>5. CASE "ACKDATA" \notin Told /\ IsSend(Op(app))
  <2>1. conn.len # 0 /\ y.len = conn.len
    BY <1>1, <1>2, <1>5 DEF Serves, AppInv, ServerOK, Awaits, WaitsAt, Sending, AckStep
  <2>2. next.tcpstate = "ESTABLISHED" => next.len = conn.len
    BY <1>1, <2>1 DEF Answered
  <2>3. ackedN = acked
    BY <1>5, ServesFacts
  <2>4. Told \subseteq {"REXMIT", "NEWDATA", "POLL"}
    BY <1>2, <1>5
  <2> QED
    BY <1>2, <1>5, <2>2, <2>3, <2>4, WaitingServer DEF Serves, ServedBy
<1> QED
  BY <1>4, <1>5

LEMMA OpenedServer ==
  ASSUME Serves, NEW s, Opened(s), s.flags # {"SYN", "ACK"}, Fit(next)
  PROVE  ServedBy
<1>1. PICK y \in Conn : Answered(y) /\ y.len = 0
  BY DEF Opened
<1>2. /\ conn.tcpstate \in SynStates /\ "CONNECTED" \in Told /\ Told \subseteq {"CONNECTED", "NEWDATA"}
      /\ appcall' # {} /\ Fits(next.mss)
  BY <1>1 DEF Opened, Answered, Fit
<1>3. ackedN = 0 /\ wrote = 0 /\ promised <= ackedN
  <2>1. wrote = 0
    BY <1>2, ServesFacts DEF SendInv
  <2>2. acked = 0
    BY <2>1, ServesFacts, SendFacts
  <2> QED
    BY <1>2, <2>1, <2>2, ServesFacts
<1>4. /\ Event \in Callback /\ Event.connected = TRUE /\ ~Event.acked /\ Event.mss = next.mss
  <2>1. Event \in Callback /\ Event.connected /\ ~Event.acked /\ Event.mss = next.mss
    BY <1>2, EventIs DEF Serves
  <2> QED
    BY <2>1 DEF Callback
<1>5. /\ app' = hello_world_appcall(app, Event) /\ Replied(app')
      /\ saidN = IF app'.psock.out.len > 0 THEN app'.psock.out.at ELSE said
      /\ promisedN = IF next.tcpstate # "ESTABLISHED" /\ ~app'.close THEN promised
                     ELSE Before(app', IF app'.close THEN Len(app'.script) + 1 ELSE app'.pc)
  BY <1>2, Called DEF Serves
<1>6. Suits(Event)
  BY <1>4 DEF Suits
<1>7. Leaves(app', app, ackedN, Event)
  BY <1>3, <1>4, <1>5, <1>6, ServesFacts, CallConnected
<1>8. /\ Told \cap Final = {} /\ "REXMIT" \notin Told /\ Remember
      /\ opener' # "none" /\ AppOK(app) /\ promised \in Nat /\ ackedN \in Nat /\ wrote = ackedN
      /\ Told \cap {"ACKDATA", "CONNECTED"} # {} \/ conn.len = 0
  BY <1>2, <1>3, ServesFacts DEF Final, Serves, SynStates
<1> QED
  BY <1>1, <1>2, <1>3, <1>4, <1>5, <1>7, <1>8, AnsweredServer DEF ServedBy

-----------------------------------------------------------------------------
(* Every step.                                                             *)
LEMMA CarriesFits ==
  ASSUME OneSegment, NEW s, NEW at, Carries(s, at)
  PROVE  FitSeg(s)
<1>1. ~Fits(0)
  BY BufBounds DEF Fits
<1>2. /\ s.wnd # 0 => Fits(s.wnd)
      /\ "SYN" \in s.flags => Fits(s.mss)
  BY DEF OneSegment, Carries
<1> QED
  BY <1>1, <1>2 DEF FitSeg

LEMMA FitNext ==
  ASSUME FitInv, conn.tcpstate # "CLOSED" /\ Fit(conn) => Fit(next),
         conn.tcpstate = "CLOSED" => next.tcpstate = "CLOSED" \/ Fit(next)
  PROVE  FitInv' /\ (conn.tcpstate # "CLOSED" => Fit(next))
<1>1. conn' = next
  BY DEF conn, next
<1> QED
  BY <1>1 DEF FitInv, Fit

LEMMA ArrivalFit ==
  ASSUME IInv, OneSegment, FitInv, NEW s \in Arriving, NEW at, Carries(s, at), Input(s)
  PROVE  FitInv' /\ (conn.tcpstate # "CLOSED" => Fit(next))
<1>0. s \in Segment /\ FitSeg(s) /\ Conns = {1}
  BY CarriesFits, OneConn DEF Arriving
<1>1. \/ Found(1, s) /\ RecvFound(1, s)
      \/ NotFound(s) /\ NoCall /\ UNCHANGED uip_conns
      \/ RecvListen(1, s)
  BY <1>0 DEF Input, RecvListenFull, RecvNoConn
<1>2. ASSUME Fit(conn) PROVE Fit(next)
  BY <1>0, <1>1, <1>2, FoundFit, ListenFit, UnchangedFit
<1>3. ASSUME conn.tcpstate = "CLOSED" PROVE next.tcpstate = "CLOSED" \/ Fit(next)
  <2>1. CASE RecvFound(1, s)
    <3>1. FoundKind(s)
      BY <2>1, FoundMoves
    <3>2. Dies \/ Keeps
      BY <1>3, <3>1 DEF FoundKind, Finishes, Exchanges, Opened, PeerCloses, Closing, Waits, SynStates
    <3> QED
      BY <1>3, <3>2 DEF Dies, Keeps
  <2>2. CASE UNCHANGED uip_conns
    BY <1>3, <2>2, SameNext
  <2>3. CASE RecvListen(1, s)
    BY <1>0, <2>3, ListenFit
  <2> QED
    BY <1>1, <2>1, <2>2, <2>3
<1> QED
  BY <1>2, <1>3, FitNext

LEMMA DeliveryServer ==
  ASSUME Serves, OneSegment, FitInv, NEW s \in Arriving, NEW at, Delivery(s, at),
         s.flags # {"SYN", "ACK"}
  PROVE  FitInv' /\ ServedBy
<1>0. /\ Input(s) /\ Carries(s, at) /\ s \in Segment /\ IInv /\ SendInv
      /\ "ACK" \in s.flags => s.ackno \in PeerAcks
      /\ Starts(s) => opener = "none"
  BY ServesFacts DEF Delivery, Deliver, Carries, Arriving
<1>1. FitInv' /\ (conn.tcpstate # "CLOSED" => Fit(next))
  BY <1>0, ArrivalFit
<1> SUFFICES ServedBy
  BY <1>1
<1>2. CASE Keeps
  BY <1>1, <1>2, KeepsServer
<1>3. CASE FoundKind(s)
  <2> DEFINE ok == Acks(conn, s)
  <2>1. ok /\ conn.tcpstate = "ESTABLISHED" => Len(peer.heard) = wrote
    BY <1>0, AckMeans
  <2>2. CASE Dies \/ Finishes(ok)
    <3> HIDE DEF ok
    <3> QED
      BY <2>2, EndServer
  <2>3. CASE Exchanges(ok, s.len - Skip(s))
    <3>1. (ok => Len(peer.heard) = wrote) /\ Fit(next)
      BY <1>1, <2>1, <2>3 DEF Exchanges
    <3> HIDE DEF ok
    <3> QED
      BY <2>3, <3>1, ExchangesServer
  <2>4. CASE PeerCloses(ok)
    <3>1. (ok => Len(peer.heard) = wrote) /\ Fit(next)
      BY <1>1, <2>1, <2>4 DEF PeerCloses
    <3> HIDE DEF ok
    <3> QED
      BY <2>4, <3>1, PeerClosesServer
  <2>5. CASE Opened(s)
    <3>1. Fit(next)
      BY <1>1, <2>5 DEF Opened, SynStates
    <3> QED
      BY <2>5, <3>1, OpenedServer
  <2> QED
    BY <1>2, <1>3, <2>2, <2>3, <2>4, <2>5 DEF FoundKind
<1>4. CASE Starts(s)
  BY <1>0, <1>4, StartsServer
<1>5. ServedBy
  BY <1>0, <1>2, <1>3, <1>4, InputMoves
<1> QED
  BY <1>5

LEMMA TickServer ==
  ASSUME Serves, OneSegment, FitInv, LinkTick
  PROVE  FitInv' /\ ServedBy
<1>0. IInv /\ Periodic(1)
  BY ServesFacts DEF LinkTick
<1>1. Dies \/ Keeps \/ Exchanges(FALSE, 0)
  BY <1>0, TickMoves
<1>2. conn.tcpstate = "CLOSED" => next.tcpstate = "CLOSED"
  BY <1>1 DEF Dies, Keeps, Exchanges
<1>3. FitInv' /\ (conn.tcpstate # "CLOSED" => Fit(next))
  <2>1. Fit(conn) => Fit(next)
    BY <1>0, TickFit
  <2> QED
    BY <1>2, <2>1, FitNext
<1>4. Exchanges(FALSE, 0) => Fit(next)
  BY <1>3 DEF Exchanges
<1>5. ServedBy
  BY <1>1, <1>3, <1>4, EndServer, KeepsServer, ExchangesServer
<1> QED
  BY <1>3, <1>5

\* What the application does not take part in.
LEMMA IdleServer ==
  ASSUME AppInv, UNCHANGED <<uip_conns, acked, app, said, promised>>
  PROVE  /\ AppInv'
         /\ FitInv => FitInv'
         /\ CloseInv /\ UNCHANGED wrote /\ (opener # "none" => opener' # "none") => CloseInv'
<1>1. conn' = conn
  BY DEF conn
<1> QED
  BY <1>1 DEF AppInv, ServerOK, Awaits, FitInv, Fit, CloseInv, SaidAll

LEMMA UserServer ==
  ASSUME StreamInv, OneSegment, AppInv, FitInv, LinkUser, UNCHANGED <<app, said, promised>>
  PROVE  AppInv' /\ FitInv' /\ (CloseInv => CloseInv')
<1>0. IInv /\ UNCHANGED <<acked, wrote>>
  BY DEF StreamInv, LinkInv, LinkUser
<1>1. CASE UNCHANGED uip_conns /\ UNCHANGED opener
  BY <1>0, <1>1, IdleServer
<1>2. ASSUME NEW p, NEW lp, Connect(1, p, lp), opener = "none"
      PROVE  AppInv' /\ FitInv' /\ (CloseInv => CloseInv')
  <2>1. conn' = next /\ next.tcpstate = "SYN_SENT" /\ Fit(next)
    BY <1>0, <1>2, ConnectNext, ConnectFit DEF conn, next
  <2>2. AppInv' /\ FitInv'
    BY <1>0, <2>1 DEF AppInv, ServerOK, FitInv, Fit
  <2>3. CloseInv => CloseInv'
    BY <1>2 DEF CloseInv, SaidAll
  <2> QED
    BY <2>2, <2>3
<1> QED
  BY <1>1, <1>2 DEF LinkUser, Listen

HelloInv == StreamInv /\ AppInv /\ FitInv

LEMMA HelloInitInv == HelloInit => HelloInv /\ CloseInv
<1> SUFFICES ASSUME HelloInit PROVE HelloInv /\ CloseInv
  OBVIOUS
<1>1. LinkInit /\ StreamInv /\ promised = 0 /\ acked = 0
  BY StreamInitInv DEF HelloInit, LinkInit
<1>2. conn.tcpstate = "CLOSED"
  BY <1>1, LinkAssumption DEF LinkInit, Init, Conns, conn
<1>3. PICK s \in Scripts : app = [script |-> s, pc |-> 1, psock |-> psock_init, close |-> FALSE]
  BY DEF HelloInit
<1>4. AppOK(app) /\ app.pc = 1 /\ Idle(app.psock) /\ app.close = FALSE
  BY <1>3, InitType DEF AppOK, App
<1> QED
  BY <1>1, <1>2, <1>4 DEF HelloInv, AppInv, ServerOK, FitInv, CloseInv, SaidAll

LEMMA HelloSteps == HelloNext => LinkNext
  BY DEF HelloNext, LinkNext

LEMMA HelloNextInv ==
  ASSUME OneSegment, HelloInv, [HelloNext]_hvars
  PROVE  HelloInv' /\ (Talks /\ CloseInv => CloseInv')
<1>1. StreamInv /\ StreamInv' /\ AppInv /\ FitInv /\ SendInv
  <2>1. [LinkNext]_lvars
    BY HelloSteps DEF hvars
  <2> QED
    BY <2>1, StreamNextInv DEF HelloInv, StreamInv, LinkInv
<1>2. ASSUME FitInv', ServedBy PROVE HelloInv' /\ (Talks /\ CloseInv => CloseInv')
  BY <1>1, <1>2, NextMeans DEF ServedBy, HelloInv
<1>3. CASE (DeliverSyn \/ DeliverText \/ DeliverRst) /\ AppCall
  <2>1. PICK s \in Arriving, at \in 0..(PeerBytes + 2) :
          Delivery(s, at) /\ s.flags # {"SYN", "ACK"}
    BY <1>1, <1>3, TextDelivers
  <2>2. Serves
    BY <1>1, <1>3, <2>1 DEF Serves, Delivery, Deliver
  <2> QED
    BY <1>1, <1>2, <2>1, <2>2, DeliveryServer
<1>4. CASE LinkTick /\ AppCall
  <2>1. Serves
    BY <1>1, <1>4 DEF Serves, LinkTick
  <2> QED
    BY <1>1, <1>2, <1>4, <2>1, TickServer
<1>5. CASE LinkUser /\ UNCHANGED <<app, said, promised>>
  BY <1>1, <1>5, UserServer DEF HelloInv
<1>6. CASE (\E f \in wire : PeerHears(f)) /\ UNCHANGED <<app, said, promised>>
  <2>1. UNCHANGED <<uip_conns, acked, wrote, opener>>
    BY <1>6, Zenon DEF PeerHears, vars, history
  <2> QED
    BY <1>1, <1>6, <2>1, IdleServer DEF HelloInv
<1>7. CASE UNCHANGED hvars
  <2>1. UNCHANGED <<uip_conns, acked, wrote, opener, app, said, promised>>
    BY <1>7 DEF hvars, lvars, vars, history
  <2> QED
    BY <1>1, <2>1, IdleServer DEF HelloInv
<1> QED
  BY <1>3, <1>4, <1>5, <1>6, <1>7 DEF HelloNext

-----------------------------------------------------------------------------
(***************************************************************************)
(* The results.  OneSegment is what they rest on, and the code needs it:   *)
(* with a message of more than one segment PSOCK_SEND returns early (see   *)
(* the run "psock").                                                       *)
(***************************************************************************)
LEMMA HelloAlways == ASSUME OneSegment PROVE HelloSpec => []HelloInv
<1>1. HelloInit => HelloInv
  BY HelloInitInv
<1>2. HelloInv /\ [HelloNext]_hvars => HelloInv'
  BY HelloNextInv
<1> QED
  BY <1>1, <1>2, PTL DEF HelloSpec

(* PSOCK_SEND returns when all its data is acknowledged, and what is       *)
(* acknowledged has been received by the peer: psock.c data_acked() and    *)
(* psock_send(), driven by uip_process().                                  *)
THEOREM SentReceived == ASSUME OneSegment PROVE HelloSpec => []SentIsReceived
<1>1. HelloInv => SentIsReceived
  <2> SUFFICES ASSUME HelloInv PROVE SentIsReceived
    OBVIOUS
  <2>1. promised <= acked /\ IInv /\ SendInv
    BY DEF HelloInv, AppInv, ServerOK, StreamInv, LinkInv
  <2> QED
    BY <2>1, SendFacts DEF SentIsReceived
<1> QED
  BY <1>1, HelloAlways, PTL

(* Whatever is in flight was taken from the first unacknowledged byte, in  *)
(* the first transmission and in every one that follows (send_data() and   *)
(* its retransmission); a generator's message only until it is             *)
(* retransmitted, when psock_generator_send() sends what the buffer holds. *)
THEOREM WritesFromNext == ASSUME OneSegment PROVE HelloSpec => []WritesNext
<1>1. HelloInv => WritesNext
  <2> SUFFICES ASSUME HelloInv, conn.tcpstate = "ESTABLISHED", conn.len > 0
                  PROVE  said = acked + 1 \/ (Generating /\ said = 0)
    BY DEF WritesNext
  <2>1. Awaits(app, conn, acked, said)
    BY DEF HelloInv, AppInv, ServerOK
  <2> QED
    BY <2>1 DEF Awaits, Generating
<1> QED
  BY <1>1, HelloAlways, PTL

(* PSOCK_CLOSE comes after the last send has returned: when the server has *)
(* closed the connection the peer has heard all of its messages, and still *)
(* has when the protothread begins again for a dead connection, as long as *)
(* every script has something to send then.                                *)
THEOREM HeardBeforeClose == ASSUME OneSegment, Talks PROVE HelloSpec => []Farewell
<1>1. HelloInit => HelloInv /\ CloseInv
  BY HelloInitInv
<1>2. HelloInv /\ CloseInv /\ [HelloNext]_hvars => HelloInv' /\ CloseInv'
  BY HelloNextInv
<1>3. HelloInv /\ CloseInv => Farewell
  <2> SUFFICES ASSUME HelloInv, CloseInv, app.close
               PROVE  Len(peer.heard) = Before(app, Len(app.script) + 1)
    BY DEF Farewell
  <2>1. IInv /\ SendInv /\ AppOK(app)
    BY DEF HelloInv, AppInv, ServerOK, StreamInv, LinkInv
  <2>2. app.close = TRUE
    BY <2>1, AppFacts
  <2>3. wrote = acked /\ acked = Before(app, Len(app.script) + 1)
    BY <2>2 DEF CloseInv, SaidAll
  <2>4. Len(peer.heard) = acked
    BY <2>1, <2>3, SendFacts
  <2> QED
    BY <2>3, <2>4
<1> QED
  BY <1>1, <1>2, <1>3, PTL DEF HelloSpec

-----------------------------------------------------------------------------
(* What a script reads: the peer's stream up to its first line end, or as  *)
(* much of it as the buffer holds.                                         *)
Done(how, f) == IF how = "to" THEN FoundMarker(f) ELSE Len(f) >= BufSize
Want(how, f) == IF how = "to" THEN SubSeq(f, 1, ToMarker(f))
                ELSE SubSeq(f, 1, Smaller(BufSize, Len(f)))

\* The beginning of a sequence does not depend on what follows ...
LEMMA CutJoined ==
  ASSUME NEW b \in Seq(Nat), NEW d \in Seq(Nat), NEW k \in 0..Len(b)
  PROVE  SubSeq(b \o d, 1, k) = SubSeq(b, 1, k)
<1> DEFINE c == b \o d
<1>1. /\ c \in Seq(Nat) /\ Len(b) \in Nat /\ Len(d) \in Nat /\ Len(c) = Len(b) + Len(d)
      /\ \A i \in 1..(Len(b) + Len(d)) : c[i] = IF i <= Len(b) THEN b[i] ELSE d[i - Len(b)]
  BY ConcatProperties, LenProperties
<1> HIDE DEF c
<1>2. k \in Int /\ 1 \in Int /\ k \in Nat /\ k <= Len(b)
  BY <1>1
<1>3. /\ \A i \in 1..k : b[i] \in Nat /\ c[i] = b[i]
      /\ (IF 1 <= k THEN k - 1 + 1 ELSE 0) = k /\ k - 1 + 1 = k
  BY <1>1, <1>2, ElementOfSeq, SMTT(30)
<1>4. /\ SubSeq(b, 1, k) \in Seq(Nat) /\ Len(SubSeq(b, 1, k)) = k
      /\ \A i \in 1..k : SubSeq(b, 1, k)[i] = b[1 + i - 1]
  BY <1>2, <1>3, SubSeqProperties
<1>5. \A i \in 1..k : c[i] \in Nat
  BY <1>3
<1>6. /\ SubSeq(c, 1, k) \in Seq(Nat) /\ Len(SubSeq(c, 1, k)) = k
      /\ \A i \in 1..k : SubSeq(c, 1, k)[i] = c[1 + i - 1]
  BY <1>2, <1>3, <1>5, SubSeqProperties
<1>7. \A i \in 1..k : 1 + i - 1 = i
  OBVIOUS
<1>8. \A i \in 1..k : SubSeq(c, 1, k)[i] = SubSeq(b, 1, k)[i]
  BY <1>3, <1>4, <1>6, <1>7
<1>9. SubSeq(c, 1, k) = SubSeq(b, 1, k)
  BY <1>4, <1>6, <1>8, SeqEqual
<1> QED
  BY <1>9 DEF c

\* ... and a sequence followed by a beginning is the beginning of both.
LEMMA JoinCut ==
  ASSUME NEW b \in Seq(Nat), NEW d \in Seq(Nat), NEW k \in 0..Len(d)
  PROVE  b \o SubSeq(d, 1, k) = SubSeq(b \o d, 1, Len(b) + k)
<1> DEFINE c == b \o d
           t == SubSeq(d, 1, k)
           j == Len(b) + k
<1>1. /\ c \in Seq(Nat) /\ Len(b) \in Nat /\ Len(d) \in Nat /\ Len(c) = Len(b) + Len(d)
      /\ \A i \in 1..(Len(b) + Len(d)) : c[i] = IF i <= Len(b) THEN b[i] ELSE d[i - Len(b)]
  BY ConcatProperties, LenProperties
<1>2. k \in Int /\ 1 \in Int /\ k \in Nat /\ k <= Len(d) /\ j \in Int /\ j \in Nat
      /\ j <= Len(b) + Len(d)
  BY <1>1
<1>3. t \in Seq(Nat) /\ Len(t) = k /\ \A i \in 1..k : t[i] = d[i]
  <2>1. /\ \A i \in 1..k : d[i] \in Nat
        /\ (IF 1 <= k THEN k - 1 + 1 ELSE 0) = k /\ k - 1 + 1 = k
    BY <1>1, <1>2, ElementOfSeq
  <2>2. /\ t \in Seq(Nat) /\ Len(t) = k /\ \A i \in 1..k : t[i] = d[1 + i - 1]
    BY <1>2, <2>1, SubSeqProperties
  <2>3. \A i \in 1..k : 1 + i - 1 = i
    OBVIOUS
  <2> HIDE DEF t
  <2> QED
    BY <2>2, <2>3
<1> HIDE DEF t
<1>4. /\ b \o t \in Seq(Nat) /\ Len(b \o t) = j
      /\ \A i \in 1..j : (b \o t)[i] = IF i <= Len(b) THEN b[i] ELSE t[i - Len(b)]
  BY <1>3, ConcatProperties
<1>5. SubSeq(c, 1, j) \in Seq(Nat) /\ Len(SubSeq(c, 1, j)) = j /\ \A i \in 1..j : SubSeq(c, 1, j)[i] = c[i]
  <2> HIDE DEF c, j
  <2>1. /\ \A i \in 1..j : c[i] \in Nat
        /\ (IF 1 <= j THEN j - 1 + 1 ELSE 0) = j /\ j - 1 + 1 = j
    BY <1>1, <1>2, ElementOfSeq
  <2>2. /\ SubSeq(c, 1, j) \in Seq(Nat) /\ Len(SubSeq(c, 1, j)) = j
        /\ \A i \in 1..j : SubSeq(c, 1, j)[i] = c[1 + i - 1]
    BY <1>2, <2>1, SubSeqProperties
  <2>3. \A i \in 1..j : 1 + i - 1 = i
    OBVIOUS
  <2> QED
    BY <2>2, <2>3
<1>6. ASSUME NEW i \in 1..j PROVE (b \o t)[i] = c[i]
  <2>1. i <= Len(b) \/ i - Len(b) \in 1..k
    BY <1>1, <1>2
  <2>2. i \in 1..(Len(b) + Len(d))
    BY <1>1, <1>2
  <2> HIDE DEF c, j
  <2>3. CASE i <= Len(b)
    BY <1>1, <1>4, <2>2, <2>3
  <2>4. CASE ~(i <= Len(b))
    BY <1>1, <1>3, <1>4, <2>1, <2>2, <2>4
  <2> QED
    BY <2>3, <2>4
<1> HIDE DEF c, j
<1>7. \A i \in 1..j : (b \o t)[i] = SubSeq(c, 1, j)[i]
  BY <1>5, <1>6
<1>8. b \o t = SubSeq(c, 1, j)
  BY <1>4, <1>5, <1>7, SeqEqual
<1> QED
  BY <1>8 DEF c, j, t

\* The first line end of two pieces.
LEMMA JoinMarker ==
  ASSUME NEW b \in Seq(Nat), NEW d \in Seq(Nat)
  PROVE  /\ FoundMarker(b \o d) <=> FoundMarker(b) \/ FoundMarker(d)
         /\ FoundMarker(b) => ToMarker(b \o d) = ToMarker(b)
         /\ ~FoundMarker(b) => ToMarker(b \o d) = Len(b) + ToMarker(d)
<1> DEFINE c == b \o d
<1>1. /\ c \in Seq(Nat) /\ Len(b) \in Nat /\ Len(d) \in Nat /\ Len(c) = Len(b) + Len(d)
      /\ \A i \in 1..(Len(b) + Len(d)) : c[i] = IF i <= Len(b) THEN b[i] ELSE d[i - Len(b)]
      /\ DOMAIN b = 1..Len(b) /\ DOMAIN d = 1..Len(d) /\ DOMAIN c = 1..(Len(b) + Len(d))
  BY ConcatProperties, LenProperties
<1> HIDE DEF c
<1>2. \A i \in 1..Len(b) : i \in 1..Len(c) /\ c[i] = b[i]
  BY <1>1
<1>3. \A i \in 1..Len(d) : Len(b) + i \in 1..Len(c) /\ c[Len(b) + i] = d[i]
  <2> SUFFICES ASSUME NEW i \in 1..Len(d) PROVE Len(b) + i \in 1..Len(c) /\ c[Len(b) + i] = d[i]
    OBVIOUS
  <2>1. Len(b) + i \in 1..(Len(b) + Len(d)) /\ ~(Len(b) + i <= Len(b)) /\ (Len(b) + i) - Len(b) = i
    BY <1>1
  <2> DEFINE j == Len(b) + i
  <2>2. c[j] = IF j <= Len(b) THEN b[j] ELSE d[j - Len(b)]
    BY <1>1, <2>1
  <2> QED
    BY <1>1, <2>1, <2>2
<1>4. \A i \in 1..Len(c) : i \in 1..Len(b) \/ (i > Len(b) /\ i - Len(b) \in 1..Len(d) /\ i = Len(b) + (i - Len(b)))
  BY <1>1
<1>5. /\ FoundMarker(c) <=> \E i \in 1..Len(c) : c[i] \in EndMarkers
      /\ FoundMarker(b) <=> \E i \in 1..Len(b) : b[i] \in EndMarkers
      /\ FoundMarker(d) <=> \E i \in 1..Len(d) : d[i] \in EndMarkers
  BY <1>1 DEF FoundMarker
<1>6. FoundMarker(c) <=> FoundMarker(b) \/ FoundMarker(d)
  <2>1. ASSUME NEW i \in 1..Len(c), c[i] \in EndMarkers PROVE FoundMarker(b) \/ FoundMarker(d)
    <3>1. CASE i \in 1..Len(b)
      BY <1>2, <1>5, <2>1, <3>1
    <3>2. CASE i - Len(b) \in 1..Len(d) /\ i = Len(b) + (i - Len(b))
      <4> DEFINE j == i - Len(b)
      <4>1. j \in 1..Len(d) /\ i = Len(b) + j
        BY <3>2
      <4> HIDE DEF j
      <4>2. c[Len(b) + j] = d[j]
        BY <1>3, <4>1
      <4> QED
        BY <1>5, <2>1, <4>1, <4>2
    <3> QED
      BY <1>4, <3>1, <3>2
  <2> QED
    BY <1>2, <1>3, <1>5, <2>1
<1>7. /\ ToMarker(c) \in 0..Len(c) /\ ToMarker(b) \in 0..Len(b) /\ ToMarker(d) \in 0..Len(d)
      /\ FoundMarker(c) => /\ ToMarker(c) > 0 /\ c[ToMarker(c)] \in EndMarkers
                           /\ \A i \in 1..Len(c) : c[i] \in EndMarkers => ToMarker(c) <= i
      /\ FoundMarker(b) => /\ ToMarker(b) > 0 /\ b[ToMarker(b)] \in EndMarkers
                           /\ \A i \in 1..Len(b) : b[i] \in EndMarkers => ToMarker(b) <= i
      /\ FoundMarker(d) => /\ ToMarker(d) > 0 /\ d[ToMarker(d)] \in EndMarkers
                           /\ \A i \in 1..Len(d) : d[i] \in EndMarkers => ToMarker(d) <= i
      /\ ~FoundMarker(c) => ToMarker(c) = Len(c)
      /\ ~FoundMarker(d) => ToMarker(d) = Len(d)
  BY <1>1, MarkerIs
<1> DEFINE x == ToMarker(c)
           y == ToMarker(b)
           w == ToMarker(d)
<1> HIDE DEF x, y, w
<1>8. FoundMarker(b) => x = y
  <2> SUFFICES ASSUME FoundMarker(b) PROVE x = y
    OBVIOUS
  <2>1. y \in 1..Len(b) /\ b[y] \in EndMarkers /\ x \in 1..Len(c) /\ c[x] \in EndMarkers
    BY <1>1, <1>6, <1>7, SMTT(30) DEF x, y
  <2>2. y \in 1..Len(c) /\ c[y] \in EndMarkers
    BY <1>2, <2>1
  <2>3. x <= y
    BY <1>6, <1>7, <2>2 DEF x
  <2>4. x \in 1..Len(b)
    BY <1>1, <2>1, <2>3
  <2>5. b[x] \in EndMarkers
    BY <1>2, <2>1, <2>4
  <2>6. y <= x
    BY <1>7, <2>4, <2>5 DEF y
  <2> QED
    BY <1>1, <2>1, <2>3, <2>6
<1>9. ~FoundMarker(b) /\ ~FoundMarker(d) => x = Len(b) + w
  BY <1>1, <1>6, <1>7 DEF x, w
<1>10. ~FoundMarker(b) /\ FoundMarker(d) => x = Len(b) + w
  <2> SUFFICES ASSUME ~FoundMarker(b), FoundMarker(d) PROVE x = Len(b) + w
    OBVIOUS
  <2>1. w \in 1..Len(d) /\ d[w] \in EndMarkers /\ x \in 1..Len(c) /\ c[x] \in EndMarkers
    BY <1>1, <1>6, <1>7 DEF x, w
  <2>2. Len(b) + w \in 1..Len(c) /\ c[Len(b) + w] \in EndMarkers
    BY <1>3, <2>1
  <2>3. x <= Len(b) + w
    BY <1>6, <1>7, <2>2 DEF x
  <2>4. x \notin 1..Len(b)
    BY <1>2, <1>5, <2>1
  <2> DEFINE j == x - Len(b)
  <2>5. j \in 1..Len(d) /\ x = Len(b) + j
    BY <1>4, <2>1, <2>4
  <2> HIDE DEF j
  <2>6. d[j] \in EndMarkers
    <3>1. c[Len(b) + j] = d[j]
      BY <1>3, <2>5
    <3> QED
      BY <2>1, <2>5, <3>1
  <2>7. w <= j
    BY <1>7, <2>5, <2>6 DEF w
  <2> QED
    BY <1>1, <2>1, <2>3, <2>5, <2>7, SMTT(30)
<1> QED
  BY <1>6, <1>8, <1>9, <1>10 DEF c, x, y, w

\* What has been read stays what it is when more arrives.
LEMMA WantStays ==
  ASSUME NEW f \in Seq(Nat), NEW d \in Seq(Nat), NEW how, Done(how, f)
  PROVE  Done(how, f \o d) /\ Want(how, f \o d) = Want(how, f)
<1>1. /\ Len(f) \in Nat /\ Len(d) \in Nat /\ Len(f \o d) = Len(f) + Len(d)
      /\ BufSize \in Nat /\ ToMarker(f) \in 0..Len(f)
  BY ConcatProperties, LenProperties, BufBounds, MarkerIs
<1>2. CASE how = "to"
  <2>1. FoundMarker(f \o d) /\ ToMarker(f \o d) = ToMarker(f)
    BY <1>2, JoinMarker DEF Done
  <2>2. SubSeq(f \o d, 1, ToMarker(f)) = SubSeq(f, 1, ToMarker(f))
    BY <1>1, CutJoined
  <2> QED
    BY <1>2, <2>1, <2>2 DEF Done, Want
<1>3. CASE how # "to"
  <2>1. Len(f) >= BufSize
    BY <1>3 DEF Done
  <2>2. /\ Len(f \o d) >= BufSize /\ BufSize \in 0..Len(f)
        /\ Smaller(BufSize, Len(f \o d)) = BufSize /\ Smaller(BufSize, Len(f)) = BufSize
    BY <1>1, <2>1 DEF Smaller
  <2>3. SubSeq(f \o d, 1, BufSize) = SubSeq(f, 1, BufSize)
    BY <2>2, CutJoined
  <2> QED
    BY <1>3, <2>2, <2>3 DEF Done, Want
<1> QED
  BY <1>2, <1>3

(* A read that goes on with f, one that waits with all of h, and one that  *)
(* has returned with what it wants of h; a line that fits the buffer.      *)
Ready(s, how, f)    == /\ Sock(s) /\ s.unread = <<>> /\ s.state \notin {"sent", "read"}
                       /\ f = (IF s.waiting THEN s.buf ELSE <<>>) /\ ~Done(how, f)
Halted(s, how, h)   == s.waiting /\ s.unread = <<>> /\ s.state # "read" /\ s.buf = h /\ ~Done(how, h)
Finished(s, how, h) == s.buf = Want(how, h) /\ Done(how, h)
Room(how, h)        == how = "to" => (IF FoundMarker(h) THEN ToMarker(h) ELSE Len(h)) <= BufSize

\* What one turn takes from the new data d, with f already in the buffer.
LEMMA Takes ==
  ASSUME NEW g, Sock(g), NEW how, NEW f \in Seq(Nat), NEW d \in Seq(Nat), g.buf = f, g.unread = d,
         NEW h, h = f \o d, ~Done(how, f), Room(how, h)
  PROVE  LET c == Consume(g, how)
         IN IF Ends(g, how) THEN Finished(c, how, h)
            ELSE c.buf = h /\ c.unread = <<>> /\ ~Done(how, h)
<1> DEFINE k == IF how = "to" THEN ToMarker(g.unread) ELSE ToSize(g)
           c == Consume(g, how)
<1>1. /\ Len(f) \in Nat /\ Len(d) \in Nat /\ Len(h) = Len(f) + Len(d) /\ h \in Seq(Nat)
      /\ BufSize \in Nat /\ Len(f) <= BufSize
  BY ConcatProperties, LenProperties, BufBounds DEF Sock
<1>2. k \in 0..Len(d) /\ c.buf = Fill(f, SubSeq(d, 1, k)) /\ c.unread = Rest(d, k)
  BY Consumed
<1>3. /\ Ends(g, how) <=> Done(how, h)
      /\ Ends(g, how) => /\ Len(f) + k <= BufSize
                         /\ how = "to" => Len(f) + k = ToMarker(h)
                         /\ how # "to" => Len(f) + k = Smaller(BufSize, Len(h))
      /\ ~Ends(g, how) => k = Len(d) /\ Len(f) + k <= BufSize
  <2>1. CASE how = "to"
    <3>1. ~FoundMarker(f) /\ (Ends(g, how) <=> FoundMarker(d)) /\ k = ToMarker(d)
      BY <2>1 DEF Done, Ends
    <3>2. (FoundMarker(h) <=> FoundMarker(d)) /\ ToMarker(h) = Len(f) + ToMarker(d)
      BY <3>1, JoinMarker
    <3>3. ~FoundMarker(d) => ToMarker(d) = Len(d)
      BY MarkerIs
    <3>4. Done(how, h) <=> FoundMarker(h)
      BY <2>1 DEF Done
    <3>5. FoundMarker(h) => ToMarker(h) <= BufSize
      BY <2>1 DEF Room
    <3>6. ~FoundMarker(h) => Len(h) <= BufSize
      BY <2>1 DEF Room
    <3> HIDE DEF k
    <3> QED
      BY <1>1, <2>1, <3>1, <3>2, <3>3, <3>4, <3>5, <3>6
  <2>2. CASE how # "to"
    <3>1. k = Smaller(BufSize - Len(f), Len(d)) /\ (Ends(g, how) <=> Len(f) + Len(d) >= BufSize)
      <4>1. k = ToSize(g) /\ (Ends(g, how) <=> Len(g.buf) + Len(g.unread) >= BufSize)
        BY <2>2 DEF Ends
      <4>2. ToSize(g) = Smaller(BufSize - Len(f), Len(d))
        BY Zenon DEF ToSize
      <4> HIDE DEF k
      <4> QED
        BY <4>1, <4>2, Zenon
    <3>2. Done(how, h) <=> Len(f) + Len(d) >= BufSize
      <4>1. Done(how, h) <=> Len(h) >= BufSize
        BY <2>2, Zenon DEF Done
      <4> QED
        BY <1>1, <4>1, Zenon
    <3> DEFINE i == Len(f)
               j == Len(d)
               l == Len(h)
    <3>3. /\ i \in Nat /\ j \in Nat /\ l = i + j /\ BufSize \in Nat /\ i <= BufSize
          /\ k = Smaller(BufSize - i, j)
      BY <1>1, <3>1
    <3> HIDE DEF k, i, j, l
    <3>4. IF i + j >= BufSize THEN i + k = BufSize /\ Smaller(BufSize, l) = BufSize
          ELSE k = j /\ i + k <= BufSize
      BY <3>3 DEF Smaller
    <3>5. i + j >= BufSize => i + k <= BufSize
      BY <3>3, <3>4
    <3> QED
      BY <2>2, <3>1, <3>2, <3>4, <3>5, Zenon DEF i, j, l
  <2> QED
    BY <2>1, <2>2
<1> HIDE DEF k
<1>4. /\ SubSeq(d, 1, k) \in Seq(Nat) /\ Len(SubSeq(d, 1, k)) = k
      /\ Rest(d, k) \in Seq(Nat) /\ Len(Rest(d, k)) = Len(d) - k
  BY <1>2, CutType
<1>5. Len(f) + k <= BufSize => c.buf = SubSeq(h, 1, Len(f) + k)
  <2>1. f \o SubSeq(d, 1, k) = SubSeq(h, 1, Len(f) + k)
    BY <1>2, JoinCut
  <2> QED
    BY <1>2, <1>4, <2>1, FillType
<1>6. CASE Ends(g, how)
  BY <1>3, <1>5, <1>6 DEF Finished, Want
<1>7. CASE ~Ends(g, how)
  <2>1. c.buf = SubSeq(h, 1, Len(h)) /\ ~Done(how, h) /\ k = Len(d)
    BY <1>1, <1>3, <1>5, <1>7
  <2>2. SubSeq(h, 1, Len(h)) = h
    BY <1>1
  <2>3. c.unread = <<>>
    BY <1>1, <1>2, <1>4, <2>1, EmptySeq
  <2> QED
    BY <1>7, <2>1, <2>2, <2>3
<1> QED
  BY <1>6, <1>7

LEMMA ReadExact ==
  ASSUME NEW s, NEW how, NEW f, Ready(s, how, f), NEW e \in Callback, e.newdata <=> e.data # <<>>,
         NEW h, h = f \o e.data, Room(how, h)
  PROVE  LET z == psock_read(s, how, e)
         IN Halted(z, how, h) \/ (~z.waiting /\ Finished(z, how, h))
<1> DEFINE t == ReadSetup(s)
           g == Got(t, e)
           y == More(More(g, how, e), how, e)
           z == psock_read(s, how, e)
<1>0. /\ s \in Psocket /\ Sock(s) /\ s.unread = <<>> /\ s.state \notin {"sent", "read"}
      /\ e.data \in Seq(Nat) /\ ~Done(how, f)
  BY DEF Ready, Sock, Callback
<1>1. t \in Psocket /\ Sock(t) /\ t.unread = <<>> /\ t.state = s.state /\ t.buf = f
  <2>1. CASE s.waiting
    BY <1>0, <2>1 DEF Ready, ReadSetup
  <2>2. CASE ~s.waiting
    <3>1. t = [s EXCEPT !.buf = <<>>]
      BY <2>2 DEF ReadSetup
    <3>2. <<>> \in Seq(Nat) /\ Len(<<>>) <= BufSize /\ f = <<>>
      BY <2>2, EmptySeq, BufBounds DEF Ready
    <3> HIDE DEF t
    <3> QED
      BY <1>0, <3>1, <3>2 DEF Sock, Psocket
  <2> QED
    BY <2>1, <2>2
<1> HIDE DEF t
<1>2. Reading(t, t) /\ f \in Seq(Nat)
  BY <1>0, <1>1 DEF Reading, Psocket
<1>3. /\ Reading(g, t) /\ g.buf = f
      /\ e.newdata => g.unread = e.data /\ g.state = "read"
      /\ ~e.newdata => g.unread = <<>> /\ g.waiting /\ g.state # "read"
  BY <1>0, <1>1, <1>2, GotType DEF HasNew
<1> HIDE DEF g
<1>4. Reading(y, t)
  BY <1>3, MoreType
<1>5. z = IF y.unread = <<>> THEN [y EXCEPT !.waiting = TRUE]
          ELSE [Consume(y, how) EXCEPT !.waiting = FALSE]
  BY DEF psock_read, ReadLoop, y, g, t
<1>6. ASSUME y.unread = <<>>, y.state # "read", y.buf = h, ~Done(how, h) PROVE Halted(z, how, h)
  <2> HIDE DEF y, z
  <2>1. z.buf = y.buf /\ z.unread = y.unread /\ z.state = y.state /\ z.waiting
    BY <1>4, <1>5, <1>6 DEF Reading, Sock, Psocket
  <2> QED
    BY <1>6, <2>1 DEF Halted
<1>7. CASE ~e.newdata
  <2>1. h = f
    <3>1. e.data = <<>>
      BY <1>7
    <3> QED
      BY <1>2, <3>1, ConcatEmptySeq
  <2>2. y = g
    BY <1>3, <1>7 DEF More
  <2> QED
    BY <1>0, <1>3, <1>6, <1>7, <2>1, <2>2
<1>8. CASE e.newdata /\ Ends(g, how)
  <2>1. y = g /\ g.unread # <<>>
    BY <1>3, <1>8 DEF More
  <2>2. z = [Consume(g, how) EXCEPT !.waiting = FALSE]
    BY <1>5, <2>1
  <2>3. Finished(Consume(g, how), how, h) /\ Sock(g)
    BY <1>0, <1>2, <1>3, <1>8, Takes DEF Reading
  <2>4. Reading(Consume(g, how), t)
    <3>1. Reading(g, g) /\ g.out = t.out
      BY <1>3 DEF Reading
    <3>2. Reading(Consume(g, how), g)
      BY <2>3, <3>1, Consumed
    <3> QED
      BY <3>1, <3>2 DEF Reading
  <2> DEFINE c == Consume(g, how)
  <2> HIDE DEF c, z
  <2>5. z.buf = c.buf /\ ~z.waiting
    BY <2>2, <2>4 DEF Reading, Sock, Psocket, c
  <2> QED
    BY <2>3, <2>5 DEF Finished, c, z
<1>9. CASE e.newdata /\ ~Ends(g, how)
  <2> DEFINE c == Consume(g, how)
             m == Got(c, e)
  <2>0. Sock(g) /\ g.buf = f /\ g.unread = e.data
    BY <1>3, <1>9 DEF Reading
  <2>1. c.buf = h /\ c.unread = <<>> /\ ~Done(how, h) /\ Sock(g)
    <3> HIDE DEF c, m, y, z
    <3>0. f \in Seq(Nat) /\ e.data \in Seq(Nat) /\ ~Done(how, f) /\ h = f \o e.data /\ Room(how, h)
      BY <1>0, <1>2
    <3>1. IF Ends(g, how) THEN Finished(c, how, h)
          ELSE c.buf = h /\ c.unread = <<>> /\ ~Done(how, h)
      BY <2>0, <3>0, Takes, ZenonT(40) DEF c
    <3> QED
      BY <1>9, <2>0, <3>1
  <2>2. Reading(c, g) /\ c.state = "read"
    <3>1. Reading(g, g)
      BY <1>3 DEF Reading
    <3> QED
      BY <1>3, <1>9, <2>1, <3>1, Consumed
  <2>3. More(g, how, e) = m
    BY <1>3, <1>9 DEF More
  <2> HIDE DEF c
  <2>4. ~HasNew(c, e)
    BY <2>2 DEF HasNew
  <2>5. m.unread = <<>> /\ m.buf = h /\ m.state # "read"
    BY <2>1, <2>2, <2>4, GotType
  <2> HIDE DEF m
  <2>6. y = m
    BY <2>3, <2>5 DEF More
  <2> QED
    BY <1>6, <2>1, <2>5, <2>6
<1> QED
  BY <1>7, <1>8, <1>9

\* Every script reads once.
OneRead == \A s \in Scripts : \E i \in DOMAIN s :
             ~IsSend(s[i]) /\ \A j \in DOMAIN s : ~IsSend(s[j]) => j = i
ReadAt(s) == CHOOSE i \in DOMAIN s : ~IsSend(s[i])
How(s)    == IF s[ReadAt(s)].op = "readto" THEN "to" ELSE "buf"

LEMMA ReadAtIs ==
  ASSUME OneRead, NEW s \in Scripts
  PROVE  /\ ReadAt(s) \in 1..Len(s) /\ ~IsSend(s[ReadAt(s)])
         /\ \A i \in 1..Len(s) : ~IsSend(s[i]) => i = ReadAt(s)
<1>1. DOMAIN s = 1..Len(s)
  BY ScriptAssumption, LenProperties
<1>2. PICK i \in DOMAIN s : ~IsSend(s[i]) /\ \A j \in DOMAIN s : ~IsSend(s[j]) => j = i
  BY DEF OneRead
<1>3. ReadAt(s) \in DOMAIN s /\ ~IsSend(s[ReadAt(s)])
  BY <1>2 DEF ReadAt
<1> QED
  BY <1>1, <1>2, <1>3

\* A send does not touch what has been read.
LEMMA SendKeeps ==
  ASSUME NEW p, Sock(p), NEW e \in Callback, NEW at \in Nat, NEW k \in Nat, NEW gen \in BOOLEAN,
         gen => k > 0, e.acked => k <= e.mss, p.out = Nothing,
         Idle(p) \/ (Sending(p, k) /\ (~gen => p.sendptr = at)),
         NEW z, z = IF gen THEN psock_generator_send(p, at, k, e) ELSE psock_send(p, at, k, e)
  PROVE  /\ Sock(z) /\ SameRead(z, p) /\ (z.waiting \/ Idle(z))
         /\ z.state = p.state \/ z.state \in {"none", "sent"}
<1>1. p \in Psocket /\ Len(p.buf) <= BufSize
  BY DEF Sock
<1>2. CASE Idle(p) /\ k = 0
  <2>1. z = p
    BY <1>2 DEF psock_send, Idle
  <2> QED
    BY <1>2, <2>1 DEF SameRead
<1>3. CASE Idle(p) /\ k > 0
  <2>1. z \in {psock_send(p, at, k, e), psock_generator_send(p, at, k, e)}
    OBVIOUS
  <2>2. z \in Psocket /\ Sending(z, k) /\ SameRead(z, p)
    BY <1>1, <1>3, <2>1, SendBegins
  <2> QED
    BY <1>1, <2>2 DEF Sock, SameRead, Sending
<1>4. CASE Sending(p, k) /\ (~gen => p.sendptr = at)
  <2>0. /\ p \in Psocket /\ Sending(p, k) /\ (~gen => p.sendptr = at) /\ (e.acked => k <= e.mss)
        /\ p.out = Nothing
        /\ z = IF gen THEN psock_generator_send(p, at, k, e) ELSE psock_send(p, at, k, e)
    BY <1>1, <1>4
  <2>1. /\ z \in Psocket /\ SameRead(z, p)
        /\ e.acked => Idle(z) /\ z.state = "none" /\ z.out = p.out
        /\ ~e.acked => /\ Sending(z, k) /\ (~gen => z.sendptr = at)
                       /\ ~e.rexmit => z.out = p.out
                       /\ e.rexmit /\ k <= e.mss => z.out = [at |-> Place(gen, at), len |-> k]
    BY <2>0, SendGoesOn
  <2> QED
    BY <1>1, <2>1 DEF Sock, SameRead, Sending
<1>5. k = 0 \/ k > 0
  OBVIOUS
<1> QED
  BY <1>2, <1>3, <1>4, <1>5

(* Of a stream that was f before a callback and is h with its data: what   *)
(* the run of a script has read when it has come past operation n.         *)
Reads(b, n, f, h) ==
  LET r == ReadAt(b.script)
      how == How(b.script)
  IN /\ b.pc < r => f = <<>> /\ b.psock.unread = <<>> /\ b.psock.state # "read"
     /\ b.pc = r => IF n < r THEN Ready(b.psock, how, f) ELSE Halted(b.psock, how, h)
     /\ b.pc > r => Finished(b.psock, how, h)
Feeds(e, f, h, how) == /\ Suits(e) /\ (e.newdata <=> e.data # <<>>)
                       /\ h = f \o e.data /\ Room(how, h)

LEMMA NothingDone == ASSUME NEW how PROVE ~Done(how, <<>>)
<1>1. ~FoundMarker(<<>>)
  BY DEF FoundMarker
<1>2. Len(<<>>) = 0 /\ ~(0 >= BufSize)
  BY EmptySeq, BufBounds
<1> QED
  BY <1>1, <1>2 DEF Done

LEMMA StepReads ==
  ASSUME OneRead, NEW a, AppOK(a), NEW n, n = a.pc, n \in 1..Len(a.script),
         Idle(a.psock) \/ WaitsAt(a), a.psock.out = Nothing,
         NEW e, NEW f, NEW h, Feeds(e, f, h, How(a.script)),
         Reads(a, n - 1, f, h)
  PROVE  Reads(OpStep(a, e, n), n, f, h)
<1> DEFINE r == ReadAt(a.script)
           how == How(a.script)
           s == Do(a, e)
           y == OpStep(a, e, n)
<1>0. /\ n \in Nat /\ Len(a.script) \in Nat /\ Sock(a.psock) /\ a.script \in Scripts /\ e \in Callback
      /\ r \in 1..Len(a.script) /\ r \in Nat /\ (IsSend(Op(a)) <=> n # r)
  <2>1. /\ n \in Nat /\ Len(a.script) \in Nat /\ Sock(a.psock) /\ a.script \in Scripts /\ e \in Callback
    BY AppFacts DEF AppOK, Feeds, Suits
  <2>2. /\ r \in 1..Len(a.script) /\ ~IsSend(a.script[r])
        /\ \A i \in 1..Len(a.script) : ~IsSend(a.script[i]) => i = r
    BY <2>1, ReadAtIs
  <2>3. IsSend(Op(a)) <=> n # r
    BY <2>2 DEF Op
  <2> QED
    BY <2>1, <2>2, <2>3
<1>1. /\ n < r => f = <<>> /\ a.psock.unread = <<>> /\ a.psock.state # "read"
      /\ n = r => Ready(a.psock, how, f)
      /\ n > r => Finished(a.psock, how, h)
  <2>1. n = r => n - 1 < r
    BY <1>0
  <2> QED
    BY <2>1 DEF Reads
<1>2. ASSUME Sock(s)
      PROVE  y.script = a.script /\ y.psock = s /\ y.pc = IF s.waiting THEN n ELSE n + 1
  BY <1>0, <1>2, StepFields
<1>3. CASE n = r
  <2>1. s = psock_read(a.psock, how, e)
    BY <1>0, <1>3, DoIs DEF How, Way, Op
  <2>2. a.psock.state # "sent" /\ Ready(a.psock, how, f)
    BY <1>1, <1>3 DEF Ready
  <2> HIDE DEF s, how
  <2>3. Sock(s)
    BY <1>0, <2>1, <2>2, ReadType DEF Reading
  <2>4. Halted(s, how, h) \/ (~s.waiting /\ Finished(s, how, h))
    BY <1>0, <2>1, <2>2, ReadExact DEF Feeds, how
  <2>5. y.script = a.script /\ y.psock = s /\ y.pc = IF s.waiting THEN n ELSE n + 1
    BY <1>2, <2>3
  <2> HIDE DEF y
  <2>6. CASE Halted(s, how, h)
    <3>1. y.pc = n /\ ~(n < r) /\ ~(n > r)
      BY <1>0, <1>3, <2>5, <2>6 DEF Halted
    <3> QED
      BY <1>3, <2>5, <2>6, <3>1 DEF Reads, how, y
  <2>7. CASE ~s.waiting /\ Finished(s, how, h)
    <3>1. ~(y.pc < r) /\ y.pc # r
      BY <1>0, <1>3, <2>5, <2>7
    <3> QED
      BY <2>5, <2>7, <3>1 DEF Reads, how, y
  <2> QED
    BY <2>4, <2>6, <2>7
<1>4. CASE n # r
  <2> DEFINE gen == Op(a).op = "generator"
             k == OpSize(a)
             at == Before(a, n) + 1
             p == a.psock
  <2>1. /\ Sock(s) /\ SameRead(s, p) /\ (s.waiting \/ Idle(s))
        /\ s.state = p.state \/ s.state \in {"none", "sent"}
    <3>1. s = IF gen THEN psock_generator_send(p, at, k, e) ELSE psock_send(p, at, k, e)
      BY <1>0, <1>4, DoIs
    <3>2. k \in Nat /\ (gen => k > 0) /\ at \in Nat /\ \A m : Fits(m) => k <= m
      BY <1>0, OpFacts
    <3>3. e.acked => k <= e.mss
      BY <3>2 DEF Feeds, Suits
    <3>4. Idle(p) \/ (Sending(p, k) /\ (~gen => p.sendptr = at))
      BY <1>0, <1>4 DEF WaitsAt
    <3>5. gen \in BOOLEAN /\ Sock(p) /\ p.out = Nothing
      BY <1>0
    <3> HIDE DEF s, gen, k, at, p
    <3> QED
      BY <1>0, <3>1, <3>2, <3>3, <3>4, <3>5, SendKeeps
  <2>2. y.script = a.script /\ y.psock = s /\ y.pc = IF s.waiting THEN n ELSE n + 1
    BY <1>2, <2>1
  <2> HIDE DEF s, y
  <2>3. CASE n < r
    <3>1. f = <<>> /\ s.unread = <<>> /\ s.state # "read"
      BY <1>1, <2>1, <2>3 DEF SameRead
    <3>2. y.pc = r => Ready(s, how, f)
      <4>1. y.pc = r => Idle(s)
        BY <1>4, <2>1, <2>2
      <4> QED
        BY <2>1, <3>1, <4>1, NothingDone DEF Ready, Idle
    <3>3. ~(y.pc > r)
      BY <1>0, <2>2, <2>3
    <3> QED
      BY <2>2, <2>3, <3>1, <3>2, <3>3 DEF Reads, y
  <2>4. CASE n > r
    <3>1. Finished(s, how, h)
      BY <1>1, <2>1, <2>4 DEF Finished, SameRead
    <3>2. ~(y.pc < r) /\ y.pc # r
      BY <1>0, <2>2, <2>4
    <3> QED
      BY <2>2, <3>1, <3>2 DEF Reads, y
  <2> QED
    BY <1>0, <1>4, <2>3, <2>4
<1> QED
  BY <1>3, <1>4

LEMMA ReadsLater ==
  ASSUME NEW b, AppOK(b), OneRead, NEW n \in Nat, NEW l \in Nat, b.pc <= n, n <= l, NEW f, NEW h,
         Reads(b, n, f, h)
  PROVE  Reads(b, l, f, h)
<1>1. ReadAt(b.script) \in Nat /\ b.pc \in Nat
  <2>1. ReadAt(b.script) \in 1..Len(b.script)
    BY AppFacts, ReadAtIs
  <2> QED
    BY <2>1, AppFacts
<1>2. b.pc = ReadAt(b.script) => ~(n < ReadAt(b.script)) /\ ~(l < ReadAt(b.script))
  BY <1>1
<1> QED
  BY <1>2 DEF Reads

LEMMA RunReads ==
  ASSUME OneRead, NEW a, AppOK(a), a.pc > 0, NEW e, NEW t, RunsTo(t, a, e, Len(a.script)), NEW g,
         NEW m \in (a.pc - 1)..Len(a.script), Runs(t[m], m, g, e),
         t[m].script = a.script, t[m].close = a.close,
         NEW f, NEW h, Feeds(e, f, h, How(a.script)), Reads(t[m], m, f, h)
  PROVE  Reads(t[Len(a.script)], Len(a.script), f, h)
<1> DEFINE l == Len(a.script)
           P == {n \in m..l : Reads(t[n], n, f, h)}
<1>0. l \in Nat /\ a.pc \in Nat /\ m \in Nat /\ m <= l /\ Suits(e)
  BY AppFacts DEF Feeds
<1>1. m \in P
  BY <1>0
<1>2. ASSUME NEW n \in m..(l - 1), n \in P
      PROVE  n + 1 \in P
  <2>1. /\ n \in Nat /\ n \in m..l /\ n + 1 \in m..l /\ n + 1 \in 1..l /\ n + 1 \in (a.pc - 1)..l
        /\ n + 1 # a.pc - 1 /\ (n + 1) - 1 = n /\ ~(n + 1 < n + 1)
    BY <1>0
  <2> DEFINE b == t[n]
             y == t[n + 1]
  <2>2. y = IF b.pc < n + 1 THEN b ELSE OpStep(b, e, n + 1)
    <3>1. t[n + 1] = RunStep(t[n], e, n + 1)
      BY <2>1 DEF RunsTo
    <3> QED
      BY <3>1 DEF RunStep
  <2>3. Runs(b, n, g, e) /\ b.script = a.script /\ Reads(b, n, f, h)
    <3>1. RunFrom(t, a, e, g, m)
      BY DEF RunFrom
    <3>2. Runs(t[n], n, g, e) /\ t[n].script = a.script
      BY <1>0, <2>1, <3>1, RunEach
    <3> QED
      BY <1>2, <3>2
  <2> HIDE DEF b, y, l
  <2>4. CASE Passed(b, n + 1, g)
    <3>1. AppOK(b) /\ b.pc = n + 1 /\ Idle(b.psock) /\ b.psock.out = Nothing
      BY <2>4 DEF Passed
    <3>2. y = OpStep(b, e, n + 1)
      BY <2>1, <2>2, <3>1
    <3>3. n + 1 \in 1..Len(b.script) /\ Feeds(e, f, h, How(b.script)) /\ Reads(b, (n + 1) - 1, f, h)
      BY <2>1, <2>3 DEF l
    <3>4. Reads(y, n + 1, f, h)
      <4> DEFINE k == n + 1
      <4> HIDE DEF k
      <4>1. k = b.pc /\ k \in 1..Len(b.script) /\ Reads(b, k - 1, f, h) /\ y = OpStep(b, e, k)
        BY <3>1, <3>2, <3>3 DEF k
      <4>2. Reads(y, k, f, h)
        BY <3>1, <3>3, <4>1, StepReads
      <4> QED
        BY <4>2 DEF k
    <3> QED
      BY <2>1, <3>4 DEF y
  <2>5. ASSUME NEW j \in 1..n, Stuck(b, j, g, e) PROVE n + 1 \in P
    <3>1. AppOK(b) /\ b.pc = j /\ b.pc < n + 1 /\ b.pc <= n /\ n <= n + 1 /\ n + 1 \in Nat
      BY <2>1, <2>5 DEF Stuck
    <3>2. y = b
      BY <2>2, <3>1
    <3>3. Reads(b, n + 1, f, h)
      BY <2>1, <2>3, <3>1, ReadsLater
    <3> QED
      BY <2>1, <3>2, <3>3 DEF y
  <2> QED
    BY <2>3, <2>4, <2>5 DEF Runs
<1> HIDE DEF P
<1>3. \A n \in m..l : n \in P
  BY <1>0, <1>1, <1>2, FromTo
<1>4. l \in P
  BY <1>0, <1>3
<1> QED
  BY <1>4 DEF P

\* One call of handle_connection() that does not come to the end.
LEMMA HandleReads ==
  ASSUME OneRead, NEW a, AppOK(a), (a.pc = 1 /\ Idle(a.psock)) \/ WaitsAt(a), a.psock.out = Nothing,
         NEW e, NEW f, NEW h, Feeds(e, f, h, How(a.script)), Reads(a, a.pc - 1, f, h),
         NEW z, z = handle_connection(a, e), z.close = FALSE
  PROVE  z.script = a.script /\ Reads(z, Len(z.script), f, h)
<1> DEFINE l == Len(a.script)
           n == a.pc
           y == OpStep(a, e, n)
<1>0. /\ l \in Nat /\ n \in Nat /\ n \in 1..(l + 1) /\ n > 0 /\ n - 1 \in (n - 1)..l /\ Suits(e)
      /\ n = 1 => n - 1 = 0 /\ 0 + 1 = n
  BY AppFacts DEF WaitsAt, Feeds
<1>1. PICK t : RunsTo(t, a, e, l) /\ z = IF t[l].pc > l THEN [t[l] EXCEPT !.close = TRUE, !.pc = 1]
                                         ELSE t[l]
  BY <1>0, HandleIs
<1>2. t[n - 1] = a
  BY <1>0, <1>1 DEF RunsTo
<1>3. ASSUME AppOK(t[l]), t[l].script = a.script, Reads(t[l], l, f, h)
      PROVE  z.script = a.script /\ Reads(z, Len(z.script), f, h)
  <2>1. z = t[l]
    <3>1. CASE t[l].pc > l
      <4>1. [t[l] EXCEPT !.close = TRUE, !.pc = 1].close = TRUE
        BY <1>3 DEF AppOK, App
      <4> QED
        BY <1>1, <3>1, <4>1
    <3> QED
      BY <1>1, <3>1
  <2> QED
    BY <1>3, <2>1
<1>4. ASSUME NEW m \in (n - 1)..l, NEW g, Runs(t[m], m, g, e), t[m].script = a.script,
             t[m].close = a.close, Reads(t[m], m, f, h)
      PROVE  z.script = a.script /\ Reads(z, Len(z.script), f, h)
  <2>1. Reads(t[l], l, f, h)
    BY <1>0, <1>1, <1>4, RunReads
  <2>2. Runs(t[l], l, g, e) /\ t[l].script = a.script
    <3>1. RunFrom(t, a, e, g, m)
      BY <1>1, <1>4 DEF RunFrom
    <3>2. l \in m..Len(a.script)
      BY <1>0, <1>4
    <3> QED
      BY <1>0, <3>1, <3>2, RunEach
  <2>3. AppOK(t[l])
    BY <2>2 DEF Runs, Passed, Stuck
  <2> QED
    BY <1>3, <2>1, <2>2, <2>3
<1>5. CASE n = 1 /\ Idle(a.psock)
  <2>1. Before(a, 1) = 0
    BY BytesOne DEF Before
  <2>2. Runs(t[n - 1], n - 1, 0, e)
    BY <1>0, <1>2, <1>5, <2>1 DEF Runs, Passed
  <2> QED
    BY <1>0, <1>2, <1>4, <2>2
<1>6. CASE WaitsAt(a)
  <2>0. n \in 1..l /\ n \in (n - 1)..l /\ n # n - 1 /\ ~(n < n) /\ n \in 1..n /\ n <= n /\ n <= l
    BY <1>0, <1>6 DEF WaitsAt
  <2>1. t[n] = y
    <3>1. t[n] = RunStep(t[n - 1], e, n)
      BY <1>0, <1>1, <2>0 DEF RunsTo
    <3> QED
      BY <1>2, <2>0, <3>1 DEF RunStep
  <2>2. Reads(y, n, f, h)
    BY <1>6, <2>0, StepReads
  <2> DEFINE g == Before(a, n)
  <2>3. /\ y.script = a.script /\ y.close = a.close
        /\ \/ \E i : Passed(y, n + 1, i) \/ Stuck(y, n, i, e)
           \/ Still(y, n, g) \/ Again(y, n, g, e)
    BY <1>0, <1>6, WaitStep
  <2> HIDE DEF y
  <2>4. ASSUME NEW i, Passed(y, n + 1, i) \/ Stuck(y, n, i, e)
        PROVE  z.script = a.script /\ Reads(z, Len(z.script), f, h)
    <3>1. Runs(t[n], n, i, e)
      BY <2>0, <2>1, <2>4 DEF Runs
    <3> QED
      BY <1>4, <2>0, <2>1, <2>2, <2>3, <3>1
  <2>5. CASE Still(y, n, g) \/ Again(y, n, g, e)
    <3>1. AppOK(y) /\ y.pc = n
      BY <2>5 DEF Still, Again
    <3>2. t[l] = y
      <4>1. RunsTo(t, a, e, Len(a.script)) /\ t[n].pc \in Nat /\ t[n].pc <= n
        BY <1>0, <1>1, <2>1, <3>1
      <4>2. t[Len(a.script)] = t[n]
        <5> DEFINE m == n
        <5>1. m \in (a.pc - 1)..Len(a.script) /\ t[m].pc \in Nat /\ t[m].pc <= m /\ a.pc > 0
          BY <1>0, <2>0, <4>1
        <5> HIDE DEF m
        <5>2. t[Len(a.script)] = t[m]
          BY <4>1, <5>1, RunStays
        <5> QED
          BY <5>2 DEF m
      <4> QED
        BY <2>1, <4>2
    <3>3. Reads(y, l, f, h)
      BY <1>0, <2>0, <2>2, <3>1, ReadsLater
    <3> QED
      BY <1>3, <2>3, <3>1, <3>2, <3>3
  <2> QED
    BY <2>3, <2>4, <2>5
<1> QED
  BY <1>5, <1>6

(* What the application has read of f between two callbacks.               *)
ReadOK(a, f) == Reads(a, Len(a.script), f, f)

LEMMA CallReads ==
  ASSUME OneRead, NEW a, AppOK(a), NEW e, NEW f \in Seq(Nat), NEW h, Feeds(e, f, h, How(a.script)),
         \/ e.connected = TRUE /\ f = <<>>
         \/ e.connected = FALSE /\ WaitsAt(a) /\ ReadOK(a, f),
         NEW z, z = hello_world_appcall(a, e), z.close = FALSE
  PROVE  z.script = a.script /\ Reads(z, Len(z.script), f, h)
<1> DEFINE b == Cleared(a)
           r == ReadAt(a.script)
           how == How(a.script)
<1>0. /\ AppOK(b) /\ b.pc = a.pc /\ b.script = a.script /\ b.close = FALSE /\ b.psock.out = Nothing
      /\ b.psock.unread = a.psock.unread /\ b.psock.buf = a.psock.buf
      /\ b.psock.state = a.psock.state /\ b.psock.waiting = a.psock.waiting
      /\ WaitsAt(a) => WaitsAt(b)
      /\ a.script \in Scripts /\ Len(a.script) \in Nat /\ a.pc \in Nat
  BY ClearFields, AppFacts
<1>1. r \in 1..Len(a.script) /\ r \in Nat /\ r > 0 /\ r <= Len(a.script) /\ ~IsSend(a.script[r])
  <2>1. r \in 1..Len(a.script) /\ ~IsSend(a.script[r])
    BY <1>0, ReadAtIs
  <2> QED
    BY <1>0, <2>1
<1>2. CASE e.connected = TRUE /\ f = <<>>
  <2> DEFINE c == [b EXCEPT !.psock = psock_init, !.pc = 1]
  <2>1. z = handle_connection(c, e)
    BY <1>2 DEF hello_world_appcall, AtConnected, Cleared
  <2> HIDE DEF b
  <2>2. c \in App /\ c.script = a.script /\ c.close = FALSE /\ c.psock = psock_init /\ c.pc = 1
    BY <1>0, InitType DEF App, AppOK
  <2> HIDE DEF c
  <2>3. AppOK(c) /\ Idle(c.psock) /\ c.psock.out = Nothing
    BY <2>2, InitType DEF AppOK
  <2>4. Reads(c, 1 - 1, f, h)
    <3>1. psock_init.unread = <<>> /\ psock_init.state = "none" /\ ~psock_init.waiting /\ Sock(psock_init)
      BY InitType DEF Idle
    <3>2. Ready(psock_init, how, f)
      BY <1>2, <3>1, NothingDone DEF Ready
    <3>3. 1 = r => 1 - 1 < r
      BY <1>1
    <3>4. ~(1 > r)
      BY <1>1
    <3> QED
      BY <1>2, <2>2, <3>1, <3>2, <3>3, <3>4 DEF Reads
  <2> QED
    BY <2>1, <2>2, <2>3, <2>4, HandleReads, ZenonT(40)
<1>3. CASE e.connected = FALSE /\ WaitsAt(a) /\ ReadOK(a, f)
  <2>1. z = handle_connection(b, e)
    BY <1>3 DEF hello_world_appcall, AtConnected, Cleared
  <2> HIDE DEF b
  <2>2. Reads(b, b.pc - 1, f, h)
    <3>1. /\ a.pc < r => f = <<>> /\ a.psock.unread = <<>> /\ a.psock.state # "read"
          /\ a.pc = r => Halted(a.psock, how, f)
          /\ a.pc > r => Finished(a.psock, how, f)
      BY <1>1, <1>3 DEF ReadOK, Reads
    <3>2. a.pc = r => b.pc - 1 < r /\ Ready(b.psock, how, f)
      <4>1. a.pc = r => b.psock.state # "sent" /\ b.psock.waiting
        BY <1>0, <1>1, <1>3 DEF WaitsAt, Op
      <4>2. a.pc = r => b.pc - 1 < r
        BY <1>0, <1>1
      <4> QED
        BY <1>0, <3>1, <4>1, <4>2 DEF Ready, Halted, AppOK
    <3>3. a.pc > r => Finished(b.psock, how, h)
      <4>1. e.data \in Seq(Nat) /\ h = f \o e.data
        BY DEF Feeds, Suits, Callback
      <4> QED
        BY <1>0, <3>1, <4>1, WantStays DEF Finished
    <3> HIDE DEF how
    <3> QED
      BY <1>0, <3>1, <3>2, <3>3 DEF Reads, how
  <2>3. AppOK(b) /\ WaitsAt(b) /\ b.psock.out = Nothing /\ Feeds(e, f, h, How(b.script))
        /\ b.script = a.script
    BY <1>0, <1>3
  <2>4. z.script = b.script /\ Reads(z, Len(z.script), f, h)
    <3> HIDE DEF how
    <3> QED
      BY <2>1, <2>2, <2>3, HandleReads
  <2> QED
    BY <2>3, <2>4
<1> QED
  BY <1>2, <1>3

-----------------------------------------------------------------------------
(* What the read rests on: a script reads once (OneRead), and the first    *)
(* line end of the peer's stream comes within the buffer.                  *)
LineFits == \E m \in EndMarkers : m <= BufSize

LEMMA LineRoom ==
  ASSUME LineFits, NEW n \in Nat, NEW h, h = Places(1, n), NEW how
  PROVE  Room(how, h)
<1>1. PICK m \in EndMarkers : m <= BufSize
  BY DEF LineFits
<1>2. /\ h \in Seq(Nat) /\ Len(h) = n /\ m \in Nat /\ m > 0 /\ BufSize \in Nat
      /\ \A i \in 1..n : h[i] = 1 + i - 1
  <2>1. m \in Nat /\ m > 0 /\ BufSize \in Nat
    BY PsockAssumption
  <2>2. 1 \in Nat
    OBVIOUS
  <2> QED
    BY <2>1, <2>2, PlacesAre
<1>3. DOMAIN h = 1..n
  BY <1>2, LenProperties
<1>4. m <= n => m \in 1..n /\ h[m] = m
  BY <1>2
<1>5. /\ ToMarker(h) \in 0..n
      /\ FoundMarker(h) => \A i \in 1..n : h[i] \in EndMarkers => ToMarker(h) <= i
  BY <1>2, MarkerIs
<1>6. CASE FoundMarker(h)
  <2>1. m <= n => ToMarker(h) <= m
    BY <1>1, <1>4, <1>5, <1>6
  <2> QED
    BY <1>1, <1>2, <1>5, <1>6, <2>1 DEF Room
<1>7. CASE ~FoundMarker(h)
  <2>1. ~(m <= n)
    BY <1>1, <1>3, <1>4, <1>7 DEF FoundMarker
  <2>2. Len(h) <= BufSize
    BY <1>1, <1>2, <2>1
  <2> QED
    BY <1>7, <2>2 DEF Room
<1> QED
  BY <1>6, <1>7

\* The greeting is everything before the read, and does not hold the name.
LEMMA GreetingIs ==
  ASSUME OneRead, AppOK(app)
  PROVE  Greeting = Before(app, ReadAt(app.script))
<1> DEFINE reads == {i \in DOMAIN app.script : ~IsSend(app.script[i])}
           r == ReadAt(app.script)
           c == CHOOSE i \in reads : \A j \in reads : i <= j
<1>1. /\ app.script \in Scripts /\ Len(app.script) \in Nat
      /\ r \in 1..Len(app.script) /\ ~IsSend(app.script[r])
      /\ \A i \in 1..Len(app.script) : ~IsSend(app.script[i]) => i = r
  BY AppFacts, ReadAtIs
<1>2. DOMAIN app.script = 1..Len(app.script)
  BY <1>1, ScriptAssumption, LenProperties
<1>3. r \in Nat /\ r <= r
  BY <1>1
<1> HIDE DEF r
<1>4. r \in reads /\ \A i \in reads : i = r
  BY <1>1, <1>2
<1> HIDE DEF reads
<1>5. c = r
  <2>1. \A j \in reads : r <= j
    BY <1>3, <1>4
  <2>2. c \in reads
    BY <1>4, <2>1
  <2> QED
    BY <1>4, <2>2
<1> QED
  BY <1>5 DEF Greeting, reads, r

LEMMA GreetsFirst ==
  ASSUME OneRead, NEW a, AppOK(a), NEW z, AppOK(z), WaitsAt(z), z.script = a.script,
         z.pc < ReadAt(a.script)
  PROVE  ~(Before(z, z.pc) >= Before(a, ReadAt(a.script)))
<1> DEFINE t == a.script
           r == ReadAt(t)
           n == z.pc
           m == NameLen(z)
           k == NameLen(a)
<1>1. t \in Scripts /\ Len(t) \in Nat /\ m \in Nat /\ k \in Nat /\ n \in 1..Len(t) /\ n < r
  BY AppFacts DEF WaitsAt
<1>2. /\ r \in 1..Len(t) /\ ~IsSend(t[r])
      /\ \A i \in 1..Len(t) : ~IsSend(t[i]) => i = r
  BY <1>1, ReadAtIs
<1>3. OpSize(z) > 0 /\ OpSize(z) \in Nat
  <2>1. IsSend(Op(z))
    <3>1. n # r
      BY <1>1, <1>2
    <3> QED
      BY <1>1, <1>2, <3>1 DEF Op
  <2> QED
    BY <1>1, <2>1, OpFacts DEF WaitsAt, Sending
<1>4. Before(z, n + 1) = Before(z, n) + OpSize(z) /\ Before(z, n) \in Nat
  BY <1>1, OpFacts
<1>5. Before(z, n + 1) <= Before(z, r)
  <2>1. n + 1 \in 1..(Len(t) + 1) /\ r \in (n + 1)..(Len(t) + 1)
    BY <1>1, <1>2
  <2>2. Bytes(t, m, n + 1) <= Bytes(t, m, r)
    <3> HIDE DEF t, m, n, r
    <3> QED
      BY <1>1, <2>1, BytesGrow
  <2> QED
    BY <2>2 DEF Before
<1>6. Before(z, r) = Before(a, r) /\ Before(z, r) \in Nat
  <2>1. DOMAIN t = 1..Len(t)
    BY <1>1, ScriptAssumption, LenProperties
  <2>2. r \in DOMAIN t /\ r \in 1..(Len(t) + 1)
    BY <1>1, <1>2, <2>1
  <2>3. ASSUME NEW i \in 1..(r - 1) PROVE t[i].op # "sendname"
    <3>1. i \in DOMAIN t /\ ~(r < i)
      BY <1>1, <1>2, <2>1
    <3>2. \A j \in DOMAIN t : ~IsSend(t[r]) /\ t[j].op = "sendname" => r < j
      BY <1>1, <2>2, ScriptAssumption
    <3> QED
      BY <1>2, <3>1, <3>2
  <2>4. Bytes(t, m, r) = Bytes(t, k, r) /\ Bytes(t, m, r) \in Nat
    <3> HIDE DEF t, m, k, r
    <3> QED
      BY <1>1, <2>2, <2>3, BytesNameless, BytesType
  <2> QED
    BY <2>4 DEF Before
<1> DEFINE x == Before(z, n)
           y == Before(z, n + 1)
           w == Before(z, r)
<1>7. x \in Nat /\ y = x + OpSize(z) /\ y <= w /\ w \in Nat /\ w = Before(a, r)
  BY <1>4, <1>5, <1>6
<1> HIDE DEF x, y, w
<1>8. ~(x >= w)
  BY <1>3, <1>7
<1> QED
  BY <1>7, <1>8 DEF x

\* What a callback is given: d, and NEWDATA is set when that is something.
Fresh(d) == d \in Seq(Nat) /\ fed' = fed \o d /\ ("NEWDATA" \in Told <=> d # <<>>)

LEMMA RestJoined ==
  ASSUME NEW b \in Seq(Nat), NEW d \in Seq(Nat)
  PROVE  Rest(b \o d, Len(b)) = d
<1> DEFINE c == b \o d
           k == Len(b)
           t == Rest(c, k)
<1>1. /\ c \in Seq(Nat) /\ k \in Nat /\ Len(d) \in Nat /\ Len(c) = k + Len(d)
      /\ \A i \in 1..(k + Len(d)) : c[i] = IF i <= k THEN b[i] ELSE d[i - k]
  BY ConcatProperties, LenProperties
<1> DEFINE l == Len(d)
           n == Len(c)
<1>2. n \in Nat /\ n = k + l /\ l \in Nat /\ k \in Nat
  BY <1>1
<1>3. ASSUME NEW i \in 1..l PROVE c[(k + 1) + i - 1] = d[i]
  <2>1. (k + 1) + i - 1 = k + i /\ k + i \in 1..(k + l) /\ ~(k + i <= k) /\ (k + i) - k = i
    BY <1>2
  <2> DEFINE j == k + i
  <2>2. c[j] = IF j <= k THEN b[j] ELSE d[j - k]
    BY <1>1, <2>1
  <2> QED
    BY <2>1, <2>2
<1>4. t \in Seq(Nat) /\ Len(t) = l /\ \A i \in 1..l : t[i] = c[(k + 1) + i - 1]
  <2>1. \A i \in 1..n : c[i] \in Nat
    BY <1>1, ElementOfSeq
  <2> HIDE DEF n, l, k, c
  <2>2. /\ k + 1 \in Int /\ n \in Int /\ \A i \in (k + 1)..n : c[i] \in Nat
        /\ (IF k + 1 <= n THEN n - (k + 1) + 1 ELSE 0) = l /\ n - (k + 1) + 1 = l
    BY <1>2, <2>1
  <2>3. /\ SubSeq(c, k + 1, n) \in Seq(Nat) /\ Len(SubSeq(c, k + 1, n)) = l
        /\ \A i \in 1..l : SubSeq(c, k + 1, n)[i] = c[(k + 1) + i - 1]
    BY <2>2, SubSeqProperties
  <2> QED
    BY <2>3 DEF Rest, n
<1> HIDE DEF t, c, k
<1>5. \A i \in 1..l : t[i] = d[i]
  BY <1>3, <1>4
<1>6. t = d
  BY <1>4, <1>5, SeqEqual
<1> QED
  BY <1>6 DEF t, c, k

LEMMA FreshNone == ASSUME RecvInv, fed' = fed, "NEWDATA" \notin Told PROVE Fresh(<<>>)
<1>1. fed \in Seq(Nat) /\ <<>> \in Seq(Nat) /\ fed \o <<>> = fed
  BY EmptySeq, ConcatEmptySeq DEF RecvInv
<1> QED
  BY <1>1 DEF Fresh

LEMMA FreshDelivered ==
  ASSUME RecvInv, NEW s \in Arriving, NEW at \in 0..(PeerBytes + 2), Carries(s, at), Deliver(s, at),
         "NEWDATA" \in Told => s.len - Skip(s) > 0
  PROVE  \E d : Fresh(d)
<1> DEFINE m == s.len - Skip(s)
           p == Places(at + Skip(s), m)
<1>1. fed' = IF "NEWDATA" \in Told THEN fed \o p ELSE fed
  BY DEF Deliver
<1>2. m \in Nat /\ at + Skip(s) \in Nat
  BY SkipsInside, Bounds
<1>3. p \in Seq(Nat) /\ Len(p) = m
  BY <1>2, PlacesAre
<1> HIDE DEF p
<1>4. CASE "NEWDATA" \in Told
  <2>1. Len(p) # 0
    BY <1>2, <1>3, <1>4
  <2>2. p # <<>>
    BY <2>1, EmptySeq
  <2>3. Fresh(p)
    BY <1>1, <1>3, <1>4, <2>2 DEF Fresh
  <2> QED
    BY <2>3
<1>5. CASE "NEWDATA" \notin Told
  BY <1>1, <1>5, FreshNone
<1> QED
  BY <1>4, <1>5

(* The invariant: in an established connection the application has read of *)
(* the peer's stream what its script is at.                                *)
ReadInv  == conn.tcpstate = "ESTABLISHED" => ReadOK(app, fed)
ReadNext == next.tcpstate = "ESTABLISHED" => ReadOK(app', fed')

LEMMA AnswerReads ==
  ASSUME OneRead, LineFits, Plain, Serves, ServerNext, appcall' # {}, next.tcpstate = "ESTABLISHED",
         NEW d, Fresh(d), fed' # fed => ackedN >= Greeting, Fits(next.mss),
         \/ "CONNECTED" \in Told /\ fed = <<>>
         \/ "CONNECTED" \notin Told /\ conn.tcpstate = "ESTABLISHED" /\ ReadInv
  PROVE  ReadNext
<1> DEFINE z == app'
           e == Event
           f == fed
           h == fed'
           r == ReadAt(app.script)
           how == How(app.script)
<1>1. /\ AppOK(app) /\ AppOK(z) /\ WaitsAt(z) /\ z.close = FALSE /\ ackedN = Before(z, z.pc)
      /\ z = hello_world_appcall(app, e)
  BY ServesFacts, Called DEF Serves, ServerNext, ServerOK, Awaits
<1>2. /\ e \in Callback /\ e.mss = next.mss /\ e.data = Rest(fed', Len(fed))
      /\ e.connected <=> "CONNECTED" \in Told
      /\ e.newdata <=> "NEWDATA" \in Told
  BY EventIs DEF Serves
<1>3. RecvInv /\ RecvInv'
  BY DEF Serves, StreamInv
<1>4. f \in Seq(Nat) /\ h = Places(1, Len(h)) /\ Len(h) \in Nat
  <2>1. f \in Seq(Nat) /\ h \in Seq(Nat)
    BY <1>3 DEF RecvInv
  <2>2. (Plain => fed = Places(1, Len(fed)))'
    BY <1>3 DEF RecvInv
  <2>3. h = Places(1, Len(h))
    BY <2>2 DEF Plain, Places
  <2> QED
    BY <2>1, <2>3, LenProperties
<1>5. Feeds(e, f, h, how)
  <2>1. Suits(e)
    BY <1>2 DEF Suits
  <2>2. e.data = d /\ h = f \o d /\ (e.newdata <=> d # <<>>)
    <3>1. d \in Seq(Nat) /\ h = f \o d /\ ("NEWDATA" \in Told <=> d # <<>>)
      BY DEF Fresh
    <3>2. Rest(f \o d, Len(f)) = d
      BY <1>4, <3>1, RestJoined
    <3> QED
      BY <1>2, <3>1, <3>2
  <2>3. Room(how, h)
    <3> DEFINE n == Len(h)
    <3>1. n \in Nat /\ h = Places(1, n)
      BY <1>4
    <3> HIDE DEF n, h, how
    <3> QED
      BY <3>1, LineRoom
  <2> QED
    BY <2>1, <2>2, <2>3 DEF Feeds
<1>6. \/ e.connected = TRUE /\ f = <<>>
      \/ e.connected = FALSE /\ WaitsAt(app) /\ ReadOK(app, f)
  <2>1. conn.tcpstate = "ESTABLISHED" => WaitsAt(app)
    BY DEF Serves, AppInv, ServerOK, Awaits
  <2>2. e.connected \in BOOLEAN
    BY <1>2 DEF Callback
  <2> QED
    BY <1>2, <2>1, <2>2 DEF ReadInv
<1> HIDE DEF z, e, f, h
<1>7. z.script = app.script /\ Reads(z, Len(z.script), f, h)
  <2>1. Feeds(e, f, h, How(app.script))
    BY <1>5
  <2> HIDE DEF how, r
  <2> QED
    BY <1>1, <1>4, <1>6, <2>1, CallReads
<1>8. r \in 1..Len(z.script) /\ Len(z.script) \in Nat /\ ~(Len(z.script) < r)
  <2>1. app.script \in Scripts /\ Len(app.script) \in Nat
    BY <1>1, AppFacts
  <2>2. r \in 1..Len(app.script)
    BY <2>1, ReadAtIs
  <2> QED
    BY <1>7, <2>1, <2>2
<1>9. /\ z.pc < r => f = <<>> /\ z.psock.unread = <<>> /\ z.psock.state # "read"
      /\ z.pc = r => Halted(z.psock, how, h)
      /\ z.pc > r => Finished(z.psock, how, h)
  BY <1>7, <1>8 DEF Reads
<1>10. z.pc < r => h = <<>>
  <2>1. z.pc < r => ~(ackedN >= Greeting)
    <3>1. Greeting = Before(app, r)
      BY <1>1, GreetingIs
    <3>2. z.pc < r => ~(Before(z, z.pc) >= Before(app, r))
      BY <1>1, <1>7, GreetsFirst
    <3> QED
      BY <1>1, <3>1, <3>2
  <2>2. z.pc < r => h = f
    BY <2>1 DEF h, f
  <2> QED
    BY <1>9, <2>2
<1>11. ReadOK(z, h)
  BY <1>7, <1>8, <1>9, <1>10 DEF ReadOK, Reads
<1> QED
  BY <1>11 DEF ReadNext, z, h

\* Kind by kind.
LEMMA SilentReads ==
  ASSUME ReadInv, Serves, appcall' = {}, fed' = fed,
         next.tcpstate = "ESTABLISHED" => conn.tcpstate = "ESTABLISHED"
  PROVE  ReadNext
<1>1. app' = app
  BY NotCalled DEF Serves
<1> QED
  BY <1>1 DEF ReadNext, ReadInv

Reader == OneRead /\ LineFits /\ Plain /\ Serves /\ ServerNext /\ ReadInv
Waited == fed' # fed => ackedN >= Greeting

LEMMA KeepsReads ==
  ASSUME Reader, Keeps, fed' = fed, conn.tcpstate # "CLOSED" => Fit(next)
  PROVE  ReadNext
<1>0. OneRead /\ LineFits /\ Plain /\ Serves /\ ServerNext /\ ReadInv /\ RecvInv
  BY DEF Reader, Serves, StreamInv
<1>1. CASE appcall' = {}
  BY <1>0, <1>1, SilentReads DEF Keeps
<1>2. CASE Told = {"REXMIT"} /\ conn.tcpstate = "ESTABLISHED" /\ appcall' # {}
  <2>1. Fresh(<<>>) /\ Fits(next.mss)
    BY <1>0, <1>2, FreshNone DEF Fit
  <2>2. "CONNECTED" \notin Told /\ next.tcpstate = "ESTABLISHED"
    BY <1>2 DEF Keeps
  <2> QED
    BY <1>0, <1>2, <2>1, <2>2, AnswerReads
<1> QED
  BY <1>1, <1>2 DEF Keeps

LEMMA ExchangesReads ==
  ASSUME Reader, Waited, NEW ok, NEW m, Exchanges(ok, m), Fit(next), NEW d, Fresh(d)
  PROVE  ReadNext
<1>0. OneRead /\ LineFits /\ Plain /\ Serves /\ ServerNext /\ ReadInv
  BY DEF Reader
<1>1. /\ conn.tcpstate = "ESTABLISHED" /\ "CONNECTED" \notin Told /\ appcall' # {}
      /\ Fits(next.mss) /\ (fed' # fed => ackedN >= Greeting)
  BY DEF Exchanges, Answered, Fit, Waited
<1>2. next.tcpstate = "ESTABLISHED" => ReadNext
  BY <1>0, <1>1, AnswerReads
<1> QED
  BY <1>2 DEF ReadNext

LEMMA OpenedReads ==
  ASSUME Reader, Waited, NEW s, Opened(s), Fit(next), NEW d, Fresh(d)
  PROVE  ReadNext
<1>0. OneRead /\ LineFits /\ Plain /\ Serves /\ ServerNext /\ RecvInv
  BY DEF Reader, Serves, StreamInv
<1>1. /\ conn.tcpstate \in SynStates /\ "CONNECTED" \in Told /\ appcall' # {}
      /\ Fits(next.mss) /\ (fed' # fed => ackedN >= Greeting)
  BY DEF Opened, Answered, Fit, Waited
<1>2. fed = <<>>
  <2>1. fed \in Seq(Nat) /\ Len(fed) = 0
    BY <1>0, <1>1 DEF RecvInv
  <2> QED
    BY <2>1, EmptySeq
<1>3. next.tcpstate = "ESTABLISHED" => ReadNext
  BY <1>0, <1>1, <1>2, AnswerReads
<1> QED
  BY <1>3 DEF ReadNext

LEMMA DeliveryReads ==
  ASSUME Reader, Waited, OneSegment, FitInv, NEW s \in Arriving, NEW at \in 0..(PeerBytes + 2),
         Delivery(s, at), s.flags # {"SYN", "ACK"}
  PROVE  ReadNext
<1>0. /\ Input(s) /\ Carries(s, at) /\ Deliver(s, at) /\ IInv /\ RecvInv
      /\ "NEWDATA" \notin Told => fed' = fed
  BY ServesFacts DEF Delivery, Deliver, Reader, Serves, StreamInv
<1>1. conn.tcpstate # "CLOSED" => Fit(next)
  BY <1>0, ArrivalFit
<1>2. next.tcpstate # "ESTABLISHED" => ReadNext
  BY DEF ReadNext
<1>3. CASE Keeps
  <2>1. fed' = fed
    BY <1>0, <1>3 DEF Keeps
  <2> QED
    BY <1>1, <1>3, <2>1, KeepsReads
<1>4. ASSUME NEW ok, Exchanges(ok, s.len - Skip(s)) PROVE ReadNext
  <2>1. Fit(next) /\ ("NEWDATA" \in Told => s.len - Skip(s) > 0)
    BY <1>1, <1>4 DEF Exchanges
  <2>2. \E d : Fresh(d)
    BY <1>0, <2>1, FreshDelivered
  <2> DEFINE m == s.len - Skip(s)
  <2> HIDE DEF m
  <2>3. Exchanges(ok, m)
    BY <1>4 DEF m
  <2> QED
    BY <2>1, <2>2, <2>3, ExchangesReads
<1>5. CASE Opened(s)
  <2>1. Fit(next) /\ conn.tcpstate # "ESTABLISHED" /\ ("NEWDATA" \in Told => s.len > 0)
    BY <1>1, <1>5 DEF Opened, SynStates
  <2>2. s.len - Skip(s) = s.len
    <3>1. Skip(s) = 0 /\ s.len \in Nat
      BY <1>0, <2>1, SkipsInside
    <3> QED
      BY <3>1
  <2>3. \E d : Fresh(d)
    BY <1>0, <2>1, <2>2, FreshDelivered
  <2> QED
    BY <1>5, <2>1, <2>3, OpenedReads
<1>6. ASSUME NEW ok, Dies \/ Finishes(ok) \/ PeerCloses(ok) \/ Starts(s) PROVE ReadNext
  <2>1. next.tcpstate # "ESTABLISHED"
    BY <1>6 DEF Dies, Finishes, PeerCloses, Starts, Waits, Final
  <2> QED
    BY <1>2, <2>1
<1>7. FoundKind(s) => ReadNext
  BY <1>3, <1>4, <1>5, <1>6 DEF FoundKind
<1> QED
  BY <1>0, <1>3, <1>6, <1>7, InputMoves

LEMMA TickReads ==
  ASSUME Reader, OneSegment, FitInv, LinkTick PROVE ReadNext
<1>0. IInv /\ RecvInv /\ Periodic(1) /\ fed' = fed
  BY ServesFacts DEF LinkTick, Reader, Serves, StreamInv
<1>1. conn.tcpstate # "CLOSED" => Fit(next)
  BY <1>0, TickFit DEF FitInv
<1>2. CASE Dies
  BY <1>2 DEF ReadNext, Dies
<1>3. CASE Keeps
  BY <1>0, <1>1, <1>3, KeepsReads
<1>4. CASE Exchanges(FALSE, 0)
  <2>1. "NEWDATA" \notin Told /\ Fit(next)
    BY <1>1, <1>4 DEF Exchanges
  <2>2. Fresh(<<>>) /\ Waited
    BY <1>0, <2>1, FreshNone DEF Waited
  <2> QED
    BY <1>4, <2>1, <2>2, ExchangesReads
<1> QED
  BY <1>0, <1>2, <1>3, <1>4, TickMoves

\* Segments without data give the application nothing to read.
LEMMA ControlReads ==
  ASSUME RecvInv, DeliverSyn \/ DeliverRst PROVE fed' = fed
<1>1. ASSUME NEW p, NEW lp, NEW fl, "URG" \notin fl, NEW w, NEW m,
             Deliver(Seg(p, lp, fl, 0, 0, 0, w, m, 0), 0)
      PROVE  fed' = fed
  <2> DEFINE s == Seg(p, lp, fl, 0, 0, 0, w, m, 0)
  <2>1. s.len = 0 /\ s.flags = fl
    BY DEF Seg
  <2>2. fed' = IF "NEWDATA" \in Told THEN fed \o Places(0 + Skip(s), s.len - Skip(s)) ELSE fed
    BY <1>1 DEF Deliver
  <2> HIDE DEF s
  <2>3. Skip(s) = 0
    BY <1>1, <2>1 DEF Skip, Urgent
  <2>4. Places(0, 0) = <<>>
    <3>1. Places(0, 0) \in Seq(Nat) /\ Len(Places(0, 0)) = 0
      BY PlacesAre
    <3> QED
      BY <3>1, EmptySeq
  <2>5. 0 + Skip(s) = 0 /\ s.len - Skip(s) = 0
    BY <2>1, <2>3
  <2>6. fed \o <<>> = fed
    BY ConcatEmptySeq DEF RecvInv
  <2> QED
    BY <2>2, <2>4, <2>5, <2>6
<1>2. CASE DeliverSyn
  <2>1. PICK p \in Peers, lp \in Ports, w \in Wnds, m \in MssOpts :
          Deliver(Seg(p, lp, {"SYN"}, 0, 0, 0, w, m, 0), 0)
    BY <1>2 DEF DeliverSyn
  <2>2. "URG" \notin {"SYN"}
    OBVIOUS
  <2> QED
    BY <1>1, <2>1, <2>2
<1>3. CASE DeliverRst
  <2>1. PICK p \in Peers, lp \in Ports, w \in Wnds :
          Deliver(Seg(p, lp, {"RST"}, 0, 0, 0, w, 0, 0), 0)
    BY <1>3 DEF DeliverRst
  <2>2. "URG" \notin {"RST"}
    OBVIOUS
  <2> QED
    BY <1>1, <2>1, <2>2
<1> QED
  BY <1>2, <1>3

LEMMA ReadMeans == (ReadNext => ReadInv') /\ (AppInv' => ServerNext)
<1>1. conn' = next
  BY DEF conn, next
<1> QED
  BY <1>1 DEF ReadNext, ReadInv, ReadOK, AppInv, ServerNext, ServerOK, Awaits,
              ackedN, saidN, promisedN

LEMMA IdleReads ==
  ASSUME ReadInv, UNCHANGED <<app, fed>>, conn'.tcpstate = "ESTABLISHED" => conn.tcpstate = "ESTABLISHED"
  PROVE  ReadInv'
  BY DEF ReadInv, ReadOK

LEMMA ReadNextInv ==
  ASSUME OneSegment, OneRead, LineFits, Plain, Polite = TRUE, HelloInv, ReadInv, [HelloNext]_hvars
  PROVE  ReadInv'
<1>1. /\ StreamInv /\ StreamInv' /\ AppInv /\ FitInv /\ SendInv /\ RecvInv /\ ServerNext
  <2>1. HelloInv'
    BY HelloNextInv
  <2> QED
    BY <2>1, ReadMeans DEF HelloInv, StreamInv, LinkInv
<1>2. ReadNext => ReadInv'
  BY ReadMeans
<1>3. CASE (DeliverSyn \/ DeliverText \/ DeliverRst) /\ AppCall /\ (DeliverSyn \/ DeliverRst \/ Manners)
  <2>1. PICK s \in Arriving, at \in 0..(PeerBytes + 2) :
          Delivery(s, at) /\ s.flags # {"SYN", "ACK"}
    BY <1>1, <1>3, TextDelivers
  <2>2. Serves
    BY <1>1, <1>3, <2>1 DEF Serves, Delivery, Deliver
  <2>3. Waited
    BY <1>1, <1>3, ControlReads DEF Waited, Manners, ackedN
  <2>4. Reader
    BY <1>1, <2>2 DEF Reader
  <2> QED
    BY <1>1, <1>2, <2>1, <2>3, <2>4, DeliveryReads
<1>4. CASE LinkTick /\ AppCall
  <2>1. Serves
    BY <1>1, <1>4 DEF Serves, LinkTick
  <2>2. Reader
    BY <1>1, <2>1 DEF Reader
  <2> QED
    BY <1>1, <1>2, <1>4, <2>2, TickReads
<1>5. CASE LinkUser /\ UNCHANGED <<app, said, promised>>
  <2>1. UNCHANGED <<app, fed>> /\ IInv
    BY <1>1, <1>5 DEF LinkUser, StreamInv, LinkInv
  <2>2. conn'.tcpstate = "ESTABLISHED" => conn.tcpstate = "ESTABLISHED"
    <3>1. CASE UNCHANGED uip_conns
      BY <3>1 DEF conn
    <3>2. ASSUME NEW p, NEW lp, Connect(1, p, lp)
          PROVE  conn'.tcpstate # "ESTABLISHED"
      <4>1. conn' = next /\ next.tcpstate = "SYN_SENT"
        BY <2>1, <3>2, ConnectNext DEF conn, next
      <4> QED
        BY <4>1
    <3> QED
      BY <1>5, <3>1, <3>2 DEF LinkUser, Listen
  <2> QED
    BY <2>1, <2>2, IdleReads
<1>6. CASE (\E f \in wire : PeerHears(f)) /\ UNCHANGED <<app, said, promised>>
  <2>1. UNCHANGED <<uip_conns, app, fed>>
    BY <1>6, Zenon DEF PeerHears, vars, history
  <2> QED
    BY <2>1, IdleReads DEF conn
<1>7. CASE UNCHANGED hvars
  <2>1. UNCHANGED <<uip_conns, app, fed>>
    BY <1>7 DEF hvars, lvars, vars, history
  <2> QED
    BY <2>1, IdleReads DEF conn
<1> QED
  BY <1>3, <1>4, <1>5, <1>6, <1>7 DEF HelloNext

(* PSOCK_READTO and PSOCK_READBUF give the application the peer's stream   *)
(* from its beginning, without gaps or repeats, over as many segments as it*)
(* takes: psock_newdata(), buf_bufto() and buf_bufdata() with the          *)
(* protothread that waits in between.  The peer is one that waits for the  *)
(* greeting and sends no urgent data, and its first line fits the buffer.  *)
THEOREM ReadsPeerStream ==
  ASSUME OneSegment, OneRead, LineFits, Plain, Polite = TRUE
  PROVE  HelloSpec => []ReadsStream
<1>1. HelloInit => HelloInv /\ ReadInv
  <2> SUFFICES ASSUME HelloInit PROVE HelloInv /\ ReadInv
    OBVIOUS
  <2>1. conn.tcpstate = "CLOSED"
    BY LinkAssumption DEF HelloInit, LinkInit, Init, Conns, conn
  <2> QED
    BY <2>1, HelloInitInv DEF ReadInv
<1>2. HelloInv /\ ReadInv /\ [HelloNext]_hvars => HelloInv' /\ ReadInv'
  BY HelloNextInv, ReadNextInv
<1>3. HelloInv /\ ReadInv => ReadsStream
  <2> SUFFICES ASSUME HelloInv, ReadInv, conn.tcpstate = "ESTABLISHED", app.pc >= ReadPlace
               PROVE  app.psock.buf = Wanted
    BY DEF ReadsStream
  <2> DEFINE r == ReadAt(app.script)
             how == How(app.script)
  <2>1. ReadPlace = r /\ Wanted = Want(how, fed)
    BY DEF ReadPlace, ReadAt, Wanted, Want, How
  <2>2. AppOK(app) /\ RecvInv /\ fed \in Seq(Nat)
    BY DEF HelloInv, AppInv, ServerOK, StreamInv, RecvInv
  <2>3. app.pc \in Nat /\ r \in Nat /\ ~(Len(app.script) < r)
    <3>1. app.script \in Scripts /\ Len(app.script) \in Nat /\ app.pc \in Nat
      BY <2>2, AppFacts
    <3>2. r \in 1..Len(app.script)
      BY <3>1, ReadAtIs
    <3> QED
      BY <3>1, <3>2
  <2>4. /\ app.pc = r => Halted(app.psock, how, fed)
        /\ app.pc > r => Finished(app.psock, how, fed)
    BY <2>3 DEF ReadInv, ReadOK, Reads
  <2>5. ASSUME ~Done(how, fed) PROVE Want(how, fed) = fed
    <3>1. Len(fed) \in Nat /\ SubSeq(fed, 1, Len(fed)) = fed /\ BufSize \in Nat
      BY <2>2, LenProperties, BufBounds
    <3>2. ~FoundMarker(fed) => ToMarker(fed) = Len(fed)
      BY <2>2, MarkerIs
    <3>3. ~(Len(fed) >= BufSize) => Smaller(BufSize, Len(fed)) = Len(fed)
      <4>1. \A n, b \in Nat : ~(n >= b) => Smaller(b, n) = n
        BY DEF Smaller
      <4> QED
        BY <3>1, <4>1
    <3> QED
      BY <2>5, <3>1, <3>2, <3>3 DEF Done, Want
  <2> HIDE DEF r, how
  <2>6. app.pc = r \/ app.pc > r
    BY <2>1, <2>3
  <2> QED
    BY <2>1, <2>4, <2>5, <2>6 DEF Halted, Finished
<1> QED
  BY <1>1, <1>2, <1>3, PTL DEF HelloSpec
=============================================================================
