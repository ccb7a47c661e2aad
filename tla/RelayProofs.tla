----------------------------- MODULE RelayProofs -----------------------------
(***************************************************************************)
(* Relay and client keep their promises for any number of clients, queues, *)
(* messages and sockets, with any faults.                                  *)
(***************************************************************************)
EXTENDS Relay, SequenceTheorems, FiniteSetTheorems, TLAPS

\* x is in t somewhere in front of a y.
Before(x, y, t) == \E i, j \in DOMAIN t : i < j /\ t[i] = x /\ t[j] = y

-----------------------------------------------------------------------------
(* The inductive invariant                                                 *)

Live(s) == sock[s].client \in {"connecting", "open", "closing"}

\* What the two ends of a socket know of each other; a cut socket is empty.
SockInv == \A s \in Socket :
  /\ (sock[s].owner = None) <=> (sock[s].client = "none")
  /\ (sock[s].client \in {"none", "connecting"}) <=> (sock[s].relay = "none")
  /\ sock[s].relay = "none" \/ sock[s].cut => sock[s].up = <<>> /\ sock[s].down = <<>>
  /\ sock[s].relay = "none" => ~sock[s].cut
  /\ sock[s].relay \in {"closing", "closed"} => Dead(s)

\* this.ws is the one open socket.
WsInv ==
  /\ \A s \in Socket : sock[s].client = "open" => ws[sock[s].owner] = s
  /\ \A c \in Client : ws[c] # None => sock[ws[c]].client = "open" /\ sock[ws[c]].owner = c

\* A client has one socket or one reconnect timer under way, never both, and neither
\* before initialize().
LiveInv ==
  /\ \A s, t \in Socket : Live(s) /\ Live(t) /\ sock[s].owner = sock[t].owner => s = t
  /\ \A c \in Client : timers[c] > 0 \/ bridge[c] = "off" =>
        \A s \in Socket : sock[s].owner = c => ~Live(s)
  /\ \A c \in Client : timers[c] \in {0, 1} /\ (bridge[c] = "off" => timers[c] = 0)

\* A call that client c may have made.
Legit(c, call) ==
  /\ call.cmd = "NEW" => Creator[call.queue] = c
  /\ call.cmd = "SUB" => Recipient[call.queue] = c
  /\ call.cmd = "SEND" => call.n \in Message /\ Target[call.n] = call.queue /\ outcome[call.n] # "none"

CallInv == \A c \in Client : \A call \in calls[c] : Legit(c, call)

\* A frame on its way to the relay: a message that is being sent was not accepted yet,
\* one that is being acknowledged was delivered.
Holds(s, f) ==
  /\ f.cmd \in {"NEW", "SUB", "SEND", "ACK", "CLOSE"}
  /\ f.cmd \in {"NEW", "SUB", "SEND"} =>
        f.call # None /\ f.call.cmd = f.cmd /\ Legit(sock[s].owner, f.call)
  /\ f.cmd = "SEND" =>
        f.msg = f.call.n /\ f.msg \in Message /\ f.msg \notin accepted /\ via[f.msg].sent = s
  /\ f.cmd = "ACK" =>
        f.msg \in Message /\ Delivered(f.msg) /\ (f.call = None \/ f.call = AckOf(f.msg))
  /\ f.cmd = "CLOSE" => sock[s].client \in {"closing", "closed"}

\* A frame on its way to a client: a message was pushed to its recipient.
Brings(s, f) ==
  /\ f.cmd \in {"OK", "ERR", "MSG"}
  /\ f.cmd \in {"OK", "ERR"} => f.call # None /\ Legit(sock[s].owner, f.call)
  /\ f.cmd = "MSG" => /\ f = Msg(f.msg) /\ f.msg \in accepted /\ via[f.msg].pushed = s
                      /\ sock[s].owner = Recipient[Target[f.msg]]

FrameInv == \A s \in Socket : /\ \A f \in Range(sock[s].up) : Holds(s, f)
                              /\ \A f \in Range(sock[s].down) : Brings(s, f)

\* The subscriber of a queue is a socket of its recipient; nothing waits while it is open.
QueueInv == \A q \in Queue : queue[q] # None =>
  /\ \A m \in Range(queue[q].pending) : m \in accepted /\ Target[m] = q /\ via[m].pushed = None
  /\ queue[q].subscriber # None =>
        /\ sock[queue[q].subscriber].relay \in {"open", "closing"}
        /\ sock[queue[q].subscriber].owner = Recipient[q]
        /\ sock[queue[q].subscriber].relay = "open" => Range(queue[q].pending) = {}

SetInv ==
  /\ wiped \subseteq accepted
  /\ \A m \in Message : m \notin accepted => via[m].pushed = None
  /\ \A m \in accepted : outcome[m] # "none"
  /\ \A q \in Queue : \A m \in Range(delivered[q]) : m \in accepted /\ Target[m] = q
  /\ \A c \in Client : \A q \in subscribed[c] : Recipient[q] = c

Asks(f, cmd, q) == f.call # None /\ f.call.cmd = cmd /\ f.call.queue = q

\* Nothing of this kind is on its way to or from the relay.
NoneAsks(cmd, q) == \A s \in Socket : /\ \A f \in Range(sock[s].up) : ~Asks(f, cmd, q)
                                      /\ \A f \in Range(sock[s].down) : ~Asks(f, cmd, q)

\* A queue is created by one NEW, before anybody subscribes to it.
NewInv == \A q \in Queue :
  /\ address[q] = "none" => queue[q] = None /\ NoneAsks("NEW", q) /\ NoneAsks("SUB", q)
  /\ \A s \in Socket : \A f \in Range(sock[s].up) : Asks(f, "NEW", q) =>
        /\ queue[q] = None /\ address[q] \in {"creating", "failed"} /\ NoneAsks("SUB", q)
        /\ \A t \in Socket : \A g \in Range(sock[t].down) : ~Asks(g, "NEW", q)
        /\ \A t \in Socket : \A g \in Range(sock[t].up) : Asks(g, "NEW", q) => s = t /\ ~Before(f, g, sock[s].up)

\* On a live connection the answer to a SUB says whether the relay has the queue.
AnswerInv == \A s \in Socket : sock[s].client = "open" =>
  \A f \in Range(sock[s].down) : \A q \in Queue :
    Asks(f, "SUB", q) => ((f.cmd = "OK") <=> (queue[q] # None))

\* Client c has subscribed to q, or gave a SUB up.
Knows(c, q) == q \in subscribed[c] \/ q \in late

\* An answer that will make the client of socket s subscribed to q.
Confirms(s, q, f) == f.cmd = "OK" /\ Asks(f, "SUB", q) /\ f.call \in calls[sock[s].owner]

\* A message reaches a client behind the OK of its SUB.
SubInv ==
  /\ \A s \in Socket : sock[s].client = "open" => \A f \in Range(sock[s].up) : f.cmd = "SUB" =>
       \/ queue[f.call.queue] = None \/ Knows(sock[s].owner, f.call.queue)
       \/ f.call \in calls[sock[s].owner]
  /\ \A s \in Socket : sock[s].client = "open" => \A f \in Range(sock[s].down) : f.cmd = "MSG" =>
       \/ Knows(sock[s].owner, Target[f.msg])
       \/ \E g \in Range(sock[s].down) : Confirms(s, Target[f.msg], g) /\ Before(g, f, sock[s].down)
  /\ \A q \in Queue : \A s \in Socket : queue[q] # None /\ queue[q].subscriber = s /\ ~Dead(s) =>
       Knows(Recipient[q], q) \/ \E g \in Range(sock[s].down) : Confirms(s, q, g)

\* All the sockets that client c ever opened are one that lives.
Only(c) == \A s \in Socket : sock[s].owner = c => s = ws[c] /\ ~sock[s].cut

RealInv ==
  /\ \A c \in Client : subscribed[c] # {} =>
        \E s \in Socket : sock[s].owner = c /\ sock[s].client \notin {"none", "connecting"}
  /\ \A c \in Client : Only(c) => \A s \in Socket : sock[s].owner = c =>
        \A f \in Range(sock[s].down) : \A q \in Queue : f.cmd = "OK" /\ Asks(f, "SUB", q) =>
           queue[q] # None /\ queue[q].subscriber = s

\* m was sent before n, if they were sent on the same socket.
Ahead(m, n) == m # n /\ (via[m].sent = via[n].sent => m < n)

\* The messages of a queue go out in their order.
SendOrder ==
  /\ \A m, n \in Message : n < m /\ Target[n] = Target[m] /\ outcome[m] # "none" => outcome[n] # "none"
  /\ \A s \in Socket : \A f, g : Before(f, g, sock[s].up) /\ f.cmd = "SEND" /\ g.cmd = "SEND" =>
        f.msg # g.msg /\ (Target[f.msg] = Target[g.msg] => f.msg < g.msg)
  /\ \A s \in Socket : \A f \in Range(sock[s].up) : f.cmd = "SEND" =>
        \A m \in accepted : Target[m] = Target[f.msg] => Ahead(m, f.msg)

\* Message m of queue q is on its way to the client of socket s.
Comes(s, q, m) ==
  sock[s].client = "open" /\ m \in Message /\ Target[m] = q /\ Msg(m) \in Range(sock[s].down)

\* In queue q, message m is in front of n: among the delivered ones, on the way to the
\* client, or still with the relay.
Precedes(q, m, n) ==
  \/ Before(m, n, delivered[q])
  \/ m \in Range(delivered[q]) /\ \E s \in Socket : Comes(s, q, n)
  \/ \E s \in Socket : Comes(s, q, m) /\ Comes(s, q, n) /\ Before(Msg(m), Msg(n), sock[s].down)
  \/ /\ queue[q] # None /\ n \in Range(queue[q].pending)
     /\ \/ m \in Range(delivered[q]) \/ Before(m, n, queue[q].pending)
        \/ \E s \in Socket : Comes(s, q, m)

GetOrder == \A q \in Queue : \A m, n : Precedes(q, m, n) => Ahead(m, n)

Base == TypeOK /\ SockInv /\ WsInv /\ FrameInv

IInv ==
  /\ Base /\ LiveInv /\ CallInv /\ QueueInv /\ SetInv /\ NewInv /\ AnswerInv
  /\ SubInv /\ RealInv /\ SendOrder /\ GetOrder
  /\ StoredUntilDelivered /\ KeptNeedsLostAck /\ BelievedSubscriptionIsReal /\ LostOnlyWithItsSocket

-----------------------------------------------------------------------------
(* Sequences, by what is in them and in which order                        *)

LEMMA BeforeBoth ==
  ASSUME NEW t, NEW x, NEW y, Before(x, y, t)
  PROVE  x \in Range(t) /\ y \in Range(t)
BY DEF Before, Range

LEMMA EmptyOf ==
  /\ Range(<<>>) = {}
  /\ \A x, y : ~Before(x, y, <<>>)
BY DEF Range, Before

LEMMA HeadOf ==
  ASSUME NEW S, NEW t \in Seq(S), t # <<>>
  PROVE  /\ Head(t) \in S /\ Head(t) \in Range(t) /\ Tail(t) \in Seq(S)
         /\ Range(t) = {Head(t)} \cup Range(Tail(t))
         /\ \A y \in Range(Tail(t)) : Before(Head(t), y, t)
         /\ \A x, y : Before(x, y, Tail(t)) => Before(x, y, t)
         /\ \A x, y : Before(x, y, t) => Before(x, y, Tail(t)) \/ (x = Head(t) /\ y \in Range(Tail(t)))
<1>1. /\ Tail(t) \in Seq(S) /\ Head(t) = t[1] /\ Head(t) \in S
      /\ Len(t) \in Nat /\ Len(t) > 0 /\ DOMAIN t = 1..Len(t)
      /\ DOMAIN Tail(t) = 1..(Len(t) - 1)
      /\ \A i \in 1..(Len(t) - 1) : Tail(t)[i] = t[i + 1]
  OBVIOUS
<1>2. \A i \in DOMAIN Tail(t) : i + 1 \in DOMAIN t /\ 1 \in DOMAIN t /\ 1 < i + 1 /\ i \in Nat
  BY <1>1
<1>3. \A i \in DOMAIN t : i = 1 \/ (i - 1 \in DOMAIN Tail(t) /\ (i - 1) + 1 = i /\ i > 1)
  BY <1>1
<1>4. Head(t) \in Range(t)
  BY <1>1 DEF Range
<1>5. Range(t) = {Head(t)} \cup Range(Tail(t))
  <2>1. ASSUME NEW x \in Range(Tail(t)) PROVE x \in Range(t)
    BY <1>1, <1>2 DEF Range
  <2>2. ASSUME NEW x \in Range(t) PROVE x = Head(t) \/ x \in Range(Tail(t))
    <3>1. PICK i \in DOMAIN t : x = t[i]
      BY DEF Range
    <3>2. CASE i = 1
      BY <1>1, <3>1, <3>2
    <3>3. CASE i # 1
      <4>1. x = Tail(t)[i - 1] /\ i - 1 \in DOMAIN Tail(t)
        BY <1>1, <1>3, <3>1, <3>3
      <4>2. QED
        BY <4>1 DEF Range
    <3>4. QED
      BY <3>2, <3>3
  <2>3. QED
    BY <1>4, <2>1, <2>2
<1>6. \A y \in Range(Tail(t)) : Before(Head(t), y, t)
  <2>1. ASSUME NEW i \in DOMAIN Tail(t) PROVE Before(Head(t), Tail(t)[i], t)
    BY <1>1, <1>2 DEF Before
  <2>2. QED
    BY <2>1 DEF Range
<1>7. \A x, y : Before(x, y, Tail(t)) => Before(x, y, t)
  <2>1. ASSUME NEW i \in DOMAIN Tail(t), NEW j \in DOMAIN Tail(t), i < j
        PROVE  Before(Tail(t)[i], Tail(t)[j], t)
    <3>1. i + 1 < j + 1 /\ i + 1 \in DOMAIN t /\ j + 1 \in DOMAIN t
      BY <1>2, <2>1
    <3>2. Tail(t)[i] = t[i + 1] /\ Tail(t)[j] = t[j + 1]
      BY <1>1
    <3>3. QED
      BY <3>1, <3>2 DEF Before
  <2>2. QED
    BY <2>1 DEF Before
<1>8. \A x, y : Before(x, y, t) => Before(x, y, Tail(t)) \/ (x = Head(t) /\ y \in Range(Tail(t)))
  <2>1. ASSUME NEW i \in DOMAIN t, NEW j \in DOMAIN t, i < j
        PROVE  Before(t[i], t[j], Tail(t)) \/ (t[i] = Head(t) /\ t[j] \in Range(Tail(t)))
    <3>1. j - 1 \in DOMAIN Tail(t) /\ t[j] = Tail(t)[j - 1] /\ t[j] \in Range(Tail(t))
      <4>1. j # 1
        BY <1>1, <2>1
      <4>2. j - 1 \in DOMAIN Tail(t) /\ t[j] = Tail(t)[j - 1]
        BY <1>1, <1>3, <4>1
      <4>3. QED
        BY <4>2 DEF Range
    <3>2. CASE i = 1
      BY <1>1, <3>1, <3>2
    <3>3. CASE i # 1
      <4>1. i - 1 \in DOMAIN Tail(t) /\ t[i] = Tail(t)[i - 1] /\ i - 1 < j - 1
        BY <1>1, <1>3, <2>1, <3>3
      <4>2. QED
        BY <3>1, <4>1 DEF Before
    <3>4. QED
      BY <3>2, <3>3
  <2>2. QED
    BY <2>1 DEF Before
<1>9. QED
  BY <1>1, <1>4, <1>5, <1>6, <1>7, <1>8

LEMMA ConcatOf ==
  ASSUME NEW S, NEW t \in Seq(S), NEW u \in Seq(S)
  PROVE  /\ t \o u \in Seq(S)
         /\ Range(t \o u) = Range(t) \cup Range(u)
         /\ \A x, y : Before(x, y, t) \/ Before(x, y, u) => Before(x, y, t \o u)
         /\ \A x \in Range(t), y \in Range(u) : Before(x, y, t \o u)
         /\ \A x, y : Before(x, y, t \o u) =>
              Before(x, y, t) \/ Before(x, y, u) \/ (x \in Range(t) /\ y \in Range(u))
<1> DEFINE v == t \o u
<1>1. /\ v \in Seq(S) /\ Len(t) \in Nat /\ Len(u) \in Nat
      /\ DOMAIN t = 1..Len(t) /\ DOMAIN u = 1..Len(u) /\ DOMAIN v = 1..(Len(t) + Len(u))
      /\ \A i \in 1..(Len(t) + Len(u)) : v[i] = IF i <= Len(t) THEN t[i] ELSE u[i - Len(t)]
  BY ConcatProperties
<1> HIDE DEF v
<1>2. \A i \in DOMAIN t : i \in DOMAIN v /\ v[i] = t[i]
  BY <1>1
<1>3. \A i \in DOMAIN u : i + Len(t) \in DOMAIN v /\ v[i + Len(t)] = u[i] /\ Len(t) < i + Len(t)
  <2>1. ASSUME NEW i \in DOMAIN u
        PROVE  /\ i + Len(t) \in 1..(Len(t) + Len(u)) /\ ~(i + Len(t) <= Len(t)) /\ (i + Len(t)) - Len(t) = i
               /\ Len(t) < i + Len(t)
    BY <1>1
  <2>2. QED
    BY <1>1, <2>1
<1>4. \A i \in DOMAIN v : \/ i \in DOMAIN t /\ v[i] = t[i]
                          \/ i - Len(t) \in DOMAIN u /\ v[i] = u[i - Len(t)] /\ i > Len(t)
  <2>1. ASSUME NEW i \in DOMAIN v PROVE \/ i \in DOMAIN t /\ i <= Len(t)
                                        \/ i - Len(t) \in DOMAIN u /\ i > Len(t) /\ ~(i <= Len(t))
    BY <1>1
  <2>2. QED
    BY <1>1, <2>1
<1>5. Range(v) = Range(t) \cup Range(u)
  <2>1. ASSUME NEW x \in Range(v) PROVE x \in Range(t) \cup Range(u)
    BY <1>4 DEF Range
  <2>2. ASSUME NEW x \in Range(t) \cup Range(u) PROVE x \in Range(v)
    BY <1>2, <1>3 DEF Range
  <2>3. QED
    BY <2>1, <2>2
<1>6. \A x, y : Before(x, y, t) => Before(x, y, v)
  BY <1>2 DEF Before
<1>7. \A x, y : Before(x, y, u) => Before(x, y, v)
  <2>1. ASSUME NEW i \in DOMAIN u, NEW j \in DOMAIN u, i < j PROVE Before(u[i], u[j], v)
    <3>1. i + Len(t) < j + Len(t)
      BY <1>1, <2>1
    <3>2. QED
      BY <1>3, <3>1 DEF Before
  <2>2. QED
    BY <2>1 DEF Before
<1>8. \A x \in Range(t), y \in Range(u) : Before(x, y, v)
  <2>1. ASSUME NEW i \in DOMAIN t, NEW j \in DOMAIN u PROVE Before(t[i], u[j], v)
    <3>1. i < j + Len(t)
      BY <1>1
    <3>2. QED
      BY <1>2, <1>3, <3>1 DEF Before
  <2>2. QED
    BY <2>1 DEF Range
<1>9. \A x, y : Before(x, y, v) =>
        Before(x, y, t) \/ Before(x, y, u) \/ (x \in Range(t) /\ y \in Range(u))
  <2>1. ASSUME NEW i \in DOMAIN v, NEW j \in DOMAIN v, i < j
        PROVE  Before(v[i], v[j], t) \/ Before(v[i], v[j], u) \/ (v[i] \in Range(t) /\ v[j] \in Range(u))
    <3>1. CASE i \in DOMAIN t /\ j \in DOMAIN t
      BY <1>2, <2>1, <3>1 DEF Before
    <3>2. CASE i \in DOMAIN t /\ j \notin DOMAIN t
      BY <1>4, <3>2 DEF Range
    <3>3. CASE i \notin DOMAIN t
      <4>1. j \notin DOMAIN t /\ i - Len(t) < j - Len(t)
        BY <1>1, <1>4, <2>1, <3>3
      <4>2. QED
        BY <1>4, <3>3, <4>1 DEF Before
    <3>4. QED
      BY <3>1, <3>2, <3>3
  <2>2. QED
    BY <2>1 DEF Before
<1>10. QED
  BY <1>1, <1>5, <1>6, <1>7, <1>8, <1>9 DEF v

LEMMA SingleOf ==
  ASSUME NEW S, NEW f \in S
  PROVE  <<f>> \in Seq(S) /\ Range(<<f>>) = {f} /\ \A x, y : ~Before(x, y, <<f>>)
<1>1. DOMAIN <<f>> = {1} /\ <<f>>[1] = f /\ <<f>> \in Seq(S)
  OBVIOUS
<1>2. QED
  BY <1>1 DEF Range, Before

LEMMA AppendOf ==
  ASSUME NEW S, NEW t \in Seq(S), NEW f \in S
  PROVE  /\ Append(t, f) \in Seq(S)
         /\ Range(Append(t, f)) = Range(t) \cup {f}
         /\ \A x, y : Before(x, y, t) => Before(x, y, Append(t, f))
         /\ \A x \in Range(t) : Before(x, f, Append(t, f))
         /\ \A x, y : Before(x, y, Append(t, f)) => Before(x, y, t) \/ (x \in Range(t) /\ y = f)
<1> DEFINE u == <<f>>
<1>1. Append(t, f) = t \o u
  BY AppendIsConcat
<1>2. u \in Seq(S) /\ Range(u) = {f} /\ \A x, y : ~Before(x, y, u)
  BY SingleOf
<1> HIDE DEF u
<1>3. QED
  BY <1>1, <1>2, ConcatOf
-----------------------------------------------------------------------------
(* Sockets and frames                                                      *)

Sock == [owner : Client \cup {None},
         client : {"none", "connecting", "open", "closing", "closed"},
         relay : {"none", "open", "closing", "closed"},
         cut : BOOLEAN, up : Seq(Frame), down : Seq(Frame)]

\* Both ends of a socket are as they were.
SameEnds(sk, old, r) ==
  /\ sk[r].owner = old[r].owner /\ sk[r].client = old[r].client
  /\ sk[r].relay = old[r].relay /\ sk[r].cut = old[r].cut

LEMMA ConstantTypes ==
  /\ Creator \in [Queue -> Client] /\ Recipient \in [Queue -> Client] /\ Sender \in [Queue -> Client]
  /\ Target \in [Message -> Queue] /\ Message \subseteq Nat
  /\ None \notin Client /\ None \notin Nat /\ None \notin Message /\ None \notin Socket
  /\ None \notin Call /\ None \notin Record
  /\ MaxTries \in Nat /\ MaxFaults \in Nat
<1>1. Socket \subseteq Nat
  BY RelayAssumption DEF Socket
<1>2. None \notin Call /\ None \notin Record
  BY NoneAssumption
<1>3. QED
  BY <1>1, <1>2, RelayAssumption

LEMMA FrameTypes ==
  /\ \A call \in Call : \A cmd \in {"OK", "ERR"} : Answer(cmd, call) \in Frame
  /\ \A m \in Message : Msg(m) \in Frame /\ Ack(m) \in Frame
  /\ \A m \in Message : Send(m) \in Call /\ AckOf(m) \in Call
  /\ \A m \in Message : Request(Send(m)) \in Frame /\ Request(AckOf(m)) \in Frame
  /\ CloseFrame \in Frame
  /\ \A q \in Queue : New(q) \in Call /\ Request(New(q)) \in Frame
  /\ \A q \in Queue : \A n \in Nat : Sub(q, n) \in Call /\ Request(Sub(q, n)) \in Frame
<1>1. \A call \in Call : \A cmd \in {"OK", "ERR"} : Answer(cmd, call) \in Frame
  BY DEF Answer, Frame
<1>2. \A m \in Message : Msg(m) \in Frame /\ Ack(m) \in Frame
  BY DEF Msg, Ack, Frame
<1>3. \A m \in Message : Send(m) \in Call /\ AckOf(m) \in Call
  BY ConstantTypes DEF Send, AckOf, Call
<1>4. CloseFrame \in Frame
  BY DEF CloseFrame, Frame
<1>5. \A q \in Queue : New(q) \in Call /\ \A n \in Nat : Sub(q, n) \in Call
  BY DEF New, Sub, Call
<1>6. \A m \in Message : Request(Send(m)) \in Frame /\ Request(AckOf(m)) \in Frame
  <2>1. ASSUME NEW m \in Message PROVE /\ Send(m).cmd = "SEND" /\ Send(m).n = m
                                       /\ AckOf(m).cmd = "ACK" /\ AckOf(m).n = m
    BY DEF Send, AckOf
  <2>2. QED
    BY <1>3, <2>1 DEF Request, Frame
<1>7. \A q \in Queue : Request(New(q)) \in Frame
  <2>1. ASSUME NEW q \in Queue PROVE New(q).cmd = "NEW"
    BY DEF New
  <2>2. QED
    BY <1>5, <2>1 DEF Request, Frame
<1>8. \A q \in Queue : \A n \in Nat : Request(Sub(q, n)) \in Frame
  <2>1. ASSUME NEW q \in Queue, NEW n \in Nat PROVE Sub(q, n).cmd = "SUB"
    BY DEF Sub
  <2>2. QED
    BY <1>5, <2>1 DEF Request, Frame
<1>9. QED
  BY <1>1, <1>2, <1>3, <1>4, <1>5, <1>6, <1>7, <1>8

LEMMA PushOf ==
  ASSUME NEW sk \in [Socket -> Sock], NEW s \in Socket, NEW fs \in Seq(Frame)
  PROVE  /\ Push(sk, s, fs) \in [Socket -> Sock]
         /\ \A r \in Socket : SameEnds(Push(sk, s, fs), sk, r) /\ Push(sk, s, fs)[r].up = sk[r].up
         /\ \A r \in Socket : r # s => Push(sk, s, fs)[r].down = sk[r].down
         /\ Push(sk, s, fs)[s].down =
              IF sk[s].relay = "open" /\ ~sk[s].cut THEN sk[s].down \o fs ELSE sk[s].down
<1>1. CASE ~(sk[s].relay = "open" /\ ~sk[s].cut)
  BY <1>1 DEF Push, SameEnds
<1>2. CASE sk[s].relay = "open" /\ ~sk[s].cut
  <2>1. Push(sk, s, fs) = [sk EXCEPT ![s].down = @ \o fs]
    BY <1>2 DEF Push
  <2>2. sk[s] \in Sock /\ sk[s].down \o fs \in Seq(Frame)
    BY ConcatOf DEF Sock
  <2> DEFINE d == sk[s].down \o fs
  <2>3. Push(sk, s, fs) = [sk EXCEPT ![s].down = d]
    BY <2>1
  <2> HIDE DEF d
  <2>4. [sk[s] EXCEPT !.down = d] \in Sock
    BY <2>2 DEF Sock, d
  <2>5. Push(sk, s, fs) \in [Socket -> Sock]
    BY <2>3, <2>4
  <2>6. /\ \A r \in Socket : SameEnds(Push(sk, s, fs), sk, r) /\ Push(sk, s, fs)[r].up = sk[r].up
        /\ \A r \in Socket : r # s => Push(sk, s, fs)[r].down = sk[r].down
        /\ Push(sk, s, fs)[s].down = d
    BY <2>3, <2>2 DEF SameEnds, Sock
  <2>7. QED
    BY <1>2, <2>5, <2>6 DEF d
<1>3. QED
  BY <1>1, <1>2

LEMMA WriteOf ==
  ASSUME NEW sk \in [Socket -> Sock], NEW c \in Client, NEW f \in Frame,
         ws \in [Client -> Socket \cup {None}]
  PROVE  /\ Write(sk, c, f) \in [Socket -> Sock]
         /\ \A r \in Socket : SameEnds(Write(sk, c, f), sk, r) /\ Write(sk, c, f)[r].down = sk[r].down
         /\ \A r \in Socket : r # ws[c] => Write(sk, c, f)[r].up = sk[r].up
         /\ ws[c] # None => Write(sk, c, f)[ws[c]].up =
              IF sk[ws[c]].client = "open" /\ ~sk[ws[c]].cut THEN Append(sk[ws[c]].up, f) ELSE sk[ws[c]].up
<1>1. CASE ~(ws[c] # None /\ sk[ws[c]].client = "open" /\ ~sk[ws[c]].cut)
  BY <1>1 DEF Write, SameEnds
<1>2. CASE ws[c] # None /\ sk[ws[c]].client = "open" /\ ~sk[ws[c]].cut
  <2>1. PICK s \in Socket : s = ws[c]
    BY <1>2
  <2> DEFINE u == Append(sk[s].up, f)
  <2>2. Write(sk, c, f) = [sk EXCEPT ![s].up = u]
    BY <1>2, <2>1 DEF Write
  <2>3. sk[s] \in Sock /\ u \in Seq(Frame)
    BY AppendOf DEF Sock
  <2> HIDE DEF u
  <2>4. [sk[s] EXCEPT !.up = u] \in Sock
    BY <2>3 DEF Sock
  <2>5. Write(sk, c, f) \in [Socket -> Sock]
    BY <2>2, <2>4
  <2>6. /\ \A r \in Socket : SameEnds(Write(sk, c, f), sk, r) /\ Write(sk, c, f)[r].down = sk[r].down
        /\ \A r \in Socket : r # s => Write(sk, c, f)[r].up = sk[r].up
        /\ Write(sk, c, f)[s].up = u
    BY <2>2, <2>3 DEF SameEnds, Sock
  <2>7. QED
    BY <1>2, <2>1, <2>5, <2>6 DEF u
<1>3. QED
  BY <1>1, <1>2

LEMMA ConsumeOf ==
  ASSUME sock \in [Socket -> Sock], NEW s \in Socket, sock[s].up # <<>>
  PROVE  /\ Consume(s) \in [Socket -> Sock]
         /\ \A r \in Socket : SameEnds(Consume(s), sock, r) /\ Consume(s)[r].down = sock[r].down
         /\ \A r \in Socket : r # s => Consume(s)[r].up = sock[r].up
         /\ Consume(s)[s].up = Tail(sock[s].up)
<1> DEFINE u == Tail(sock[s].up)
<1>1. sock[s] \in Sock /\ u \in Seq(Frame)
  BY HeadOf DEF Sock
<1>2. Consume(s) = [sock EXCEPT ![s].up = u]
  BY DEF Consume
<1> HIDE DEF u
<1>3. [sock[s] EXCEPT !.up = u] \in Sock
  BY <1>1 DEF Sock
<1>4. Consume(s) \in [Socket -> Sock]
  BY <1>2, <1>3
<1>5. /\ \A r \in Socket : SameEnds(Consume(s), sock, r) /\ Consume(s)[r].down = sock[r].down
      /\ \A r \in Socket : r # s => Consume(s)[r].up = sock[r].up
      /\ Consume(s)[s].up = u
  BY <1>1, <1>2 DEF SameEnds, Sock
<1>6. QED
  BY <1>4, <1>5 DEF u

LEMMA TakeOf ==
  ASSUME sock \in [Socket -> Sock], NEW s \in Socket, sock[s].down # <<>>
  PROVE  /\ Take(s) \in [Socket -> Sock]
         /\ \A r \in Socket : SameEnds(Take(s), sock, r) /\ Take(s)[r].up = sock[r].up
         /\ \A r \in Socket : r # s => Take(s)[r].down = sock[r].down
         /\ Take(s)[s].down = Tail(sock[s].down)
<1> DEFINE d == Tail(sock[s].down)
<1>1. sock[s] \in Sock /\ d \in Seq(Frame)
  BY HeadOf DEF Sock
<1>2. Take(s) = [sock EXCEPT ![s].down = d]
  BY DEF Take
<1> HIDE DEF d
<1>3. [sock[s] EXCEPT !.down = d] \in Sock
  BY <1>1 DEF Sock
<1>4. Take(s) \in [Socket -> Sock]
  BY <1>2, <1>3
<1>5. /\ \A r \in Socket : SameEnds(Take(s), sock, r) /\ Take(s)[r].up = sock[r].up
      /\ \A r \in Socket : r # s => Take(s)[r].down = sock[r].down
      /\ Take(s)[s].down = d
  BY <1>1, <1>2 DEF SameEnds, Sock
<1>6. QED
  BY <1>4, <1>5 DEF d
-----------------------------------------------------------------------------
(* What a step does to a stream of frames                                  *)

\* Only frames of F came, behind what was there.
Grew(t2, t, F) ==
  /\ Range(t) \subseteq Range(t2) /\ Range(t2) \subseteq Range(t) \cup F
  /\ \A x, y : Before(x, y, t) => Before(x, y, t2)
  /\ \A x, y : Before(x, y, t2) => Before(x, y, t) \/ (x \in Range(t2) /\ y \in F)

\* The first frame, f, was taken.
Shrank(t2, t, f) ==
  /\ Range(t) = {f} \cup Range(t2)
  /\ \A y \in Range(t2) : Before(f, y, t)
  /\ \A x, y : Before(x, y, t2) => Before(x, y, t)
  /\ \A x, y : Before(x, y, t) => Before(x, y, t2) \/ (x = f /\ y \in Range(t2))

LEMMA GrewNothing ==
  ASSUME NEW t, NEW F
  PROVE  Grew(t, t, F)
BY DEF Grew

LEMMA GrewOne ==
  ASSUME NEW t \in Seq(Frame), NEW f \in Frame, NEW F, f \in F
  PROVE  Grew(Append(t, f), t, F)
<1>1. /\ Range(Append(t, f)) = Range(t) \cup {f}
      /\ \A x, y : Before(x, y, t) => Before(x, y, Append(t, f))
      /\ \A x, y : Before(x, y, Append(t, f)) => Before(x, y, t) \/ (x \in Range(t) /\ y = f)
  BY AppendOf
<1>2. QED
  BY <1>1, Zenon DEF Grew

LEMMA GrewFrames ==
  ASSUME NEW t \in Seq(Frame), NEW u \in Seq(Frame), NEW F, Range(u) \subseteq F
  PROVE  Grew(t \o u, t, F)
<1>1. /\ Range(t \o u) = Range(t) \cup Range(u)
      /\ \A x, y : Before(x, y, t) \/ Before(x, y, u) => Before(x, y, t \o u)
      /\ \A x, y : Before(x, y, t \o u) =>
           Before(x, y, t) \/ Before(x, y, u) \/ (x \in Range(t) /\ y \in Range(u))
  BY ConcatOf
<1>2. \A x, y : Before(x, y, u) => x \in Range(u) /\ y \in Range(u)
  BY BeforeBoth
<1>3. QED
  BY <1>1, <1>2, Zenon DEF Grew

LEMMA ShrankTail ==
  ASSUME NEW t \in Seq(Frame), t # <<>>
  PROVE  Shrank(Tail(t), t, Head(t)) /\ Head(t) \in Frame /\ Tail(t) \in Seq(Frame) /\ Head(t) \in Range(t)
<1>1. /\ Head(t) \in Frame /\ Head(t) \in Range(t) /\ Tail(t) \in Seq(Frame)
      /\ Range(t) = {Head(t)} \cup Range(Tail(t))
      /\ \A y \in Range(Tail(t)) : Before(Head(t), y, t)
      /\ \A x, y : Before(x, y, Tail(t)) => Before(x, y, t)
      /\ \A x, y : Before(x, y, t) => Before(x, y, Tail(t)) \/ (x = Head(t) /\ y \in Range(Tail(t)))
  BY HeadOf
<1>2. QED
  BY <1>1, Zenon DEF Shrank

-----------------------------------------------------------------------------
(* Steps of the relay                                                      *)

LEMMA Types ==
  ASSUME TypeOK
  PROVE  /\ sock \in [Socket -> Sock] /\ queue \in [Queue -> Record \cup {None}]
         /\ ws \in [Client -> Socket \cup {None}] /\ calls \in [Client -> SUBSET Call]
         /\ \A r \in Socket : /\ sock[r].up \in Seq(Frame) /\ sock[r].down \in Seq(Frame)
                              /\ sock[r].owner \in Client \cup {None} /\ sock[r].cut \in BOOLEAN
<1>1. sock \in [Socket -> Sock]
  BY DEF TypeOK, Sock
<1>2. QED
  BY <1>1 DEF TypeOK, Sock

\* The relay takes frame f of socket s, and changes no end.
Handled(s, f) ==
  /\ sock' \in [Socket -> Sock]
  /\ sock[s].relay = "open" /\ ~sock[s].cut
  /\ f \in Frame /\ f \in Range(sock[s].up) /\ Holds(s, f)
  /\ \A r \in Socket : SameEnds(sock', sock, r)
  /\ \A r \in Socket : r # s => sock'[r].up = sock[r].up
  /\ Shrank(sock'[s].up, sock[s].up, f)
  /\ \A r \in Socket : sock[r].relay = "none" \/ sock[r].cut =>
       sock'[r].up = sock[r].up /\ sock'[r].down = sock[r].down

\* Socket s is answered.
Answered(s, cmd, call) == \A r \in Socket :
  IF r = s THEN Grew(sock'[r].down, sock[r].down, {Answer(cmd, call)})
           ELSE sock'[r].down = sock[r].down

LEMMA ReadsOf ==
  ASSUME Base, NEW s \in Socket, sock[s].relay = "open", sock[s].up # <<>>
  PROVE  /\ ~sock[s].cut
         /\ Head(sock[s].up) \in Frame /\ Head(sock[s].up) \in Range(sock[s].up)
         /\ Holds(s, Head(sock[s].up))
         /\ Shrank(Tail(sock[s].up), sock[s].up, Head(sock[s].up))
<1>1. Head(sock[s].up) \in Frame /\ Head(sock[s].up) \in Range(sock[s].up)
      /\ Shrank(Tail(sock[s].up), sock[s].up, Head(sock[s].up))
  BY Types, ShrankTail DEF Base
<1>2. QED
  BY <1>1 DEF Base, SockInv, FrameInv

\* The frame is consumed and fs are pushed to its socket.
LEMMA PushedOf ==
  ASSUME Base, NEW s \in Socket, sock[s].relay = "open", sock[s].up # <<>>, NEW fs \in Seq(Frame),
         sock' = Push(Consume(s), s, fs)
  PROVE  /\ Handled(s, Head(sock[s].up))
         /\ \A r \in Socket : r # s => sock'[r].down = sock[r].down
         /\ sock'[s].down = sock[s].down \o fs
<1>1. /\ ~sock[s].cut /\ Head(sock[s].up) \in Frame /\ Head(sock[s].up) \in Range(sock[s].up)
      /\ Holds(s, Head(sock[s].up)) /\ Shrank(Tail(sock[s].up), sock[s].up, Head(sock[s].up))
  BY ReadsOf
<1> DEFINE k == Consume(s)
<1>2. /\ k \in [Socket -> Sock]
      /\ \A r \in Socket : SameEnds(k, sock, r) /\ k[r].down = sock[r].down
      /\ \A r \in Socket : r # s => k[r].up = sock[r].up
      /\ k[s].up = Tail(sock[s].up)
  BY Types, ConsumeOf DEF Base
<1>3. sock' = Push(k, s, fs)
  OBVIOUS
<1> HIDE DEF k
<1>4. /\ sock' \in [Socket -> Sock]
      /\ \A r \in Socket : SameEnds(sock', k, r) /\ sock'[r].up = k[r].up
      /\ \A r \in Socket : r # s => sock'[r].down = k[r].down
      /\ sock'[s].down = IF k[s].relay = "open" /\ ~k[s].cut THEN k[s].down \o fs ELSE k[s].down
  BY <1>2, <1>3, PushOf
<1>5. /\ \A r \in Socket : SameEnds(sock', sock, r)
      /\ \A r \in Socket : r # s => sock'[r].up = sock[r].up /\ sock'[r].down = sock[r].down
      /\ sock'[s].up = Tail(sock[s].up) /\ sock'[s].down = sock[s].down \o fs
  <2>1. k[s].relay = "open" /\ ~k[s].cut
    BY <1>1, <1>2 DEF SameEnds
  <2>2. \A r \in Socket : SameEnds(sock', sock, r)
    BY <1>2, <1>4 DEF SameEnds
  <2>3. \A r \in Socket : r # s => sock'[r].up = sock[r].up /\ sock'[r].down = sock[r].down
    BY <1>2, <1>4
  <2>4. sock'[s].up = Tail(sock[s].up)
    BY <1>2, <1>4
  <2>5. sock'[s].down = sock[s].down \o fs
    BY <1>2, <1>4, <2>1
  <2>6. QED
    BY <2>2, <2>3, <2>4, <2>5
<1>6. \A r \in Socket : sock[r].relay = "none" \/ sock[r].cut =>
       sock'[r].up = sock[r].up /\ sock'[r].down = sock[r].down
  BY <1>1, <1>5
<1>7. QED
  BY <1>1, <1>4, <1>5, <1>6 DEF Handled

LEMMA RepliedOf ==
  ASSUME Base, NEW s \in Socket, sock[s].relay = "open", sock[s].up # <<>>, NEW cmd \in {"OK", "ERR"},
         sock' = Reply(Consume(s), s, cmd)
  PROVE  Handled(s, Head(sock[s].up)) /\ Answered(s, cmd, Head(sock[s].up).call)
<1> DEFINE a == Answer(cmd, Head(sock[s].up).call)
           fs == <<a>>
<1>1. a \in Frame
  BY ReadsOf DEF Answer, Frame
<1>2. sock' = Push(Consume(s), s, fs)
  BY DEF Reply
<1> HIDE DEF a
<1>3. fs \in Seq(Frame) /\ Range(fs) \subseteq {a}
  BY <1>1, SingleOf
<1> HIDE DEF fs
<1>4. /\ Handled(s, Head(sock[s].up))
      /\ \A r \in Socket : r # s => sock'[r].down = sock[r].down
      /\ sock'[s].down = sock[s].down \o fs
  BY <1>2, <1>3, PushedOf
<1>5. Grew(sock'[s].down, sock[s].down, {a})
  BY <1>3, <1>4, Types, GrewFrames DEF Base
<1>6. QED
  BY <1>4, <1>5 DEF Answered, a

\* The frame is consumed, fs are pushed to t, then gs to its own socket.
LEMMA PushedTwice ==
  ASSUME Base, NEW s \in Socket, sock[s].relay = "open", sock[s].up # <<>>,
         NEW t \in Socket, NEW fs \in Seq(Frame), NEW gs \in Seq(Frame),
         sock' = Push(Push(Consume(s), t, fs), s, gs)
  PROVE  /\ Handled(s, Head(sock[s].up))
         /\ \A r \in Socket : r # s /\ r # t => sock'[r].down = sock[r].down
         /\ t # s => /\ sock'[s].down = sock[s].down \o gs
                     /\ sock'[t].down = IF sock[t].relay = "open" /\ ~sock[t].cut
                                          THEN sock[t].down \o fs ELSE sock[t].down
         /\ t = s => sock'[s].down = (sock[s].down \o fs) \o gs
<1>1. /\ ~sock[s].cut /\ Head(sock[s].up) \in Frame /\ Head(sock[s].up) \in Range(sock[s].up)
      /\ Holds(s, Head(sock[s].up)) /\ Shrank(Tail(sock[s].up), sock[s].up, Head(sock[s].up))
  BY ReadsOf
<1> DEFINE k == Consume(s)
<1>2. /\ k \in [Socket -> Sock]
      /\ \A r \in Socket : SameEnds(k, sock, r) /\ k[r].down = sock[r].down
      /\ \A r \in Socket : r # s => k[r].up = sock[r].up
      /\ k[s].up = Tail(sock[s].up)
  BY Types, ConsumeOf DEF Base
<1> HIDE DEF k
<1> DEFINE h == Push(k, t, fs)
<1>3. /\ h \in [Socket -> Sock]
      /\ \A r \in Socket : SameEnds(h, k, r) /\ h[r].up = k[r].up
      /\ \A r \in Socket : r # t => h[r].down = k[r].down
      /\ h[t].down = IF k[t].relay = "open" /\ ~k[t].cut THEN k[t].down \o fs ELSE k[t].down
  BY <1>2, PushOf
<1>4. sock' = Push(h, s, gs)
  BY DEF k
<1> HIDE DEF h
<1>5. /\ sock' \in [Socket -> Sock]
      /\ \A r \in Socket : SameEnds(sock', h, r) /\ sock'[r].up = h[r].up
      /\ \A r \in Socket : r # s => sock'[r].down = h[r].down
      /\ sock'[s].down = IF h[s].relay = "open" /\ ~h[s].cut THEN h[s].down \o gs ELSE h[s].down
  BY <1>3, <1>4, PushOf
<1>6. /\ \A r \in Socket : SameEnds(sock', sock, r) /\ SameEnds(h, sock, r)
      /\ \A r \in Socket : r # s => sock'[r].up = sock[r].up
      /\ sock'[s].up = Tail(sock[s].up)
  BY <1>2, <1>3, <1>5 DEF SameEnds
<1>7. /\ \A r \in Socket : r # s /\ r # t => sock'[r].down = sock[r].down
      /\ t # s => /\ sock'[s].down = sock[s].down \o gs
                  /\ sock'[t].down = IF sock[t].relay = "open" /\ ~sock[t].cut
                                       THEN sock[t].down \o fs ELSE sock[t].down
      /\ t = s => sock'[s].down = (sock[s].down \o fs) \o gs
  <2>1. /\ h[s].relay = "open" /\ ~h[s].cut /\ k[t].relay = sock[t].relay /\ k[t].cut = sock[t].cut
        /\ k[s].relay = "open" /\ ~k[s].cut
    BY <1>1, <1>2, <1>6 DEF SameEnds
  <2>2. \A r \in Socket : r # s /\ r # t => sock'[r].down = sock[r].down
    BY <1>2, <1>3, <1>5
  <2>3. sock'[s].down = h[s].down \o gs
    BY <1>5, <2>1
  <2>4. h[t].down = IF sock[t].relay = "open" /\ ~sock[t].cut THEN sock[t].down \o fs ELSE sock[t].down
    BY <1>2, <1>3, <2>1
  <2>5. CASE t # s
    <3>1. h[s].down = sock[s].down
      BY <1>2, <1>3, <2>5
    <3>2. sock'[t].down = h[t].down
      BY <1>5, <2>5
    <3>3. QED
      BY <2>2, <2>3, <2>4, <2>5, <3>1, <3>2
  <2>6. CASE t = s
    BY <1>2, <1>3, <2>1, <2>2, <2>3, <2>6
  <2>7. QED
    BY <2>5, <2>6
<1>8. \A r \in Socket : sock[r].relay = "none" \/ sock[r].cut =>
       sock'[r].up = sock[r].up /\ sock'[r].down = sock[r].down
  BY <1>1, <1>6, <1>7
<1>9. QED
  BY <1>1, <1>5, <1>6, <1>7, <1>8 DEF Handled

LEMMA NotFoundOf ==
  ASSUME Base, NEW s \in Socket, NotFound(s)
  PROVE  \E f \in Frame : /\ Handled(s, f) /\ f.cmd \in {"SUB", "SEND"} /\ f.call \in Call
                          /\ queue[f.call.queue] = None /\ Answered(s, "ERR", f.call)
<1>1. /\ sock[s].relay = "open" /\ sock[s].up # <<>> /\ Head(sock[s].up).cmd \in {"SUB", "SEND"}
      /\ queue[Head(sock[s].up).call.queue] = None /\ sock' = Reply(Consume(s), s, "ERR")
  BY DEF NotFound, Reads, Asked
<1>2. Handled(s, Head(sock[s].up)) /\ Answered(s, "ERR", Head(sock[s].up).call)
  BY <1>1, RepliedOf
<1>3. Head(sock[s].up) \in Frame /\ Head(sock[s].up).call \in Call
  BY <1>1, <1>2 DEF Handled, Holds, Frame
<1>4. QED
  BY <1>1, <1>2, <1>3

LEMMA RelayNewOf ==
  ASSUME Base, NEW s \in Socket, RelayNew(s)
  PROVE  \E f \in Frame :
           /\ Handled(s, f) /\ f.cmd = "NEW" /\ f.call \in Call
           /\ \/ queue[f.call.queue] # None /\ queue' = queue /\ Answered(s, "ERR", f.call)
              \/ /\ queue[f.call.queue] = None /\ Answered(s, "OK", f.call)
                 /\ queue' = [queue EXCEPT ![f.call.queue] = [subscriber |-> None, pending |-> <<>>]]
<1>1. /\ sock[s].relay = "open" /\ sock[s].up # <<>> /\ Head(sock[s].up).cmd = "NEW"
      /\ IF queue[Head(sock[s].up).call.queue] # None
           THEN sock' = Reply(Consume(s), s, "ERR") /\ queue' = queue
           ELSE /\ queue' = [queue EXCEPT ![Head(sock[s].up).call.queue] = [subscriber |-> None, pending |-> <<>>]]
                /\ sock' = Reply(Consume(s), s, "OK")
  BY DEF RelayNew, Reads, Asked
<1>2. CASE queue[Head(sock[s].up).call.queue] # None
  <2>1. Handled(s, Head(sock[s].up)) /\ Answered(s, "ERR", Head(sock[s].up).call)
    BY <1>1, <1>2, RepliedOf
  <2>2. Head(sock[s].up) \in Frame /\ Head(sock[s].up).call \in Call
    BY <1>1, <2>1 DEF Handled, Holds, Frame
  <2>3. QED
    BY <1>1, <1>2, <2>1, <2>2
<1>3. CASE queue[Head(sock[s].up).call.queue] = None
  <2>1. Handled(s, Head(sock[s].up)) /\ Answered(s, "OK", Head(sock[s].up).call)
    BY <1>1, <1>3, RepliedOf
  <2>2. Head(sock[s].up) \in Frame /\ Head(sock[s].up).call \in Call
    BY <1>1, <2>1 DEF Handled, Holds, Frame
  <2>3. QED
    BY <1>1, <1>3, <2>1, <2>2
<1>4. QED
  BY <1>2, <1>3

LEMMA RelayAckOf ==
  ASSUME Base, NEW s \in Socket, RelayAck(s)
  PROVE  \E f \in Frame : /\ Handled(s, f) /\ f.cmd = "ACK" /\ messages' = messages \ {f.msg}
                          /\ \/ f.call = None /\ \A r \in Socket : sock'[r].down = sock[r].down
                             \/ f.call \in Call /\ Answered(s, "OK", f.call)
<1>1. /\ sock[s].relay = "open" /\ sock[s].up # <<>> /\ Head(sock[s].up).cmd = "ACK"
      /\ messages' = messages \ {Head(sock[s].up).msg}
      /\ sock' = IF Head(sock[s].up).call = None THEN Consume(s) ELSE Reply(Consume(s), s, "OK")
  BY DEF RelayAck, Reads
<1>2. CASE Head(sock[s].up).call = None
  <2>1. /\ ~sock[s].cut /\ Head(sock[s].up) \in Frame /\ Head(sock[s].up) \in Range(sock[s].up)
        /\ Holds(s, Head(sock[s].up)) /\ Shrank(Tail(sock[s].up), sock[s].up, Head(sock[s].up))
    BY <1>1, ReadsOf
  <2>2. /\ sock' \in [Socket -> Sock]
        /\ \A r \in Socket : SameEnds(sock', sock, r) /\ sock'[r].down = sock[r].down
        /\ \A r \in Socket : r # s => sock'[r].up = sock[r].up
        /\ sock'[s].up = Tail(sock[s].up)
    BY <1>1, <1>2, Types, ConsumeOf DEF Base
  <2>3. sock[s].relay # "none"
    BY <1>1
  <2>4. \A r \in Socket : sock[r].relay = "none" \/ sock[r].cut =>
       sock'[r].up = sock[r].up /\ sock'[r].down = sock[r].down
    BY <2>1, <2>2, <2>3
  <2>5. Handled(s, Head(sock[s].up))
    BY <1>1, <2>1, <2>2, <2>4 DEF Handled
  <2>6. QED
    BY <1>1, <1>2, <2>1, <2>2, <2>5
<1>3. CASE Head(sock[s].up).call # None
  <2>1. Handled(s, Head(sock[s].up)) /\ Answered(s, "OK", Head(sock[s].up).call)
    BY <1>1, <1>3, RepliedOf
  <2>2. Head(sock[s].up) \in Frame /\ Head(sock[s].up).call \in Call
    BY <1>3, <2>1 DEF Handled, Frame
  <2>3. QED
    BY <1>1, <2>1, <2>2
<1>4. QED
  BY <1>2, <1>3

\* What was pending, as frames.
LEMMA FramesOf ==
  ASSUME NEW p \in Seq(Message), NEW u, u = [i \in DOMAIN p |-> Msg(p[i])]
  PROVE  /\ u \in Seq(Frame) /\ Range(u) = {Msg(m) : m \in Range(p)}
         /\ \A x, y : Before(x, y, u) => \E m, n : Before(m, n, p) /\ x = Msg(m) /\ y = Msg(n)
<1>1. Len(p) \in Nat /\ DOMAIN p = 1..Len(p) /\ \A i \in DOMAIN p : p[i] \in Message
  OBVIOUS
<1>2. DOMAIN u = DOMAIN p /\ \A i \in DOMAIN p : u[i] = Msg(p[i]) /\ u[i] \in Frame
  BY <1>1, FrameTypes
<1>3. u \in Seq(Frame)
  <2>1. u \in [1..Len(p) -> Frame]
    BY <1>1, <1>2
  <2>2. QED
    BY <1>1, <2>1, SeqDef
<1>4. Range(u) = {Msg(m) : m \in Range(p)}
  BY <1>2 DEF Range
<1>5. \A x, y : Before(x, y, u) => \E m, n : Before(m, n, p) /\ x = Msg(m) /\ y = Msg(n)
  <2>1. ASSUME NEW i \in DOMAIN p, NEW j \in DOMAIN p, i < j PROVE Before(p[i], p[j], p)
    BY <2>1 DEF Before
  <2>2. QED
    BY <1>2, <2>1 DEF Before
<1>6. QED
  BY <1>3, <1>4, <1>5

LEMMA MsgOf ==
  /\ \A m : Msg(m).cmd = "MSG" /\ Msg(m).msg = m /\ Msg(m).call = None
  /\ \A m, n : Msg(m) = Msg(n) => m = n
  /\ \A cmd, call : Answer(cmd, call).cmd = cmd /\ Answer(cmd, call).call = call /\ Answer(cmd, call).msg = None
  /\ \A m : Ack(m).cmd = "ACK" /\ Ack(m).msg = m /\ Ack(m).call = None
  /\ \A call : Request(call).cmd = call.cmd /\ Request(call).call = call
  /\ \A call : call.cmd \in {"SEND", "ACK"} => Request(call).msg = call.n
BY DEF Msg, Answer, Ack, Request

\* Socket s gets an OK for call, and behind it the messages in p.
Flushed(s, call, p) ==
  /\ \A r \in Socket : r # s => sock'[r].down = sock[r].down
  /\ Grew(sock'[s].down, sock[s].down, {Answer("OK", call)} \cup {Msg(m) : m \in Range(p)})
  /\ Answer("OK", call) \in Range(sock'[s].down)
  /\ \A m \in Range(p) : /\ Msg(m) \in Range(sock'[s].down)
                         /\ Before(Answer("OK", call), Msg(m), sock'[s].down)
  /\ \A x, m : Before(x, Msg(m), sock'[s].down) =>
       \/ Before(x, Msg(m), sock[s].down)
       \/ m \in Range(p) /\ (x = Answer("OK", call) \/ x \in Range(sock[s].down))
       \/ \E n : Before(n, m, p) /\ x = Msg(n)

LEMMA RelaySubOf ==
  ASSUME Base, NEW s \in Socket, RelaySub(s)
  PROVE  \E f \in Frame :
           /\ Handled(s, f) /\ f.cmd = "SUB" /\ f.call \in Call
           /\ queue[f.call.queue] # None /\ queue[f.call.queue] \in Record
           /\ queue' = [queue EXCEPT ![f.call.queue] = [subscriber |-> s, pending |-> <<>>]]
           /\ Flushed(s, f.call, queue[f.call.queue].pending)
           /\ via' = [m \in Message |-> IF m \in Range(queue[f.call.queue].pending)
                                         THEN [via[m] EXCEPT !.pushed = s] ELSE via[m]]
<1> DEFINE f == Head(sock[s].up)
           p == queue[f.call.queue].pending
           u == [i \in DOMAIN p |-> Msg(p[i])]
           a == Answer("OK", f.call)
           o == <<a>>
<1>1. /\ sock[s].relay = "open" /\ sock[s].up # <<>> /\ f.cmd = "SUB" /\ queue[f.call.queue] # None
      /\ queue' = [queue EXCEPT ![f.call.queue] = [subscriber |-> s, pending |-> <<>>]]
      /\ sock' = Push(Push(Consume(s), s, o), s, u)
      /\ via' = [m \in Message |-> IF m \in Range(p) THEN [via[m] EXCEPT !.pushed = s] ELSE via[m]]
  BY DEF RelaySub, Reads, Asked, Reply
<1>2. f \in Frame /\ f.call \in Call
  BY <1>1, ReadsOf DEF Holds, Frame
<1>3. f.call.queue \in Queue
  BY <1>2 DEF Call
<1>4. queue[f.call.queue] \in Record
  BY <1>1, <1>3, Types DEF Base
<1>5. p \in Seq(Message)
  BY <1>4 DEF Record
<1> HIDE DEF p
<1>6. /\ u \in Seq(Frame) /\ Range(u) = {Msg(m) : m \in Range(p)}
      /\ \A x, y : Before(x, y, u) => \E m, n : Before(m, n, p) /\ x = Msg(m) /\ y = Msg(n)
  BY <1>5, FramesOf
<1> HIDE DEF u
<1>7. a \in Frame
  BY <1>2 DEF Answer, Frame
<1> HIDE DEF a
<1>8. o \in Seq(Frame) /\ Range(o) = {a} /\ \A x, y : ~Before(x, y, o)
  BY <1>7, SingleOf
<1> HIDE DEF o
<1> DEFINE d == sock[s].down
<1>9. /\ Handled(s, f)
      /\ \A r \in Socket : r # s => sock'[r].down = sock[r].down
      /\ sock'[s].down = (d \o o) \o u
  <2>1. /\ sock[s].relay = "open" /\ sock[s].up # <<>> /\ o \in Seq(Frame) /\ u \in Seq(Frame)
        /\ sock' = Push(Push(Consume(s), s, o), s, u)
    BY <1>1, <1>6, <1>8
  <2>2. QED
    BY <2>1, PushedTwice
<1>10. d \in Seq(Frame)
  BY Types DEF Base
<1> HIDE DEF d, f
<1> DEFINE e == d \o o
<1>11. /\ e \in Seq(Frame) /\ Range(e) = Range(d) \cup {a}
       /\ \A x, y : Before(x, y, d) => Before(x, y, e)
       /\ \A x, y : Before(x, y, e) => Before(x, y, d) \/ (x \in Range(d) /\ y = a)
  BY <1>8, <1>10, ConcatOf
<1> HIDE DEF e
<1> DEFINE v == e \o u
<1>12. /\ Range(v) = Range(e) \cup Range(u)
       /\ \A x, y : Before(x, y, e) => Before(x, y, v)
       /\ \A x \in Range(e), y \in Range(u) : Before(x, y, v)
       /\ \A x, y : Before(x, y, v) => Before(x, y, e) \/ Before(x, y, u) \/ (x \in Range(e) /\ y \in Range(u))
  BY <1>6, <1>11, ConcatOf
<1>13. sock'[s].down = v
  BY <1>9 DEF e
<1> HIDE DEF v
<1> DEFINE F == {a} \cup {Msg(m) : m \in Range(p)}
<1>14. Grew(v, d, F)
  <2>1. Range(d) \subseteq Range(v) /\ Range(v) \subseteq Range(d) \cup F
    BY <1>6, <1>11, <1>12
  <2>2. \A x, y : Before(x, y, d) => Before(x, y, v)
    BY <1>11, <1>12
  <2>3. ASSUME NEW x, NEW y, Before(x, y, v)
        PROVE  Before(x, y, d) \/ (x \in Range(v) /\ y \in F)
    <3>1. x \in Range(v) /\ y \in Range(v)
      BY <2>3, BeforeBoth
    <3>2. Before(x, y, u) => y \in Range(u)
      BY BeforeBoth
    <3>3. QED
      BY <1>6, <1>11, <1>12, <2>3, <3>1, <3>2
  <2>4. QED
    BY <2>1, <2>2, <2>3 DEF Grew
<1>15. a \in Range(v) /\ \A m \in Range(p) : Msg(m) \in Range(v) /\ Before(a, Msg(m), v)
  BY <1>6, <1>11, <1>12
<1>16. ASSUME NEW x, NEW m, Before(x, Msg(m), v)
       PROVE  \/ Before(x, Msg(m), d)
              \/ m \in Range(p) /\ (x = a \/ x \in Range(d))
              \/ \E n : Before(n, m, p) /\ x = Msg(n)
  <2>1. Msg(m) # a
    BY MsgOf DEF a
  <2>2. CASE Before(x, Msg(m), e)
    BY <1>11, <2>1, <2>2
  <2>3. CASE Before(x, Msg(m), u)
    <3>1. PICK n, k : Before(n, k, p) /\ x = Msg(n) /\ Msg(m) = Msg(k)
      BY <1>6, <2>3
    <3>2. k = m
      BY <3>1, MsgOf
    <3>3. QED
      BY <3>1, <3>2
  <2>4. CASE x \in Range(e) /\ Msg(m) \in Range(u)
    <3>1. PICK k \in Range(p) : Msg(m) = Msg(k)
      BY <1>6, <2>4
    <3>2. k = m
      BY <3>1, MsgOf
    <3>3. QED
      BY <1>11, <2>4, <3>1, <3>2
  <2>5. QED
    BY <1>12, <1>16, <2>2, <2>3, <2>4
<1>17. Flushed(s, f.call, p)
  BY <1>9, <1>13, <1>14, <1>15, <1>16 DEF Flushed, a, d
<1>18. QED
  BY <1>1, <1>2, <1>4, <1>9, <1>17 DEF p

\* Socket t gets message m, and socket s the answer to its call.
PushedTo(s, t, call, m) ==
  /\ \A r \in Socket : Grew(sock'[r].down, sock[r].down, {Answer("OK", call), Msg(m)})
  /\ \A r \in Socket : r # s => Range(sock'[r].down) \subseteq Range(sock[r].down) \cup {Msg(m)}
  /\ \A r \in Socket : r # s /\ r # t => sock'[r].down = sock[r].down
  /\ Range(sock'[s].down) \subseteq Range(sock[s].down) \cup {Answer("OK", call)} \/ s = t
  /\ ~sock[t].cut => /\ Msg(m) \in Range(sock'[t].down)
                      /\ \A x \in Range(sock[t].down) : Before(x, Msg(m), sock'[t].down)
  /\ \A r \in Socket : \A x : Before(x, Msg(m), sock'[r].down) => x \in Range(sock[r].down)

LEMMA PushToOf ==
  ASSUME Base, NEW s \in Socket, NEW t \in Socket, NEW m \in Message, NEW call \in Call,
         sock[s].relay = "open", sock[s].up # <<>>, call = Head(sock[s].up).call, sock[t].relay = "open",
         sock' = Reply(Push(Consume(s), t, <<Msg(m)>>), s, "OK")
  PROVE  Handled(s, Head(sock[s].up)) /\ PushedTo(s, t, call, m)
<1> DEFINE a == Answer("OK", call)
           x == Msg(m)
           o == <<a>>
           u == <<x>>
           F == {a, x}
<1>1. sock' = Push(Push(Consume(s), t, u), s, o)
  BY DEF Reply
<1>2. a # x /\ a \in Frame /\ x \in Frame
  BY MsgOf, FrameTypes
<1> HIDE DEF a, x
<1>3. /\ o \in Seq(Frame) /\ Range(o) = {a} /\ \A y, z : ~Before(y, z, o)
      /\ u \in Seq(Frame) /\ Range(u) = {x} /\ \A y, z : ~Before(y, z, u)
  BY <1>2, SingleOf
<1> HIDE DEF o, u
<1>4. /\ Handled(s, Head(sock[s].up))
      /\ \A r \in Socket : r # s /\ r # t => sock'[r].down = sock[r].down
      /\ t # s => /\ sock'[s].down = sock[s].down \o o
                  /\ sock'[t].down = IF sock[t].relay = "open" /\ ~sock[t].cut
                                       THEN sock[t].down \o u ELSE sock[t].down
      /\ t = s => sock'[s].down = (sock[s].down \o u) \o o
  <2>1. /\ o \in Seq(Frame) /\ u \in Seq(Frame) /\ sock' = Push(Push(Consume(s), t, u), s, o)
        /\ sock[s].relay = "open" /\ sock[s].up # <<>>
    BY <1>1, <1>3
  <2> HIDE DEF F
  <2>2. QED
    BY ONLY Base, <2>1, PushedTwice, s \in Socket, t \in Socket
<1>5. \A r \in Socket : sock[r].down \in Seq(Frame)
  BY Types DEF Base
<1>6. ~sock[s].cut
  BY <1>4 DEF Handled
\* One push, or two on one socket.
<1>7. ASSUME NEW r \in Socket
      PROVE  LET d == sock[r].down
                 e == sock'[r].down
             IN  /\ Grew(e, d, F)
                 /\ r # s => Range(e) \subseteq Range(d) \cup {x}
                 /\ r = s /\ s # t => Range(e) \subseteq Range(d) \cup {a}
                 /\ r = t /\ ~sock[t].cut => x \in Range(e) /\ \A y \in Range(d) : Before(y, x, e)
                 /\ \A y : Before(y, x, e) => y \in Range(d)
  <2> DEFINE d == sock[r].down
             e == sock'[r].down
  <2>0. d \in Seq(Frame) /\ \A y, z : Before(y, z, d) => y \in Range(d)
    BY <1>5, BeforeBoth
  <2>1. CASE e = d /\ (r = t => sock[t].cut)
    BY <2>0, <2>1, GrewNothing
  <2>2. CASE r = s /\ s # t
    <3>1. e = d \o o
      BY <1>4, <2>2
    <3> HIDE DEF d, e
    <3>2. Grew(e, d, F)
      BY <1>3, <2>0, <3>1, GrewFrames
    <3>3. Range(e) = Range(d) \cup {a} /\ \A y, z : Before(y, z, e) => Before(y, z, d) \/ Before(y, z, o) \/ (y \in Range(d) /\ z \in Range(o))
      BY <1>3, <2>0, <3>1, ConcatOf
    <3>4. \A y : Before(y, x, e) => y \in Range(d)
      BY <1>2, <1>3, <2>0, <3>3
    <3>5. QED
      BY <2>2, <3>2, <3>3, <3>4 DEF d, e
  <2>3. CASE r = t /\ s # t /\ ~sock[t].cut
    <3>1. e = d \o u
      BY <1>4, <2>3
    <3> HIDE DEF d, e
    <3>2. Grew(e, d, F)
      BY <1>3, <2>0, <3>1, GrewFrames
    <3>3. /\ Range(e) = Range(d) \cup {x}
          /\ \A y \in Range(d), z \in Range(u) : Before(y, z, e)
          /\ \A y, z : Before(y, z, e) => Before(y, z, d) \/ Before(y, z, u) \/ (y \in Range(d) /\ z \in Range(u))
      BY <1>3, <2>0, <3>1, ConcatOf
    <3>4. \A y : Before(y, x, e) => y \in Range(d)
      BY <1>2, <1>3, <2>0, <3>3
    <3>5. \A y \in Range(d) : Before(y, x, e)
      BY <1>3, <3>3
    <3>6. QED
      BY <2>3, <3>2, <3>3, <3>4, <3>5 DEF d, e
  <2>4. CASE r = s /\ s = t
    <3> DEFINE c == d \o u
    <3>1. e = c \o o
      BY <1>4, <2>4
    <3> HIDE DEF d, e
    <3>2. /\ c \in Seq(Frame) /\ Range(c) = Range(d) \cup {x}
          /\ \A y, z : Before(y, z, d) => Before(y, z, c)
          /\ \A y \in Range(d), z \in Range(u) : Before(y, z, c)
          /\ \A y, z : Before(y, z, c) => Before(y, z, d) \/ Before(y, z, u) \/ (y \in Range(d) /\ z \in Range(u))
      BY <1>3, <2>0, ConcatOf
    <3> HIDE DEF c
    <3>3. /\ Range(e) = Range(c) \cup {a}
          /\ \A y, z : Before(y, z, c) => Before(y, z, e)
          /\ \A y, z : Before(y, z, e) => Before(y, z, c) \/ Before(y, z, o) \/ (y \in Range(c) /\ z \in Range(o))
      BY <1>3, <3>1, <3>2, ConcatOf
    <3>4. \A y : Before(y, x, e) => y \in Range(d)
      BY <1>2, <1>3, <2>0, <3>2, <3>3
    <3>5. Grew(e, d, F)
      <4>1. \A y, z : Before(y, z, d) => Before(y, z, e)
        BY <3>2, <3>3
      <4>2. ASSUME NEW y, NEW z, Before(y, z, e)
            PROVE  Before(y, z, d) \/ (y \in Range(e) /\ z \in F)
        <5>1. y \in Range(e)
          BY <4>2, BeforeBoth
        <5>2. QED
          BY <1>3, <3>2, <3>3, <4>2, <5>1
      <4>3. QED
        BY <3>2, <3>3, <4>1, <4>2 DEF Grew
    <3>6. \A y \in Range(d) : Before(y, x, e)
      BY <1>3, <3>2, <3>3
    <3>7. QED
      BY <2>4, <3>2, <3>3, <3>4, <3>5, <3>6 DEF d, e
  <2>5. QED
    <3>1. r # s /\ r # t => e = d
      BY <1>4
    <3>2. r = t /\ s # t /\ sock[t].cut => e = d
      BY <1>4
    <3>3. QED
      BY <2>1, <2>2, <2>3, <2>4, <3>1, <3>2
<1>8. PushedTo(s, t, call, m)
  BY <1>4, <1>7 DEF PushedTo, a, x
<1>9. QED
  BY <1>4, <1>8

LEMMA RelaySendOf ==
  ASSUME Base, NEW s \in Socket, RelaySend(s)
  PROVE  \E f \in Frame : \E m \in Message :
           /\ Handled(s, f) /\ f.cmd = "SEND" /\ f.msg = m /\ f.call \in Call
           /\ queue[Target[m]] # None /\ queue[Target[m]] \in Record
           /\ messages' = messages \cup {m} /\ accepted' = accepted \cup {m}
           /\ \/ \E t \in Socket :
                   /\ t = queue[Target[m]].subscriber /\ sock[t].relay = "open"
                   /\ PushedTo(s, t, f.call, m)
                   /\ via' = [via EXCEPT ![m].pushed = t] /\ queue' = queue
              \/ /\ queue[Target[m]].subscriber # None =>
                      sock[queue[Target[m]].subscriber].relay # "open"
                 /\ Answered(s, "OK", f.call) /\ via' = via
                 /\ queue' = [queue EXCEPT ![Target[m]].pending = Append(@, m)]
<1> DEFINE f == Head(sock[s].up)
           m == f.msg
           t == queue[Target[m]].subscriber
<1>1. /\ sock[s].relay = "open" /\ sock[s].up # <<>> /\ f.cmd = "SEND" /\ queue[Target[m]] # None
      /\ messages' = messages \cup {m} /\ accepted' = accepted \cup {m}
      /\ IF t # None /\ sock[t].relay = "open" THEN PushTo(s, t, m) ELSE KeepPending(s, Target[m], m)
  BY DEF RelaySend, Reads, Keep
<1>2. f \in Frame /\ f.call \in Call /\ m \in Message
  BY <1>1, ReadsOf DEF Holds, Frame
<1>3. queue[Target[m]] \in Record
  BY <1>1, <1>2, Types, ConstantTypes DEF Base
<1>4. t \in Socket \cup {None}
  BY <1>3 DEF Record
<1>5. CASE t # None /\ sock[t].relay = "open"
  <2>1. /\ sock' = Reply(Push(Consume(s), t, <<Msg(m)>>), s, "OK")
        /\ via' = [via EXCEPT ![m].pushed = t] /\ queue' = queue
    BY <1>1, <1>5 DEF PushTo
  <2>2. Handled(s, f) /\ PushedTo(s, t, f.call, m)
    BY <1>1, <1>2, <1>4, <1>5, <2>1, PushToOf
  <2>3. QED
    BY <1>1, <1>2, <1>3, <1>4, <1>5, <2>1, <2>2
<1>6. CASE ~(t # None /\ sock[t].relay = "open")
  <2>1. /\ queue' = [queue EXCEPT ![Target[m]].pending = Append(@, m)]
        /\ sock' = Reply(Consume(s), s, "OK") /\ via' = via
    BY <1>1, <1>6 DEF KeepPending
  <2>2. Handled(s, f) /\ Answered(s, "OK", f.call)
    BY <1>1, <2>1, RepliedOf
  <2>3. QED
    BY <1>1, <1>2, <1>3, <1>6, <2>1, <2>2
<1>7. QED
  BY <1>5, <1>6

-----------------------------------------------------------------------------
(* Steps that change one socket                                            *)

\* Only socket s changes.
OneSocket(s) == sock' \in [Socket -> Sock] /\ \A r \in Socket : r # s => sock'[r] = sock[r]

LEMMA Except ==
  ASSUME sock \in [Socket -> Sock], NEW s \in Socket, NEW x \in Sock, sock' = [sock EXCEPT ![s] = x]
  PROVE  OneSocket(s) /\ sock'[s] = x
BY DEF OneSocket

LEMMA RelayClosingOf ==
  ASSUME Base, NEW s \in Socket, RelayClosing(s)
  PROVE  /\ OneSocket(s)
         /\ sock[s].relay = "open" /\ ~sock[s].cut /\ sock[s].client \in {"closing", "closed"}
         /\ sock'[s].owner = sock[s].owner /\ sock'[s].client = sock[s].client
         /\ sock'[s].relay = "closing" /\ sock'[s].cut = sock[s].cut /\ sock'[s].down = sock[s].down
         /\ \E f : Shrank(sock'[s].up, sock[s].up, f) /\ f.cmd = "CLOSE"
<1>1. /\ sock[s].relay = "open" /\ sock[s].up # <<>> /\ Head(sock[s].up).cmd = "CLOSE"
      /\ sock' = [Consume(s) EXCEPT ![s].relay = "closing"]
  BY DEF RelayClosing, Reads
<1>2. /\ ~sock[s].cut /\ Holds(s, Head(sock[s].up))
      /\ Shrank(Tail(sock[s].up), sock[s].up, Head(sock[s].up))
  BY <1>1, ReadsOf
<1> DEFINE x == [sock[s] EXCEPT !.up = Tail(@), !.relay = "closing"]
<1>3. sock[s] \in Sock /\ sock \in [Socket -> Sock] /\ Tail(sock[s].up) \in Seq(Frame)
  BY <1>1, Types, ShrankTail DEF Base
<1>4. /\ x \in Sock
      /\ x.owner = sock[s].owner /\ x.client = sock[s].client
      /\ x.relay = "closing" /\ x.cut = sock[s].cut /\ x.down = sock[s].down /\ x.up = Tail(sock[s].up)
  BY <1>3 DEF Sock
<1>5. sock' = [sock EXCEPT ![s] = x]
  BY <1>1, <1>3 DEF Consume
<1> HIDE DEF x
<1>6. OneSocket(s) /\ sock'[s] = x
  BY <1>3, <1>4, <1>5, Except
<1>7. sock[s].client \in {"closing", "closed"}
  BY <1>1, <1>2 DEF Holds
<1>8. QED
  BY <1>1, <1>2, <1>4, <1>6, <1>7

LEMMA RelayClosedOf ==
  ASSUME Base, NEW s \in Socket, RelayClosed(s)
  PROVE  /\ OneSocket(s) /\ Dead(s) /\ sock[s].relay \in {"open", "closing"}
         /\ sock'[s].owner = sock[s].owner /\ sock'[s].client = sock[s].client
         /\ sock'[s].relay = "closed" /\ sock'[s].cut = sock[s].cut
         /\ sock'[s].up = <<>> /\ sock'[s].down = sock[s].down
<1>1. /\ sock[s].relay = "closing" \/ (sock[s].relay = "open" /\ sock[s].cut)
      /\ sock' = [sock EXCEPT ![s].relay = "closed", ![s].up = <<>>]
  BY DEF RelayClosed
<1> DEFINE x == [sock[s] EXCEPT !.relay = "closed", !.up = <<>>]
<1>2. sock[s] \in Sock /\ sock \in [Socket -> Sock] /\ <<>> \in Seq(Frame)
  BY Types DEF Base
<1>3. /\ x \in Sock
      /\ x.owner = sock[s].owner /\ x.client = sock[s].client
      /\ x.relay = "closed" /\ x.cut = sock[s].cut /\ x.down = sock[s].down /\ x.up = <<>>
  BY <1>2 DEF Sock
<1>4. sock' = [sock EXCEPT ![s] = x]
  BY <1>1, <1>2
<1> HIDE DEF x
<1>5. OneSocket(s) /\ sock'[s] = x
  BY <1>2, <1>3, <1>4, Except
<1>6. Dead(s)
  BY <1>1 DEF Base, SockInv, Dead
<1>7. QED
  BY <1>1, <1>3, <1>5, <1>6

LEMMA DialOf ==
  ASSUME Base, NEW c \in Client, Dial(c)
  PROVE  \E s \in Socket :
           /\ OneSocket(s) /\ sock[s] = Closed
           /\ sock'[s].owner = c /\ sock'[s].client = "connecting"
           /\ sock'[s].relay = "none" /\ ~sock'[s].cut
           /\ sock'[s].up = <<>> /\ sock'[s].down = <<>>
           /\ state' = [state EXCEPT ![c] = "connecting"]
<1>1. PICK s \in Socket : /\ sock[s].owner = None
                          /\ sock' = [sock EXCEPT ![s].owner = c, ![s].client = "connecting"]
                          /\ state' = [state EXCEPT ![c] = "connecting"]
  BY DEF Dial
<1> DEFINE x == [sock[s] EXCEPT !.owner = c, !.client = "connecting"]
<1>2. sock[s] \in Sock /\ sock \in [Socket -> Sock]
  BY Types DEF Base
<1>3. /\ sock[s].client = "none" /\ sock[s].relay = "none" /\ ~sock[s].cut
      /\ sock[s].up = <<>> /\ sock[s].down = <<>>
  BY <1>1 DEF Base, SockInv
<1>4. sock[s] = Closed
  BY <1>1, <1>2, <1>3 DEF Sock, Closed
<1>5. /\ x \in Sock
      /\ x.owner = c /\ x.client = "connecting" /\ x.relay = "none" /\ ~x.cut
      /\ x.up = <<>> /\ x.down = <<>>
  BY <1>2, <1>3 DEF Sock
<1>6. sock' = [sock EXCEPT ![s] = x]
  BY <1>1, <1>2
<1> HIDE DEF x
<1>7. OneSocket(s) /\ sock'[s] = x
  BY <1>2, <1>5, <1>6, Except
<1>8. QED
  BY <1>1, <1>4, <1>5, <1>7

LEMMA OpensOf ==
  ASSUME Base, NEW s \in Socket, Opens(s)
  PROVE  /\ OneSocket(s)
         /\ sock[s].client = "connecting" /\ sock[s].owner \in Client
         /\ sock'[s].owner = sock[s].owner /\ sock'[s].client = "open" /\ sock'[s].relay = "open"
         /\ ~sock'[s].cut /\ sock'[s].up = <<>> /\ sock'[s].down = <<>>
         /\ sock[s].up = <<>> /\ sock[s].down = <<>>
<1>1. /\ sock[s].client = "connecting"
      /\ sock' = [sock EXCEPT ![s].client = "open", ![s].relay = "open"]
  BY DEF Opens
<1> DEFINE x == [sock[s] EXCEPT !.client = "open", !.relay = "open"]
<1>2. sock[s] \in Sock /\ sock \in [Socket -> Sock]
  BY Types DEF Base
<1>3. /\ sock[s].relay = "none" /\ ~sock[s].cut /\ sock[s].up = <<>> /\ sock[s].down = <<>>
      /\ sock[s].owner # None
  BY <1>1 DEF Base, SockInv
<1>4. /\ x \in Sock
      /\ x.owner = sock[s].owner /\ x.client = "open" /\ x.relay = "open" /\ ~x.cut
      /\ x.up = <<>> /\ x.down = <<>>
  BY <1>2, <1>3 DEF Sock
<1>5. sock' = [sock EXCEPT ![s] = x]
  BY <1>1, <1>2
<1> HIDE DEF x
<1>6. OneSocket(s) /\ sock'[s] = x
  BY <1>2, <1>4, <1>5, Except
<1>7. sock[s].owner \in Client
  BY <1>2, <1>3 DEF Sock
<1>8. QED
  BY <1>1, <1>3, <1>4, <1>6, <1>7

LEMMA DialFailsOf ==
  ASSUME Base, NEW s \in Socket, DialFails(s)
  PROVE  /\ OneSocket(s) /\ sock'[s] = Closed
         /\ sock[s].client = "connecting" /\ sock[s].owner \in Client /\ sock[s].relay = "none"
         /\ sock[s].up = <<>> /\ sock[s].down = <<>>
<1>1. sock[s].client = "connecting" /\ sock' = [sock EXCEPT ![s] = Closed]
  BY DEF DialFails
<1>2. sock[s] \in Sock /\ sock \in [Socket -> Sock] /\ Closed \in Sock
  BY Types DEF Base, Sock, Closed
<1>3. OneSocket(s) /\ sock'[s] = Closed
  BY <1>1, <1>2, Except
<1>4. sock[s].relay = "none" /\ sock[s].up = <<>> /\ sock[s].down = <<>> /\ sock[s].owner # None
  BY <1>1 DEF Base, SockInv
<1>5. QED
  BY <1>1, <1>2, <1>3, <1>4 DEF Sock

LEMMA ClientClosedOf ==
  ASSUME Base, NEW s \in Socket, ClientClosed(s)
  PROVE  /\ OneSocket(s) /\ sock[s].client \in {"open", "closing"} /\ sock[s].owner \in Client
         /\ sock[s].cut \/ sock[s].relay \in {"closing", "closed"}
         /\ sock'[s].owner = sock[s].owner /\ sock'[s].client = "closed"
         /\ sock'[s].relay = sock[s].relay /\ sock'[s].cut = sock[s].cut
         /\ sock'[s].up = sock[s].up /\ sock'[s].down = <<>>
<1>1. /\ sock[s].client \in {"open", "closing"}
      /\ sock[s].cut \/ sock[s].relay \in {"closing", "closed"}
      /\ sock' = [sock EXCEPT ![s].client = "closed", ![s].down = <<>>]
  BY DEF ClientClosed
<1> DEFINE x == [sock[s] EXCEPT !.client = "closed", !.down = <<>>]
<1>2. sock[s] \in Sock /\ sock \in [Socket -> Sock] /\ <<>> \in Seq(Frame)
  BY Types DEF Base
<1>3. /\ x \in Sock
      /\ x.owner = sock[s].owner /\ x.client = "closed"
      /\ x.relay = sock[s].relay /\ x.cut = sock[s].cut /\ x.up = sock[s].up /\ x.down = <<>>
  BY <1>2 DEF Sock
<1>4. sock' = [sock EXCEPT ![s] = x]
  BY <1>1, <1>2
<1> HIDE DEF x
<1>5. OneSocket(s) /\ sock'[s] = x
  BY <1>2, <1>3, <1>4, Except
<1>6. sock[s].owner \in Client
  BY <1>1, <1>2 DEF Base, SockInv, Sock
<1>7. QED
  BY <1>1, <1>3, <1>5, <1>6

LEMMA CutOf ==
  ASSUME Base, NEW s \in Socket, Cut(s)
  PROVE  /\ OneSocket(s) /\ sock[s].client = "open" /\ ~sock[s].cut
         /\ sock'[s].owner = sock[s].owner /\ sock'[s].client = sock[s].client
         /\ sock'[s].relay = sock[s].relay /\ sock'[s].cut
         /\ sock'[s].up = <<>> /\ sock'[s].down = <<>>
<1>1. /\ sock[s].client = "open" /\ ~sock[s].cut
      /\ sock' = [sock EXCEPT ![s].cut = TRUE, ![s].up = <<>>, ![s].down = <<>>]
  BY DEF Cut
<1> DEFINE x == [sock[s] EXCEPT !.cut = TRUE, !.up = <<>>, !.down = <<>>]
<1>2. sock[s] \in Sock /\ sock \in [Socket -> Sock] /\ <<>> \in Seq(Frame)
  BY Types DEF Base
<1>3. /\ x \in Sock
      /\ x.owner = sock[s].owner /\ x.client = sock[s].client
      /\ x.relay = sock[s].relay /\ x.cut /\ x.up = <<>> /\ x.down = <<>>
  BY <1>2 DEF Sock
<1>4. sock' = [sock EXCEPT ![s] = x]
  BY <1>1, <1>2
<1> HIDE DEF x
<1>5. OneSocket(s) /\ sock'[s] = x
  BY <1>2, <1>3, <1>4, Except
<1>6. QED
  BY <1>1, <1>3, <1>5

LEMMA RestartOf ==
  ASSUME Base, Restart
  PROVE  /\ sock' \in [Socket -> Sock]
         /\ \A r \in Socket : sock'[r].owner = sock[r].owner /\ sock'[r].client = sock[r].client
         /\ \A r \in Socket : \/ /\ sock[r].relay \in {"open", "closing"}
                                 /\ sock'[r].relay = "closed" /\ sock'[r].cut
                                 /\ sock'[r].up = <<>> /\ sock'[r].down = <<>>
                              \/ sock[r].relay \in {"none", "closed"} /\ sock'[r] = sock[r]
<1>1. sock' = [s \in Socket |->
                IF sock[s].relay \in {"open", "closing"}
                  THEN [sock[s] EXCEPT !.relay = "closed", !.cut = TRUE, !.up = <<>>, !.down = <<>>]
                  ELSE sock[s]]
  BY DEF Restart
<1>2. sock \in [Socket -> Sock]
  BY Types DEF Base
<1>3. ASSUME NEW r \in Socket
      PROVE  /\ sock'[r] \in Sock
             /\ sock'[r].owner = sock[r].owner /\ sock'[r].client = sock[r].client
             /\ \/ /\ sock[r].relay \in {"open", "closing"}
                   /\ sock'[r].relay = "closed" /\ sock'[r].cut
                   /\ sock'[r].up = <<>> /\ sock'[r].down = <<>>
                \/ sock[r].relay \in {"none", "closed"} /\ sock'[r] = sock[r]
  <2> DEFINE x == [sock[r] EXCEPT !.relay = "closed", !.cut = TRUE, !.up = <<>>, !.down = <<>>]
  <2>1. sock[r] \in Sock /\ <<>> \in Seq(Frame)
    BY <1>2
  <2>2. /\ x \in Sock /\ x.owner = sock[r].owner /\ x.client = sock[r].client
        /\ x.relay = "closed" /\ x.cut /\ x.up = <<>> /\ x.down = <<>>
    BY <2>1 DEF Sock
  <2>3. sock'[r] = IF sock[r].relay \in {"open", "closing"} THEN x ELSE sock[r]
    BY <1>1
  <2> HIDE DEF x
  <2>4. sock[r].relay \in {"none", "open", "closing", "closed"}
    BY <2>1 DEF Sock
  <2>5. QED
    BY <2>1, <2>2, <2>3, <2>4
<1> DEFINE g(r) == IF sock[r].relay \in {"open", "closing"}
                     THEN [sock[r] EXCEPT !.relay = "closed", !.cut = TRUE, !.up = <<>>, !.down = <<>>]
                     ELSE sock[r]
<1>4. sock' = [r \in Socket |-> g(r)]
  BY <1>1
<1> HIDE DEF g
<1>5. sock' \in [Socket -> Sock]
  <2>1. \A r \in Socket : g(r) \in Sock
    BY <1>3, <1>4
  <2>2. QED
    BY <1>4, <2>1
<1>6. \A r \in Socket : sock'[r].owner = sock[r].owner /\ sock'[r].client = sock[r].client
  BY <1>3
<1>7. \A r \in Socket : \/ /\ sock[r].relay \in {"open", "closing"}
                           /\ sock'[r].relay = "closed" /\ sock'[r].cut
                           /\ sock'[r].up = <<>> /\ sock'[r].down = <<>>
                        \/ sock[r].relay \in {"none", "closed"} /\ sock'[r] = sock[r]
  BY <1>3
<1>8. QED
  BY <1>5, <1>6, <1>7, Zenon

-----------------------------------------------------------------------------
(* Steps of the client that write and take frames                          *)

\* f came last.
Added(t2, t, f) ==
  /\ Range(t2) = Range(t) \cup {f}
  /\ \A x, y : Before(x, y, t) => Before(x, y, t2)
  /\ \A x, y : Before(x, y, t2) => Before(x, y, t) \/ (x \in Range(t) /\ y = f)

\* Client c writes f on its socket, if it has one that is alive; no end changes.
Written(c, f) ==
  /\ sock' \in [Socket -> Sock]
  /\ \A r \in Socket : SameEnds(sock', sock, r)
  /\ \A r \in Socket : IF r = ws[c] /\ ~sock[r].cut
                        THEN Added(sock'[r].up, sock[r].up, f)
                        ELSE sock'[r].up = sock[r].up

LEMMA WrittenOf ==
  ASSUME Base, NEW c \in Client, NEW f \in Frame, NEW k \in [Socket -> Sock],
         \A r \in Socket : SameEnds(k, sock, r) /\ k[r].up = sock[r].up,
         sock' = Write(k, c, f)
  PROVE  Written(c, f) /\ \A r \in Socket : sock'[r].down = k[r].down
<1>1. /\ sock' \in [Socket -> Sock]
      /\ \A r \in Socket : SameEnds(sock', k, r) /\ sock'[r].down = k[r].down
      /\ \A r \in Socket : r # ws[c] => sock'[r].up = k[r].up
      /\ ws[c] # None => sock'[ws[c]].up =
           IF k[ws[c]].client = "open" /\ ~k[ws[c]].cut THEN Append(k[ws[c]].up, f) ELSE k[ws[c]].up
  BY Types, WriteOf DEF Base
<1>2. \A r \in Socket : SameEnds(sock', sock, r)
  BY <1>1 DEF SameEnds
<1>3. ASSUME NEW r \in Socket, r = ws[c]
      PROVE  IF ~sock[r].cut THEN Added(sock'[r].up, sock[r].up, f) ELSE sock'[r].up = sock[r].up
  <2>1. ws[c] # None /\ sock[r].client = "open"
    BY <1>3, ConstantTypes DEF Base, WsInv
  <2>2. sock'[r].up = IF ~sock[r].cut THEN Append(sock[r].up, f) ELSE sock[r].up
    BY <1>1, <1>3, <2>1 DEF SameEnds
  <2>3. /\ Range(Append(sock[r].up, f)) = Range(sock[r].up) \cup {f}
        /\ \A x, y : Before(x, y, sock[r].up) => Before(x, y, Append(sock[r].up, f))
        /\ \A x, y : Before(x, y, Append(sock[r].up, f)) => Before(x, y, sock[r].up) \/ (x \in Range(sock[r].up) /\ y = f)
    BY Types, AppendOf DEF Base
  <2>4. Added(Append(sock[r].up, f), sock[r].up, f)
    BY <2>3, Zenon DEF Added
  <2>5. QED
    BY <2>2, <2>4
<1>4. \A r \in Socket : r # ws[c] => sock'[r].up = sock[r].up
  BY <1>1
<1>5. QED
  BY <1>1, <1>2, <1>3, <1>4 DEF Written

\* The client of socket s takes frame f.
Taken(s, f) ==
  /\ sock[s].client = "open" /\ f \in Frame /\ f \in Range(sock[s].down) /\ Brings(s, f) /\ ~sock[s].cut
  /\ \A r \in Socket : r # s => sock'[r].down = sock[r].down
  /\ Shrank(sock'[s].down, sock[s].down, f)

LEMMA TakenOf ==
  ASSUME Base, NEW s \in Socket, Hears(s)
  PROVE  /\ Take(s) \in [Socket -> Sock]
         /\ \A r \in Socket : SameEnds(Take(s), sock, r) /\ Take(s)[r].up = sock[r].up
         /\ (\A r \in Socket : sock'[r].down = Take(s)[r].down) => Taken(s, Head(sock[s].down))
         /\ sock[s].owner \in Client /\ ws[sock[s].owner] = s
<1>1. sock[s].client = "open" /\ sock[s].down # <<>>
  BY DEF Hears
<1>2. /\ Take(s) \in [Socket -> Sock]
      /\ \A r \in Socket : SameEnds(Take(s), sock, r) /\ Take(s)[r].up = sock[r].up
      /\ \A r \in Socket : r # s => Take(s)[r].down = sock[r].down
      /\ Take(s)[s].down = Tail(sock[s].down)
  BY <1>1, Types, TakeOf DEF Base
<1>3. Head(sock[s].down) \in Frame /\ Head(sock[s].down) \in Range(sock[s].down)
      /\ Shrank(Tail(sock[s].down), sock[s].down, Head(sock[s].down))
  BY <1>1, Types, ShrankTail DEF Base
<1>4. sock[s].owner \in Client /\ ws[sock[s].owner] = s /\ ~sock[s].cut
  BY <1>1, Types DEF Base, SockInv, WsInv
<1>5. Brings(s, Head(sock[s].down))
  BY <1>3 DEF Base, FrameInv
<1>6. QED
  BY <1>1, <1>2, <1>3, <1>4, <1>5 DEF Taken

LEMMA GetsMsgOf ==
  ASSUME Base, NEW s \in Socket, GetsMsg(s)
  PROVE  \E m \in Message :
           LET c == sock[s].owner
               q == Target[m]
           IN  /\ c \in Client /\ ws[c] = s /\ c = Recipient[q] /\ Taken(s, Msg(m))
               /\ \/ /\ q \in subscribed[c] /\ delivered' = [delivered EXCEPT ![q] = Append(@, m)]
                     /\ Written(c, Ack(m))
                  \/ /\ q \notin subscribed[c] /\ delivered' = delivered
                     /\ sock' \in [Socket -> Sock]
                     /\ \A r \in Socket : SameEnds(sock', sock, r) /\ sock'[r].up = sock[r].up
<1> DEFINE c == sock[s].owner
           m == Head(sock[s].down).msg
           q == Target[m]
<1>1. /\ Hears(s) /\ Head(sock[s].down).cmd = "MSG"
      /\ IF q \in subscribed[c]
           THEN /\ delivered' = [delivered EXCEPT ![q] = Append(@, m)]
                /\ sock' = Write(Take(s), c, Ack(m))
           ELSE /\ sock' = Take(s)
                /\ delivered' = delivered
  BY DEF GetsMsg
<1> DEFINE k == Take(s)
<1>2. /\ k \in [Socket -> Sock]
      /\ \A r \in Socket : SameEnds(k, sock, r) /\ k[r].up = sock[r].up
      /\ (\A r \in Socket : sock'[r].down = k[r].down) => Taken(s, Head(sock[s].down))
      /\ c \in Client /\ ws[c] = s
  BY <1>1, TakenOf
<1>3. IF q \in subscribed[c] THEN sock' = Write(k, c, Ack(m)) ELSE sock' = k
  BY <1>1
<1>4. Brings(s, Head(sock[s].down)) /\ m \in Message
  <2>1. Head(sock[s].down) \in Range(sock[s].down)
    BY <1>1, Types, ShrankTail DEF Base, Hears
  <2>2. Brings(s, Head(sock[s].down))
    BY <2>1 DEF Base, FrameInv
  <2>3. QED
    BY <1>1, <2>2 DEF Brings, Base, TypeOK
<1>5. Head(sock[s].down) = Msg(m) /\ c = Recipient[q]
  BY <1>1, <1>4 DEF Brings
<1> HIDE DEF k, c, m
<1>6. CASE q \in subscribed[c]
  <2>1. Ack(m) \in Frame
    BY <1>4, FrameTypes
  <2>2. Written(c, Ack(m)) /\ \A r \in Socket : sock'[r].down = k[r].down
    BY <1>2, <1>3, <1>6, <2>1, WrittenOf
  <2>3. delivered' = [delivered EXCEPT ![q] = Append(@, m)]
    BY <1>1, <1>6 DEF m, c
  <2>4. QED
    BY <1>2, <1>4, <1>5, <1>6, <2>2, <2>3 DEF c
<1>7. CASE q \notin subscribed[c]
  <2>1. sock' = k /\ delivered' = delivered
    BY <1>1, <1>3, <1>7 DEF m, c
  <2>2. QED
    BY <1>2, <1>4, <1>5, <1>7, <2>1 DEF c
<1>8. QED
  BY <1>6, <1>7

\* The call of client c is over.
Over(c, call, ok) ==
  /\ calls' = [calls EXCEPT ![c] = @ \ {call}]
  /\ subscribed' = IF ok /\ call.cmd = "SUB"
                     THEN [subscribed EXCEPT ![c] = @ \cup {call.queue}] ELSE subscribed
  /\ \/ address' = address
     \/ call.cmd \in {"NEW", "SUB"} /\ Settles(call.queue, IF ok THEN "shared" ELSE "failed")
  /\ \/ outcome' = outcome
     \/ call.cmd = "SEND" /\ \E how \in {"sent", "failed"} : outcome' = [outcome EXCEPT ![call.n] = how]

\* Client c goes on from the answer to its call.
Continued(c, call) ==
  /\ call.cmd = "NEW" /\ Recipient[call.queue] = c
  /\ calls' = [calls EXCEPT ![c] = (@ \ {call}) \cup {Sub(call.queue, 0)}]
  /\ subscribed' = subscribed /\ address' = address /\ outcome' = outcome

UpsSame == /\ sock' \in [Socket -> Sock]
           /\ \A r \in Socket : SameEnds(sock', sock, r) /\ sock'[r].up = sock[r].up

LEMMA RejectsOf ==
  ASSUME NEW sk, NEW c \in Client, NEW call \in Call, Rejects(sk, c, call)
  PROVE  sock' = sk /\ Over(c, call, FALSE)
BY DEF Rejects, Finish, Over

LEMMA ResolvesOf ==
  ASSUME NEW sk, NEW c \in Client, NEW call \in Call, Resolves(sk, c, call)
  PROVE  \/ sock' = Write(sk, c, Request(Sub(call.queue, 0))) /\ Continued(c, call)
         \/ sock' = sk /\ Over(c, call, TRUE)
<1>1. CASE /\ call.cmd = "NEW" /\ Recipient[call.queue] = c
           /\ Rpc(sk, c, {call}, Sub(call.queue, 0))
           /\ UNCHANGED <<subscribed, address, outcome>>
  BY <1>1 DEF Rpc, Continued
<1>2. CASE /\ call.cmd = "NEW" /\ Recipient[call.queue] # c
           /\ Finish(sk, c, call)
           /\ Settles(call.queue, "shared")
           /\ UNCHANGED <<subscribed, outcome>>
  BY <1>2 DEF Finish, Over
<1>3. CASE /\ call.cmd = "SUB"
           /\ Finish(sk, c, call)
           /\ subscribed' = [subscribed EXCEPT ![c] = @ \cup {call.queue}]
           /\ Settles(call.queue, "shared")
           /\ UNCHANGED outcome
  BY <1>3 DEF Finish, Over
<1>4. CASE /\ call.cmd = "ACK"
           /\ Finish(sk, c, call)
           /\ UNCHANGED <<subscribed, address, outcome>>
  BY <1>4 DEF Finish, Over
<1>5. CASE /\ call.cmd = "SEND"
           /\ Finish(sk, c, call)
           /\ outcome' = [outcome EXCEPT ![call.n] = "sent"]
           /\ UNCHANGED <<subscribed, address>>
  BY <1>5 DEF Finish, Over
<1>6. QED
  BY <1>1, <1>2, <1>3, <1>4, <1>5 DEF Resolves

LEMMA GetsAnswerOf ==
  ASSUME Base, NEW s \in Socket, GetsAnswer(s)
  PROVE  \E f \in Frame : \E c \in Client :
           /\ c = sock[s].owner /\ ws[c] = s /\ Taken(s, f) /\ f.cmd \in {"OK", "ERR"} /\ f.call \in Call
           /\ \/ /\ f.call \in calls[c] /\ f.cmd = "OK"
                 /\ Continued(c, f.call) /\ Written(c, Request(Sub(f.call.queue, 0)))
              \/ /\ f.call \in calls[c]
                 /\ Over(c, f.call, f.cmd = "OK") /\ UpsSame
              \/ /\ f.call \notin calls[c]
                 /\ UNCHANGED <<calls, subscribed, address, outcome>> /\ UpsSame
<1> DEFINE f == Head(sock[s].down)
           c == sock[s].owner
           k == Take(s)
<1>1. /\ Hears(s) /\ f.cmd \in {"OK", "ERR"}
      /\ \/ f.call \in calls[c] /\ f.cmd = "OK" /\ Resolves(k, c, f.call)
         \/ f.call \in calls[c] /\ f.cmd = "ERR" /\ Rejects(k, c, f.call)
         \/ f.call \notin calls[c] /\ sock' = k /\ UNCHANGED <<calls, subscribed, address, outcome>>
  BY DEF GetsAnswer
<1>2. /\ k \in [Socket -> Sock]
      /\ \A r \in Socket : SameEnds(k, sock, r) /\ k[r].up = sock[r].up
      /\ (\A r \in Socket : sock'[r].down = k[r].down) => Taken(s, f)
      /\ c \in Client /\ ws[c] = s
  BY <1>1, TakenOf
<1>3. f \in Frame /\ f.call \in Call
  <2>1. f \in Frame /\ f \in Range(sock[s].down)
    BY <1>1, Types, ShrankTail DEF Base, Hears
  <2>2. Brings(s, f)
    BY <2>1 DEF Base, FrameInv
  <2>3. QED
    BY <1>1, <2>1, <2>2 DEF Brings, Frame
<1> HIDE DEF k, f
<1>4. ASSUME sock' = k PROVE UpsSame /\ Taken(s, f)
  BY <1>2, <1>4 DEF UpsSame
<1>5. CASE f.call \in calls[c] /\ f.cmd = "OK" /\ Resolves(k, c, f.call)
  <2>1. CASE sock' = Write(k, c, Request(Sub(f.call.queue, 0))) /\ Continued(c, f.call)
    <3>1. Request(Sub(f.call.queue, 0)) \in Frame
      BY <1>3, FrameTypes DEF Call
    <3>2. Written(c, Request(Sub(f.call.queue, 0))) /\ \A r \in Socket : sock'[r].down = k[r].down
      BY <1>2, <2>1, <3>1, WrittenOf
    <3>3. QED
      BY <1>1, <1>2, <1>3, <1>5, <2>1, <3>2
  <2>2. CASE sock' = k /\ Over(c, f.call, TRUE)
    <3>1. Over(c, f.call, f.cmd = "OK")
      BY <1>5, <2>2 DEF Over
    <3>2. QED
      BY <1>1, <1>2, <1>3, <1>4, <1>5, <2>2, <3>1
  <2>3. QED
    BY <1>2, <1>3, <1>5, <2>1, <2>2, ResolvesOf
<1>6. CASE f.call \in calls[c] /\ f.cmd = "ERR" /\ Rejects(k, c, f.call)
  <2>1. sock' = k /\ Over(c, f.call, FALSE)
    BY <1>2, <1>3, <1>6, RejectsOf
  <2>2. Over(c, f.call, f.cmd = "OK")
    BY <1>6, <2>1 DEF Over
  <2>3. QED
    BY <1>1, <1>2, <1>3, <1>4, <1>6, <2>1, <2>2
<1>7. CASE f.call \notin calls[c] /\ sock' = k /\ UNCHANGED <<calls, subscribed, address, outcome>>
  BY <1>1, <1>2, <1>3, <1>4, <1>7
<1>8. QED
  BY <1>1, <1>5, <1>6, <1>7 DEF f

\* A new call of client c.
Called(c, call) ==
  /\ call \in Call /\ Request(call) \in Frame
  /\ calls' = [calls EXCEPT ![c] = @ \cup {call}]
  /\ Written(c, Request(call))
  /\ \A r \in Socket : sock'[r].down = sock[r].down

LEMMA RpcOf ==
  ASSUME Base, NEW c \in Client, NEW call \in Call, Request(call) \in Frame, Rpc(sock, c, {}, call)
  PROVE  Called(c, call)
<1>1. sock' = Write(sock, c, Request(call)) /\ calls' = [calls EXCEPT ![c] = (@ \ {}) \cup {call}]
  BY DEF Rpc
<1>2. \A r \in Socket : SameEnds(sock, sock, r)
  BY DEF SameEnds
<1>3. sock \in [Socket -> Sock]
  BY Types DEF Base
<1>4. Written(c, Request(call)) /\ \A r \in Socket : sock'[r].down = sock[r].down
  BY <1>1, <1>2, <1>3, WrittenOf
<1>5. calls' = [calls EXCEPT ![c] = @ \cup {call}]
  <2>1. calls[c] \ {} = calls[c]
    OBVIOUS
  <2>2. QED
    BY <1>1, <2>1
<1>6. QED
  BY <1>4, <1>5 DEF Called

LEMMA ShutdownOf ==
  ASSUME Base, NEW c \in Client, Shutdown(c)
  PROVE  /\ sock' \in [Socket -> Sock] /\ bridge[c] = "on"
         /\ ws' = [ws EXCEPT ![c] = None] /\ bridge' = [bridge EXCEPT ![c] = "stopped"]
         /\ \A r \in Socket : r # ws[c] => sock'[r] = sock[r]
         /\ ws[c] # None =>
              /\ ws[c] \in Socket
              /\ sock'[ws[c]].owner = sock[ws[c]].owner /\ sock'[ws[c]].client = "closing"
              /\ sock'[ws[c]].relay = sock[ws[c]].relay /\ sock'[ws[c]].cut = sock[ws[c]].cut
              /\ sock'[ws[c]].down = sock[ws[c]].down
              /\ IF ~sock[ws[c]].cut THEN Added(sock'[ws[c]].up, sock[ws[c]].up, CloseFrame)
                                     ELSE sock'[ws[c]].up = sock[ws[c]].up
<1> DEFINE k == Write(sock, c, CloseFrame)
<1>1. /\ bridge[c] = "on" /\ ws' = [ws EXCEPT ![c] = None] /\ bridge' = [bridge EXCEPT ![c] = "stopped"]
      /\ sock' = IF ws[c] = None THEN k ELSE [k EXCEPT ![ws[c]].client = "closing"]
  BY DEF Shutdown
<1>2. CASE ws[c] = None
  <2>1. sock' = sock
    BY <1>1, <1>2 DEF Write
  <2>2. QED
    BY <1>1, <1>2, <2>1, Types DEF Base
<1>3. CASE ws[c] # None
  <2>1. PICK s \in Socket : s = ws[c] /\ sock[s].client = "open"
    BY <1>3, Types DEF Base, WsInv
  <2> DEFINE u == IF ~sock[s].cut THEN Append(sock[s].up, CloseFrame) ELSE sock[s].up
             x == [sock[s] EXCEPT !.up = u, !.client = "closing"]
  <2>2. sock[s] \in Sock /\ sock \in [Socket -> Sock] /\ sock[s].up \in Seq(Frame)
    BY Types DEF Base
  <2>3. u \in Seq(Frame) /\ (~sock[s].cut => Added(u, sock[s].up, CloseFrame))
    <3>1. /\ Append(sock[s].up, CloseFrame) \in Seq(Frame)
          /\ Range(Append(sock[s].up, CloseFrame)) = Range(sock[s].up) \cup {CloseFrame}
          /\ \A y, z : Before(y, z, sock[s].up) => Before(y, z, Append(sock[s].up, CloseFrame))
          /\ \A y, z : Before(y, z, Append(sock[s].up, CloseFrame)) => Before(y, z, sock[s].up) \/ (y \in Range(sock[s].up) /\ z = CloseFrame)
      BY <2>2, FrameTypes, AppendOf
    <3>2. Added(Append(sock[s].up, CloseFrame), sock[s].up, CloseFrame)
      BY <3>1, Zenon DEF Added
    <3>3. QED
      BY <2>2, <3>1, <3>2
  <2>4. k = [sock EXCEPT ![s].up = u]
    BY <2>1, <2>2, <1>3 DEF Write, Sock
  <2> HIDE DEF k, u
  <2>5. /\ x \in Sock /\ x.owner = sock[s].owner /\ x.client = "closing" /\ x.relay = sock[s].relay
        /\ x.cut = sock[s].cut /\ x.down = sock[s].down /\ x.up = u
    BY <2>2, <2>3 DEF Sock
  <2>6. sock' = [sock EXCEPT ![s] = x]
    BY <1>1, <1>3, <2>1, <2>2, <2>4
  <2> HIDE DEF x
  <2>7. OneSocket(s) /\ sock'[s] = x
    BY <2>2, <2>5, <2>6, Except
  <2>8. IF ~sock[s].cut THEN Added(sock'[s].up, sock[s].up, CloseFrame)
                                     ELSE sock'[s].up = sock[s].up
    BY <2>3, <2>5, <2>7 DEF u
  <2>9. QED
    BY <1>1, <1>3, <2>1, <2>5, <2>7, <2>8 DEF OneSocket
<1>4. QED
  BY <1>2, <1>3
-----------------------------------------------------------------------------
(* The initial states                                                      *)

LEMMA InitTypes == Init => TypeOK
<1>1. ASSUME Init PROVE sock \in [Socket -> Sock]
  BY <1>1 DEF Init, Closed, Sock
<1>2. ASSUME Init PROVE TypeOK
  <2>1. via \in [Message -> [sent : Socket \cup {None}, pushed : Socket \cup {None}]]
    BY <1>2 DEF Init
  <2>2. tries \in [Queue -> 0..MaxTries] /\ faults \in 0..MaxFaults
    BY <1>2, ConstantTypes DEF Init
  <2>3. delivered \in [Queue -> Seq(Message)]
    BY <1>2 DEF Init
  <2>4. QED
    BY <1>1, <1>2, <2>1, <2>2, <2>3 DEF Init, TypeOK, Sock
<1>3. QED
  BY <1>2

LEMMA InitInv == Init => IInv
<1> SUFFICES ASSUME Init PROVE IInv
  OBVIOUS
<1>1. /\ \A s \in Socket : sock[s] = Closed
      /\ \A q \in Queue : queue[q] = None /\ delivered[q] = <<>> /\ address[q] = "none"
      /\ \A c \in Client : ws[c] = None /\ subscribed[c] = {} /\ calls[c] = {} /\ timers[c] = 0
      /\ \A m \in Message : outcome[m] = "none" /\ via[m].pushed = None
      /\ accepted = {} /\ wiped = {} /\ messages = {}
  BY DEF Init
<1>2. \A s \in Socket : /\ sock[s].owner = None /\ sock[s].client = "none" /\ sock[s].relay = "none"
                        /\ ~sock[s].cut /\ sock[s].up = <<>> /\ sock[s].down = <<>>
                        /\ Range(sock[s].up) = {} /\ Range(sock[s].down) = {}
                        /\ \A x, y : ~Before(x, y, sock[s].up) /\ ~Before(x, y, sock[s].down)
  BY <1>1, EmptyOf DEF Closed
<1>3. \A q \in Queue : Range(delivered[q]) = {} /\ \A m, n : ~Before(m, n, delivered[q])
  BY <1>1, EmptyOf
<1>4. Base
  BY <1>1, <1>2, InitTypes, ConstantTypes DEF Base, SockInv, WsInv, FrameInv
<1>5. LiveInv
  BY <1>1, <1>2 DEF LiveInv, Live
<1>6. CallInv /\ QueueInv
  BY <1>1 DEF CallInv, QueueInv
<1>7. SetInv
  BY <1>1, <1>3 DEF SetInv
<1>8. NewInv /\ AnswerInv
  BY <1>1, <1>2 DEF NewInv, AnswerInv, NoneAsks
<1>9. SubInv /\ RealInv
  BY <1>1, <1>2 DEF SubInv, RealInv
<1>10. SendOrder /\ GetOrder
  <2>1. SendOrder
    BY <1>1, <1>2 DEF SendOrder
  <2>2. \A q \in Queue : \A m, n : ~Precedes(q, m, n)
    BY <1>1, <1>2, <1>3 DEF Precedes, Comes
  <2>3. QED
    BY <2>1, <2>2 DEF GetOrder
<1>11. /\ StoredUntilDelivered /\ KeptNeedsLostAck
       /\ BelievedSubscriptionIsReal /\ LostOnlyWithItsSocket
  BY <1>1 DEF StoredUntilDelivered, KeptNeedsLostAck, BelievedSubscriptionIsReal, LostOnlyWithItsSocket
<1>12. QED
  BY <1>4, <1>5, <1>6, <1>7, <1>8, <1>9, <1>10, <1>11 DEF IInv

-----------------------------------------------------------------------------
(* Steps that talk, and steps that connect                                 *)

\* Frames are read and written, and the ends of the sockets stay.
RelayTalks(s) == NotFound(s) \/ RelayNew(s) \/ RelaySub(s) \/ RelaySend(s) \/ RelayAck(s)
ClientTalks ==
  \/ \E s \in Socket : GetsAnswer(s) \/ GetsMsg(s)
  \/ \E c \in Client : TimesOut(c)
  \/ \E q \in Queue : Create(q) \/ Accept(q)
  \/ \E m \in Message : SendMessage(m) \/ Acknowledge(m)
Talks == ClientTalks \/ \E s \in Socket : RelayTalks(s)

\* Sockets open and close, and what is under way can only get lost.
Connects ==
  \/ \E s \in Socket : RelayClosing(s) \/ RelayClosed(s) \/ Opens(s) \/ DialFails(s) \/ ClientClosed(s) \/ Cut(s)
  \/ \E c \in Client : Initialize(c) \/ TimerFires(c) \/ Shutdown(c)
  \/ Restart

LEMMA StepCases == Next => Talks \/ Connects
BY DEF Next, RelayStep, ClientStep, Talks, ClientTalks, RelayTalks, Connects

KeepsEnds ==
  /\ sock' \in [Socket -> Sock]
  /\ \A r \in Socket : SameEnds(sock', sock, r)
  /\ \A r \in Socket : sock[r].relay = "none" \/ sock[r].cut =>
       sock'[r].up = sock[r].up /\ sock'[r].down = sock[r].down
  /\ ws' = ws /\ timers' = timers /\ bridge' = bridge

LEMMA TalksKeepEnds ==
  ASSUME Base, Talks
  PROVE  KeepsEnds
<1>1. \A s \in Socket : \A f : Handled(s, f) =>
        /\ sock' \in [Socket -> Sock]
        /\ \A r \in Socket : SameEnds(sock', sock, r)
        /\ \A r \in Socket : sock[r].relay = "none" \/ sock[r].cut =>
             sock'[r].up = sock[r].up /\ sock'[r].down = sock[r].down
  BY DEF Handled
<1>2. ASSUME NEW s \in Socket, RelayTalks(s)
      PROVE  ws' = ws /\ timers' = timers /\ bridge' = bridge /\ \E f : Handled(s, f)
  <2>1. CASE NotFound(s)
    BY <2>1, NotFoundOf DEF NotFound, clientVars
  <2>2. CASE RelayNew(s)
    BY <2>2, RelayNewOf DEF RelayNew, clientVars
  <2>3. CASE RelaySub(s)
    BY <2>3, RelaySubOf DEF RelaySub, clientVars
  <2>4. CASE RelaySend(s)
    BY <2>4, RelaySendOf DEF RelaySend, clientVars
  <2>5. CASE RelayAck(s)
    BY <2>5, RelayAckOf DEF RelayAck, clientVars
  <2>6. QED
    BY <1>2, <2>1, <2>2, <2>3, <2>4, <2>5 DEF RelayTalks
<1>3. \A s \in Socket : sock[s].client = "open" => sock[s].relay # "none" /\ sock[s].owner \in Client
  BY Types DEF Base, SockInv
<1>4. \A c \in Client : ws[c] # None => ws[c] \in Socket /\ sock[ws[c]].client = "open"
  BY Types DEF Base, WsInv
<1>5. ASSUME NEW c \in Client, NEW f, Written(c, f)
      PROVE  /\ sock' \in [Socket -> Sock]
             /\ \A r \in Socket : SameEnds(sock', sock, r)
             /\ \A r \in Socket : sock[r].relay = "none" \/ sock[r].cut => sock'[r].up = sock[r].up
  <2>1. \A r \in Socket : r = ws[c] => sock[r].relay # "none"
    BY <1>3, <1>4, ConstantTypes
  <2>2. QED
    BY <1>5, <2>1 DEF Written
<1>6. ASSUME NEW s \in Socket, NEW f, Taken(s, f)
      PROVE  \A r \in Socket : sock[r].relay = "none" \/ sock[r].cut => sock'[r].down = sock[r].down
  BY <1>3, <1>6 DEF Taken
<1>7. ASSUME NEW s \in Socket, GetsAnswer(s) PROVE KeepsEnds
  <2>1. ws' = ws /\ timers' = timers /\ bridge' = bridge
    BY <1>7 DEF GetsAnswer
  <2>2. PICK f \in Frame, c \in Client : Taken(s, f) /\ (Written(c, Request(Sub(f.call.queue, 0))) \/ UpsSame)
    BY <1>7, GetsAnswerOf
  <2>3. CASE UpsSame
    BY <1>6, <2>1, <2>2, <2>3 DEF KeepsEnds, UpsSame
  <2>4. QED
    BY <1>5, <1>6, <2>1, <2>2, <2>3 DEF KeepsEnds
<1>8. ASSUME NEW s \in Socket, GetsMsg(s) PROVE KeepsEnds
  <2>1. ws' = ws /\ timers' = timers /\ bridge' = bridge
    BY <1>8 DEF GetsMsg, clientVars
  <2>2. PICK m \in Message, c \in Client : /\ Taken(s, Msg(m))
                                          /\ \/ Written(c, Ack(m))
                                             \/ /\ sock' \in [Socket -> Sock]
                                                /\ \A r \in Socket : SameEnds(sock', sock, r) /\ sock'[r].up = sock[r].up
    BY <1>8, GetsMsgOf
  <2>3. QED
    BY <1>5, <1>6, <2>1, <2>2 DEF KeepsEnds
<1>9. ASSUME NEW c \in Client, TimesOut(c) PROVE KeepsEnds
  <2>1. ws' = ws /\ timers' = timers /\ bridge' = bridge /\ sock' = sock
    BY <1>9 DEF TimesOut, Rejects, Finish
  <2>2. QED
    BY <2>1, Types DEF KeepsEnds, SameEnds, Base
<1>10. ASSUME NEW c \in Client, NEW call \in Call, Request(call) \in Frame, Rpc(sock, c, {}, call),
              ws' = ws /\ timers' = timers /\ bridge' = bridge
       PROVE  KeepsEnds
  <2>1. Called(c, call)
    BY <1>10, RpcOf
  <2>2. QED
    BY <1>5, <1>10, <2>1 DEF KeepsEnds, Called
<1>11. ASSUME NEW q \in Queue, Create(q) PROVE KeepsEnds
  BY <1>10, <1>11, FrameTypes, ConstantTypes DEF Create
<1>12. ASSUME NEW q \in Queue, Accept(q) PROVE KeepsEnds
  <2>1. tries[q] + 1 \in Nat
    BY ConstantTypes DEF Base, TypeOK
  <2>2. QED
    BY <1>10, <1>12, <2>1, FrameTypes, ConstantTypes DEF Accept
<1>13. ASSUME NEW m \in Message, SendMessage(m) PROVE KeepsEnds
  BY <1>10, <1>13, FrameTypes, ConstantTypes DEF SendMessage
<1>14. ASSUME NEW m \in Message, Acknowledge(m) PROVE KeepsEnds
  BY <1>10, <1>14, FrameTypes, ConstantTypes DEF Acknowledge
<1>15. QED
  BY <1>1, <1>2, <1>7, <1>8, <1>9, <1>11, <1>12, <1>13, <1>14 DEF Talks, ClientTalks, KeepsEnds

\* Of what is under way on socket r nothing is left but what was there, and perhaps
\* a close frame; all of it, unless an end of the socket is dead.
Fades(r) ==
  /\ \/ sock'[r].owner = sock[r].owner
     \/ sock[r].client \in {"none", "connecting"} /\ sock'[r].up = <<>> /\ sock'[r].down = <<>>
  /\ sock[r].client \in {"closing", "closed"} => sock'[r].client \in {"closing", "closed"}
  /\ sock[r].client = "open" => sock'[r].client \in {"open", "closing", "closed"}
  /\ sock'[r].client = "open" => sock[r].client \in {"connecting", "open"}
  /\ sock[r].client = "connecting" => sock'[r].up = <<>> /\ sock'[r].down = <<>>
  /\ sock[r].cut => sock'[r].cut
  /\ Range(sock'[r].up) \subseteq Range(sock[r].up) \cup {CloseFrame}
  /\ CloseFrame \in Range(sock'[r].up) => CloseFrame \in Range(sock[r].up) \/ sock'[r].client = "closing"
  /\ \A x, y : Before(x, y, sock'[r].up) => Before(x, y, sock[r].up) \/ y = CloseFrame
  /\ Range(sock[r].up) \subseteq Range(sock'[r].up) \/ Dead(r)'
  /\ sock'[r].down = sock[r].down \/ (sock'[r].down = <<>> /\ Dead(r)')

\* The subscriber of queue q, if it has one, is there as before.
KeepsSubscriber(q) == queue[q] # None /\ queue[q].subscriber # None =>
  LET r == queue[q].subscriber IN
  sock[r].relay \in {"open", "closing"} =>
    sock'[r].relay \in {"open", "closing"} /\ (sock'[r].relay = "open" => sock[r].relay = "open")

\* The relay lost at most a subscriber whose socket is dead.
Stays ==
  /\ messages' = messages /\ wiped' = wiped
  /\ \A q \in Queue : \/ queue'[q] = queue[q] /\ KeepsSubscriber(q)
                      \/ /\ queue[q] # None /\ queue[q].subscriber # None /\ Dead(queue[q].subscriber)
                         /\ queue'[q] = [queue[q] EXCEPT !.subscriber = None]

Restarted ==
  /\ messages' = {} /\ wiped' = accepted
  /\ \A q \in Queue : queue'[q] = None
  /\ \A r \in Socket : sock'[r].client = "open" => sock'[r].cut /\ sock'[r].up = <<>> /\ sock'[r].down = <<>>

Fading ==
  /\ sock' \in [Socket -> Sock]
  /\ \A r \in Socket : Fades(r)
  /\ \A r \in Socket : sock[r].owner # None =>
        sock'[r].owner = sock[r].owner \/ ws'[sock[r].owner] = None
  /\ calls' = calls /\ subscribed' = subscribed /\ address' = address /\ outcome' = outcome
  /\ accepted' = accepted /\ via' = via /\ late' = late /\ delivered' = delivered
  /\ Stays \/ Restarted

LEMMA SameFades ==
  ASSUME NEW r \in Socket, sock'[r] = sock[r], sock[r].client = "connecting" => sock[r].up = <<>> /\ sock[r].down = <<>>
  PROVE  Fades(r)
BY DEF Fades, Dead

\* One socket changes, and no subscriber is lost.
LEMMA OneFades ==
  ASSUME Base, NEW s \in Socket, OneSocket(s), Fades(s),
         sock'[s].owner = sock[s].owner \/ sock[s].owner = None \/ ws'[sock[s].owner] = None,
         calls' = calls /\ subscribed' = subscribed /\ address' = address /\ outcome' = outcome,
         accepted' = accepted /\ via' = via /\ late' = late /\ delivered' = delivered,
         \/ Stays
         \/ /\ queue' = queue /\ messages' = messages /\ wiped' = wiped
            /\ sock[s].relay \in {"open", "closing"} =>
                 sock'[s].relay \in {"open", "closing"} /\ (sock'[s].relay = "open" => sock[s].relay = "open")
  PROVE  Fading
<1>1. \A r \in Socket : Fades(r)
  <2>1. \A r \in Socket : sock[r].client = "connecting" => sock[r].up = <<>> /\ sock[r].down = <<>>
    BY DEF Base, SockInv
  <2>2. QED
    BY <2>1, SameFades DEF OneSocket
<1>2. Stays
  <2>1. ASSUME ~Stays PROVE \A q \in Queue : queue'[q] = queue[q] /\ KeepsSubscriber(q)
    BY <2>1, ZenonT(60) DEF KeepsSubscriber, OneSocket, Base, TypeOK, Record
  <2>2. QED
    BY <2>1 DEF Stays
<1>3. \A r \in Socket : sock[r].owner # None => sock'[r].owner = sock[r].owner \/ ws'[sock[r].owner] = None
  BY DEF OneSocket
<1>4. QED
  BY <1>1, <1>2, <1>3 DEF Fading, OneSocket

LEMMA NothingUnderWay ==
  ASSUME NEW s \in Socket, sock'[s].up = <<>>
  PROVE  Range(sock'[s].up) = {} /\ \A x, y : ~Before(x, y, sock'[s].up)
BY EmptyOf

LEMMA ConnectsFade ==
  ASSUME Base, Connects
  PROVE  Fading
<1>1. ASSUME NEW s \in Socket, RelayClosing(s) PROVE Fading
  <2>1. /\ OneSocket(s)
        /\ sock[s].relay = "open" /\ ~sock[s].cut /\ sock[s].client \in {"closing", "closed"}
        /\ sock'[s].owner = sock[s].owner /\ sock'[s].client = sock[s].client
        /\ sock'[s].relay = "closing" /\ sock'[s].cut = sock[s].cut /\ sock'[s].down = sock[s].down
        /\ \E f : Shrank(sock'[s].up, sock[s].up, f) /\ f.cmd = "CLOSE"
    BY <1>1, RelayClosingOf
  <2>2. Fades(s)
    BY <2>1 DEF Fades, Dead, Shrank
  <2>3. QED
    BY <1>1, <2>1, <2>2, OneFades DEF RelayClosing, relayVars, clientVars, userVars, history
<1>2. ASSUME NEW s \in Socket, RelayClosed(s) PROVE Fading
  <2>1. /\ OneSocket(s) /\ Dead(s) /\ sock[s].relay \in {"open", "closing"}
        /\ sock'[s].owner = sock[s].owner /\ sock'[s].client = sock[s].client
        /\ sock'[s].relay = "closed" /\ sock'[s].cut = sock[s].cut
        /\ sock'[s].up = <<>> /\ sock'[s].down = sock[s].down
    BY <1>2, RelayClosedOf
  <2>2. sock[s].client # "connecting"
    BY <2>1 DEF Base, SockInv
  <2>3. Fades(s)
    BY <2>1, <2>2, NothingUnderWay DEF Fades, Dead
  <2>4. Stays
    <3>1. ASSUME NEW q \in Queue
          PROVE  \/ queue'[q] = queue[q] /\ KeepsSubscriber(q)
                 \/ /\ queue[q] # None /\ queue[q].subscriber # None /\ Dead(queue[q].subscriber)
                    /\ queue'[q] = [queue[q] EXCEPT !.subscriber = None]
      <4>1. CASE queue[q] # None /\ queue[q].subscriber = s
        BY <1>2, <2>1, <4>1, ConstantTypes DEF RelayClosed, Unsubscribe
      <4>2. CASE ~(queue[q] # None /\ queue[q].subscriber = s)
        <5>1. queue'[q] = queue[q]
          BY <1>2, <4>2 DEF RelayClosed, Unsubscribe
        <5>2. queue[q] # None /\ queue[q].subscriber # None => queue[q].subscriber \in Socket
          BY DEF Base, TypeOK, Record
        <5>3. KeepsSubscriber(q)
          BY <2>1, <4>2, <5>2 DEF KeepsSubscriber, OneSocket
        <5>4. QED
          BY <5>1, <5>3
      <4>3. QED
        BY <4>1, <4>2
    <3>2. QED
      BY <1>2, <3>1 DEF Stays, RelayClosed, history
  <2>5. QED
    BY <1>2, <2>1, <2>3, <2>4, OneFades DEF RelayClosed, clientVars, userVars, history
<1>3. ASSUME NEW s \in Socket, Opens(s) PROVE Fading
  <2>1. /\ OneSocket(s)
        /\ sock[s].client = "connecting" /\ sock[s].owner \in Client
        /\ sock'[s].owner = sock[s].owner /\ sock'[s].client = "open" /\ sock'[s].relay = "open"
        /\ ~sock'[s].cut /\ sock'[s].up = <<>> /\ sock'[s].down = <<>>
        /\ sock[s].up = <<>> /\ sock[s].down = <<>>
    BY <1>3, OpensOf
  <2>2. sock[s].relay = "none" /\ ~sock[s].cut
    BY <2>1 DEF Base, SockInv
  <2>3. Fades(s)
    BY <2>1, <2>2, NothingUnderWay DEF Fades, Dead
  <2>4. QED
    BY <1>3, <2>1, <2>2, <2>3, OneFades DEF Opens, relayVars, userVars, history
<1>4. ASSUME NEW s \in Socket, DialFails(s) PROVE Fading
  <2>1. /\ OneSocket(s) /\ sock'[s] = Closed
        /\ sock[s].client = "connecting" /\ sock[s].owner \in Client /\ sock[s].relay = "none"
        /\ sock[s].up = <<>> /\ sock[s].down = <<>>
    BY <1>4, DialFailsOf
  <2>2. sock'[s].up = <<>> /\ sock'[s].down = <<>> /\ sock'[s].client = "none" /\ ~sock[s].cut
    BY <2>1 DEF Closed, Base, SockInv
  <2>3. Fades(s)
    BY <2>1, <2>2, NothingUnderWay DEF Fades, Dead
  <2>4. ws'[sock[s].owner] = None
    BY <1>4, <2>1, Types DEF DialFails, OnClose, Base
  <2>5. QED
    BY <1>4, <2>1, <2>3, <2>4, OneFades DEF DialFails, relayVars, userVars, history
<1>5. ASSUME NEW s \in Socket, ClientClosed(s) PROVE Fading
  <2>1. /\ OneSocket(s) /\ sock[s].client \in {"open", "closing"} /\ sock[s].owner \in Client
        /\ sock[s].cut \/ sock[s].relay \in {"closing", "closed"}
        /\ sock'[s].owner = sock[s].owner /\ sock'[s].client = "closed"
        /\ sock'[s].relay = sock[s].relay /\ sock'[s].cut = sock[s].cut
        /\ sock'[s].up = sock[s].up /\ sock'[s].down = <<>>
    BY <1>5, ClientClosedOf
  <2>2. Fades(s)
    BY <2>1 DEF Fades, Dead
  <2>3. QED
    BY <1>5, <2>1, <2>2, OneFades DEF ClientClosed, relayVars, userVars, history
<1>6. ASSUME NEW s \in Socket, Cut(s) PROVE Fading
  <2>1. /\ OneSocket(s) /\ sock[s].client = "open" /\ ~sock[s].cut
        /\ sock'[s].owner = sock[s].owner /\ sock'[s].client = sock[s].client
        /\ sock'[s].relay = sock[s].relay /\ sock'[s].cut
        /\ sock'[s].up = <<>> /\ sock'[s].down = <<>>
    BY <1>6, CutOf
  <2>2. Fades(s)
    BY <2>1, NothingUnderWay DEF Fades, Dead
  <2>3. QED
    BY <1>6, <2>1, <2>2, OneFades DEF Cut, relayVars, clientVars, userVars, history
<1>7. ASSUME NEW c \in Client, Dial(c),
             queue' = queue /\ messages' = messages /\ wiped' = wiped,
             calls' = calls /\ subscribed' = subscribed /\ address' = address /\ outcome' = outcome,
             accepted' = accepted /\ via' = via /\ late' = late /\ delivered' = delivered
      PROVE  Fading
  <2>1. PICK s \in Socket : /\ OneSocket(s) /\ sock[s] = Closed
                            /\ sock'[s].owner = c /\ sock'[s].client = "connecting"
                            /\ sock'[s].relay = "none" /\ ~sock'[s].cut
                            /\ sock'[s].up = <<>> /\ sock'[s].down = <<>>
    BY <1>7, DialOf
  <2>2. /\ sock[s].owner = None /\ sock[s].client = "none" /\ sock[s].relay = "none" /\ ~sock[s].cut
        /\ sock[s].up = <<>> /\ sock[s].down = <<>>
    BY <2>1 DEF Closed
  <2>3. Fades(s)
    BY <2>1, <2>2, NothingUnderWay DEF Fades, Dead
  <2>4. QED
    BY <1>7, <2>1, <2>2, <2>3, OneFades
<1>8. ASSUME NEW c \in Client, Initialize(c) PROVE Fading
  BY <1>7, <1>8 DEF Initialize, relayVars, userVars, history
<1>9. ASSUME sock' = sock,
             queue' = queue /\ messages' = messages /\ wiped' = wiped,
             calls' = calls /\ subscribed' = subscribed /\ address' = address /\ outcome' = outcome,
             accepted' = accepted /\ via' = via /\ late' = late /\ delivered' = delivered
      PROVE  Fading
  <2>1. \A r \in Socket : Fades(r)
    BY <1>9, SameFades DEF Base, SockInv
  <2>2. Stays
    BY <1>9 DEF Stays, KeepsSubscriber
  <2>3. QED
    BY <1>9, <2>1, <2>2, Types DEF Fading, Base
<1>10. ASSUME NEW c \in Client, TimerFires(c) PROVE Fading
  BY <1>7, <1>9, <1>10 DEF TimerFires, relayVars, userVars, history
<1>11. ASSUME NEW c \in Client, Shutdown(c) PROVE Fading
  <2>1. /\ sock' \in [Socket -> Sock]
        /\ \A r \in Socket : r # ws[c] => sock'[r] = sock[r]
        /\ ws[c] # None =>
             /\ ws[c] \in Socket
             /\ sock'[ws[c]].owner = sock[ws[c]].owner /\ sock'[ws[c]].client = "closing"
             /\ sock'[ws[c]].relay = sock[ws[c]].relay /\ sock'[ws[c]].cut = sock[ws[c]].cut
             /\ sock'[ws[c]].down = sock[ws[c]].down
             /\ IF ~sock[ws[c]].cut THEN Added(sock'[ws[c]].up, sock[ws[c]].up, CloseFrame)
                                    ELSE sock'[ws[c]].up = sock[ws[c]].up
    BY <1>11, ShutdownOf
  <2>2. CASE ws[c] = None
    <3>1. sock' = sock
      BY <2>1, <2>2, Types, ConstantTypes DEF Base
    <3>2. QED
      BY <1>9, <1>11, <3>1 DEF Shutdown, relayVars, userVars, history
  <2>3. CASE ws[c] # None
    <3>1. PICK s \in Socket : s = ws[c] /\ sock[s].client = "open"
      BY <2>1, <2>3 DEF Base, WsInv
    <3>2. Fades(s)
      BY <2>1, <2>3, <3>1 DEF Fades, Dead, Added
    <3>3. OneSocket(s)
      BY <2>1, <3>1 DEF OneSocket
    <3>4. QED
      BY <1>11, <2>1, <2>3, <3>1, <3>2, <3>3, OneFades DEF Shutdown, relayVars, userVars, history
  <2>4. QED
    BY <2>2, <2>3
<1>12. ASSUME Restart PROVE Fading
  <2>1. /\ sock' \in [Socket -> Sock]
        /\ \A r \in Socket : sock'[r].owner = sock[r].owner /\ sock'[r].client = sock[r].client
        /\ \A r \in Socket : \/ /\ sock[r].relay \in {"open", "closing"}
                                /\ sock'[r].relay = "closed" /\ sock'[r].cut
                                /\ sock'[r].up = <<>> /\ sock'[r].down = <<>>
                             \/ sock[r].relay \in {"none", "closed"} /\ sock'[r] = sock[r]
    BY <1>12, RestartOf
  <2>2. \A r \in Socket : Fades(r)
    <3>1. ASSUME NEW r \in Socket, sock'[r].cut, sock[r].relay \in {"open", "closing"},
                 sock'[r].up = <<>>, sock'[r].down = <<>>
          PROVE  Fades(r)
      BY <2>1, <3>1, NothingUnderWay DEF Fades, Dead, Base, SockInv
    <3>2. QED
      BY <2>1, <3>1, SameFades DEF Base, SockInv
  <2>3. Restarted
    <3>1. \A r \in Socket : sock'[r].client = "open" => sock'[r].cut /\ sock'[r].up = <<>> /\ sock'[r].down = <<>>
      BY <2>1 DEF Base, SockInv, Dead
    <3>2. QED
      BY <1>12, <3>1 DEF Restarted, Restart
  <2>4. QED
    BY <1>12, <2>1, <2>2, <2>3 DEF Fading, Restart, clientVars, userVars
<1>13. QED
  BY <1>1, <1>2, <1>3, <1>4, <1>5, <1>6, <1>8, <1>10, <1>11, <1>12 DEF Connects
-----------------------------------------------------------------------------
(* Types, and the ends of the sockets                                      *)

LEMMA CallTypes ==
  ASSUME NEW call \in Call
  PROVE  call.queue \in Queue /\ call.n \in Nat /\ call.cmd \in {"NEW", "SUB", "SEND", "ACK"}
BY DEF Call

LEMMA RecordTypes ==
  ASSUME NEW r \in Record
  PROVE  /\ r.subscriber \in Socket \cup {None} /\ r.pending \in Seq(Message) /\ r # None
         /\ LET r0 == [r EXCEPT !.subscriber = None]
            IN  r0 \in Record /\ r0.subscriber = None /\ r0.pending = r.pending
         /\ \A m \in Message : LET r1 == [r EXCEPT !.pending = Append(@, m)]
                               IN  r1 \in Record /\ r1.subscriber = r.subscriber /\ r1.pending = Append(r.pending, m)
<1>1. r.subscriber \in Socket \cup {None} /\ r.pending \in Seq(Message) /\ r # None
  BY ConstantTypes DEF Record
<1>2. LET r0 == [r EXCEPT !.subscriber = None]
      IN  r0 \in Record /\ r0.subscriber = None /\ r0.pending = r.pending
  BY DEF Record
<1>3. ASSUME NEW m \in Message
      PROVE  LET r1 == [r EXCEPT !.pending = Append(@, m)]
             IN  r1 \in Record /\ r1.subscriber = r.subscriber /\ r1.pending = Append(r.pending, m)
  <2> DEFINE p == Append(r.pending, m)
  <2>1. p \in Seq(Message)
    BY <1>1
  <2> HIDE DEF p
  <2>2. [r EXCEPT !.pending = p] \in Record /\ [r EXCEPT !.pending = p].subscriber = r.subscriber
        /\ [r EXCEPT !.pending = p].pending = p
    BY <2>1 DEF Record
  <2>3. QED
    BY <2>2 DEF p
<1>4. QED
  BY <1>1, <1>2, <1>3

LEMMA OverTypes ==
  ASSUME TypeOK, NEW c \in Client, NEW call \in Call, NEW ok, Over(c, call, ok)
  PROVE  /\ calls' \in [Client -> SUBSET Call] /\ subscribed' \in [Client -> SUBSET Queue]
         /\ address' \in [Queue -> {"none", "creating", "shared", "failed"}]
         /\ outcome' \in [Message -> {"none", "waiting", "sent", "failed"}]
<1>1. /\ calls \in [Client -> SUBSET Call] /\ subscribed \in [Client -> SUBSET Queue]
      /\ address \in [Queue -> {"none", "creating", "shared", "failed"}]
      /\ outcome \in [Message -> {"none", "waiting", "sent", "failed"}]
  BY DEF TypeOK
<1>2. calls' \in [Client -> SUBSET Call]
  BY <1>1 DEF Over
<1>3. subscribed' \in [Client -> SUBSET Queue]
  BY <1>1, CallTypes DEF Over
<1>4. address' \in [Queue -> {"none", "creating", "shared", "failed"}]
  BY <1>1 DEF Over, Settles
<1>5. outcome' \in [Message -> {"none", "waiting", "sent", "failed"}]
  BY <1>1 DEF Over
<1>6. QED
  BY <1>2, <1>3, <1>4, <1>5

LEMMA TalksKeepTypes ==
  ASSUME Base, Talks
  PROVE  TypeOK'
<1>1. sock' \in [Socket -> Sock] /\ ws' = ws /\ timers' = timers /\ bridge' = bridge
  BY TalksKeepEnds DEF KeepsEnds
<1>2. TypeOK
  BY DEF Base
<1>3. /\ queue \in [Queue -> Record \cup {None}]
      /\ messages \subseteq Message /\ accepted \subseteq Message
      /\ calls \in [Client -> SUBSET Call]
      /\ tries \in [Queue -> 0..MaxTries]
      /\ via \in [Message -> [sent : Socket \cup {None}, pushed : Socket \cup {None}]]
      /\ delivered \in [Queue -> Seq(Message)]
      /\ address \in [Queue -> {"none", "creating", "shared", "failed"}]
      /\ outcome \in [Message -> {"none", "waiting", "sent", "failed"}]
      /\ ws \in [Client -> Socket \cup {None}]
  BY <1>2 DEF TypeOK
<1>4. ASSUME NEW s \in Socket, RelayTalks(s)
      PROVE  /\ UNCHANGED <<state, subscribed, calls, address, tries, outcome, acked, delivered, faults>>
             /\ queue' \in [Queue -> Record \cup {None}]
             /\ messages' \subseteq Message /\ accepted' \subseteq Message
             /\ via' \in [Message -> [sent : Socket \cup {None}, pushed : Socket \cup {None}]]
  <2>1. CASE NotFound(s)
    BY <1>3, <2>1 DEF NotFound, clientVars, userVars, relayVars, history
  <2>2. CASE RelayNew(s)
    <3>1. UNCHANGED <<state, subscribed, calls, address, tries, outcome, acked, delivered, faults>>
      BY <2>2 DEF RelayNew, clientVars, userVars, history
    <3>2. PICK f \in Frame : /\ f.call \in Call
                             /\ \/ queue' = queue
                                \/ queue' = [queue EXCEPT ![f.call.queue] = [subscriber |-> None, pending |-> <<>>]]
      BY <2>2, RelayNewOf
    <3>3. [subscriber |-> None, pending |-> <<>>] \in Record
      BY DEF Record
    <3>4. QED
      BY <1>3, <2>2, <3>1, <3>2, <3>3 DEF RelayNew, history
  <2>3. CASE RelaySub(s)
    <3>1. UNCHANGED <<state, subscribed, calls, address, tries, outcome, acked, messages, accepted, delivered, faults>>
      BY <2>3 DEF RelaySub, clientVars, userVars
    <3>2. PICK f \in Frame :
            /\ f.call \in Call
            /\ queue' = [queue EXCEPT ![f.call.queue] = [subscriber |-> s, pending |-> <<>>]]
            /\ via' = [m \in Message |-> IF m \in Range(queue[f.call.queue].pending)
                                           THEN [via[m] EXCEPT !.pushed = s] ELSE via[m]]
      BY <2>3, RelaySubOf
    <3>3. [subscriber |-> s, pending |-> <<>>] \in Record
      BY DEF Record
    <3>4. QED
      BY <1>3, <3>1, <3>2, <3>3
  <2>4. CASE RelaySend(s)
    <3>1. UNCHANGED <<state, subscribed, calls, address, tries, outcome, acked, delivered, faults>>
      BY <2>4 DEF RelaySend, clientVars, userVars
    <3>2. PICK f \in Frame, m \in Message :
            /\ queue[Target[m]] # None /\ queue[Target[m]] \in Record
            /\ messages' = messages \cup {m} /\ accepted' = accepted \cup {m}
            /\ \/ \E t \in Socket : via' = [via EXCEPT ![m].pushed = t] /\ queue' = queue
               \/ via' = via /\ queue' = [queue EXCEPT ![Target[m]].pending = Append(@, m)]
      BY <2>4, RelaySendOf
    <3>3. [queue[Target[m]] EXCEPT !.pending = Append(@, m)] \in Record
      BY <3>2, RecordTypes
    <3>4. queue' \in [Queue -> Record \cup {None}]
      <4>1. CASE queue' = queue
        BY <1>3, <4>1
      <4>2. CASE queue' = [queue EXCEPT ![Target[m]].pending = Append(@, m)]
        BY <1>3, <3>3, <4>2
      <4>3. QED
        BY <3>2, <4>1, <4>2
    <3>5. QED
      BY <1>3, <3>1, <3>2, <3>4, ZenonT(60)
  <2>5. CASE RelayAck(s)
    BY <1>3, <2>5 DEF RelayAck, clientVars, userVars, history
  <2>6. QED
    BY <1>4, <2>1, <2>2, <2>3, <2>4, <2>5 DEF RelayTalks
<1>5. ASSUME NEW s \in Socket, RelayTalks(s) PROVE TypeOK'
  BY <1>1, <1>2, <1>4, <1>5 DEF TypeOK, Sock
<1>6. ASSUME NEW s \in Socket, GetsAnswer(s) PROVE TypeOK'
  <2>1. UNCHANGED <<queue, messages, state, tries, acked, accepted, via, delivered, faults>>
    BY <1>6 DEF GetsAnswer, relayVars, history
  <2>2. PICK f \in Frame, c \in Client :
          /\ f.call \in Call
          /\ \/ Continued(c, f.call)
             \/ Over(c, f.call, f.cmd = "OK")
             \/ UNCHANGED <<calls, subscribed, address, outcome>>
    BY <1>6, GetsAnswerOf
  <2>3. CASE Continued(c, f.call)
    <3>1. Sub(f.call.queue, 0) \in Call
      BY <2>2, CallTypes, FrameTypes
    <3>2. QED
      BY <1>1, <1>2, <1>3, <2>1, <2>3, <3>1 DEF TypeOK, Sock, Continued
  <2>4. CASE Over(c, f.call, f.cmd = "OK")
    <3>1. /\ calls' \in [Client -> SUBSET Call] /\ subscribed' \in [Client -> SUBSET Queue]
          /\ address' \in [Queue -> {"none", "creating", "shared", "failed"}]
          /\ outcome' \in [Message -> {"none", "waiting", "sent", "failed"}]
      BY <1>2, <2>2, <2>4, OverTypes
    <3>2. QED
      BY <1>1, <1>2, <2>1, <3>1 DEF TypeOK, Sock
  <2>5. CASE UNCHANGED <<calls, subscribed, address, outcome>>
    BY <1>1, <1>2, <2>1, <2>5 DEF TypeOK, Sock
  <2>6. QED
    BY <2>2, <2>3, <2>4, <2>5
<1>7. ASSUME NEW s \in Socket, GetsMsg(s) PROVE TypeOK'
  <2>1. /\ UNCHANGED <<queue, messages, state, tries, acked, accepted, via, faults>>
        /\ UNCHANGED <<calls, subscribed, address, outcome>>
    BY <1>7 DEF GetsMsg, relayVars, clientVars, userVars, history
  <2>2. PICK m \in Message : delivered' = delivered \/ delivered' = [delivered EXCEPT ![Target[m]] = Append(@, m)]
    BY <1>7, GetsMsgOf
  <2>3. Target[m] \in Queue /\ Append(delivered[Target[m]], m) \in Seq(Message)
    BY <1>3, ConstantTypes
  <2>4. delivered' \in [Queue -> Seq(Message)]
    BY <1>3, <2>2, <2>3
  <2>5. QED
    BY <1>1, <1>2, <2>1, <2>4 DEF TypeOK, Sock
<1>8. ASSUME NEW c \in Client, TimesOut(c) PROVE TypeOK'
  <2>1. UNCHANGED <<queue, messages, state, tries, acked, accepted, via, delivered, faults>>
    BY <1>8 DEF TimesOut, relayVars
  <2>2. PICK call \in Call : Over(c, call, FALSE)
    BY <1>3, <1>8, RejectsOf DEF TimesOut
  <2>3. /\ calls' \in [Client -> SUBSET Call] /\ subscribed' \in [Client -> SUBSET Queue]
        /\ address' \in [Queue -> {"none", "creating", "shared", "failed"}]
        /\ outcome' \in [Message -> {"none", "waiting", "sent", "failed"}]
    BY <1>2, <2>2, OverTypes
  <2>4. QED
    BY <1>1, <1>2, <2>1, <2>3 DEF TypeOK, Sock
<1>9. ASSUME NEW c \in Client, NEW call \in Call, Rpc(sock, c, {}, call)
      PROVE  calls' \in [Client -> SUBSET Call]
  BY <1>3, <1>9 DEF Rpc
<1>10. ASSUME NEW q \in Queue, Create(q) PROVE TypeOK'
  <2>1. /\ UNCHANGED <<queue, messages, state, tries, acked, accepted, via, delivered, faults>>
        /\ UNCHANGED <<subscribed, outcome>>
    BY <1>10 DEF Create, relayVars, history
  <2>2. calls' \in [Client -> SUBSET Call]
    BY <1>9, <1>10, FrameTypes, ConstantTypes DEF Create
  <2>3. address' \in [Queue -> {"none", "creating", "shared", "failed"}]
    BY <1>3, <1>10 DEF Create
  <2>4. QED
    BY <1>1, <1>2, <2>1, <2>2, <2>3 DEF TypeOK, Sock
<1>11. ASSUME NEW q \in Queue, Accept(q) PROVE TypeOK'
  <2>1. /\ UNCHANGED <<queue, messages, state, acked, accepted, via, delivered, faults>>
        /\ UNCHANGED <<subscribed, outcome, address>>
    BY <1>11 DEF Accept, relayVars, history
  <2>2. tries[q] + 1 \in 0..MaxTries
    BY <1>3, <1>11, ConstantTypes DEF Accept
  <2>3. calls' \in [Client -> SUBSET Call]
    BY <1>9, <1>11, <2>2, FrameTypes, ConstantTypes DEF Accept
  <2>4. tries' \in [Queue -> 0..MaxTries]
    BY <1>3, <1>11, <2>2 DEF Accept
  <2>5. QED
    BY <1>1, <1>2, <2>1, <2>3, <2>4 DEF TypeOK, Sock
<1>12. ASSUME NEW m \in Message, SendMessage(m) PROVE TypeOK'
  <2>1. /\ UNCHANGED <<queue, messages, state, tries, acked, accepted, delivered, faults>>
        /\ UNCHANGED <<subscribed, address>>
    BY <1>12 DEF SendMessage, relayVars
  <2>2. Sender[Target[m]] \in Client
    BY ConstantTypes
  <2>3. calls' \in [Client -> SUBSET Call]
    BY <1>9, <1>12, <2>2, FrameTypes DEF SendMessage
  <2>4. outcome' \in [Message -> {"none", "waiting", "sent", "failed"}]
    BY <1>3, <1>12 DEF SendMessage
  <2>5. via' \in [Message -> [sent : Socket \cup {None}, pushed : Socket \cup {None}]]
    BY <1>3, <1>12, <2>2, ZenonT(60) DEF SendMessage
  <2>6. QED
    BY <1>1, <1>2, <2>1, <2>3, <2>4, <2>5 DEF TypeOK, Sock
<1>13. ASSUME NEW m \in Message, Acknowledge(m) PROVE TypeOK'
  <2>1. /\ UNCHANGED <<queue, messages, state, tries, accepted, via, delivered, faults>>
        /\ UNCHANGED <<subscribed, outcome, address>>
    BY <1>13 DEF Acknowledge, relayVars, history
  <2>2. calls' \in [Client -> SUBSET Call]
    BY <1>9, <1>13, FrameTypes, ConstantTypes DEF Acknowledge
  <2>3. acked' = acked \cup {m}
    BY <1>13 DEF Acknowledge
  <2>4. QED
    BY <1>1, <1>2, <2>1, <2>2, <2>3 DEF TypeOK, Sock
<1>14. QED
  BY <1>5, <1>6, <1>7, <1>8, <1>10, <1>11, <1>12, <1>13 DEF Talks, ClientTalks

ClientTypes ==
  /\ ws \in [Client -> Socket \cup {None}]
  /\ state \in [Client -> {"disconnected", "connecting", "connected"}]
  /\ timers \in [Client -> Nat]
  /\ bridge \in [Client -> {"off", "starting", "on", "stopped"}]
  /\ faults \in 0..MaxFaults

LEMMA ConnectsKeepTypes ==
  ASSUME Base, Connects
  PROVE  TypeOK'
<1>1. sock' \in [Socket -> Sock] /\ calls' = calls /\ subscribed' = subscribed /\ address' = address
      /\ outcome' = outcome /\ accepted' = accepted /\ via' = via /\ delivered' = delivered
  BY ConnectsFade DEF Fading
<1>2. TypeOK
  BY DEF Base
<1>3. queue' \in [Queue -> Record \cup {None}] /\ messages' \subseteq Message /\ tries' = tries /\ acked' = acked
  <2>1. UNCHANGED <<queue, messages, tries, acked>> => queue' \in [Queue -> Record \cup {None}] /\ messages' \subseteq Message
    BY <1>2 DEF TypeOK
  <2>2. ASSUME NEW s \in Socket, RelayClosed(s)
        PROVE  queue' \in [Queue -> Record \cup {None}]
    <3>1. \A q \in Queue : queue[q] # None => [queue[q] EXCEPT !.subscriber = None] \in Record
      BY <1>2, RecordTypes DEF TypeOK
    <3>2. QED
      BY <1>2, <2>2, <3>1 DEF RelayClosed, Unsubscribe, TypeOK
  <2>3. ASSUME NEW s \in Socket, RelayClosed(s)
        PROVE  messages' \subseteq Message /\ tries' = tries /\ acked' = acked
    BY <1>2, <2>3 DEF RelayClosed, TypeOK, userVars
  <2>4. ASSUME Restart PROVE queue' \in [Queue -> Record \cup {None}] /\ messages' \subseteq Message /\ tries' = tries /\ acked' = acked
    BY <2>4 DEF Restart, userVars
  <2>5. ASSUME ~Restart, \A s \in Socket : ~RelayClosed(s) PROVE UNCHANGED <<queue, messages, tries, acked>>
    BY <2>5 DEF Connects, RelayClosing, Opens, DialFails, ClientClosed, Cut, Initialize, TimerFires, Shutdown,
                relayVars, userVars
  <2>6. QED
    BY <2>1, <2>2, <2>3, <2>4, <2>5
<1>4. ClientTypes'
  <2>1. /\ ws \in [Client -> Socket \cup {None}]
        /\ state \in [Client -> {"disconnected", "connecting", "connected"}]
        /\ timers \in [Client -> Nat]
        /\ bridge \in [Client -> {"off", "starting", "on", "stopped"}]
        /\ faults \in 0..MaxFaults /\ MaxFaults \in Nat
    BY <1>2, ConstantTypes DEF TypeOK
  <2>2. ASSUME NEW s \in Socket, RelayClosing(s) \/ RelayClosed(s)
        PROVE  UNCHANGED <<ws, state, timers, bridge, faults>>
    BY <2>2 DEF RelayClosing, RelayClosed, clientVars
  <2>3. ASSUME NEW s \in Socket, Opens(s) PROVE ClientTypes'
    <3>1. sock[s].owner \in Client
      BY <2>3, OpensOf
    <3>2. QED
      BY <2>1, <2>3, <3>1 DEF Opens, ClientTypes
  <2>4. ASSUME NEW s \in Socket, DialFails(s) \/ ClientClosed(s) PROVE ClientTypes'
    <3>1. sock[s].owner \in Client
      BY <2>4, DialFailsOf, ClientClosedOf
    <3>2. /\ ws' = [ws EXCEPT ![sock[s].owner] = None] /\ state' = [state EXCEPT ![sock[s].owner] = "disconnected"]
          /\ timers' = [timers EXCEPT ![sock[s].owner] = @ + 1] /\ faults' = faults
          /\ bridge' = bridge \/ bridge' = [bridge EXCEPT ![sock[s].owner] = IF @ = "starting" THEN "stopped" ELSE @]
      BY <2>4 DEF DialFails, ClientClosed, OnClose
    <3>3. QED
      BY <2>1, <3>1, <3>2 DEF ClientTypes
  <2>5. ASSUME NEW s \in Socket, Cut(s) PROVE ClientTypes'
    BY <2>1, <2>5 DEF Cut, Faulty, clientVars, ClientTypes
  <2>6. ASSUME NEW c \in Client, Initialize(c) PROVE ClientTypes'
    BY <2>1, <2>6 DEF Initialize, Dial, ClientTypes
  <2>7. ASSUME NEW c \in Client, TimerFires(c) PROVE ClientTypes'
    <3>1. timers[c] - 1 \in Nat
      BY <2>1, <2>7 DEF TimerFires, ClientTypes
    <3>2. QED
      BY <2>1, <2>7, <3>1 DEF TimerFires, Dial, ClientTypes
  <2>8. ASSUME NEW c \in Client, Shutdown(c) PROVE ClientTypes'
    <3>1. /\ ws' = [ws EXCEPT ![c] = None] /\ state' = [state EXCEPT ![c] = "disconnected"]
          /\ timers' = timers /\ bridge' = [bridge EXCEPT ![c] = "stopped"] /\ faults' \in 0..MaxFaults
      BY <2>1, <2>8 DEF Shutdown, Faulty
    <3>2. QED
      BY <2>1, <3>1 DEF ClientTypes
  <2>9. ASSUME Restart PROVE ClientTypes'
    <3>1. UNCHANGED <<ws, state, timers, bridge>>
      BY <2>9 DEF Restart, clientVars
    <3>2. faults < MaxFaults /\ faults' = faults + 1
      BY <2>9 DEF Restart, Faulty
    <3>3. QED
      BY <2>1, <3>1, <3>2 DEF ClientTypes
  <2>10. QED
    BY <2>1, <2>2, <2>3, <2>4, <2>5, <2>6, <2>7, <2>8, <2>9 DEF Connects, ClientTypes
<1>5. QED
  BY <1>1, <1>2, <1>3, <1>4 DEF TypeOK, Sock, ClientTypes
LEMMA TalksKeepSockets ==
  ASSUME Base, LiveInv, Talks
  PROVE  SockInv' /\ WsInv' /\ LiveInv'
<1>1. KeepsEnds
  BY TalksKeepEnds
<1>2. SockInv'
  BY <1>1 DEF Base, KeepsEnds, SameEnds, SockInv, Dead
<1>3. WsInv'
  <2>1. \A c \in Client : ws[c] # None => ws[c] \in Socket
    BY Types DEF Base
  <2>2. QED
    BY <1>1, <2>1 DEF Base, KeepsEnds, SameEnds, WsInv
<1>4. LiveInv'
  BY <1>1 DEF KeepsEnds, SameEnds, LiveInv, Live
<1>5. QED
  BY <1>2, <1>3, <1>4

\* SockInv, for one socket.
Matched(s) ==
  /\ (sock[s].owner = None) <=> (sock[s].client = "none")
  /\ (sock[s].client \in {"none", "connecting"}) <=> (sock[s].relay = "none")
  /\ sock[s].relay = "none" \/ sock[s].cut => sock[s].up = <<>> /\ sock[s].down = <<>>
  /\ sock[s].relay = "none" => ~sock[s].cut
  /\ sock[s].relay \in {"closing", "closed"} => Dead(s)

LEMMA OneMatched ==
  ASSUME Base, NEW s \in Socket, OneSocket(s), Matched(s)'
  PROVE  SockInv'
BY DEF Base, SockInv, OneSocket, Matched, Dead

LEMMA ConnectsMatch ==
  ASSUME Base, Connects
  PROVE  SockInv'
<1>0. \A s \in Socket : Matched(s) /\ sock[s].owner \in Client \cup {None}
  BY Types DEF Base, SockInv, Matched
<1>1. ASSUME NEW s \in Socket, RelayClosing(s) PROVE SockInv'
  <2>1. Matched(s)'
    BY <1>0, <1>1, RelayClosingOf DEF Matched, Dead
  <2>2. QED
    BY <1>1, <2>1, RelayClosingOf, OneMatched
<1>2. ASSUME NEW s \in Socket, RelayClosed(s) PROVE SockInv'
  <2>1. Matched(s)'
    BY <1>0, <1>2, RelayClosedOf DEF Matched, Dead
  <2>2. QED
    BY <1>2, <2>1, RelayClosedOf, OneMatched
<1>3. ASSUME NEW s \in Socket, Opens(s) PROVE SockInv'
  <2>1. Matched(s)'
    BY <1>0, <1>3, OpensOf DEF Matched, Dead
  <2>2. QED
    BY <1>3, <2>1, OpensOf, OneMatched
<1>4. ASSUME NEW s \in Socket, DialFails(s) PROVE SockInv'
  <2>1. Matched(s)'
    BY <1>4, DialFailsOf DEF Matched, Dead, Closed
  <2>2. QED
    BY <1>4, <2>1, DialFailsOf, OneMatched
<1>5. ASSUME NEW s \in Socket, ClientClosed(s) PROVE SockInv'
  <2>1. Matched(s)'
    BY <1>0, <1>5, ClientClosedOf DEF Matched, Dead
  <2>2. QED
    BY <1>5, <2>1, ClientClosedOf, OneMatched
<1>6. ASSUME NEW s \in Socket, Cut(s) PROVE SockInv'
  <2>1. Matched(s)'
    BY <1>0, <1>6, CutOf DEF Matched, Dead
  <2>2. QED
    BY <1>6, <2>1, CutOf, OneMatched
<1>7. ASSUME NEW c \in Client, Dial(c) PROVE SockInv'
  <2>1. PICK s \in Socket : /\ OneSocket(s) /\ sock'[s].owner = c /\ sock'[s].client = "connecting"
                            /\ sock'[s].relay = "none" /\ ~sock'[s].cut
                            /\ sock'[s].up = <<>> /\ sock'[s].down = <<>>
    BY <1>7, DialOf
  <2>2. Matched(s)'
    BY <2>1, ConstantTypes DEF Matched, Dead
  <2>3. QED
    BY <2>1, <2>2, OneMatched
<1>8. sock' = sock => SockInv'
  BY DEF Base, SockInv, Dead
<1>9. ASSUME NEW c \in Client, Shutdown(c) PROVE SockInv'
  <2>1. CASE ws[c] = None
    <3>1. sock' \in [Socket -> Sock] /\ \A r \in Socket : sock'[r] = sock[r]
      BY <1>9, <2>1, ShutdownOf, ConstantTypes
    <3>2. QED
      BY <1>8, <3>1, Types DEF Base
  <2>2. CASE ws[c] # None
    <3>1. PICK s \in Socket : /\ s = ws[c] /\ OneSocket(s)
                              /\ sock'[s].owner = sock[s].owner /\ sock'[s].client = "closing"
                              /\ sock'[s].relay = sock[s].relay /\ sock'[s].cut = sock[s].cut
                              /\ sock'[s].down = sock[s].down
                              /\ sock[s].cut => sock'[s].up = sock[s].up
      BY <1>9, <2>2, ShutdownOf DEF OneSocket
    <3>2. sock[s].client = "open"
      BY <2>2, <3>1 DEF Base, WsInv
    <3>3. Matched(s)'
      BY <1>0, <3>1, <3>2 DEF Matched, Dead
    <3>4. QED
      BY <3>1, <3>3, OneMatched
  <2>3. QED
    BY <2>1, <2>2
<1>10. ASSUME Restart PROVE SockInv'
  BY <1>0, <1>10, RestartOf DEF SockInv, Matched, Dead
<1>11. QED
  BY <1>1, <1>2, <1>3, <1>4, <1>5, <1>6, <1>7, <1>8, <1>9, <1>10 DEF Connects, Initialize, TimerFires

\* Only the sockets of client c change sides: before and after, it has at most one socket
\* or timer.
LEMMA ConnectsKeepOne ==
  ASSUME Base, LiveInv, Connects
  PROVE  WsInv' /\ LiveInv'
<1>0. /\ \A r \in Socket : sock[r].owner \in Client \cup {None} /\ (sock[r].owner = None <=> sock[r].client = "none")
      /\ \A c \in Client : ws[c] # None => ws[c] \in Socket
      /\ ws \in [Client -> Socket \cup {None}] /\ timers \in [Client -> Nat]
      /\ bridge \in [Client -> {"off", "starting", "on", "stopped"}]
  BY Types DEF Base, SockInv, TypeOK
\* The ends that count stay.
<1>1. ASSUME \A r \in Socket : sock'[r].owner = sock[r].owner /\ sock'[r].client = sock[r].client,
             ws' = ws, timers' = timers, bridge' = bridge
      PROVE  WsInv' /\ LiveInv'
  BY <1>0, <1>1 DEF Base, WsInv, LiveInv, Live
<1>2. ASSUME NEW s \in Socket, RelayClosing(s) \/ RelayClosed(s) \/ Cut(s) PROVE WsInv' /\ LiveInv'
  <2>1. ws' = ws /\ timers' = timers /\ bridge' = bridge
    BY <1>2 DEF RelayClosing, RelayClosed, Cut, clientVars
  <2>2. OneSocket(s) /\ sock'[s].owner = sock[s].owner /\ sock'[s].client = sock[s].client
    BY <1>2, RelayClosingOf, RelayClosedOf, CutOf
  <2>3. QED
    BY <1>1, <2>1, <2>2 DEF OneSocket
<1>3. ASSUME Restart PROVE WsInv' /\ LiveInv'
  <2>1. ws' = ws /\ timers' = timers /\ bridge' = bridge
    BY <1>3 DEF Restart, clientVars
  <2>2. QED
    BY <1>1, <1>3, <2>1, RestartOf
<1>4. ASSUME NEW s \in Socket, Opens(s) PROVE WsInv' /\ LiveInv'
  <2>1. /\ OneSocket(s)
        /\ sock[s].client = "connecting" /\ sock[s].owner \in Client
        /\ sock'[s].owner = sock[s].owner /\ sock'[s].client = "open"
    BY <1>4, OpensOf
  <2>2. PICK c \in Client : c = sock[s].owner
    BY <2>1
  <2>3. /\ ws' = [ws EXCEPT ![c] = s] /\ timers' = timers
        /\ bridge' = [bridge EXCEPT ![c] = IF @ = "starting" THEN "on" ELSE @]
    BY <1>4, <2>2 DEF Opens
  <2>4. \A t \in Socket : t # s /\ sock[t].owner = c => ~Live(t)
    BY <2>1, <2>2 DEF LiveInv, Live
  <2>5. WsInv'
    BY <1>0, <2>1, <2>2, <2>3, <2>4 DEF Base, WsInv, OneSocket, Live
  <2>6. \A d \in Client : bridge'[d] = "off" <=> bridge[d] = "off"
    BY <1>0, <2>3
  <2>7. LiveInv'
    BY <2>1, <2>2, <2>3, <2>6 DEF LiveInv, Live, OneSocket
  <2>8. QED
    BY <2>5, <2>7
<1>5. ASSUME NEW s \in Socket, NEW c \in Client, c = sock[s].owner, Live(s), OneSocket(s),
             sock'[s].client \notin {"connecting", "open", "closing"},
             ws' = [ws EXCEPT ![c] = None], timers' = [timers EXCEPT ![c] = @ + 1],
             \A d \in Client : bridge'[d] = "off" <=> bridge[d] = "off"
      PROVE  WsInv' /\ LiveInv'
  <2>1. \A t \in Socket : t # s /\ sock[t].owner = c => ~Live(t)
    BY <1>5 DEF LiveInv
  <2>2. timers[c] = 0 /\ bridge[c] # "off"
    BY <1>0, <1>5 DEF LiveInv
  <2>3. timers'[c] = 1 /\ \A d \in Client : d # c => timers'[d] = timers[d]
    BY <1>0, <1>5, <2>2
  <2>4. ws'[c] = None /\ \A d \in Client : d # c => ws'[d] = ws[d]
    BY <1>0, <1>5
  <2>5. WsInv'
    <3>1. ASSUME NEW t \in Socket, sock'[t].client = "open" PROVE ws'[sock'[t].owner] = t
      <4>1. t # s /\ sock'[t] = sock[t] /\ Live(t)
        BY <1>5, <3>1 DEF OneSocket, Live
      <4>2. sock[t].owner # c /\ sock[t].owner \in Client
        BY <1>0, <2>1, <3>1, <4>1
      <4>3. QED
        BY <2>4, <3>1, <4>1, <4>2 DEF Base, WsInv
    <3>2. ASSUME NEW d \in Client, ws'[d] # None PROVE sock'[ws'[d]].client = "open" /\ sock'[ws'[d]].owner = d
      <4>1. d # c /\ ws'[d] = ws[d]
        BY <2>4, <3>2
      <4>2. ws[d] \in Socket /\ sock[ws[d]].client = "open" /\ sock[ws[d]].owner = d
        BY <1>0, <3>2, <4>1 DEF Base, WsInv
      <4>3. sock'[ws[d]] = sock[ws[d]]
        BY <1>5, <4>1, <4>2 DEF OneSocket
      <4>4. QED
        BY <4>1, <4>2, <4>3
    <3>3. QED
      BY <3>1, <3>2 DEF WsInv
  <2>6. LiveInv'
    <3>1. \A t \in Socket : Live(t)' => t # s /\ sock'[t] = sock[t] /\ Live(t) /\ sock[t].owner # c
      BY <1>5, <2>1 DEF OneSocket, Live
    <3>2. QED
      BY <1>5, <2>2, <2>3, <3>1 DEF LiveInv
  <2>7. QED
    BY <2>5, <2>6
<1>6. ASSUME NEW s \in Socket, DialFails(s) PROVE WsInv' /\ LiveInv'
  <2>1. OneSocket(s) /\ sock'[s] = Closed /\ sock[s].client = "connecting" /\ sock[s].owner \in Client
    BY <1>6, DialFailsOf
  <2>2. PICK c \in Client : c = sock[s].owner
    BY <2>1
  <2>3. /\ ws' = [ws EXCEPT ![c] = None] /\ timers' = [timers EXCEPT ![c] = @ + 1]
        /\ bridge' = [bridge EXCEPT ![c] = IF @ = "starting" THEN "stopped" ELSE @]
    BY <1>6, <2>2 DEF DialFails, OnClose
  <2>4. \A d \in Client : bridge'[d] = "off" <=> bridge[d] = "off"
    BY <1>0, <2>3
  <2>5. Live(s) /\ sock'[s].client \notin {"connecting", "open", "closing"}
    BY <2>1 DEF Live, Closed
  <2>6. QED
    BY <1>5, <2>1, <2>2, <2>3, <2>4, <2>5
<1>7. ASSUME NEW s \in Socket, ClientClosed(s) PROVE WsInv' /\ LiveInv'
  <2>1. OneSocket(s) /\ sock'[s].client = "closed" /\ sock[s].client \in {"open", "closing"} /\ sock[s].owner \in Client
    BY <1>7, ClientClosedOf
  <2>2. PICK c \in Client : c = sock[s].owner
    BY <2>1
  <2>3. ws' = [ws EXCEPT ![c] = None] /\ timers' = [timers EXCEPT ![c] = @ + 1] /\ bridge' = bridge
    BY <1>7, <2>2 DEF ClientClosed, OnClose
  <2>4. Live(s) /\ sock'[s].client \notin {"connecting", "open", "closing"}
    BY <2>1 DEF Live
  <2>5. QED
    BY <1>5, <2>1, <2>2, <2>3, <2>4
\* A new socket, of a client that had none.
<1>8. ASSUME NEW c \in Client, Dial(c), \A t \in Socket : sock[t].owner = c => ~Live(t), ws' = ws,
             timers'[c] = 0, bridge'[c] # "off",
             \A d \in Client : d # c => timers'[d] = timers[d] /\ bridge'[d] = bridge[d]
      PROVE  WsInv' /\ LiveInv'
  <2>1. PICK s \in Socket : /\ OneSocket(s) /\ sock[s] = Closed
                            /\ sock'[s].owner = c /\ sock'[s].client = "connecting"
    BY <1>8, DialOf
  <2>2. sock[s].client = "none"
    BY <2>1 DEF Closed
  <2>3. WsInv'
    BY <1>0, <1>8, <2>1, <2>2 DEF Base, WsInv, OneSocket
  <2>4. \A t \in Socket : Live(t)' => t = s \/ (t # s /\ sock'[t] = sock[t] /\ Live(t) /\ sock[t].owner # c)
    BY <1>8, <2>1 DEF OneSocket, Live
  <2>5. LiveInv'
    <3>1. \A t, r \in Socket : Live(t)' /\ Live(r)' /\ sock'[t].owner = sock'[r].owner => t = r
      BY <2>1, <2>4 DEF LiveInv
    <3>2. \A d \in Client : timers'[d] > 0 \/ bridge'[d] = "off" => \A t \in Socket : sock'[t].owner = d => ~Live(t)'
      BY <1>8, <2>1, <2>4 DEF LiveInv
    <3>3. \A d \in Client : timers'[d] \in {0, 1} /\ (bridge'[d] = "off" => timers'[d] = 0)
      BY <1>8 DEF LiveInv
    <3>4. QED
      BY <3>1, <3>2, <3>3 DEF LiveInv, Live
  <2>6. QED
    BY <2>3, <2>5
<1>9. ASSUME NEW c \in Client, Initialize(c) PROVE WsInv' /\ LiveInv'
  <2>1. bridge[c] = "off" /\ Dial(c) /\ ws' = ws /\ timers' = timers /\ bridge' = [bridge EXCEPT ![c] = "starting"]
    BY <1>9 DEF Initialize
  <2>2. timers[c] = 0 /\ \A t \in Socket : sock[t].owner = c => ~Live(t)
    BY <2>1 DEF LiveInv
  <2>3. QED
    BY <1>0, <1>8, <2>1, <2>2
<1>10. ASSUME NEW c \in Client, TimerFires(c) PROVE WsInv' /\ LiveInv'
  <2>1. timers[c] > 0 /\ timers' = [timers EXCEPT ![c] = @ - 1] /\ ws' = ws /\ bridge' = bridge /\ (sock' = sock \/ Dial(c))
    BY <1>10 DEF TimerFires
  <2>2. timers[c] = 1 /\ bridge[c] # "off" /\ \A t \in Socket : sock[t].owner = c => ~Live(t)
    BY <1>0, <2>1 DEF LiveInv
  <2>3. timers'[c] = 0 /\ \A d \in Client : d # c => timers'[d] = timers[d]
    BY <1>0, <2>1, <2>2
  <2>4. CASE sock' = sock
    <3>1. WsInv'
      BY <2>1, <2>4 DEF Base, WsInv
    <3>2. LiveInv'
      BY <2>1, <2>2, <2>3, <2>4 DEF LiveInv, Live
    <3>3. QED
      BY <3>1, <3>2
  <2>5. QED
    BY <1>8, <2>1, <2>2, <2>3, <2>4
<1>11. ASSUME NEW c \in Client, Shutdown(c) PROVE WsInv' /\ LiveInv'
  <2>1. /\ sock' \in [Socket -> Sock] /\ bridge[c] = "on"
        /\ ws' = [ws EXCEPT ![c] = None] /\ bridge' = [bridge EXCEPT ![c] = "stopped"]
        /\ \A r \in Socket : r # ws[c] => sock'[r] = sock[r]
        /\ ws[c] # None => ws[c] \in Socket /\ sock'[ws[c]].owner = sock[ws[c]].owner /\ sock'[ws[c]].client = "closing"
    BY <1>11, ShutdownOf
  <2>2. timers' = timers
    BY <1>11 DEF Shutdown
  <2>3. ws'[c] = None /\ \A d \in Client : d # c => ws'[d] = ws[d]
    BY <1>0, <2>1
  <2>4. \A r \in Socket : /\ sock'[r].owner = sock[r].owner
                          /\ sock'[r].client = "open" => sock[r].client = "open" /\ r # ws[c]
                          /\ r # ws[c] => sock'[r] = sock[r]
                          /\ Live(r)' => Live(r)
    <3>1. ASSUME NEW r \in Socket, r = ws[c]
          PROVE  sock'[r].owner = sock[r].owner /\ sock'[r].client = "closing" /\ Live(r)
      BY <2>1, <3>1, ConstantTypes DEF Base, WsInv, Live
    <3>2. QED
      BY <2>1, <3>1 DEF Live
  <2>5. \A d \in Client : bridge'[d] = "off" <=> bridge[d] = "off"
    BY <1>0, <2>1
  <2>6. WsInv'
    <3>1. ASSUME NEW t \in Socket, sock'[t].client = "open" PROVE ws'[sock'[t].owner] = t
      <4>1. ws[sock[t].owner] = t /\ sock[t].owner # c /\ sock[t].owner \in Client /\ sock'[t].owner = sock[t].owner
        BY <1>0, <2>4, <3>1 DEF Base, WsInv
      <4>2. QED
        BY <2>3, <4>1
    <3>2. ASSUME NEW d \in Client, ws'[d] # None PROVE sock'[ws'[d]].client = "open" /\ sock'[ws'[d]].owner = d
      <4>1. d # c /\ ws'[d] = ws[d]
        BY <2>3, <3>2
      <4>2. ws[d] \in Socket /\ sock[ws[d]].client = "open" /\ sock[ws[d]].owner = d
        BY <1>0, <3>2, <4>1 DEF Base, WsInv
      <4>3. ws[d] # ws[c]
        <5>1. ws[c] # None => sock[ws[c]].owner = c
          BY DEF Base, WsInv
        <5>2. QED
          BY <3>2, <4>1, <4>2, <5>1
      <4>4. QED
        BY <2>1, <4>1, <4>2, <4>3
    <3>3. QED
      BY <3>1, <3>2 DEF WsInv
  <2>7. LiveInv'
    BY <2>2, <2>4, <2>5 DEF LiveInv
  <2>8. QED
    BY <2>6, <2>7
<1>12. QED
  BY <1>2, <1>3, <1>4, <1>6, <1>7, <1>9, <1>10, <1>11 DEF Connects
-----------------------------------------------------------------------------
(* What a step leaves alone                                                *)

LEMMA RelayKeeps ==
  ASSUME NEW s \in Socket, RelayTalks(s)
  PROVE  UNCHANGED <<state, subscribed, calls, address, tries, outcome, acked, wiped, late, delivered, faults>>
<1>1. CASE NotFound(s)
  BY <1>1 DEF NotFound, clientVars, userVars, history
<1>2. CASE RelayNew(s)
  BY <1>2 DEF RelayNew, clientVars, userVars, history
<1>3. CASE RelaySub(s)
  BY <1>3 DEF RelaySub, clientVars, userVars
<1>4. CASE RelaySend(s)
  BY <1>4 DEF RelaySend, clientVars, userVars
<1>5. CASE RelayAck(s)
  BY <1>5 DEF RelayAck, clientVars, userVars, history
<1>6. QED
  BY <1>1, <1>2, <1>3, <1>4, <1>5 DEF RelayTalks

\* Client c makes a call for one of its users.
Creates(c, call, q) ==
  /\ call = New(q) /\ c = Creator[q] /\ address[q] = "none"
  /\ address' = [address EXCEPT ![q] = "creating"] /\ outcome' = outcome /\ via' = via
Accepts(c, call, q) ==
  /\ call.cmd = "SUB" /\ call.queue = q /\ c = Recipient[q] /\ address[q] = "shared"
  /\ address' = address /\ outcome' = outcome /\ via' = via
Sends(c, call, m) ==
  /\ call = Send(m) /\ c = Sender[Target[m]] /\ outcome[m] = "none"
  /\ \A n \in Message : n < m /\ Target[n] = Target[m] => outcome[n] # "none"
  /\ outcome' = [outcome EXCEPT ![m] = "waiting"]
  /\ via' = [via EXCEPT ![m].sent = ws[c]] /\ address' = address
Acknowledges(c, call, m) ==
  /\ call = AckOf(m) /\ c = Recipient[Target[m]] /\ Delivered(m)
  /\ address' = address /\ outcome' = outcome /\ via' = via

Calls(c, call) ==
  /\ Called(c, call) /\ subscribed' = subscribed /\ late' = late /\ delivered' = delivered
  /\ \/ \E q \in Queue : Creates(c, call, q) \/ Accepts(c, call, q)
     \/ \E m \in Message : Sends(c, call, m) \/ Acknowledges(c, call, m)

GivesUp(c, call) ==
  /\ call \in calls[c] /\ Over(c, call, FALSE) /\ sock' = sock
  /\ late' = IF call.cmd = "SUB" THEN late \cup {call.queue} ELSE late
  /\ via' = via /\ delivered' = delivered

\* The client of socket s gets answer f.
HearsAnswer(s, c, f) ==
  /\ c = sock[s].owner /\ ws[c] = s /\ Taken(s, f) /\ f.cmd \in {"OK", "ERR"} /\ f.call \in Call
  /\ \/ f.call \in calls[c] /\ f.cmd = "OK" /\ Continued(c, f.call) /\ Written(c, Request(Sub(f.call.queue, 0)))
     \/ f.call \in calls[c] /\ Over(c, f.call, f.cmd = "OK") /\ UpsSame
     \/ f.call \notin calls[c] /\ UNCHANGED <<calls, subscribed, address, outcome>> /\ UpsSame
  /\ via' = via /\ late' = late /\ delivered' = delivered

\* The client of socket s gets message m.
HearsMsg(s, c, m) ==
  /\ c = sock[s].owner /\ ws[c] = s /\ c = Recipient[Target[m]] /\ Taken(s, Msg(m))
  /\ \/ /\ Target[m] \in subscribed[c] /\ delivered' = [delivered EXCEPT ![Target[m]] = Append(@, m)]
        /\ Written(c, Ack(m))
     \/ Target[m] \notin subscribed[c] /\ delivered' = delivered /\ UpsSame
  /\ UNCHANGED <<calls, subscribed, address, outcome, via, late>>

LEMMA ClientCases ==
  ASSUME Base, ClientTalks
  PROVE  /\ UNCHANGED <<queue, messages, accepted, wiped>>
         /\ \/ \E s \in Socket, c \in Client, f \in Frame : HearsAnswer(s, c, f)
            \/ \E s \in Socket, c \in Client, m \in Message : HearsMsg(s, c, m)
            \/ \E c \in Client, call \in Call : GivesUp(c, call) \/ Calls(c, call)
<1>1. ASSUME NEW s \in Socket, GetsAnswer(s)
      PROVE  UNCHANGED <<queue, messages, accepted, wiped>> /\ \E c \in Client, f \in Frame : HearsAnswer(s, c, f)
  <2>1. UNCHANGED <<queue, messages, accepted, wiped, via, late, delivered>>
    BY <1>1 DEF GetsAnswer, relayVars, history
  <2>2. PICK f \in Frame, c \in Client :
          /\ c = sock[s].owner /\ ws[c] = s /\ Taken(s, f) /\ f.cmd \in {"OK", "ERR"} /\ f.call \in Call
          /\ \/ /\ f.call \in calls[c] /\ f.cmd = "OK"
                /\ Continued(c, f.call) /\ Written(c, Request(Sub(f.call.queue, 0)))
             \/ /\ f.call \in calls[c]
                /\ Over(c, f.call, f.cmd = "OK") /\ UpsSame
             \/ /\ f.call \notin calls[c]
                /\ UNCHANGED <<calls, subscribed, address, outcome>> /\ UpsSame
    BY <1>1, GetsAnswerOf
  <2>3. QED
    BY <2>1, <2>2 DEF HearsAnswer
<1>2. ASSUME NEW s \in Socket, GetsMsg(s)
      PROVE  UNCHANGED <<queue, messages, accepted, wiped>> /\ \E c \in Client, m \in Message : HearsMsg(s, c, m)
  <2>1. UNCHANGED <<queue, messages, accepted, wiped, calls, subscribed, address, outcome, via, late>>
    BY <1>2 DEF GetsMsg, relayVars, clientVars, userVars, history
  <2>2. PICK m \in Message, c \in Client :
          /\ c = sock[s].owner /\ ws[c] = s /\ c = Recipient[Target[m]] /\ Taken(s, Msg(m))
          /\ \/ /\ Target[m] \in subscribed[c] /\ delivered' = [delivered EXCEPT ![Target[m]] = Append(@, m)]
                /\ Written(c, Ack(m))
             \/ /\ Target[m] \notin subscribed[c] /\ delivered' = delivered
                /\ sock' \in [Socket -> Sock]
                /\ \A r \in Socket : SameEnds(sock', sock, r) /\ sock'[r].up = sock[r].up
    BY <1>2, GetsMsgOf
  <2>3. QED
    BY <2>1, <2>2 DEF HearsMsg, UpsSame
<1>3. ASSUME NEW c \in Client, TimesOut(c)
      PROVE  UNCHANGED <<queue, messages, accepted, wiped>> /\ \E call \in Call : GivesUp(c, call)
  <2>1. UNCHANGED <<queue, messages, accepted, wiped, via, delivered>>
    BY <1>3 DEF TimesOut, relayVars, Rejects
  <2>2. PICK call \in calls[c] : /\ Rejects(sock, c, call)
                                 /\ late' = IF call.cmd = "SUB" THEN late \cup {call.queue} ELSE late
    BY <1>3 DEF TimesOut
  <2>3. call \in Call
    BY Types DEF Base
  <2>4. Over(c, call, FALSE) /\ sock' = sock
    BY <2>2, <2>3, RejectsOf
  <2>5. wiped' = wiped
    BY <2>1
  <2>6. QED
    BY <2>1, <2>2, <2>3, <2>4 DEF GivesUp
<1>4. ASSUME NEW q \in Queue, Create(q)
      PROVE  UNCHANGED <<queue, messages, accepted, wiped>> /\ \E c \in Client, call \in Call : Calls(c, call)
  <2>1. /\ UNCHANGED <<queue, messages, accepted, wiped, subscribed, outcome, via, late, delivered>>
        /\ address[q] = "none" /\ address' = [address EXCEPT ![q] = "creating"]
        /\ Rpc(sock, Creator[q], {}, New(q))
    BY <1>4 DEF Create, relayVars, history
  <2>2. Creator[q] \in Client /\ New(q) \in Call /\ Request(New(q)) \in Frame
    BY ConstantTypes, FrameTypes
  <2>3. Called(Creator[q], New(q))
    BY <2>1, <2>2, RpcOf
  <2>4. Calls(Creator[q], New(q))
    BY <2>1, <2>3 DEF Calls, Creates
  <2>5. QED
    BY <2>1, <2>2, <2>4
<1>5. ASSUME NEW q \in Queue, Accept(q)
      PROVE  UNCHANGED <<queue, messages, accepted, wiped>> /\ \E c \in Client, call \in Call : Calls(c, call)
  <2>1. /\ UNCHANGED <<queue, messages, accepted, wiped, subscribed, address, outcome, via, late, delivered>>
        /\ address[q] = "shared"
        /\ Rpc(sock, Recipient[q], {}, Sub(q, tries[q] + 1))
    BY <1>5 DEF Accept, relayVars, history
  <2>2. tries[q] + 1 \in Nat
    BY ConstantTypes DEF Base, TypeOK
  <2>3. /\ Recipient[q] \in Client /\ Sub(q, tries[q] + 1) \in Call /\ Request(Sub(q, tries[q] + 1)) \in Frame
        /\ Sub(q, tries[q] + 1).cmd = "SUB" /\ Sub(q, tries[q] + 1).queue = q
    BY <2>2, ConstantTypes, FrameTypes DEF Sub
  <2>4. Called(Recipient[q], Sub(q, tries[q] + 1))
    BY <2>1, <2>3, RpcOf
  <2>5. Calls(Recipient[q], Sub(q, tries[q] + 1))
    BY <2>1, <2>3, <2>4 DEF Calls, Accepts
  <2>6. QED
    BY <2>1, <2>3, <2>5
<1>6. ASSUME NEW m \in Message, SendMessage(m)
      PROVE  UNCHANGED <<queue, messages, accepted, wiped>> /\ \E c \in Client, call \in Call : Calls(c, call)
  <2>1. /\ UNCHANGED <<queue, messages, accepted, wiped, subscribed, address, late, delivered>>
        /\ outcome[m] = "none"
        /\ \A n \in Message : n < m /\ Target[n] = Target[m] => outcome[n] # "none"
        /\ outcome' = [outcome EXCEPT ![m] = "waiting"]
        /\ via' = [via EXCEPT ![m].sent = ws[Sender[Target[m]]]]
        /\ Rpc(sock, Sender[Target[m]], {}, Send(m))
    BY <1>6 DEF SendMessage, relayVars
  <2>2. Sender[Target[m]] \in Client /\ Send(m) \in Call /\ Request(Send(m)) \in Frame
    BY ConstantTypes, FrameTypes
  <2>3. Called(Sender[Target[m]], Send(m))
    BY <2>1, <2>2, RpcOf
  <2>4. Calls(Sender[Target[m]], Send(m))
    BY <2>1, <2>3 DEF Calls, Sends
  <2>5. QED
    BY <2>1, <2>2, <2>4
<1>7. ASSUME NEW m \in Message, Acknowledge(m)
      PROVE  UNCHANGED <<queue, messages, accepted, wiped>> /\ \E c \in Client, call \in Call : Calls(c, call)
  <2>1. /\ UNCHANGED <<queue, messages, accepted, wiped, subscribed, address, outcome, via, late, delivered>>
        /\ Delivered(m)
        /\ Rpc(sock, Recipient[Target[m]], {}, AckOf(m))
    BY <1>7 DEF Acknowledge, relayVars, history
  <2>2. Recipient[Target[m]] \in Client /\ AckOf(m) \in Call /\ Request(AckOf(m)) \in Frame
    BY ConstantTypes, FrameTypes
  <2>3. Called(Recipient[Target[m]], AckOf(m))
    BY <2>1, <2>2, RpcOf
  <2>4. Calls(Recipient[Target[m]], AckOf(m))
    BY <2>1, <2>3 DEF Calls, Acknowledges
  <2>5. QED
    BY <2>1, <2>2, <2>4
<1>8. QED
  BY <1>1, <1>2, <1>3, <1>4, <1>5, <1>6, <1>7 DEF ClientTalks
\* The relay handles frame f of socket s: it has no such queue,
Refuses(s, f) ==
  /\ f.cmd \in {"SUB", "SEND"} /\ f.call \in Call
  /\ queue[f.call.queue] = None /\ Answered(s, "ERR", f.call)
  /\ UNCHANGED <<queue, messages, accepted, via>>
\* creates one,
Makes(s, f) ==
  /\ f.cmd = "NEW" /\ f.call \in Call
  /\ \/ queue[f.call.queue] # None /\ queue' = queue /\ Answered(s, "ERR", f.call)
     \/ /\ queue[f.call.queue] = None /\ Answered(s, "OK", f.call)
        /\ queue' = [queue EXCEPT ![f.call.queue] = [subscriber |-> None, pending |-> <<>>]]
  /\ UNCHANGED <<messages, accepted, via>>
\* makes s its subscriber,
Subscribes(s, f) ==
  /\ f.cmd = "SUB" /\ f.call \in Call
  /\ queue[f.call.queue] # None /\ queue[f.call.queue] \in Record
  /\ queue' = [queue EXCEPT ![f.call.queue] = [subscriber |-> s, pending |-> <<>>]]
  /\ Flushed(s, f.call, queue[f.call.queue].pending)
  /\ via' = [m \in Message |-> IF m \in Range(queue[f.call.queue].pending)
                                 THEN [via[m] EXCEPT !.pushed = s] ELSE via[m]]
  /\ UNCHANGED <<messages, accepted>>
\* takes message m for it, to push it to t
Passes(s, f, m, t) ==
  /\ t = queue[Target[m]].subscriber /\ sock[t].relay = "open" /\ PushedTo(s, t, f.call, m)
  /\ via' = [via EXCEPT ![m].pushed = t] /\ queue' = queue
\* or to keep it,
Keeps(s, f, m) ==
  /\ queue[Target[m]].subscriber # None => sock[queue[Target[m]].subscriber].relay # "open"
  /\ Answered(s, "OK", f.call) /\ via' = via
  /\ queue' = [queue EXCEPT ![Target[m]].pending = Append(@, m)]
Takes(s, f, m) ==
  /\ f.cmd = "SEND" /\ f.msg = m /\ f.call \in Call
  /\ queue[Target[m]] # None /\ queue[Target[m]] \in Record
  /\ messages' = messages \cup {m} /\ accepted' = accepted \cup {m}
  /\ (\E t \in Socket : Passes(s, f, m, t)) \/ Keeps(s, f, m)
\* or forgets one.
Forgets(s, f) ==
  /\ f.cmd = "ACK" /\ messages' = messages \ {f.msg}
  /\ \/ f.call = None /\ \A r \in Socket : sock'[r].down = sock[r].down
     \/ f.call \in Call /\ Answered(s, "OK", f.call)
  /\ UNCHANGED <<queue, accepted, via>>

LEMMA RelayCases ==
  ASSUME Base, NEW s \in Socket, RelayTalks(s)
  PROVE  \E f \in Frame : /\ Handled(s, f)
                          /\ \/ Refuses(s, f) \/ Makes(s, f) \/ Subscribes(s, f) \/ Forgets(s, f)
                             \/ \E m \in Message : Takes(s, f, m)
<1>1. CASE NotFound(s)
  <2>1. UNCHANGED <<queue, messages, accepted, via>>
    BY <1>1 DEF NotFound, relayVars, history
  <2>2. QED
    BY <1>1, <2>1, NotFoundOf DEF Refuses
<1>2. CASE RelayNew(s)
  <2>1. UNCHANGED <<messages, accepted, via>>
    BY <1>2 DEF RelayNew, history
  <2>2. QED
    BY <1>2, <2>1, RelayNewOf DEF Makes
<1>3. CASE RelaySub(s)
  <2>1. UNCHANGED <<messages, accepted>>
    BY <1>3 DEF RelaySub
  <2>2. QED
    BY <1>3, <2>1, RelaySubOf DEF Subscribes
<1>4. CASE RelaySend(s)
  <2>1. PICK f \in Frame, m \in Message :
           /\ Handled(s, f) /\ f.cmd = "SEND" /\ f.msg = m /\ f.call \in Call
           /\ queue[Target[m]] # None /\ queue[Target[m]] \in Record
           /\ messages' = messages \cup {m} /\ accepted' = accepted \cup {m}
           /\ \/ \E t \in Socket :
                   /\ t = queue[Target[m]].subscriber /\ sock[t].relay = "open"
                   /\ PushedTo(s, t, f.call, m)
                   /\ via' = [via EXCEPT ![m].pushed = t] /\ queue' = queue
              \/ /\ queue[Target[m]].subscriber # None =>
                      sock[queue[Target[m]].subscriber].relay # "open"
                 /\ Answered(s, "OK", f.call) /\ via' = via
                 /\ queue' = [queue EXCEPT ![Target[m]].pending = Append(@, m)]
    BY <1>4, RelaySendOf
  <2>2. Takes(s, f, m)
    BY <2>1 DEF Takes, Passes, Keeps
  <2>3. QED
    BY <2>1, <2>2
<1>5. CASE RelayAck(s)
  <2>1. UNCHANGED <<queue, accepted, via>>
    BY <1>5 DEF RelayAck, history
  <2>2. QED
    BY <1>5, <2>1, RelayAckOf DEF Forgets
<1>6. QED
  BY <1>1, <1>2, <1>3, <1>4, <1>5 DEF RelayTalks

-----------------------------------------------------------------------------
(* What only grows                                                         *)

Grows ==
  /\ \A m \in Message : outcome[m] # "none" => outcome'[m] # "none" /\ via'[m].sent = via[m].sent
  /\ \A m \in Message : Delivered(m) => Delivered(m)'
  /\ accepted \subseteq accepted'
  /\ \A m \in Message : m \in accepted /\ via[m].pushed # None => via'[m].pushed = via[m].pushed

LEMMA ViaTypes ==
  ASSUME TypeOK
  PROVE  \A m \in Message : /\ via[m] \in [sent : Socket \cup {None}, pushed : Socket \cup {None}]
                            /\ \A s : [via[m] EXCEPT !.pushed = s].sent = via[m].sent
                            /\ \A s : [via[m] EXCEPT !.pushed = s].pushed = s
                            /\ \A s : [via[m] EXCEPT !.sent = s].sent = s
                            /\ \A s : [via[m] EXCEPT !.sent = s].pushed = via[m].pushed
BY DEF TypeOK

LEMMA OverOutcome ==
  ASSUME TypeOK, NEW c \in Client, NEW call \in Call, NEW ok, Over(c, call, ok), Legit(c, call)
  PROVE  \A m \in Message : (outcome'[m] = "none") <=> (outcome[m] = "none")
<1>1. outcome \in [Message -> {"none", "waiting", "sent", "failed"}]
  BY DEF TypeOK
<1>2. CASE outcome' = outcome
  BY <1>2
<1>3. CASE call.cmd = "SEND" /\ \E how \in {"sent", "failed"} : outcome' = [outcome EXCEPT ![call.n] = how]
  BY <1>1, <1>3 DEF Legit
<1>4. QED
  BY <1>2, <1>3 DEF Over

\* A SEND of socket s is of a message that was not accepted.
LEMMA HandledSend ==
  ASSUME NEW s \in Socket, NEW f, Handled(s, f), f.cmd = "SEND"
  PROVE  /\ f.msg \in Message /\ f.msg \notin accepted /\ via[f.msg].sent = s
         /\ outcome[f.msg] # "none" /\ f.call.queue = Target[f.msg]
BY DEF Handled, Holds, Legit

LEMMA DeliveredGrows ==
  ASSUME TypeOK, NEW q \in Queue, NEW m \in Message, delivered' = [delivered EXCEPT ![q] = Append(@, m)]
  PROVE  /\ \A n \in Message : Delivered(n) => Delivered(n)'
         /\ \A p \in Queue : Range(delivered'[p]) = Range(delivered[p]) \cup IF p = q THEN {m} ELSE {}
         /\ \A p \in Queue : p # q => delivered'[p] = delivered[p]
         /\ \A x, y : Before(x, y, delivered'[q]) => Before(x, y, delivered[q]) \/ (x \in Range(delivered[q]) /\ y = m)
<1>1. delivered \in [Queue -> Seq(Message)]
  BY DEF TypeOK
<1>2. delivered'[q] = Append(delivered[q], m) /\ \A p \in Queue : p # q => delivered'[p] = delivered[p]
  BY <1>1
<1>3. /\ Range(delivered'[q]) = Range(delivered[q]) \cup {m}
      /\ \A x, y : Before(x, y, delivered'[q]) => Before(x, y, delivered[q]) \/ (x \in Range(delivered[q]) /\ y = m)
  BY <1>1, <1>2, AppendOf
<1>4. \A p \in Queue : Range(delivered'[p]) = Range(delivered[p]) \cup IF p = q THEN {m} ELSE {}
  BY <1>2, <1>3
<1>5. \A n \in Message : Delivered(n) => Delivered(n)'
  BY <1>4, ConstantTypes DEF Delivered
<1>6. QED
  BY <1>2, <1>3, <1>4, <1>5

LEMMA StepGrows ==
  ASSUME IInv, Next
  PROVE  Grows
<1>0. TypeOK /\ Base /\ QueueInv /\ CallInv
  BY DEF IInv, Base
<1>1. ASSUME Fading PROVE Grows
  BY <1>1 DEF Grows, Fading, Delivered
<1>2. ASSUME NEW s \in Socket, RelayTalks(s) PROVE Grows
  <2>1. outcome' = outcome /\ delivered' = delivered
    BY <1>2, RelayKeeps
  <2>2. PICK f \in Frame : /\ Handled(s, f)
                           /\ \/ Refuses(s, f) \/ Makes(s, f) \/ Subscribes(s, f) \/ Forgets(s, f)
                              \/ \E m \in Message : Takes(s, f, m)
    BY <1>0, <1>2, RelayCases
  <2>3. CASE accepted' = accepted /\ via' = via
    BY <2>1, <2>3 DEF Grows, Delivered
  <2>4. CASE Subscribes(s, f)
    <3>1. /\ \A m \in Message : via'[m].sent = via[m].sent
          /\ \A m \in Message : m \notin Range(queue[f.call.queue].pending) => via'[m] = via[m]
      BY <1>0, <2>4, ViaTypes DEF Subscribes
    <3>2. \A m \in Range(queue[f.call.queue].pending) : via[m].pushed = None
      BY <1>0, <2>4, CallTypes DEF Subscribes, QueueInv
    <3>3. accepted' = accepted
      BY <2>4 DEF Subscribes
    <3>4. QED
      BY <2>1, <3>1, <3>2, <3>3 DEF Grows, Delivered
  <2>5. ASSUME NEW m \in Message, Takes(s, f, m) PROVE Grows
    <3>1. m \notin accepted
      BY <2>2, <2>5, HandledSend DEF Takes
    <3>2. /\ \A n \in Message : via'[n].sent = via[n].sent
          /\ \A n \in Message : n # m => via'[n] = via[n]
      <4>1. via' = via \/ \E t \in Socket : via' = [via EXCEPT ![m].pushed = t]
        BY <2>5 DEF Takes, Passes, Keeps
      <4>2. via \in [Message -> [sent : Socket \cup {None}, pushed : Socket \cup {None}]]
        BY <1>0 DEF TypeOK
      <4>3. QED
        BY <4>1, <4>2
    <3>3. accepted' = accepted \cup {m}
      BY <2>5 DEF Takes
    <3>4. QED
      BY <2>1, <3>1, <3>2, <3>3 DEF Grows, Delivered
  <2>6. QED
    BY <2>2, <2>3, <2>4, <2>5 DEF Refuses, Makes, Forgets
<1>3. ASSUME ClientTalks PROVE Grows
  <2>1. accepted' = accepted
    BY <1>0, <1>3, ClientCases
  <2>2. ASSUME NEW s \in Socket, NEW c \in Client, NEW f \in Frame, HearsAnswer(s, c, f) PROVE Grows
    <3>1. via' = via /\ delivered' = delivered /\ f.call \in Call
      BY <2>2 DEF HearsAnswer
    <3>2. \A m \in Message : (outcome'[m] = "none") <=> (outcome[m] = "none")
      <4>1. f.call \in calls[c] => Legit(c, f.call)
        BY <1>0 DEF CallInv
      <4>2. QED
        BY <1>0, <2>2, <3>1, <4>1, OverOutcome DEF HearsAnswer, Continued
    <3>3. QED
      BY <2>1, <3>1, <3>2 DEF Grows, Delivered
  <2>3. ASSUME NEW s \in Socket, NEW c \in Client, NEW m \in Message, HearsMsg(s, c, m) PROVE Grows
    <3>1. \A n \in Message : Delivered(n) => Delivered(n)'
      BY <1>0, <2>3, DeliveredGrows, ConstantTypes DEF HearsMsg, Delivered
    <3>2. outcome' = outcome /\ via' = via
      BY <2>3 DEF HearsMsg
    <3>3. QED
      BY <2>1, <3>1, <3>2 DEF Grows
  <2>4. ASSUME NEW c \in Client, NEW call \in Call, GivesUp(c, call) PROVE Grows
    <3>1. Legit(c, call) /\ via' = via /\ delivered' = delivered /\ Over(c, call, FALSE)
      BY <1>0, <2>4 DEF CallInv, GivesUp
    <3>2. \A m \in Message : (outcome'[m] = "none") <=> (outcome[m] = "none")
      BY <1>0, <3>1, OverOutcome
    <3>3. QED
      BY <2>1, <3>1, <3>2 DEF Grows, Delivered
  <2>5. ASSUME NEW c \in Client, NEW call \in Call, Calls(c, call) PROVE Grows
    <3>1. delivered' = delivered
      BY <2>5 DEF Calls
    <3>2. CASE via' = via /\ outcome' = outcome
      BY <2>1, <3>1, <3>2 DEF Grows, Delivered
    <3>3. ASSUME NEW m \in Message, Sends(c, call, m) PROVE Grows
      <4>1. /\ outcome \in [Message -> {"none", "waiting", "sent", "failed"}]
            /\ via \in [Message -> [sent : Socket \cup {None}, pushed : Socket \cup {None}]]
        BY <1>0 DEF TypeOK
      <4>2. \A n \in Message : /\ n # m => outcome'[n] = outcome[n] /\ via'[n] = via[n]
                               /\ via'[n].pushed = via[n].pushed
        BY <3>3, <4>1 DEF Sends
      <4>3. outcome[m] = "none"
        BY <3>3 DEF Sends
      <4>4. QED
        BY <2>1, <3>1, <4>2, <4>3 DEF Grows, Delivered
    <3>4. QED
      BY <2>5, <3>2, <3>3 DEF Calls, Creates, Accepts, Acknowledges
  <2>6. QED
    BY <1>0, <1>3, <2>2, <2>3, <2>4, <2>5, ClientCases
<1>4. QED
  BY <1>0, <1>1, <1>2, <1>3, StepCases, ConnectsFade DEF Talks
-----------------------------------------------------------------------------
(* What is under way stays what it was                                     *)

LEMMA HoldsStays ==
  ASSUME Grows, NEW s \in Socket, NEW f, Holds(s, f), sock'[s].owner = sock[s].owner,
         sock[s].client \in {"closing", "closed"} => sock'[s].client \in {"closing", "closed"},
         f.cmd = "SEND" => f.msg \notin accepted'
  PROVE  Holds(s, f)'
BY DEF Grows, Holds, Legit

LEMMA BringsStays ==
  ASSUME Grows, TypeOK, NEW s \in Socket, NEW f \in Frame, Brings(s, f), sock'[s].owner = sock[s].owner
  PROVE  Brings(s, f)'
<1>1. f.cmd = "MSG" => f.msg \in Message /\ f.msg \in accepted /\ via[f.msg].pushed = s /\ s # None
  BY ConstantTypes DEF Brings, TypeOK
<1>2. QED
  BY <1>1 DEF Grows, Brings, Legit

LEMMA AnswerBrings ==
  ASSUME Grows, NEW s \in Socket, NEW f, Holds(s, f), f.cmd \in {"NEW", "SUB", "SEND", "ACK"}, f.call # None,
         sock'[s].owner = sock[s].owner, NEW cmd \in {"OK", "ERR"}
  PROVE  Brings(s, Answer(cmd, f.call))'
<1>1. Legit(sock[s].owner, f.call)
  BY DEF Holds, Legit, AckOf
<1>2. Legit(sock[s].owner, f.call)'
  BY <1>1 DEF Grows, Legit
<1>3. QED
  BY <1>2, MsgOf DEF Brings

LEMMA FramesStay ==
  ASSUME IInv, Grows, KeepsEnds,
         \A r \in Socket : \A f \in Range(sock'[r].up) :
           \/ f \in Range(sock[r].up) /\ (f.cmd = "SEND" => f.msg \notin accepted')
           \/ Holds(r, f)',
         \A r \in Socket : \A f \in Range(sock'[r].down) : f \in Range(sock[r].down) \/ Brings(r, f)'
  PROVE  FrameInv'
<1>0. TypeOK /\ FrameInv
  BY DEF IInv, Base
<1>1. \A r \in Socket : sock'[r].owner = sock[r].owner /\ sock'[r].client = sock[r].client
  BY DEF KeepsEnds, SameEnds
<1>2. \A r \in Socket : \A f \in Range(sock[r].down) : f \in Frame
  BY Types, <1>0 DEF Range
<1>3. ASSUME NEW r \in Socket, NEW f \in Range(sock'[r].up) PROVE Holds(r, f)'
  <2>1. f \in Range(sock[r].up) => Holds(r, f)
    BY <1>0 DEF FrameInv
  <2>2. QED
    BY <1>1, <2>1, HoldsStays
<1>4. ASSUME NEW r \in Socket, NEW f \in Range(sock'[r].down) PROVE Brings(r, f)'
  <2>1. f \in Range(sock[r].down) => Brings(r, f) /\ f \in Frame
    BY <1>0, <1>2 DEF FrameInv
  <2>2. QED
    BY <1>0, <1>1, <2>1, BringsStays
<1>5. QED
  BY <1>3, <1>4 DEF FrameInv

\* No other SEND of the message that the relay accepts is under way.
LEMMA AcceptedOnce ==
  ASSUME IInv, NEW s \in Socket, NEW f, Handled(s, f), NEW m \in Message, Takes(s, f, m)
  PROVE  \A r \in Socket : \A g \in Range(sock'[r].up) : g.cmd = "SEND" => g.msg \notin accepted'
<1>0. FrameInv /\ SendOrder
  BY DEF IInv, Base
<1>1. f.cmd = "SEND" /\ f.msg = m /\ accepted' = accepted \cup {m} /\ via[m].sent = s
  BY HandledSend DEF Takes
<1>2. ASSUME NEW r \in Socket, NEW g \in Range(sock'[r].up), g.cmd = "SEND" PROVE g.msg # m /\ g.msg \notin accepted
  <2>1. g \in Range(sock[r].up)
    BY DEF Handled, Shrank
  <2>2. via[g.msg].sent = r /\ g.msg \notin accepted
    BY <1>0, <1>2, <2>1 DEF FrameInv, Holds
  <2>3. CASE r # s
    BY <1>1, <2>2, <2>3
  <2>4. CASE r = s
    <3>1. Before(f, g, sock[s].up)
      BY <2>4 DEF Handled, Shrank
    <3>2. QED
      BY <1>0, <1>1, <1>2, <2>2, <3>1 DEF SendOrder
  <2>5. QED
    BY <2>3, <2>4
<1>3. QED
  BY <1>1, <1>2

\* What a relay's step does to what is under way.
LEMMA RelayFrames ==
  ASSUME IInv, Next, NEW s \in Socket, RelayTalks(s)
  PROVE  FrameInv'
<1>0. TypeOK /\ Base /\ QueueInv /\ Grows /\ KeepsEnds
  BY StepGrows, TalksKeepEnds DEF IInv, Base, Talks
<1>1. PICK f \in Frame : /\ Handled(s, f)
                         /\ \/ Refuses(s, f) \/ Makes(s, f) \/ Subscribes(s, f) \/ Forgets(s, f)
                            \/ \E m \in Message : Takes(s, f, m)
  BY <1>0, RelayCases
<1>2. \A r \in Socket : \A g \in Range(sock'[r].up) : g \in Range(sock[r].up)
  BY <1>1 DEF Handled, Shrank
<1>3. \A r \in Socket : \A g \in Range(sock'[r].up) : g.cmd = "SEND" => g.msg \notin accepted'
  <2>1. ASSUME accepted' = accepted
        PROVE  \A r \in Socket : \A g \in Range(sock'[r].up) : g.cmd = "SEND" => g.msg \notin accepted'
    BY <1>0, <1>2, <2>1 DEF Base, FrameInv, Holds
  <2>2. QED
    BY <1>1, <2>1, AcceptedOnce DEF Refuses, Makes, Subscribes, Forgets
<1>4. sock'[s].owner = sock[s].owner /\ Holds(s, f)
  BY <1>0, <1>1 DEF KeepsEnds, SameEnds, Handled
<1>5. f.cmd \in {"NEW", "SUB", "SEND", "ACK"} /\ f.call # None => \A cmd \in {"OK", "ERR"} : Brings(s, Answer(cmd, f.call))'
  BY <1>0, <1>4, AnswerBrings
<1>6. f.call \in Call => f.call # None
  BY ConstantTypes
<1>7. ASSUME NEW cmd \in {"OK", "ERR"}, Answered(s, cmd, f.call), f.cmd \in {"NEW", "SUB", "SEND", "ACK"}, f.call # None
      PROVE  \A r \in Socket : \A g \in Range(sock'[r].down) : g \in Range(sock[r].down) \/ Brings(r, g)'
  <2>1. \A r \in Socket : \A g \in Range(sock'[r].down) : g \in Range(sock[r].down) \/ (r = s /\ g = Answer(cmd, f.call))
    BY <1>7 DEF Answered, Grew
  <2>2. QED
    BY <1>5, <1>7, <2>1
<1>8. \A r \in Socket : \A g \in Range(sock'[r].down) : g \in Range(sock[r].down) \/ Brings(r, g)'
  <2>1. CASE Refuses(s, f) \/ Makes(s, f) \/ Forgets(s, f)
    BY <1>6, <1>7, <2>1 DEF Refuses, Makes, Forgets
  <2>2. CASE Subscribes(s, f)
    <3> DEFINE q == f.call.queue
    <3>1. \A r \in Socket : \A g \in Range(sock'[r].down) :
            \/ g \in Range(sock[r].down)
            \/ r = s /\ (g = Answer("OK", f.call) \/ \E m \in Range(queue[q].pending) : g = Msg(m))
      BY <2>2 DEF Subscribes, Flushed, Grew
    <3>2. ASSUME NEW m \in Range(queue[q].pending) PROVE Brings(s, Msg(m))'
      <4>1. q \in Queue /\ queue[q] # None /\ queue[q].pending \in Seq(Message)
        BY <2>2, CallTypes, RecordTypes DEF Subscribes
      <4>2. m \in Message /\ m \in accepted /\ Target[m] = q
        BY <1>0, <4>1 DEF QueueInv, Range
      <4>3. via'[m].pushed = s /\ accepted' = accepted
        BY <1>0, <2>2, <4>2, ViaTypes DEF Subscribes
      <4>4. sock[s].owner = Recipient[q]
        BY <1>4, <2>2 DEF Subscribes, Holds, Legit
      <4>5. QED
        BY <1>4, <4>2, <4>3, <4>4, MsgOf DEF Brings
    <3>3. f.cmd = "SUB" /\ f.call # None
      BY <1>6, <2>2 DEF Subscribes
    <3>4. QED
      BY <1>5, <3>1, <3>2, <3>3
  <2>3. ASSUME NEW m \in Message, Takes(s, f, m)
        PROVE  \A r \in Socket : \A g \in Range(sock'[r].down) : g \in Range(sock[r].down) \/ Brings(r, g)'
    <3>1. f.cmd = "SEND" /\ f.call # None /\ accepted' = accepted \cup {m} /\ queue[Target[m]] # None
      BY <1>6, <2>3 DEF Takes
    <3>2. CASE Keeps(s, f, m)
      BY <1>7, <3>1, <3>2 DEF Keeps
    <3>3. ASSUME NEW t \in Socket, Passes(s, f, m, t)
          PROVE  \A r \in Socket : \A g \in Range(sock'[r].down) : g \in Range(sock[r].down) \/ Brings(r, g)'
      <4>1. \A r \in Socket : \A g \in Range(sock'[r].down) :
              \/ g \in Range(sock[r].down)
              \/ r = t /\ g = Msg(m)
              \/ r = s /\ g = Answer("OK", f.call)
        BY <3>3 DEF Passes, PushedTo, Grew
      <4>2. Target[m] \in Queue /\ t # None /\ sock[t].owner = Recipient[Target[m]]
        BY <1>0, <3>1, <3>3, ConstantTypes DEF Passes, QueueInv
      <4>3. via'[m].pushed = t
        BY <1>0, <3>3, ViaTypes DEF Passes, TypeOK
      <4>4. sock'[t].owner = sock[t].owner
        BY <1>0 DEF KeepsEnds, SameEnds
      <4>5. Brings(t, Msg(m))'
        BY <3>1, <4>2, <4>3, <4>4, MsgOf DEF Brings
      <4>6. QED
        BY <1>5, <3>1, <4>1, <4>5
    <3>4. QED
      BY <2>3, <3>2, <3>3 DEF Takes
  <2>4. QED
    BY <1>1, <2>1, <2>2, <2>3
<1>9. QED
  BY <1>0, <1>2, <1>3, <1>8, FramesStay

\* What a client's step does to it.
LEMMA ClientFrames ==
  ASSUME IInv, Next, ClientTalks
  PROVE  FrameInv'
<1>0. TypeOK /\ Base /\ SetInv /\ CallInv /\ Grows /\ KeepsEnds
  BY StepGrows, TalksKeepEnds DEF IInv, Base, Talks
<1>1. accepted' = accepted
  BY <1>0, ClientCases
<1>2. ws' = ws /\ \A r \in Socket : sock'[r].owner = sock[r].owner
  BY <1>0 DEF KeepsEnds, SameEnds
<1>3. \A r \in Socket : \A g \in Range(sock[r].up) : g.cmd = "SEND" => g.msg \notin accepted'
  BY <1>0, <1>1 DEF Base, FrameInv, Holds
<1>4. \A c \in Client : ws[c] # None => ws[c] \in Socket /\ sock[ws[c]].owner = c
  BY <1>0, Types DEF Base, WsInv
<1>5. ASSUME NEW c \in Client, NEW g, Written(c, g), ws[c] # None => Holds(ws[c], g)',
             \A r \in Socket : \A f \in Range(sock'[r].down) : f \in Range(sock[r].down)
      PROVE  FrameInv'
  <2>1. \A r \in Socket : \A f \in Range(sock'[r].up) : f \in Range(sock[r].up) \/ Holds(r, f)'
    <3>1. \A r \in Socket : \A f \in Range(sock'[r].up) : f \in Range(sock[r].up) \/ (r = ws[c] /\ f = g)
      BY <1>5 DEF Written, Added
    <3>2. \A r \in Socket : r # None
      BY ConstantTypes
    <3>3. QED
      BY <1>2, <1>5, <3>1, <3>2
  <2>2. QED
    BY <1>0, <1>3, <1>5, <2>1, FramesStay
<1>6. ASSUME \A r \in Socket : sock'[r].up = sock[r].up,
             \A r \in Socket : \A f \in Range(sock'[r].down) : f \in Range(sock[r].down)
      PROVE  FrameInv'
  BY <1>0, <1>3, <1>6, FramesStay
<1>7. ASSUME NEW s \in Socket, NEW f, Taken(s, f)
      PROVE  \A r \in Socket : \A g \in Range(sock'[r].down) : g \in Range(sock[r].down)
  BY <1>7 DEF Taken, Shrank
<1>8. ASSUME NEW s \in Socket, NEW c \in Client, NEW f \in Frame, HearsAnswer(s, c, f) PROVE FrameInv'
  <2>1. Taken(s, f)
    BY <1>8 DEF HearsAnswer
  <2>2. CASE UpsSame
    BY <1>6, <1>7, <2>1, <2>2 DEF UpsSame
  <2>3. CASE Continued(c, f.call) /\ Written(c, Request(Sub(f.call.queue, 0)))
    <3>1. Recipient[f.call.queue] = c
      BY <2>3 DEF Continued
    <3>2. Sub(f.call.queue, 0).cmd = "SUB" /\ Sub(f.call.queue, 0).queue = f.call.queue
      BY DEF Sub
    <3>3. Sub(f.call.queue, 0) \in Call
      BY <1>8, CallTypes, FrameTypes DEF HearsAnswer
    <3>4. ws[c] # None => Holds(ws[c], Request(Sub(f.call.queue, 0)))'
      BY <1>2, <1>4, <3>1, <3>2, <3>3, MsgOf, ConstantTypes DEF Holds, Legit
    <3>5. QED
      BY <1>5, <1>7, <2>1, <2>3, <3>4
  <2>4. QED
    BY <1>8, <2>2, <2>3 DEF HearsAnswer
<1>9. ASSUME NEW s \in Socket, NEW c \in Client, NEW m \in Message, HearsMsg(s, c, m) PROVE FrameInv'
  <2>1. Taken(s, Msg(m))
    BY <1>9 DEF HearsMsg
  <2>2. CASE UpsSame
    BY <1>6, <1>7, <2>1, <2>2 DEF UpsSame
  <2>3. CASE delivered' = [delivered EXCEPT ![Target[m]] = Append(@, m)] /\ Written(c, Ack(m))
    <3>1. Delivered(m)'
      <4>1. Target[m] \in Queue /\ m \in {m}
        BY ConstantTypes
      <4>2. Range(delivered'[Target[m]]) = Range(delivered[Target[m]]) \cup {m}
        <5>1. /\ TypeOK
              /\ delivered' = [delivered EXCEPT ![Target[m]] = Append(@, m)]
          BY <1>0, <2>3
        <5>2. \A p \in Queue : Range(delivered'[p]) =
                Range(delivered[p]) \cup IF p = Target[m] THEN {m} ELSE {}
          BY ONLY <4>1, <5>1, DeliveredGrows
        <5>3. QED
          BY <4>1, <5>2
      <4>3. QED
        BY <4>2 DEF Delivered
    <3>2. ws[c] # None => Holds(ws[c], Ack(m))'
      BY <3>1, MsgOf DEF Holds
    <3>3. QED
      BY <1>5, <1>7, <2>1, <2>3, <3>2
  <2>4. QED
    BY <1>9, <2>2, <2>3 DEF HearsMsg
<1>10. ASSUME NEW c \in Client, NEW call \in Call, GivesUp(c, call) PROVE FrameInv'
  BY <1>6, <1>10 DEF GivesUp
<1>11. ASSUME NEW c \in Client, NEW call \in Call, Calls(c, call) PROVE FrameInv'
  <2>1. Called(c, call) /\ call # None
    BY <1>11, ConstantTypes DEF Calls
  <2>2. Request(call).cmd = call.cmd /\ Request(call).call = call
    BY MsgOf
  <2>3. ws[c] # None => sock'[ws[c]].owner = c
    BY <1>2, <1>4
  <2>4. ws[c] # None => Holds(ws[c], Request(call))'
    <3>1. ASSUME NEW q \in Queue, Creates(c, call, q) PROVE ws[c] # None => Holds(ws[c], Request(call))'
      BY <1>2, <2>1, <2>2, <2>3, <3>1 DEF Creates, New, Holds, Legit
    <3>2. ASSUME NEW q \in Queue, Accepts(c, call, q) PROVE ws[c] # None => Holds(ws[c], Request(call))'
      BY <1>2, <2>1, <2>2, <2>3, <3>2 DEF Accepts, Holds, Legit
    <3>3. ASSUME NEW m \in Message, Sends(c, call, m) PROVE ws[c] # None => Holds(ws[c], Request(call))'
      <4>1. call.cmd = "SEND" /\ call.n = m /\ call.queue = Target[m] /\ Request(call).msg = m
        BY <3>3, MsgOf DEF Sends, Send
      <4>2. m \notin accepted'
        BY <1>0, <1>1, <3>3 DEF SetInv, Sends
      <4>3. outcome'[m] = "waiting" /\ via'[m].sent = ws[c]
        BY <1>0, <3>3 DEF Sends, TypeOK
      <4>4. QED
        BY <1>2, <2>1, <2>2, <2>3, <4>1, <4>2, <4>3 DEF Holds, Legit
    <3>4. ASSUME NEW m \in Message, Acknowledges(c, call, m) PROVE ws[c] # None => Holds(ws[c], Request(call))'
      <4>1. call.cmd = "ACK" /\ Request(call).msg = m /\ call = AckOf(m)
        BY <3>4, MsgOf DEF Acknowledges, AckOf
      <4>2. Delivered(m)'
        BY <1>0, <3>4 DEF Grows, Acknowledges
      <4>3. QED
        BY <2>2, <4>1, <4>2 DEF Holds
    <3>5. QED
      BY <1>11, <3>1, <3>2, <3>3, <3>4 DEF Calls
  <2>5. QED
    BY <1>5, <2>1, <2>4 DEF Called
<1>12. QED
  BY <1>0, <1>8, <1>9, <1>10, <1>11, ClientCases

LEMMA FadingFrames ==
  ASSUME IInv, Next, Fading
  PROVE  FrameInv'
<1>0. TypeOK /\ Base /\ FrameInv /\ SockInv /\ Grows
  BY StepGrows DEF IInv, Base
<1>1. ASSUME NEW r \in Socket, NEW f \in Range(sock'[r].up) PROVE Holds(r, f)'
  <2>1. Fades(r) /\ accepted' = accepted
    BY DEF Fading
  <2>2. CASE f \in Range(sock[r].up)
    <3>1. Holds(r, f)
      BY <1>0, <2>2 DEF FrameInv
    <3>2. sock'[r].owner = sock[r].owner
      BY <1>1, <2>1, EmptyOf DEF Fades
    <3>3. QED
      BY <1>0, <2>1, <3>1, <3>2, HoldsStays DEF Fades, Holds
  <2>3. CASE f = CloseFrame /\ f \notin Range(sock[r].up)
    BY <1>1, <2>1, <2>3 DEF Fades, Holds, CloseFrame
  <2>4. QED
    BY <1>1, <2>1, <2>2, <2>3 DEF Fades
<1>2. ASSUME NEW r \in Socket, NEW f \in Range(sock'[r].down) PROVE Brings(r, f)'
  <2>1. Fades(r)
    BY DEF Fading
  <2>2. sock'[r].down = sock[r].down /\ sock'[r].owner = sock[r].owner
    BY <1>2, <2>1, EmptyOf DEF Fades
  <2>3. Brings(r, f) /\ f \in Frame
    BY <1>0, <1>2, <2>2, Types DEF FrameInv, Range
  <2>4. QED
    BY <1>0, <2>2, <2>3, BringsStays
<1>3. QED
  BY <1>1, <1>2 DEF FrameInv

\* The types, the ends of the sockets, and what is under way.
LEMMA StepBase ==
  ASSUME IInv, Next
  PROVE  Base' /\ LiveInv' /\ FrameInv'
<1>1. Base /\ LiveInv
  BY DEF IInv
<1>2. CASE Talks
  <2>1. TypeOK' /\ SockInv' /\ WsInv' /\ LiveInv'
    BY <1>1, <1>2, TalksKeepTypes, TalksKeepSockets
  <2>2. FrameInv'
    BY <1>2, RelayFrames, ClientFrames DEF Talks
  <2>3. QED
    BY <2>1, <2>2 DEF Base
<1>3. CASE Connects
  <2>1. TypeOK' /\ SockInv' /\ WsInv' /\ LiveInv'
    BY <1>1, <1>3, ConnectsKeepTypes, ConnectsMatch, ConnectsKeepOne
  <2>2. FrameInv'
    BY <1>1, <1>3, ConnectsFade, FadingFrames
  <2>3. QED
    BY <2>1, <2>2 DEF Base
<1>4. QED
  BY <1>2, <1>3, StepCases-----------------------------------------------------------------------------
(* The kinds of steps, and the parts of the invariant one by one           *)

\* The relay handles frame f of socket s.
Handles(s, f) ==
  /\ Handled(s, f) /\ KeepsEnds
  /\ \/ Refuses(s, f) \/ Makes(s, f) \/ Subscribes(s, f) \/ Forgets(s, f)
     \/ \E m \in Message : Takes(s, f, m)
  /\ subscribed' = subscribed /\ calls' = calls /\ address' = address /\ outcome' = outcome
  /\ wiped' = wiped /\ late' = late /\ delivered' = delivered

\* A client does something.
Acts ==
  /\ KeepsEnds /\ queue' = queue /\ messages' = messages /\ accepted' = accepted /\ wiped' = wiped
  /\ \/ \E s \in Socket, c \in Client, f \in Frame : HearsAnswer(s, c, f)
     \/ \E s \in Socket, c \in Client, m \in Message : HearsMsg(s, c, m)
     \/ \E c \in Client, call \in Call : GivesUp(c, call) \/ Calls(c, call)

LEMMA Kinds ==
  ASSUME IInv, Next
  PROVE  /\ (\E s \in Socket, f \in Frame : Handles(s, f)) \/ Acts \/ Fading
         /\ Base /\ Base' /\ Grows /\ FrameInv /\ FrameInv'
<1>1. Base /\ Base' /\ Grows /\ FrameInv /\ FrameInv'
  BY StepBase, StepGrows DEF IInv, Base
<1>2. ASSUME NEW s \in Socket, RelayTalks(s) PROVE \E f \in Frame : Handles(s, f)
  <2>1. KeepsEnds
    BY <1>1, <1>2, TalksKeepEnds DEF Talks
  <2>2. QED
    BY <1>1, <1>2, <2>1, RelayCases, RelayKeeps DEF Handles
<1>3. ASSUME ClientTalks PROVE Acts
  <2>1. KeepsEnds
    BY <1>1, <1>3, TalksKeepEnds DEF Talks
  <2>2. QED
    BY <1>1, <1>3, <2>1, ClientCases DEF Acts
<1>4. QED
  BY <1>1, <1>2, <1>3, StepCases, ConnectsFade DEF Talks

LEMMA EndsStay ==
  ASSUME KeepsEnds
  PROVE  /\ \A r \in Socket : /\ sock'[r].owner = sock[r].owner /\ sock'[r].client = sock[r].client
                              /\ sock'[r].relay = sock[r].relay /\ sock'[r].cut = sock[r].cut
                              /\ Dead(r)' <=> Dead(r)
         /\ ws' = ws
BY DEF KeepsEnds, SameEnds, Dead

LEMMA LegitStays ==
  ASSUME Grows, NEW c, NEW call, Legit(c, call)
  PROVE  Legit(c, call)'
BY DEF Grows, Legit

\* The calls of a client.
LEMMA StepCalls ==
  ASSUME IInv, Next
  PROVE  CallInv'
<1>0. CallInv /\ Grows /\ TypeOK
  BY Kinds DEF IInv, Base
<1>1. calls' = calls => CallInv'
  BY <1>0, LegitStays DEF CallInv
<1>2. ASSUME NEW c \in Client, NEW C, calls' = [calls EXCEPT ![c] = C],
             \A call \in C : call \in calls[c] \/ Legit(c, call)'
      PROVE  CallInv'
  <2>1. \A d \in Client : calls'[d] = IF d = c THEN C ELSE calls[d]
    BY <1>0, <1>2 DEF TypeOK
  <2>2. QED
    BY <1>0, <1>2, <2>1, LegitStays DEF CallInv
<1>3. ASSUME NEW c \in Client, NEW call \in Call, NEW ok, Over(c, call, ok) PROVE CallInv'
  BY <1>2, <1>3 DEF Over
<1>4. CASE Acts
  <2>1. ASSUME NEW s \in Socket, NEW c \in Client, NEW f \in Frame, HearsAnswer(s, c, f) PROVE CallInv'
    <3>1. CASE Continued(c, f.call)
      <4>1. Recipient[f.call.queue] = c /\ Sub(f.call.queue, 0).cmd = "SUB" /\ Sub(f.call.queue, 0).queue = f.call.queue
        BY <3>1 DEF Continued, Sub
      <4>2. Legit(c, Sub(f.call.queue, 0))'
        BY <4>1 DEF Legit
      <4>3. \A x \in (calls[c] \ {f.call}) \cup {Sub(f.call.queue, 0)} : x \in calls[c] \/ Legit(c, x)'
        BY <4>2
      <4>4. calls' = [calls EXCEPT ![c] = (calls[c] \ {f.call}) \cup {Sub(f.call.queue, 0)}]
        BY <3>1 DEF Continued
      <4>5. QED
        BY ONLY <1>2, <4>3, <4>4
    <3>2. QED
      BY <1>1, <1>3, <2>1, <3>1 DEF HearsAnswer
  <2>2. ASSUME NEW c \in Client, NEW call \in Call, Calls(c, call) PROVE CallInv'
    <3>1. Legit(c, call)'
      <4>1. ASSUME NEW q \in Queue, Creates(c, call, q) PROVE Legit(c, call)'
        BY <4>1 DEF Creates, New, Legit
      <4>2. ASSUME NEW q \in Queue, Accepts(c, call, q) PROVE Legit(c, call)'
        BY <4>2 DEF Accepts, Legit
      <4>3. ASSUME NEW m \in Message, Sends(c, call, m) PROVE Legit(c, call)'
        <5>1. outcome'[m] = "waiting"
          BY <1>0, <4>3 DEF Sends, TypeOK
        <5>2. QED
          BY <4>3, <5>1 DEF Sends, Send, Legit
      <4>4. ASSUME NEW m \in Message, Acknowledges(c, call, m) PROVE Legit(c, call)'
        BY <4>4 DEF Acknowledges, AckOf, Legit
      <4>5. QED
        BY <2>2, <4>1, <4>2, <4>3, <4>4 DEF Calls
    <3>2. calls' = [calls EXCEPT ![c] = calls[c] \cup {call}]
      BY <2>2 DEF Calls, Called
    <3>3. \A x \in calls[c] \cup {call} : x \in calls[c] \/ Legit(c, x)'
      BY <3>1
    <3>4. QED
      BY ONLY <1>2, <3>2, <3>3
  <2>3. QED
    BY <1>1, <1>3, <1>4, <2>1, <2>2 DEF Acts, HearsMsg, GivesUp
<1>5. QED
  BY <1>1, <1>4, Kinds DEF Handles, Fading

\* Messages that wait.
Waiting(q) == /\ \A m \in Range(queue[q].pending) : m \in accepted /\ Target[m] = q /\ via[m].pushed = None
              /\ queue[q].subscriber # None =>
                   /\ sock[queue[q].subscriber].relay \in {"open", "closing"}
                   /\ sock[queue[q].subscriber].owner = Recipient[q]
                   /\ sock[queue[q].subscriber].relay = "open" => Range(queue[q].pending) = {}

LEMMA StepQueues ==
  ASSUME IInv, Next
  PROVE  QueueInv'
<1>0. QueueInv /\ SetInv /\ Grows /\ TypeOK /\ SockInv
  BY Kinds DEF IInv, Base
<1>1. \A q \in Queue : queue[q] # None =>
        /\ Waiting(q) /\ queue[q].pending \in Seq(Message) /\ queue[q].subscriber \in Socket \cup {None}
  <2>1. \A q \in Queue : queue[q] # None => queue[q] \in Record
    BY <1>0, Types
  <2>2. \A q \in Queue : queue[q] # None => Waiting(q)
    BY <1>0 DEF QueueInv, Waiting
  <2>3. QED
    BY <2>1, <2>2, RecordTypes
<1>2. SUFFICES ASSUME NEW q \in Queue, queue'[q] # None PROVE Waiting(q)'
  BY DEF QueueInv, Waiting
<1>3. ASSUME KeepsEnds, queue'[q] = queue[q],
             \A m \in accepted : Target[m] = q => (via[m].pushed = None => via'[m].pushed = None \/ m \notin Range(queue[q].pending))
      PROVE  Waiting(q)'
  <2>1. Waiting(q) /\ queue[q].subscriber \in Socket \cup {None} /\ \A m \in accepted : m \in accepted'
    BY <1>0, <1>1, <1>2, <1>3 DEF Grows
  <2>2. QED
    BY <1>3, <2>1, EndsStay DEF Waiting
<1>4. ASSUME NEW s \in Socket, NEW f \in Frame, Handles(s, f) PROVE Waiting(q)'
  <2>0. KeepsEnds /\ Handled(s, f)
    BY <1>4 DEF Handles
  <2>1. CASE Refuses(s, f) \/ Forgets(s, f)
    BY <1>3, <2>0, <2>1 DEF Refuses, Forgets
  <2>2. CASE Makes(s, f)
    <3>1. f.call.queue \in Queue /\ via' = via
      BY <2>2, CallTypes DEF Makes
    <3>2. CASE queue'[q] = queue[q]
      BY <1>3, <2>0, <3>1, <3>2
    <3>3. CASE queue'[q] # queue[q]
      <4>1. queue'[q] = [subscriber |-> None, pending |-> <<>>]
        BY <2>2, <3>1, <3>3, Types, <1>0 DEF Makes
      <4>2. QED
        BY <4>1, EmptyOf DEF Waiting
    <3>4. QED
      BY <3>2, <3>3
  <2>3. CASE Subscribes(s, f)
    <3> DEFINE p == f.call.queue
    <3>1. p \in Queue /\ queue[p] # None
      BY <2>3, CallTypes DEF Subscribes
    <3>2. queue'[q] = IF q = p THEN [subscriber |-> s, pending |-> <<>>] ELSE queue[q]
      BY <2>3, <3>1, Types, <1>0 DEF Subscribes
    <3>3. CASE q = p
      <4>1. sock[s].relay = "open" /\ sock[s].owner = Recipient[p]
        BY <2>0, <2>3 DEF Handled, Holds, Legit, Subscribes
      <4>2. queue'[q].subscriber = s /\ queue'[q].pending = <<>>
        BY <3>2, <3>3
      <4>3. sock'[s].relay = "open" /\ sock'[s].owner = Recipient[p]
        BY <4>1, <2>0, EndsStay
      <4>4. QED
        BY <3>3, <4>2, <4>3, EmptyOf DEF Waiting
    <3>4. CASE q # p
      <4>1. ASSUME NEW m \in accepted, Target[m] = q PROVE via'[m] = via[m]
        <5>1. m \notin Range(queue[p].pending) /\ m \in Message
          BY <1>0, <1>1, <3>1, <3>4, <4>1 DEF Waiting, TypeOK
        <5>2. QED
          BY <2>3, <5>1 DEF Subscribes
      <4>2. QED
        BY <1>3, <2>0, <3>2, <3>4, <4>1
    <3>5. QED
      BY <3>3, <3>4
  <2>4. ASSUME NEW m \in Message, Takes(s, f, m) PROVE Waiting(q)'
    <3>1. m \notin accepted /\ accepted' = accepted \cup {m} /\ via[m].pushed = None
      BY <1>0, <2>0, <2>4, HandledSend DEF Takes, SetInv
    <3>2. ASSUME NEW t \in Socket, Passes(s, f, m, t) PROVE Waiting(q)'
      <4>1. \A n \in accepted : via'[n] = via[n]
        BY <1>0, <3>1, <3>2 DEF Passes, TypeOK
      <4>2. QED
        BY <1>3, <2>0, <3>2, <4>1 DEF Passes
    <3>3. CASE Keeps(s, f, m)
      <4>1. Target[m] \in Queue /\ via' = via
        BY <3>3, ConstantTypes DEF Keeps
      <4>2. CASE q # Target[m]
        <5>1. queue'[q] = queue[q]
          BY <1>0, <3>3, <4>2, Types DEF Keeps
        <5>2. QED
          BY <1>3, <2>0, <4>1, <5>1
      <4>3. CASE q = Target[m]
        <5>1. queue[q] # None /\ queue[q] \in Record
          BY <2>4, <4>3 DEF Takes
        <5>2. queue'[q] = [queue[q] EXCEPT !.pending = Append(@, m)]
          BY <1>0, <3>3, <4>3, Types DEF Keeps
        <5>3. queue'[q].subscriber = queue[q].subscriber /\ queue'[q].pending = Append(queue[q].pending, m)
          BY <5>1, <5>2, RecordTypes
        <5>4. Range(queue'[q].pending) = Range(queue[q].pending) \cup {m}
          BY <1>1, <5>1, <5>3, AppendOf
        <5>5. queue[q].subscriber # None => sock[queue[q].subscriber].relay # "open" /\ queue[q].subscriber \in Socket
          BY <1>1, <3>3, <4>3, <5>1 DEF Keeps
        <5>6. Waiting(q)
          BY <1>1, <5>1
        <5>7. QED
          BY <2>0, <3>1, <4>1, <4>3, <5>3, <5>4, <5>5, <5>6, EndsStay DEF Waiting
      <4>4. QED
        BY <4>2, <4>3
    <3>4. QED
      BY <2>4, <3>2, <3>3 DEF Takes
  <2>5. QED
    BY <1>4, <2>1, <2>2, <2>3, <2>4 DEF Handles
<1>5. CASE Acts
  <2>1. \A m \in Message : via'[m].pushed = via[m].pushed
    <3>1. CASE via' = via
      BY <3>1
    <3>2. ASSUME NEW c \in Client, NEW call \in Call, NEW m \in Message, Sends(c, call, m)
          PROVE  \A n \in Message : via'[n].pushed = via[n].pushed
      BY <1>0, <3>2, ViaTypes DEF Sends, TypeOK
    <3>3. QED
      BY <1>5, <3>1, <3>2 DEF Acts, HearsAnswer, HearsMsg, GivesUp, Calls, Creates, Accepts, Acknowledges
  <2>2. KeepsEnds /\ queue'[q] = queue[q] /\ accepted \subseteq Message
    BY <1>0, <1>5 DEF Acts, TypeOK
  <2>3. QED
    BY <1>3, <2>1, <2>2
<1>6. CASE Fading
  <2>1. Stays /\ accepted' = accepted /\ via' = via /\ \A r \in Socket : Fades(r)
    BY <1>2, <1>6 DEF Fading, Restarted
  <2>2. queue[q] # None
    BY <1>2, <2>1 DEF Stays
  <2>3. Waiting(q) /\ queue[q] \in Record /\ queue[q].subscriber \in Socket \cup {None}
    BY <1>0, <1>1, <2>2, Types
  <2>4. CASE queue'[q] = queue[q] /\ KeepsSubscriber(q)
    <3>1. queue[q].subscriber # None => sock'[queue[q].subscriber].owner = sock[queue[q].subscriber].owner
      BY <1>0, <2>1, <2>3 DEF Fades, Waiting, SockInv
    <3>2. QED
      BY <2>1, <2>2, <2>3, <2>4, <3>1 DEF Waiting, KeepsSubscriber
  <2>5. CASE queue'[q] = [queue[q] EXCEPT !.subscriber = None]
    <3>1. queue'[q].subscriber = None /\ queue'[q].pending = queue[q].pending
      BY <2>3, <2>5, RecordTypes
    <3>2. QED
      BY <2>1, <2>3, <3>1 DEF Waiting
  <2>6. QED
    BY <2>1, <2>4, <2>5 DEF Stays
<1>7. QED
  BY <1>4, <1>5, <1>6, Kinds

\* What was accepted, delivered, subscribed to.
LEMMA StepSets ==
  ASSUME IInv, Next
  PROVE  SetInv'
<1>0. SetInv /\ CallInv /\ QueueInv /\ Grows /\ TypeOK
  BY Kinds DEF IInv, Base
<1>1. ASSUME wiped' = wiped \/ wiped' = accepted,
             \A m \in Message : m \notin accepted' => via'[m].pushed = via[m].pushed,
             \A m \in accepted' : m \in accepted \/ outcome'[m] # "none",
             \A q \in Queue : \A m \in Range(delivered'[q]) : m \in Range(delivered[q]) \/ (m \in accepted' /\ Target[m] = q),
             \A c \in Client : \A q \in subscribed'[c] : q \in subscribed[c] \/ Recipient[q] = c
      PROVE  SetInv'
  <2>1. \A m \in accepted : m \in accepted' /\ m \in Message /\ outcome'[m] # "none"
    BY <1>0 DEF Grows, SetInv, TypeOK
  <2>2. wiped \subseteq accepted /\ accepted \subseteq accepted'
    BY <1>0, <2>1 DEF SetInv
  <2>3. QED
    BY <1>0, <1>1, <2>1, <2>2 DEF SetInv
<1>2. ASSUME NEW s \in Socket, NEW f \in Frame, Handles(s, f) PROVE SetInv'
  <2>0. Handled(s, f) /\ wiped' = wiped /\ delivered' = delivered /\ subscribed' = subscribed /\ outcome' = outcome
    BY <1>2 DEF Handles
  <2>1. CASE accepted' = accepted /\ via' = via
    BY <1>1, <2>0, <2>1
  <2>2. CASE Subscribes(s, f)
    <3>1. f.call.queue \in Queue /\ accepted' = accepted
      BY <2>2, CallTypes DEF Subscribes
    <3>2. \A m \in Message : m \notin accepted => via'[m] = via[m]
      BY <1>0, <2>2, <3>1 DEF Subscribes, QueueInv
    <3>3. QED
      BY <1>1, <2>0, <3>1, <3>2
  <2>3. ASSUME NEW m \in Message, Takes(s, f, m) PROVE SetInv'
    <3>1. accepted' = accepted \cup {m} /\ outcome[m] # "none"
      BY <2>0, <2>3, HandledSend DEF Takes
    <3>2. \A n \in Message : n # m => via'[n] = via[n]
      BY <1>0, <2>3 DEF Takes, Passes, Keeps, TypeOK
    <3>3. QED
      BY <1>1, <2>0, <3>1, <3>2
  <2>4. QED
    BY <1>2, <2>1, <2>2, <2>3 DEF Handles, Refuses, Makes, Forgets
<1>3. ASSUME KeepsEnds, accepted' = accepted, wiped' = wiped, via' = via, delivered' = delivered,
             \A c \in Client : \A q \in subscribed'[c] : q \in subscribed[c] \/ Recipient[q] = c
      PROVE  SetInv'
  BY <1>1, <1>3
<1>4. ASSUME NEW c \in Client, NEW call \in calls[c], NEW ok, Over(c, call, ok)
      PROVE  \A d \in Client : \A q \in subscribed'[d] : q \in subscribed[d] \/ Recipient[q] = d
  <2>1. Legit(c, call)
    BY <1>0 DEF CallInv
  <2>2. CASE subscribed' = subscribed
    BY <2>2
  <2>3. CASE call.cmd = "SUB" /\ subscribed' = [subscribed EXCEPT ![c] = @ \cup {call.queue}]
    <3>1. Recipient[call.queue] = c
      BY <2>1, <2>3 DEF Legit
    <3>2. \A d \in Client : subscribed'[d] = IF d = c THEN subscribed[c] \cup {call.queue} ELSE subscribed[d]
      BY <1>0, <2>3 DEF TypeOK
    <3>3. QED
      BY <3>1, <3>2
  <2>4. QED
    BY <1>4, <2>2, <2>3 DEF Over
<1>5. CASE Acts
  <2>0. KeepsEnds /\ accepted' = accepted /\ wiped' = wiped
    BY <1>5 DEF Acts
  <2>1. ASSUME NEW s \in Socket, NEW c \in Client, NEW f \in Frame, HearsAnswer(s, c, f) PROVE SetInv'
    <3>1. \A d \in Client : \A q \in subscribed'[d] : q \in subscribed[d] \/ Recipient[q] = d
      BY <1>4, <2>1 DEF HearsAnswer, Continued
    <3>2. QED
      BY <1>3, <2>0, <2>1, <3>1 DEF HearsAnswer
  <2>2. ASSUME NEW s \in Socket, NEW c \in Client, NEW m \in Message, HearsMsg(s, c, m) PROVE SetInv'
    <3>1. m \in accepted /\ Target[m] \in Queue
      BY <2>2, MsgOf, ConstantTypes DEF HearsMsg, Taken, Brings
    <3>2. \A q \in Queue : \A n \in Range(delivered'[q]) : n \in Range(delivered[q]) \/ (n = m /\ q = Target[m])
      <4>1. CASE delivered' = delivered
        BY <4>1
      <4>2. CASE delivered' = [delivered EXCEPT ![Target[m]] = Append(@, m)]
        <5>1. \A q \in Queue : Range(delivered'[q]) =
                Range(delivered[q]) \cup IF q = Target[m] THEN {m} ELSE {}
          BY ONLY <1>0, <3>1, <4>2, DeliveredGrows
        <5>2. QED
          BY <5>1
      <4>3. QED
        BY <2>2, <4>1, <4>2 DEF HearsMsg
    <3>3. QED
      BY <1>1, <2>0, <2>2, <3>1, <3>2 DEF HearsMsg
  <2>3. ASSUME NEW c \in Client, NEW call \in Call, GivesUp(c, call) PROVE SetInv'
    BY <1>3, <1>4, <2>0, <2>3 DEF GivesUp
  <2>4. ASSUME NEW c \in Client, NEW call \in Call, Calls(c, call) PROVE SetInv'
    <3>1. \A n \in Message : via'[n].pushed = via[n].pushed
      <4>1. CASE via' = via
        BY <4>1
      <4>2. ASSUME NEW m \in Message, Sends(c, call, m) PROVE \A n \in Message : via'[n].pushed = via[n].pushed
        BY <1>0, <4>2, ViaTypes DEF Sends, TypeOK
      <4>3. QED
        BY <2>4, <4>1, <4>2 DEF Calls, Creates, Accepts, Acknowledges
    <3>2. QED
      BY <1>1, <2>0, <2>4, <3>1 DEF Calls
  <2>5. QED
    BY <1>5, <2>1, <2>2, <2>3, <2>4 DEF Acts
<1>6. CASE Fading
  BY <1>1, <1>6 DEF Fading, Stays, Restarted
<1>7. QED
  BY <1>2, <1>5, <1>6, Kinds
-----------------------------------------------------------------------------
(* What is kept, and what is acknowledged                                  *)

LEMMA StepStored ==
  ASSUME IInv, Next
  PROVE  StoredUntilDelivered'
<1>0. StoredUntilDelivered /\ Grows /\ TypeOK
  BY Kinds DEF IInv, Base
<1>1. SUFFICES ASSUME NEW m \in accepted' \ wiped', ~Delivered(m)' PROVE m \in messages'
  BY DEF StoredUntilDelivered
<1>2. m \in accepted /\ wiped' = wiped => m \in messages
  BY <1>0, <1>1 DEF StoredUntilDelivered, Grows, TypeOK
<1>3. ASSUME NEW s \in Socket, NEW f \in Frame, Handles(s, f) PROVE m \in messages'
  <2>1. Handled(s, f) /\ wiped' = wiped
    BY <1>3 DEF Handles
  <2>2. CASE Forgets(s, f)
    <3>1. f.msg \in Message /\ Delivered(f.msg)
      BY <2>1, <2>2 DEF Forgets, Handled, Holds
    <3>2. f.msg # m
      BY <1>0, <1>1, <3>1 DEF Grows
    <3>3. QED
      BY <1>1, <1>2, <2>1, <2>2, <3>2 DEF Forgets
  <2>3. QED
    BY <1>1, <1>2, <1>3, <2>1, <2>2 DEF Handles, Refuses, Makes, Subscribes, Takes
<1>4. QED
  BY <1>1, <1>2, <1>3, Kinds DEF Acts, Fading, Stays, Restarted

\* What a client writes comes behind what was under way.
LEMMA ActsUps ==
  ASSUME Acts
  PROVE  \A r \in Socket : Range(sock[r].up) \subseteq Range(sock'[r].up)
<1>1. UpsSame => \A r \in Socket : Range(sock[r].up) \subseteq Range(sock'[r].up)
  BY DEF UpsSame
<1>2. ASSUME NEW c, NEW g, Written(c, g) PROVE \A r \in Socket : Range(sock[r].up) \subseteq Range(sock'[r].up)
  BY <1>2 DEF Written, Added
<1>3. QED
  BY <1>1, <1>2 DEF Acts, HearsAnswer, HearsMsg, GivesUp, Calls, Called

\* The ACK of m is under way, or a socket died with it.
AckComes(s, m) == /\ sock[s].owner = Recipient[Target[m]]
                  /\ Dead(s) \/ \E f \in Range(sock[s].up) : f.cmd = "ACK" /\ f.msg = m

LEMMA StepKept ==
  ASSUME IInv, Next
  PROVE  KeptNeedsLostAck'
<1>0. KeptNeedsLostAck /\ SetInv /\ Grows /\ TypeOK /\ SockInv
  BY Kinds DEF IInv, Base
<1>1. \A m \in messages : Delivered(m) => \E s \in Socket : AckComes(s, m)
  BY <1>0 DEF KeptNeedsLostAck, AckComes
<1>2. SUFFICES ASSUME NEW m \in messages', Delivered(m)' PROVE \E s \in Socket : AckComes(s, m)'
  BY DEF KeptNeedsLostAck, AckComes
<1>3. ASSUME NEW s \in Socket, NEW f \in Frame, Handles(s, f) PROVE \E r \in Socket : AckComes(r, m)'
  <2>0. Handled(s, f) /\ KeepsEnds /\ delivered' = delivered
    BY <1>3 DEF Handles
  <2>1. Delivered(m)
    BY <1>2, <2>0 DEF Delivered
  <2>2. m \in messages /\ (f.cmd = "ACK" => f.msg # m)
    <3>1. CASE messages' = messages /\ f.cmd # "ACK"
      BY <1>2, <3>1
    <3>2. CASE Forgets(s, f)
      BY <1>2, <3>2 DEF Forgets
    <3>3. ASSUME NEW n \in Message, Takes(s, f, n) PROVE m \in messages /\ f.cmd # "ACK"
      <4>1. n \notin accepted /\ f.cmd = "SEND" /\ messages' = messages \cup {n}
        BY <2>0, <3>3, HandledSend DEF Takes
      <4>2. ~Delivered(n)
        BY <1>0, <4>1, ConstantTypes DEF SetInv, Delivered
      <4>3. QED
        BY <1>2, <2>1, <4>1, <4>2
    <3>4. QED
      BY <1>3, <3>1, <3>2, <3>3 DEF Handles, Refuses, Makes, Subscribes
  <2>3. PICK r \in Socket : AckComes(r, m)
    BY <1>1, <2>1, <2>2
  <2>4. \A g \in Range(sock[r].up) : g \in Range(sock'[r].up) \/ g = f
    BY <2>0 DEF Handled, Shrank
  <2>5. AckComes(r, m)'
    BY <2>0, <2>2, <2>3, <2>4, EndsStay DEF AckComes
  <2>6. QED
    BY <2>5
<1>4. CASE Acts
  <2>0. KeepsEnds /\ messages' = messages
    BY <1>4 DEF Acts
  <2>1. CASE Delivered(m)
    <3>1. PICK r \in Socket : AckComes(r, m)
      BY <1>1, <1>2, <2>0, <2>1
    <3>2. AckComes(r, m)'
      BY <1>4, <2>0, <3>1, ActsUps, EndsStay DEF AckComes
    <3>3. QED
      BY <3>2
  <2>2. CASE ~Delivered(m)
    <3>1. delivered' # delivered
      BY <1>2, <2>2 DEF Delivered
    <3>2. PICK s \in Socket, c \in Client, n \in Message : HearsMsg(s, c, n)
      BY <1>4, <3>1 DEF Acts, HearsAnswer, GivesUp, Calls
    <3>3. Target[m] \in Queue /\ Target[n] \in Queue /\ m \in Message
      <4>1. messages \subseteq Message
        BY <1>0 DEF TypeOK
      <4>2. QED
        BY <1>2, <2>0, <4>1, ConstantTypes
    <3>4. \A q \in Queue : Range(delivered'[q]) = Range(delivered[q]) \cup IF q = Target[n] THEN {n} ELSE {}
      <4>1. delivered' = [delivered EXCEPT ![Target[n]] = Append(@, n)]
        BY <3>1, <3>2 DEF HearsMsg
      <4>2. QED
        BY ONLY <1>0, <3>3, <4>1, DeliveredGrows
    <3>5. m = n
      BY <1>2, <2>2, <3>3, <3>4 DEF Delivered
    <3>6. s = ws[c] /\ sock[s].owner = Recipient[Target[m]] /\ ~sock[s].cut /\ Written(c, Ack(m))
      BY <3>1, <3>2, <3>5 DEF HearsMsg, Taken
    <3>7. Ack(m) \in Range(sock'[s].up)
      BY <3>6 DEF Written, Added
    <3>8. AckComes(s, m)'
      BY <2>0, <3>6, <3>7, EndsStay, MsgOf DEF AckComes
    <3>9. QED
      BY <3>8
  <2>3. QED
    BY <2>1, <2>2
<1>5. CASE Fading
  <2>0. delivered' = delivered /\ messages' = messages /\ \A r \in Socket : Fades(r)
    BY <1>2, <1>5 DEF Fading, Stays, Restarted
  <2>1. PICK r \in Socket : AckComes(r, m)
    BY <1>1, <1>2, <2>0 DEF Delivered
  <2>2. sock[r].client \notin {"none", "connecting"}
    BY <1>0, <2>1, EmptyOf DEF SockInv, AckComes, Dead
  <2>3. sock'[r].owner = sock[r].owner /\ (Dead(r) => Dead(r)')
    BY <2>0, <2>2 DEF Fades, Dead
  <2>4. Range(sock[r].up) \subseteq Range(sock'[r].up) \/ Dead(r)'
    BY <2>0 DEF Fades
  <2>5. AckComes(r, m)'
    BY <2>1, <2>3, <2>4 DEF AckComes
  <2>6. QED
    BY <2>5
<1>6. QED
  BY <1>3, <1>4, <1>5, Kinds
-----------------------------------------------------------------------------
(* In which order messages are sent                                        *)

LEMMA AheadStays ==
  ASSUME Grows, NEW m \in Message, NEW n \in Message, outcome[m] # "none", outcome[n] # "none", Ahead(m, n)
  PROVE  Ahead(m, n)'
BY DEF Grows, Ahead

\* A client's step sends a message, or no message begins to be sent.
LEMMA ActsSend ==
  ASSUME IInv, Acts
  PROVE  \/ \A m \in Message : (outcome'[m] = "none") <=> (outcome[m] = "none")
         \/ \E c \in Client, call \in Call, m \in Message : Calls(c, call) /\ Sends(c, call, m)
<1>0. TypeOK /\ CallInv
  BY DEF IInv, Base
<1>1. ASSUME NEW s \in Socket, NEW c \in Client, NEW f \in Frame, HearsAnswer(s, c, f)
      PROVE  \A m \in Message : (outcome'[m] = "none") <=> (outcome[m] = "none")
  <2>1. f.call \in calls[c] => Legit(c, f.call)
    BY <1>0 DEF CallInv
  <2>2. f.call \in Call
    BY <1>1 DEF HearsAnswer
  <2>3. QED
    BY <1>0, <1>1, <2>1, <2>2, OverOutcome DEF HearsAnswer, Continued
<1>2. ASSUME NEW c \in Client, NEW call \in Call, GivesUp(c, call)
      PROVE  \A m \in Message : (outcome'[m] = "none") <=> (outcome[m] = "none")
  <2>1. Legit(c, call) /\ Over(c, call, FALSE)
    BY <1>0, <1>2 DEF CallInv, GivesUp
  <2>2. QED
    BY <1>0, <2>1, OverOutcome
<1>3. QED
  BY <1>1, <1>2 DEF Acts, HearsMsg, Calls, Creates, Accepts, Acknowledges

\* What a client's step writes: a SEND only for a message that begins to be sent.
LEMMA ActsWrite ==
  ASSUME IInv, Acts
  PROVE  \/ \A r \in Socket : sock'[r].up = sock[r].up
         \/ \E g \in Frame : /\ g.cmd # "SEND"
                             /\ \A r \in Socket : sock'[r].up = sock[r].up \/ Added(sock'[r].up, sock[r].up, g)
         \/ \E c \in Client, call \in Call, m \in Message :
              /\ Calls(c, call) /\ Sends(c, call, m)
              /\ \A r \in Socket : sock'[r].up = sock[r].up \/ Added(sock'[r].up, sock[r].up, Request(call))
<1>1. UpsSame \/ sock' = sock => \A r \in Socket : sock'[r].up = sock[r].up
  BY DEF UpsSame
<1>2. ASSUME NEW c, NEW g, Written(c, g)
      PROVE  \A r \in Socket : sock'[r].up = sock[r].up \/ Added(sock'[r].up, sock[r].up, g)
  BY <1>2 DEF Written
<1>3. ASSUME NEW s \in Socket, NEW c \in Client, NEW f \in Frame, HearsAnswer(s, c, f), ~UpsSame
      PROVE  \E g \in Frame : g.cmd # "SEND" /\ Written(c, g)
  <2>1. f.call.queue \in Queue /\ Written(c, Request(Sub(f.call.queue, 0)))
    BY <1>3, CallTypes DEF HearsAnswer
  <2>2. Request(Sub(f.call.queue, 0)) \in Frame
    BY <2>1, FrameTypes
  <2>3. Request(Sub(f.call.queue, 0)).cmd = Sub(f.call.queue, 0).cmd /\ Sub(f.call.queue, 0).cmd = "SUB"
    BY MsgOf DEF Sub
  <2>4. QED
    BY <2>1, <2>2, <2>3
<1>4. ASSUME NEW s \in Socket, NEW c \in Client, NEW m \in Message, HearsMsg(s, c, m), ~UpsSame
      PROVE  \E g \in Frame : g.cmd # "SEND" /\ Written(c, g)
  BY <1>4, MsgOf, FrameTypes DEF HearsMsg
<1>5. ASSUME NEW c \in Client, NEW call \in Call, Calls(c, call)
      PROVE  /\ Written(c, Request(call)) /\ Request(call) \in Frame
             /\ Request(call).cmd # "SEND" \/ \E m \in Message : Sends(c, call, m)
  <2>1. Request(call).cmd = call.cmd
    BY MsgOf
  <2>2. QED
    BY <1>5, <2>1 DEF Calls, Called, Creates, New, Accepts, Acknowledges, AckOf
<1>6. QED
  BY <1>1, <1>2, <1>3, <1>4, <1>5 DEF Acts, GivesUp

LEMMA StepSendOrder ==
  ASSUME IInv, Next
  PROVE  SendOrder'
<1>0. SendOrder /\ SetInv /\ FrameInv /\ FrameInv' /\ Grows /\ TypeOK /\ Message \subseteq Nat
  BY Kinds, ConstantTypes DEF IInv, Base
<1> DEFINE One == \A m, n \in Message : n < m /\ Target[n] = Target[m] /\ outcome[m] # "none" => outcome[n] # "none"
           Two == \A s \in Socket : \A f, g : Before(f, g, sock[s].up) /\ f.cmd = "SEND" /\ g.cmd = "SEND" =>
                     f.msg # g.msg /\ (Target[f.msg] = Target[g.msg] => f.msg < g.msg)
           Three == \A s \in Socket : \A f \in Range(sock[s].up) : f.cmd = "SEND" =>
                      \A m \in accepted : Target[m] = Target[f.msg] => Ahead(m, f.msg)
<1>1. One /\ Two /\ Three
  BY <1>0 DEF SendOrder
<1>2. /\ \A s \in Socket : \A f \in Range(sock[s].up) : f.cmd = "SEND" =>
           f.msg \in Message /\ outcome[f.msg] # "none" /\ via[f.msg].sent = s
      /\ \A m \in accepted : m \in Message /\ outcome[m] # "none"
  <2>1. \A s \in Socket : \A f \in Range(sock[s].up) : f.cmd = "SEND" =>
          f.msg \in Message /\ outcome[f.msg] # "none" /\ via[f.msg].sent = s
    BY <1>0 DEF FrameInv, Holds, Legit
  <2>2. accepted \subseteq Message
    BY <1>0 DEF TypeOK
  <2>3. QED
    BY <1>0, <2>1, <2>2 DEF SetInv
<1>3. ASSUME \A m \in Message : (outcome'[m] = "none") <=> (outcome[m] = "none") PROVE One'
  BY <1>1, <1>3
<1>4. ASSUME NEW c \in Client, NEW call \in Call, NEW m \in Message, Sends(c, call, m)
      PROVE  /\ One'
             /\ \A n \in Message : outcome[n] # "none" /\ Target[n] = Target[m] => n < m /\ n # m
  <2>1. \A n \in Message : outcome'[n] # "none" => outcome[n] # "none" \/ n = m
    BY <1>0, <1>4 DEF Sends, TypeOK
  <2>2. \A n \in Message : n < m /\ Target[n] = Target[m] => outcome[n] # "none"
    BY <1>4 DEF Sends
  <2>3. \A n \in Message : outcome[n] # "none" => outcome'[n] # "none"
    BY <1>0 DEF Grows
  <2>4. One'
    BY <1>1, <2>1, <2>2, <2>3
  <2>5. ASSUME NEW n \in Message, outcome[n] # "none", Target[n] = Target[m] PROVE n < m /\ n # m
    <3>1. n # m /\ ~(m < n)
      BY <1>1, <1>4, <2>5 DEF Sends
    <3>2. QED
      BY <1>0, <3>1
  <2>6. QED
    BY <2>4, <2>5
<1>5. \A s \in Socket : \A f \in Range(sock[s].up) : \A m \in accepted :
        f.cmd = "SEND" /\ Target[m] = Target[f.msg] => Ahead(m, f.msg)'
  BY <1>0, <1>1, <1>2, AheadStays
<1> HIDE DEF One, Two, Three
<1>6. ASSUME \A s \in Socket : \A f, g : Before(f, g, sock'[s].up) => Before(f, g, sock[s].up) \/ g.cmd # "SEND"
      PROVE  Two'
  BY <1>1, <1>6 DEF Two
<1>7. ASSUME accepted' = accepted,
             \A s \in Socket : \A f \in Range(sock'[s].up) : f \in Range(sock[s].up) \/ f.cmd # "SEND"
      PROVE  Three'
  BY <1>5, <1>7 DEF Three
<1>8. ASSUME NEW s \in Socket, NEW f \in Frame, Handles(s, f) PROVE One' /\ Two' /\ Three'
  <2>0. Handled(s, f) /\ outcome' = outcome
    BY <1>8 DEF Handles
  <2>1. \A r \in Socket : \A x, y : Before(x, y, sock'[r].up) => Before(x, y, sock[r].up)
    BY <2>0 DEF Handled, Shrank
  <2>2. \A r \in Socket : \A g \in Range(sock'[r].up) : g \in Range(sock[r].up)
    BY <2>0 DEF Handled, Shrank
  <2>3. One' /\ Two'
    BY <1>3, <1>6, <2>0, <2>1
  <2>4. ASSUME NEW m \in Message, Takes(s, f, m) PROVE Three'
    <3>1. /\ f.cmd = "SEND" /\ f.msg = m /\ accepted' = accepted \cup {m} /\ via[m].sent = s
          /\ outcome[m] # "none"
      BY <2>0, <2>4, HandledSend DEF Takes
    <3>2. ASSUME NEW r \in Socket, NEW g \in Range(sock'[r].up), g.cmd = "SEND", Target[m] = Target[g.msg]
          PROVE  Ahead(m, g.msg)'
      <4>1. g \in Range(sock[r].up) /\ g.msg \in Message /\ outcome[g.msg] # "none" /\ via[g.msg].sent = r
        BY <1>2, <2>2, <3>2
      <4>2. CASE r # s
        <5>1. Ahead(m, g.msg)
          BY <3>1, <4>1, <4>2 DEF Ahead
        <5>2. QED
          BY <1>0, <3>1, <4>1, <5>1, AheadStays
      <4>3. CASE r = s
        <5>1. Before(f, g, sock[s].up)
          BY <2>0, <3>2, <4>3 DEF Handled, Shrank
        <5>2. Ahead(m, g.msg)
          BY <1>1, <3>1, <3>2, <5>1 DEF Two, Ahead
        <5>3. QED
          BY <1>0, <3>1, <4>1, <5>2, AheadStays
      <4>4. QED
        BY <4>2, <4>3
    <3>3. QED
      BY <1>5, <2>2, <3>1, <3>2 DEF Three
  <2>5. accepted' = accepted => Three'
    BY <1>7, <2>2
  <2>6. QED
    BY <1>8, <2>3, <2>4, <2>5 DEF Handles, Refuses, Makes, Subscribes, Forgets
<1>9. ASSUME Acts PROVE One' /\ Two' /\ Three'
  <2>0. accepted' = accepted
    BY <1>9 DEF Acts
  <2>1. One'
    BY <1>3, <1>4, <1>9, ActsSend
  <2>2. CASE \A r \in Socket : sock'[r].up = sock[r].up
    BY <1>6, <1>7, <2>0, <2>1, <2>2
  <2>3. ASSUME NEW g \in Frame, g.cmd # "SEND",
               \A r \in Socket : sock'[r].up = sock[r].up \/ Added(sock'[r].up, sock[r].up, g)
        PROVE  Two' /\ Three'
    <3>1. \A r \in Socket : \A x, y : Before(x, y, sock'[r].up) => Before(x, y, sock[r].up) \/ y = g
      BY <2>3 DEF Added
    <3>2. \A r \in Socket : \A f \in Range(sock'[r].up) : f \in Range(sock[r].up) \/ f = g
      BY <2>3 DEF Added
    <3>3. QED
      BY <1>6, <1>7, <2>0, <2>3, <3>1, <3>2
  <2>4. ASSUME NEW c \in Client, NEW call \in Call, NEW m \in Message, Sends(c, call, m),
               \A r \in Socket : sock'[r].up = sock[r].up \/ Added(sock'[r].up, sock[r].up, Request(call))
        PROVE  Two' /\ Three'
    <3> DEFINE g == Request(call)
    <3>1. g.msg = m /\ g.cmd = "SEND"
      BY <2>4, MsgOf DEF Sends, Send
    <3> HIDE DEF g
    <3>2. \A r \in Socket : \A x, y : Before(x, y, sock'[r].up) =>
            Before(x, y, sock[r].up) \/ (x \in Range(sock[r].up) /\ y = g)
      BY <2>4 DEF Added, g
    <3>3. \A r \in Socket : \A f \in Range(sock'[r].up) : f \in Range(sock[r].up) \/ f = g
      BY <2>4 DEF Added, g
    <3>4. \A n \in Message : outcome[n] # "none" /\ Target[n] = Target[m] => n < m /\ n # m
      BY <1>4, <2>4
    <3>5. \A n \in Message : outcome[n] # "none" => n # m
      BY <2>4 DEF Sends
    <3>6. Two'
      <4>1. SUFFICES ASSUME NEW r \in Socket, NEW x, NEW y, Before(x, y, sock'[r].up), x.cmd = "SEND", y.cmd = "SEND"
                     PROVE  x.msg # y.msg /\ (Target[x.msg] = Target[y.msg] => x.msg < y.msg)
        BY DEF Two
      <4>2. CASE Before(x, y, sock[r].up)
        BY <1>1, <4>1, <4>2 DEF Two
      <4>3. CASE x \in Range(sock[r].up) /\ y = g
        BY <1>2, <3>1, <3>4, <3>5, <4>1, <4>3
      <4>4. QED
        BY <3>2, <4>1, <4>2, <4>3
    <3>7. \A n \in accepted : Target[n] = Target[m] => Ahead(n, m)'
      BY <1>2, <3>4 DEF Ahead
    <3>8. Three'
      BY <1>5, <2>0, <3>1, <3>3, <3>7 DEF Three
    <3>9. QED
      BY <3>6, <3>8
  <2>5. QED
    BY <1>9, <2>1, <2>2, <2>3, <2>4, ActsWrite
<1>10. ASSUME Fading PROVE One' /\ Two' /\ Three'
  <2>1. accepted' = accepted /\ outcome' = outcome /\ CloseFrame.cmd # "SEND"
    BY <1>10 DEF Fading, CloseFrame
  <2>2. \A s \in Socket : \A f, g : Before(f, g, sock'[s].up) => Before(f, g, sock[s].up) \/ g = CloseFrame
    BY <1>10 DEF Fading, Fades
  <2>3. \A s \in Socket : \A f \in Range(sock'[s].up) : f \in Range(sock[s].up) \/ f = CloseFrame
    BY <1>10 DEF Fading, Fades
  <2>4. QED
    BY <1>3, <1>6, <1>7, <2>1, <2>2, <2>3
<1>11. One' /\ Two' /\ Three'
  BY <1>8, <1>9, <1>10, Kinds
<1>12. QED
  BY <1>11 DEF SendOrder, One, Two, Three
-----------------------------------------------------------------------------
(* In which order messages arrive                                          *)

LEMMA StepGetOrder ==
  ASSUME IInv, Next
  PROVE  GetOrder'
<1>0. /\ GetOrder /\ SendOrder /\ SetInv /\ QueueInv /\ FrameInv /\ FrameInv' /\ WsInv
      /\ Grows /\ TypeOK /\ SockInv /\ Base
  BY Kinds DEF IInv, Base
<1>1. SUFFICES ASSUME NEW q \in Queue, NEW m, NEW n, Precedes(q, m, n)' PROVE Ahead(m, n)'
  BY DEF GetOrder
<1>2. /\ \A k \in Range(delivered[q]) : k \in accepted /\ Target[k] = q
      /\ \A s \in Socket : \A k : Comes(s, q, k) => k \in accepted /\ sock[s].owner = Recipient[q]
      /\ queue[q] # None => \A k \in Range(queue[q].pending) : k \in accepted /\ Target[k] = q
      /\ \A k \in accepted : k \in Message /\ outcome[k] # "none"
  <2>1. \A s \in Socket : \A k : Comes(s, q, k) => Brings(s, Msg(k))
    BY <1>0 DEF FrameInv, Comes
  <2>2. \A s \in Socket : \A k : Comes(s, q, k) => k \in accepted /\ sock[s].owner = Recipient[q]
    BY <2>1, MsgOf DEF Brings, Comes
  <2>3. accepted \subseteq Message
    BY <1>0 DEF TypeOK
  <2>4. QED
    BY <1>0, <2>2, <2>3 DEF SetInv, QueueInv
<1>3. ASSUME Precedes(q, m, n) PROVE Ahead(m, n)'
  <2>1. m \in accepted /\ n \in accepted
    BY <1>2, <1>3, BeforeBoth DEF Precedes
  <2>2. Ahead(m, n)
    BY <1>0, <1>3 DEF GetOrder
  <2>3. QED
    BY <1>0, <1>2, <2>1, <2>2, AheadStays
\* Nothing of the queue arrives, or comes under way.
<1>4. ASSUME delivered'[q] = delivered[q],
             \A s \in Socket : \A k : Comes(s, q, k)' => Comes(s, q, k),
             \A s \in Socket : \A k, l : Comes(s, q, k)' /\ Comes(s, q, l)' /\ Before(Msg(k), Msg(l), sock'[s].down)
                => Before(Msg(k), Msg(l), sock[s].down),
             queue'[q] = None \/ Range(queue'[q].pending) = {} \/ (queue[q] # None /\ queue'[q].pending = queue[q].pending)
      PROVE  Ahead(m, n)'
  <2>1. Precedes(q, m, n)
    BY <1>1, <1>4 DEF Precedes
  <2>2. QED
    BY <1>3, <2>1
<1>5. ASSUME delivered'[q] = delivered[q], \A s \in Socket : sock'[s].client = sock[s].client,
             \A s \in Socket : \A f \in Range(sock'[s].down) : f \in Range(sock[s].down) \/ f.cmd # "MSG",
             \A s \in Socket : \A x, y : Before(x, y, sock'[s].down) => Before(x, y, sock[s].down) \/ y.cmd # "MSG",
             queue'[q] = None \/ Range(queue'[q].pending) = {} \/ (queue[q] # None /\ queue'[q].pending = queue[q].pending)
      PROVE  Ahead(m, n)'
  <2>1. \A s \in Socket : \A k : Comes(s, q, k)' => Comes(s, q, k)
    BY <1>5, MsgOf DEF Comes
  <2>2. \A s \in Socket : \A k, l : Before(Msg(k), Msg(l), sock'[s].down) => Before(Msg(k), Msg(l), sock[s].down)
    BY <1>5, MsgOf
  <2>3. QED
    BY <1>4, <1>5, <2>1, <2>2
<1>6. ASSUME NEW s \in Socket, NEW cmd \in {"OK", "ERR"}, NEW call, Answered(s, cmd, call)
      PROVE  /\ \A r \in Socket : \A f \in Range(sock'[r].down) : f \in Range(sock[r].down) \/ f.cmd # "MSG"
             /\ \A r \in Socket : \A x, y : Before(x, y, sock'[r].down) => Before(x, y, sock[r].down) \/ y.cmd # "MSG"
  <2>1. Answer(cmd, call).cmd # "MSG"
    BY MsgOf
  <2>2. \A r \in Socket : Grew(sock'[r].down, sock[r].down, {Answer(cmd, call)})
    BY <1>6, GrewNothing DEF Answered
  <2>3. QED
    BY <2>1, <2>2 DEF Grew
<1>7. ASSUME NEW s \in Socket, NEW f \in Frame, Handles(s, f) PROVE Ahead(m, n)'
  <2>0. /\ Handled(s, f) /\ delivered' = delivered /\ \A r \in Socket : sock'[r].client = sock[r].client
    BY <1>7, EndsStay DEF Handles
  <2>1. CASE Refuses(s, f)
    BY <1>5, <1>6, <2>0, <2>1 DEF Refuses
  <2>2. CASE Makes(s, f)
    <3>1. \E cmd \in {"OK", "ERR"} : Answered(s, cmd, f.call)
      BY <2>2 DEF Makes
    <3>2. f.call.queue \in Queue
      BY <2>2, CallTypes DEF Makes
    <3>3. queue'[q] = queue[q] \/ queue'[q] = [subscriber |-> None, pending |-> <<>>]
      BY <1>0, <2>2, <3>2, Types DEF Makes
    <3>4. queue'[q] = queue[q] \/ Range(queue'[q].pending) = {}
      BY <3>3, EmptyOf
    <3>5. QED
      BY <1>5, <1>6, <2>0, <3>1, <3>4
  <2>3. CASE Forgets(s, f)
    BY <1>5, <1>6, <2>0, <2>3 DEF Forgets
  <2>4. CASE Subscribes(s, f)
    <3> DEFINE p == f.call.queue
               flush == queue[p].pending
    <3>1. /\ p \in Queue /\ queue[p] # None /\ queue'[q] = (IF q = p THEN [subscriber |-> s, pending |-> <<>>] ELSE queue[q])
          /\ Flushed(s, f.call, flush)
      BY <1>0, <2>4, CallTypes, Types DEF Subscribes
    <3>2. /\ \A k \in Range(flush) : Target[k] = p
          /\ \A k, l : Before(k, l, flush) => k \in Range(flush) /\ l \in Range(flush)
      BY <1>0, <3>1, BeforeBoth DEF QueueInv
    <3> HIDE DEF p, flush
    <3>3. /\ \A r \in Socket : r # s => sock'[r].down = sock[r].down
          /\ \A k : Msg(k) \in Range(sock'[s].down) => Msg(k) \in Range(sock[s].down) \/ k \in Range(flush)
      <4>1. \A k : Msg(k) # Answer("OK", f.call)
        BY MsgOf
      <4>2. \A k : Msg(k) \in Range(sock'[s].down) =>
              Msg(k) \in Range(sock[s].down) \/ \E l \in Range(flush) : Msg(k) = Msg(l)
        BY <3>1, <4>1 DEF Flushed, Grew
      <4>3. QED
        BY <3>1, <4>2, MsgOf DEF Flushed
    <3>4. \A k, l : Before(Msg(k), Msg(l), sock'[s].down) =>
             \/ Before(Msg(k), Msg(l), sock[s].down)
             \/ l \in Range(flush) /\ Msg(k) \in Range(sock[s].down)
             \/ Before(k, l, flush)
      <4>1. \A x, k : Before(x, Msg(k), sock'[s].down) =>
              \/ Before(x, Msg(k), sock[s].down)
              \/ k \in Range(flush) /\ (x = Answer("OK", f.call) \/ x \in Range(sock[s].down))
              \/ \E l : Before(l, k, flush) /\ x = Msg(l)
        BY <3>1 DEF Flushed
      <4>2. \A k : Msg(k) # Answer("OK", f.call)
        BY MsgOf
      <4>3. QED
        BY <4>1, <4>2, MsgOf
    <3>5. CASE q # p
      <4>1. \A r \in Socket : \A k : Comes(r, q, k)' => Comes(r, q, k)
        BY <2>0, <3>2, <3>3, <3>5 DEF Comes
      <4>2. \A r \in Socket : \A k, l : Comes(r, q, k)' /\ Comes(r, q, l)' /\ Before(Msg(k), Msg(l), sock'[r].down)
               => Before(Msg(k), Msg(l), sock[r].down)
        BY <3>2, <3>3, <3>4, <3>5 DEF Comes
      <4>3. queue'[q] = queue[q]
        BY <3>1, <3>5
      <4>4. QED
        BY <1>4, <2>0, <4>1, <4>2, <4>3
    <3>6. CASE q = p
      <4>1. Range(queue'[q].pending) = {}
        BY <3>1, <3>6, EmptyOf
      <4>2. \A r \in Socket : \A k : Comes(r, q, k)' => Comes(r, q, k) \/ (r = s /\ k \in Range(queue[q].pending))
        BY <2>0, <3>3, <3>6 DEF Comes, flush
      <4>3. queue[q] # None /\ \A k : k \in Range(queue[q].pending) => Target[k] = q /\ k \in Message
        BY <1>2, <3>1, <3>6
      <4>4. ASSUME m \in Range(delivered[q]), NEW r \in Socket, Comes(r, q, n)' PROVE Precedes(q, m, n)
        BY <4>2, <4>3, <4>4 DEF Precedes
      <4>5. ASSUME NEW r \in Socket, Comes(r, q, m)', Comes(r, q, n)', Before(Msg(m), Msg(n), sock'[r].down)
            PROVE  Precedes(q, m, n)
        <5>1. CASE Before(Msg(m), Msg(n), sock[r].down)
          <6>1. Msg(m) \in Range(sock[r].down) /\ Msg(n) \in Range(sock[r].down)
            BY <5>1, BeforeBoth
          <6>2. Comes(r, q, m) /\ Comes(r, q, n)
            BY <2>0, <4>5, <6>1 DEF Comes
          <6>3. QED
            BY <5>1, <6>2 DEF Precedes
        <5>2. CASE r = s /\ n \in Range(flush) /\ Msg(m) \in Range(sock[s].down)
          <6>1. Comes(s, q, m)
            BY <2>0, <4>5, <5>2 DEF Comes
          <6>2. n \in Range(queue[q].pending)
            BY <3>6, <5>2 DEF flush
          <6>3. QED
            BY <4>3, <6>1, <6>2 DEF Precedes
        <5>3. CASE Before(m, n, flush)
          <6>1. n \in Range(queue[q].pending) /\ Before(m, n, queue[q].pending)
            BY <3>2, <3>6, <5>3 DEF flush
          <6>2. QED
            BY <4>3, <6>1 DEF Precedes
        <5>4. QED
          BY <3>3, <3>4, <4>5, <5>1, <5>2, <5>3
      <4>6. Precedes(q, m, n)
        <5>1. CASE Before(m, n, delivered'[q])
          BY <2>0, <5>1 DEF Precedes
        <5>2. QED
          BY <1>1, <2>0, <4>1, <4>4, <4>5, <5>1 DEF Precedes
      <4>7. QED
        BY <1>3, <4>6
    <3>7. QED
      BY <3>5, <3>6
  <2>5. ASSUME NEW k \in Message, Takes(s, f, k) PROVE Ahead(m, n)'
    <3>1. /\ f.cmd = "SEND" /\ f.msg = k /\ k \notin accepted /\ outcome[k] # "none" /\ f \in Range(sock[s].up)
          /\ queue[Target[k]] # None /\ queue[Target[k]] \in Record /\ Target[k] \in Queue
      BY <2>0, <2>5, HandledSend, ConstantTypes DEF Takes, Handled
    <3>2. \A d \in accepted : Target[d] = Target[k] => Ahead(d, k)'
      <4>1. \A d \in accepted : Target[d] = Target[k] => Ahead(d, k)
        BY <1>0, <3>1 DEF SendOrder
      <4>2. QED
        BY <1>0, <1>2, <3>1, <4>1, AheadStays
    <3>3. ASSUME NEW t \in Socket, Passes(s, f, k, t) PROVE Ahead(m, n)'
      <4>1. /\ queue' = queue
            /\ \A r \in Socket : Grew(sock'[r].down, sock[r].down, {Answer("OK", f.call), Msg(k)})
            /\ \A r \in Socket : \A x : Before(x, Msg(k), sock'[r].down) => x \in Range(sock[r].down)
        BY <3>3 DEF Passes, PushedTo
      <4>2. \A l : Msg(l) # Answer("OK", f.call) /\ (Msg(l) = Msg(k) => l = k)
        BY MsgOf
      <4>3. \A r \in Socket : \A l : Comes(r, q, l)' => Comes(r, q, l) \/ l = k
        BY <2>0, <4>1, <4>2 DEF Comes, Grew
      <4>4. \A r \in Socket : \A x, l : Before(x, Msg(l), sock'[r].down) =>
              Before(x, Msg(l), sock[r].down) \/ (l = k /\ x \in Range(sock[r].down))
        BY <4>1, <4>2 DEF Grew
      <4>5. CASE q # Target[k]
        <5>1. \A r \in Socket : \A l : Comes(r, q, l)' => Comes(r, q, l)
          BY <4>3, <4>5 DEF Comes
        <5>2. \A r \in Socket : \A x, l : Comes(r, q, x)' /\ Comes(r, q, l)' /\ Before(Msg(x), Msg(l), sock'[r].down)
                 => Before(Msg(x), Msg(l), sock[r].down)
          BY <4>4, <4>5 DEF Comes
        <5>3. QED
          BY <1>4, <2>0, <4>1, <5>1, <5>2
      <4>6. CASE q = Target[k]
        <5>1. queue[q] # None /\ Range(queue[q].pending) = {}
          <6>1. t = queue[q].subscriber /\ t # None /\ sock[t].relay = "open"
            BY <3>3, <4>6, ConstantTypes DEF Passes
          <6>2. QED
            BY <1>0, <3>1, <4>6, <6>1 DEF QueueInv
        <5>2. CASE Before(m, n, delivered'[q])
          BY <1>3, <2>0, <5>2 DEF Precedes
        <5>3. ASSUME m \in Range(delivered'[q]), NEW r \in Socket, Comes(r, q, n)' PROVE Ahead(m, n)'
          <6>1. m \in Range(delivered[q])
            BY <2>0, <5>3
          <6>2. Comes(r, q, n) => Precedes(q, m, n)
            BY <6>1 DEF Precedes
          <6>3. n = k => Ahead(m, n)'
            BY <1>2, <3>2, <4>6, <6>1
          <6>4. QED
            BY <1>3, <4>3, <5>3, <6>2, <6>3
        <5>4. ASSUME NEW r \in Socket, Comes(r, q, m)', Comes(r, q, n)', Before(Msg(m), Msg(n), sock'[r].down)
              PROVE  Ahead(m, n)'
          <6>1. CASE Before(Msg(m), Msg(n), sock[r].down)
            <7>1. Msg(m) \in Range(sock[r].down) /\ Msg(n) \in Range(sock[r].down)
              BY <6>1, BeforeBoth
            <7>2. Comes(r, q, m) /\ Comes(r, q, n)
              BY <2>0, <5>4, <7>1 DEF Comes
            <7>3. QED
              BY <1>3, <6>1, <7>2 DEF Precedes
          <6>2. CASE n = k /\ Msg(m) \in Range(sock[r].down)
            <7>1. Comes(r, q, m)
              BY <2>0, <5>4, <6>2 DEF Comes
            <7>2. m \in accepted /\ Target[m] = q
              BY <1>2, <7>1 DEF Comes
            <7>3. QED
              BY <3>2, <4>6, <6>2, <7>2
          <6>3. QED
            BY <4>4, <5>4, <6>1, <6>2
        <5>5. QED
          BY <1>1, <4>1, <5>1, <5>2, <5>3, <5>4 DEF Precedes
      <4>7. QED
        BY <4>5, <4>6
    <3>4. CASE Keeps(s, f, k)
      <4>1. /\ \A r \in Socket : \A g \in Range(sock'[r].down) : g \in Range(sock[r].down) \/ g.cmd # "MSG"
            /\ \A r \in Socket : \A x, y : Before(x, y, sock'[r].down) => Before(x, y, sock[r].down) \/ y.cmd # "MSG"
        BY <1>6, <3>4 DEF Keeps
      <4>2. CASE q # Target[k]
        <5>1. queue'[q] = queue[q]
          BY <1>0, <3>4, <4>2, Types DEF Keeps
        <5>2. QED
          BY <1>5, <2>0, <4>1, <5>1
      <4>3. CASE q = Target[k]
        <5>1. /\ queue'[q].pending = Append(queue[q].pending, k) /\ queue[q].pending \in Seq(Message) /\ queue[q] # None
          <6>1. queue'[q] = [queue[q] EXCEPT !.pending = Append(@, k)]
            BY <1>0, <3>4, <4>3, Types DEF Keeps
          <6>2. queue[q] \in Record /\ queue[q] # None
            BY <3>1, <4>3
          <6>3. /\ queue[q].pending \in Seq(Message)
                /\ [queue[q] EXCEPT !.pending = Append(@, k)].pending = Append(queue[q].pending, k)
            BY <6>2, RecordTypes
          <6>4. QED
            BY <6>1, <6>2, <6>3
        <5>2. /\ Range(queue'[q].pending) = Range(queue[q].pending) \cup {k}
              /\ \A x, y : Before(x, y, queue'[q].pending) =>
                   Before(x, y, queue[q].pending) \/ (x \in Range(queue[q].pending) /\ y = k)
          BY <5>1, AppendOf
        <5>3. \A r \in Socket : \A l : Comes(r, q, l)' => Comes(r, q, l)
          BY <2>0, <4>1, MsgOf DEF Comes
        <5>4. \A r \in Socket : \A x, l : Before(Msg(x), Msg(l), sock'[r].down) => Before(Msg(x), Msg(l), sock[r].down)
          BY <4>1, MsgOf
        <5>5. CASE n = k /\ (m \in Range(delivered[q]) \/ (\E r \in Socket : Comes(r, q, m)) \/ m \in Range(queue[q].pending))
          <6>1. m \in accepted /\ Target[m] = q
            BY <1>2, <5>1, <5>5 DEF Comes
          <6>2. QED
            BY <3>2, <4>3, <5>5, <6>1
        <5>6. CASE Precedes(q, m, n)
          BY <1>3, <5>6
        <5>7. Precedes(q, m, n) \/ (n = k /\ (m \in Range(delivered[q]) \/ (\E r \in Socket : Comes(r, q, m)) \/ m \in Range(queue[q].pending)))
          <6>1. CASE Before(m, n, delivered'[q]) \/ (m \in Range(delivered'[q]) /\ \E r \in Socket : Comes(r, q, n)')
            BY <2>0, <5>3, <6>1 DEF Precedes
          <6>2. CASE \E r \in Socket : Comes(r, q, m)' /\ Comes(r, q, n)' /\ Before(Msg(m), Msg(n), sock'[r].down)
            BY <5>3, <5>4, <6>2 DEF Precedes
          <6>3. CASE /\ n \in Range(queue'[q].pending)
                     /\ m \in Range(delivered'[q]) \/ (\E r \in Socket : Comes(r, q, m)') \/ Before(m, n, queue'[q].pending)
            <7>1. CASE Before(m, n, queue'[q].pending)
              BY <5>1, <5>2, <7>1, BeforeBoth DEF Precedes
            <7>2. CASE m \in Range(delivered'[q]) \/ (\E r \in Socket : Comes(r, q, m)')
              <8>1. m \in Range(delivered[q]) \/ \E r \in Socket : Comes(r, q, m)
                BY <2>0, <5>3, <7>2
              <8>2. n \in Range(queue[q].pending) \/ n = k
                BY <5>2, <6>3
              <8>3. QED
                BY <5>1, <8>1, <8>2 DEF Precedes
            <7>3. QED
              BY <6>3, <7>1, <7>2
          <6>4. QED
            BY <1>1, <6>1, <6>2, <6>3 DEF Precedes
        <5>8. QED
          BY <5>5, <5>6, <5>7
      <4>4. QED
        BY <4>2, <4>3
    <3>5. QED
      BY <2>5, <3>3, <3>4 DEF Takes
  <2>6. QED
    BY <1>7, <2>1, <2>2, <2>3, <2>4, <2>5 DEF Handles
<1>8. CASE Acts
  <2>0. queue' = queue /\ \A r \in Socket : sock'[r].client = sock[r].client
    BY <1>8, EndsStay DEF Acts
  <2>1. ASSUME NEW s \in Socket, NEW f, Taken(s, f)
        PROVE  /\ \A r \in Socket : \A g \in Range(sock'[r].down) : g \in Range(sock[r].down)
               /\ \A r \in Socket : \A x, y : Before(x, y, sock'[r].down) => Before(x, y, sock[r].down)
    BY <2>1 DEF Taken, Shrank
  <2>2. CASE delivered' = delivered
    <3>1. /\ \A r \in Socket : \A g \in Range(sock'[r].down) : g \in Range(sock[r].down)
          /\ \A r \in Socket : \A x, y : Before(x, y, sock'[r].down) => Before(x, y, sock[r].down)
      BY <1>8, <2>1 DEF Acts, HearsAnswer, HearsMsg, GivesUp, Calls, Called
    <3>2. QED
      BY <1>5, <2>0, <2>2, <3>1
  <2>3. CASE delivered' # delivered
    <3>1. PICK s \in Socket, c \in Client, k \in Message : HearsMsg(s, c, k)
      BY <1>8, <2>3 DEF Acts, HearsAnswer, GivesUp, Calls
    <3>2. /\ delivered' = [delivered EXCEPT ![Target[k]] = Append(@, k)] /\ Taken(s, Msg(k))
          /\ Target[k] \in Queue /\ ws[c] = s /\ c = Recipient[Target[k]]
      BY <2>3, <3>1, ConstantTypes DEF HearsMsg
    <3>3. /\ \A r \in Socket : \A g \in Range(sock'[r].down) : g \in Range(sock[r].down)
          /\ \A r \in Socket : \A x, y : Before(x, y, sock'[r].down) => Before(x, y, sock[r].down)
      BY <2>1, <3>2
    <3>4. \A r \in Socket : \A x : Comes(r, q, x)' => Comes(r, q, x)
      BY <2>0, <3>3 DEF Comes
    <3>5. CASE q # Target[k]
      <4>1. delivered'[q] = delivered[q]
        BY ONLY <1>0, <3>2, <3>5, DeliveredGrows
      <4>2. QED
        BY <1>5, <2>0, <3>3, <4>1
    <3>6. CASE q = Target[k]
      <4>1. /\ \A p \in Queue : Range(delivered'[p]) = Range(delivered[p]) \cup IF p = Target[k] THEN {k} ELSE {}
            /\ \A x, y : Before(x, y, delivered'[Target[k]]) =>
                 Before(x, y, delivered[Target[k]]) \/ (x \in Range(delivered[Target[k]]) /\ y = k)
        BY ONLY <1>0, <3>2, DeliveredGrows
      <4>2. Range(delivered'[q]) = Range(delivered[q]) \cup {k}
        BY <3>6, <4>1
      <4>3. Comes(s, q, k)
        BY <3>2, <3>6 DEF Comes, Taken
      <4>4. CASE Before(m, n, delivered'[q])
        BY <1>3, <3>6, <4>1, <4>3, <4>4 DEF Precedes
      <4>5. ASSUME m \in Range(delivered'[q]), NEW r \in Socket, Comes(r, q, n)' PROVE Ahead(m, n)'
        <5>1. CASE m \in Range(delivered[q])
          BY <1>3, <3>4, <4>5, <5>1 DEF Precedes
        <5>2. CASE m = k
          <6>1. r = s
            BY <1>0, <1>2, <3>2, <3>4, <3>6, <4>5 DEF WsInv, Comes
          <6>2. Before(Msg(m), Msg(n), sock[s].down)
            BY <3>2, <4>5, <5>2, <6>1 DEF Comes, Taken, Shrank
          <6>3. QED
            BY <1>3, <3>4, <4>3, <4>5, <5>2, <6>1, <6>2 DEF Precedes
        <5>3. QED
          BY <4>2, <4>5, <5>1, <5>2
      <4>6. ASSUME NEW r \in Socket, Comes(r, q, m)', Comes(r, q, n)', Before(Msg(m), Msg(n), sock'[r].down)
            PROVE  Ahead(m, n)'
        BY <1>3, <3>3, <3>4, <4>6 DEF Precedes
      <4>7. ASSUME queue[q] # None, n \in Range(queue[q].pending),
                   m \in Range(delivered'[q]) \/ (\E r \in Socket : Comes(r, q, m)') \/ Before(m, n, queue[q].pending)
            PROVE  Ahead(m, n)'
        <5>1. m \in Range(delivered[q]) \/ (\E r \in Socket : Comes(r, q, m)) \/ Before(m, n, queue[q].pending)
          BY <3>4, <4>2, <4>3, <4>7
        <5>2. QED
          BY <1>3, <4>7, <5>1 DEF Precedes
      <4>8. QED
        BY <1>1, <2>0, <4>4, <4>5, <4>6, <4>7 DEF Precedes
    <3>7. QED
      BY <3>5, <3>6
  <2>4. QED
    BY <2>2, <2>3
<1>9. CASE Fading
  <2>1. delivered' = delivered /\ \A r \in Socket : Fades(r)
    BY <1>9 DEF Fading
  <2>2. \A r \in Socket : \A k : Comes(r, q, k)' => Comes(r, q, k) /\ sock'[r].down = sock[r].down
    BY <2>1, EmptyOf DEF Fades, Comes
  <2>3. queue'[q] = None \/ (queue[q] # None /\ queue'[q].pending = queue[q].pending)
    <3>1. CASE Restarted
      BY <3>1 DEF Restarted
    <3>2. CASE Stays
      BY <1>0, <3>2, Types, RecordTypes DEF Stays
    <3>3. QED
      BY <1>9, <3>1, <3>2 DEF Fading
  <2>4. QED
    BY <1>4, <2>1, <2>2, <2>3
<1>10. QED
  BY <1>7, <1>8, <1>9, Kinds
-----------------------------------------------------------------------------
(* Queues are created before they are subscribed to                        *)

\* What the relay sends when it handles f: the answer to f, and messages.
LEMMA HandlesDowns ==
  ASSUME IInv, NEW s \in Socket, NEW f \in Frame, Handles(s, f)
  PROVE  \A r \in Socket : \A g \in Range(sock'[r].down) :
           \/ g \in Range(sock[r].down)
           \/ \E m \in Message : g = Msg(m)
           \/ /\ r = s /\ f.call \in Call /\ f.call.cmd = f.cmd
              /\ \E cmd \in {"OK", "ERR"} :
                   g = Answer(cmd, f.call) /\ (f.cmd = "SUB" => ((cmd = "OK") <=> (queue[f.call.queue] # None)))
<1>0. Handled(s, f) /\ Holds(s, f)
  BY DEF Handles, Handled
<1>1. f.call \in Call => f.call # None /\ f.call.queue \in Queue
  BY ConstantTypes, CallTypes
<1>2. f.call \in Call => f.call.cmd = f.cmd
  <2>1. f.cmd \in {"NEW", "SUB", "SEND", "ACK"}
    BY DEF Handles, Refuses, Makes, Subscribes, Takes, Forgets
  <2>2. QED
    BY <1>0, <1>1, <2>1 DEF Holds, AckOf
<1>3. ASSUME NEW cmd \in {"OK", "ERR"}, Answered(s, cmd, f.call), f.call \in Call,
             f.cmd = "SUB" => ((cmd = "OK") <=> (queue[f.call.queue] # None))
      PROVE  \A r \in Socket : \A g \in Range(sock'[r].down) :
               \/ g \in Range(sock[r].down)
               \/ /\ r = s /\ f.call \in Call /\ f.call.cmd = f.cmd
                  /\ g = Answer(cmd, f.call) /\ (f.cmd = "SUB" => ((cmd = "OK") <=> (queue[f.call.queue] # None)))
  BY <1>2, <1>3 DEF Answered, Grew
<1>4. CASE Refuses(s, f)
  BY <1>3, <1>4 DEF Refuses
<1>5. CASE Makes(s, f)
  BY <1>3, <1>5 DEF Makes
<1>6. CASE Forgets(s, f)
  BY <1>3, <1>6 DEF Forgets
<1>7. CASE Subscribes(s, f)
  <2> DEFINE p == queue[f.call.queue].pending
  <2>1. /\ \A r \in Socket : r # s => sock'[r].down = sock[r].down
        /\ \A g \in Range(sock'[s].down) :
             g \in Range(sock[s].down) \/ g = Answer("OK", f.call) \/ \E m \in Range(p) : g = Msg(m)
    BY <1>7 DEF Subscribes, Flushed, Grew
  <2>2. p \in Seq(Message) /\ queue[f.call.queue] # None /\ f.call \in Call
    BY <1>7, RecordTypes DEF Subscribes
  <2>3. \A m \in Range(p) : m \in Message
    BY <2>2 DEF Range
  <2> HIDE DEF p
  <2>4. QED
    BY <1>2, <2>1, <2>2, <2>3
<1>8. ASSUME NEW m \in Message, Takes(s, f, m)
      PROVE  \A r \in Socket : \A g \in Range(sock'[r].down) :
               \/ g \in Range(sock[r].down)
               \/ g = Msg(m)
               \/ r = s /\ f.call \in Call /\ f.call.cmd = f.cmd /\ f.cmd # "SUB" /\ g = Answer("OK", f.call)
  <2>1. CASE Keeps(s, f, m)
    BY <1>2, <1>8, <2>1 DEF Keeps, Answered, Grew, Takes
  <2>2. ASSUME NEW t \in Socket, Passes(s, f, m, t)
        PROVE  \A r \in Socket : \A g \in Range(sock'[r].down) :
                 g \in Range(sock[r].down) \/ g = Msg(m) \/ (r = s /\ g = Answer("OK", f.call))
    BY <2>2 DEF Passes, PushedTo, Grew
  <2>3. QED
    BY <1>2, <1>8, <2>1, <2>2 DEF Takes
<1>9. QED
  BY <1>4, <1>5, <1>6, <1>7, <1>8 DEF Handles

\* Only a NEW makes a queue.
LEMMA HandlesQueues ==
  ASSUME IInv, NEW s \in Socket, NEW f \in Frame, Handles(s, f), NEW q \in Queue
  PROVE  ((queue'[q] = None) <=> (queue[q] = None)) \/ (f.cmd = "NEW" /\ Asks(f, "NEW", q) /\ queue[q] = None)
<1>0. Handled(s, f) /\ Holds(s, f) /\ queue \in [Queue -> Record \cup {None}]
  BY Types DEF Handles, Handled, IInv, Base
<1>1. f.call \in Call => f.call # None /\ f.call.queue \in Queue
  BY ConstantTypes, CallTypes
<1>2. CASE Makes(s, f)
  <2>1. f.call.cmd = "NEW"
    BY <1>0, <1>2 DEF Makes, Holds
  <2>2. queue'[q] = queue[q] \/ (queue[q] = None /\ f.call.queue = q)
    BY <1>0, <1>1, <1>2 DEF Makes
  <2>3. QED
    BY <1>1, <1>2, <2>1, <2>2 DEF Makes, Asks
<1>3. CASE Subscribes(s, f)
  <2>1. [subscriber |-> s, pending |-> <<>>] \in Record
    BY EmptySeq DEF Record
  <2>2. [subscriber |-> s, pending |-> <<>>] # None
    BY <2>1, ConstantTypes
  <2>3. QED
    BY <1>0, <1>1, <1>3, <2>2 DEF Subscribes
<1>4. ASSUME NEW m \in Message, Takes(s, f, m) PROVE (queue'[q] = None) <=> (queue[q] = None)
  <2>1. CASE Keeps(s, f, m)
    <3>1. queue[Target[m]] \in Record /\ queue[Target[m]] # None
      BY <1>4 DEF Takes
    <3>2. [queue[Target[m]] EXCEPT !.pending = Append(@, m)] # None
      BY <3>1, RecordTypes, ConstantTypes
    <3>3. queue'[q] = IF q = Target[m] THEN [queue[Target[m]] EXCEPT !.pending = Append(@, m)] ELSE queue[q]
      BY <1>0, <2>1 DEF Keeps
    <3>4. QED
      BY <3>1, <3>2, <3>3
  <2>2. QED
    BY <1>4, <2>1 DEF Takes, Passes
<1>5. QED
  BY <1>2, <1>3, <1>4 DEF Handles, Refuses, Forgets

LEMMA ActsDowns ==
  ASSUME Acts
  PROVE  /\ \A r \in Socket : \A g \in Range(sock'[r].down) : g \in Range(sock[r].down)
         /\ \A r \in Socket : \A x, y : Before(x, y, sock'[r].down) => Before(x, y, sock[r].down)
<1>1. ASSUME NEW s \in Socket, NEW f, Taken(s, f)
      PROVE  /\ \A r \in Socket : \A g \in Range(sock'[r].down) : g \in Range(sock[r].down)
             /\ \A r \in Socket : \A x, y : Before(x, y, sock'[r].down) => Before(x, y, sock[r].down)
  BY <1>1 DEF Taken, Shrank
<1>2. QED
  BY <1>1 DEF Acts, HearsAnswer, HearsMsg, GivesUp, Calls, Called

LEMMA FadesDown ==
  ASSUME NEW r \in Socket, Fades(r)
  PROVE  /\ \A g \in Range(sock'[r].down) : g \in Range(sock[r].down)
         /\ \A g \in Range(sock'[r].down) : sock'[r].down = sock[r].down
         /\ \A x, y : Before(x, y, sock'[r].down) => Before(x, y, sock[r].down)
BY EmptyOf DEF Fades

\* f is about the creation of queue q, or a subscription to it.
About(f, q) == Asks(f, "NEW", q) \/ Asks(f, "SUB", q)

\* NewInv, for one queue.
Fresh(q) ==
  /\ address[q] = "none" => queue[q] = None /\ NoneAsks("NEW", q) /\ NoneAsks("SUB", q)
  /\ \A s \in Socket : \A f \in Range(sock[s].up) : Asks(f, "NEW", q) =>
        /\ queue[q] = None /\ address[q] \in {"creating", "failed"} /\ NoneAsks("SUB", q)
        /\ \A t \in Socket : \A g \in Range(sock[t].down) : ~Asks(g, "NEW", q)
        /\ \A t \in Socket : \A g \in Range(sock[t].up) : Asks(g, "NEW", q) => s = t /\ ~Before(f, g, sock[s].up)

LEMMA StepNew ==
  ASSUME IInv, Next
  PROVE  NewInv'
<1>0. NewInv /\ TypeOK /\ FrameInv /\ FrameInv' /\ Base
  BY Kinds DEF IInv, Base
<1>1. SUFFICES ASSUME NEW q \in Queue PROVE Fresh(q)'
  BY DEF NewInv, Fresh
<1>2. Fresh(q)
  BY <1>0 DEF NewInv, Fresh
\* Nothing about the queue is asked or answered.
<1>3. ASSUME \A r \in Socket : \A g \in Range(sock'[r].up) : g \in Range(sock[r].up) \/ ~About(g, q),
             \A r \in Socket : \A g \in Range(sock'[r].down) : g \in Range(sock[r].down) \/ ~About(g, q),
             \A r \in Socket : \A x, y : Before(x, y, sock'[r].up) /\ About(y, q) => Before(x, y, sock[r].up),
             queue[q] = None => queue'[q] = None,
             address'[q] = address[q] \/ (address[q] = "creating" /\ address'[q] = "failed")
      PROVE  Fresh(q)'
  <2>1. ASSUME NoneAsks("NEW", q) PROVE NoneAsks("NEW", q)'
    BY <1>3, <2>1 DEF NoneAsks, About
  <2>2. ASSUME NoneAsks("SUB", q) PROVE NoneAsks("SUB", q)'
    BY <1>3, <2>2 DEF NoneAsks, About
  <2>3. address'[q] = "none" => queue'[q] = None /\ NoneAsks("NEW", q)' /\ NoneAsks("SUB", q)'
    BY <1>2, <1>3, <2>1, <2>2 DEF Fresh
  <2>4. ASSUME NEW s \in Socket, NEW f \in Range(sock'[s].up), Asks(f, "NEW", q)
        PROVE  /\ queue'[q] = None /\ address'[q] \in {"creating", "failed"} /\ NoneAsks("SUB", q)'
               /\ \A t \in Socket : \A g \in Range(sock'[t].down) : ~Asks(g, "NEW", q)
               /\ \A t \in Socket : \A g \in Range(sock'[t].up) : Asks(g, "NEW", q) => s = t /\ ~Before(f, g, sock'[s].up)
    <3>1. f \in Range(sock[s].up)
      BY <1>3, <2>4 DEF About
    <3>2. queue'[q] = None /\ address'[q] \in {"creating", "failed"} /\ NoneAsks("SUB", q)'
      BY <1>2, <1>3, <2>2, <2>4, <3>1 DEF Fresh
    <3>3. \A t \in Socket : \A g \in Range(sock'[t].down) : ~Asks(g, "NEW", q)
      BY <1>2, <1>3, <2>4, <3>1 DEF Fresh, About
    <3>4. \A t \in Socket : \A g \in Range(sock'[t].up) : Asks(g, "NEW", q) => s = t /\ ~Before(f, g, sock'[s].up)
      BY <1>2, <1>3, <2>4, <3>1 DEF Fresh, About
    <3>5. QED
      BY <3>2, <3>3, <3>4
  <2>5. QED
    BY <2>3, <2>4 DEF Fresh
\* The queue is there, or was asked for: no NEW is on its way any more.
<1>4. ASSUME address'[q] # "none", \A r \in Socket : \A g \in Range(sock'[r].up) : ~Asks(g, "NEW", q)
      PROVE  Fresh(q)'
  BY <1>4 DEF Fresh
<1>5. ASSUME NEW s \in Socket, NEW f \in Frame, Handles(s, f) PROVE Fresh(q)'
  <2>0. Handled(s, f) /\ address' = address
    BY <1>5 DEF Handles
  <2>1. /\ \A r \in Socket : \A g \in Range(sock'[r].up) : g \in Range(sock[r].up)
        /\ \A r \in Socket : \A x, y : Before(x, y, sock'[r].up) => Before(x, y, sock[r].up)
    BY <2>0 DEF Handled, Shrank
  <2>2. CASE About(f, q)
    <3>1. address[q] # "none"
      BY <1>2, <2>0, <2>2 DEF Fresh, NoneAsks, Handled, About
    <3>2. ASSUME NEW r \in Socket, NEW g \in Range(sock'[r].up), Asks(g, "NEW", q) PROVE FALSE
      <4>1. g \in Range(sock[r].up) /\ f \in Range(sock[s].up)
        BY <2>0, <2>1 DEF Handled
      <4>2. ~Asks(f, "SUB", q)
        BY <1>2, <3>2, <4>1 DEF Fresh, NoneAsks
      <4>3. s = r /\ ~Before(f, g, sock[s].up)
        BY <1>2, <2>2, <3>2, <4>1, <4>2 DEF Fresh, About
      <4>4. QED
        BY <2>0, <3>2, <4>3 DEF Handled, Shrank
    <3>3. QED
      BY <1>4, <2>0, <3>1, <3>2
  <2>3. CASE ~About(f, q)
    <3>1. \A r \in Socket : \A g \in Range(sock'[r].down) : g \in Range(sock[r].down) \/ ~About(g, q)
      <4>1. \A m : ~About(Msg(m), q)
        BY MsgOf DEF About, Asks
      <4>2. \A cmd : ~About(Answer(cmd, f.call), q)
        BY <2>3, MsgOf DEF About, Asks
      <4>3. QED
        BY <1>0, <1>5, <4>1, <4>2, HandlesDowns DEF Base
    <3>2. queue[q] = None => queue'[q] = None
      BY <1>5, <2>3, HandlesQueues DEF About
    <3>3. QED
      BY <1>3, <2>0, <2>1, <3>1, <3>2
  <2>4. QED
    BY <2>2, <2>3
<1>6. CASE Acts
  <2>0. /\ queue' = queue
        /\ \A r \in Socket : \A g \in Range(sock'[r].down) : g \in Range(sock[r].down)
    BY <1>6, ActsDowns DEF Acts
  <2>1. ASSUME NEW c \in Client, NEW g, Written(c, g)
        PROVE  /\ \A r \in Socket : \A x \in Range(sock'[r].up) : x \in Range(sock[r].up) \/ (r = ws[c] /\ x = g)
               /\ \A r \in Socket : \A x, y : Before(x, y, sock'[r].up) =>
                    Before(x, y, sock[r].up) \/ (x \in Range(sock[r].up) /\ y = g)
    BY <2>1 DEF Written, Added
  <2>2. ASSUME NEW c \in Client, NEW g, Written(c, g), ~About(g, q),
               address'[q] = address[q] \/ (address[q] = "creating" /\ address'[q] = "failed")
        PROVE  Fresh(q)'
    BY <1>3, <2>0, <2>1, <2>2
  <2>3. ASSUME \A r \in Socket : sock'[r].up = sock[r].up,
               address'[q] = address[q] \/ (address[q] = "creating" /\ address'[q] = "failed")
        PROVE  Fresh(q)'
    BY <1>3, <2>0, <2>3
  <2>4. ASSUME NEW c \in Client, NEW call \in Call, NEW ok, Over(c, call, ok), call.queue # q \/ call.cmd \notin {"NEW", "SUB"}
        PROVE  address'[q] = address[q]
    <3>1. CASE address' = address
      BY <3>1
    <3>2. CASE call.cmd \in {"NEW", "SUB"} /\ Settles(call.queue, IF ok THEN "shared" ELSE "failed")
      BY <1>0, <2>4, <3>2 DEF Settles, TypeOK
    <3>3. QED
      BY <2>4, <3>1, <3>2 DEF Over
  <2>5. ASSUME NEW c \in Client, NEW call \in Call, NEW ok, Over(c, call, ok)
        PROVE  /\ address[q] # "none" => address'[q] # "none"
               /\ ok = FALSE => address'[q] = address[q] \/ (address[q] = "creating" /\ address'[q] = "failed")
    <3>1. CASE address' = address
      BY <3>1
    <3>2. CASE Settles(call.queue, IF ok THEN "shared" ELSE "failed")
      BY <1>0, <3>2 DEF Settles, TypeOK
    <3>3. QED
      BY <2>5, <3>1, <3>2 DEF Over
  <2>6. ASSUME NEW s \in Socket, NEW c \in Client, NEW f \in Frame, HearsAnswer(s, c, f) PROVE Fresh(q)'
    <3>1. f \in Range(sock[s].down) /\ f.call \in Call /\ f.call # None
      BY <2>6, ConstantTypes DEF HearsAnswer, Taken
    <3>2. Sub(f.call.queue, 0).cmd = "SUB" /\ Sub(f.call.queue, 0).queue = f.call.queue
      BY DEF Sub
    <3>3. CASE About(f, q)
      <4>1. address[q] # "none" /\ \A r \in Socket : \A g \in Range(sock[r].up) : ~Asks(g, "NEW", q)
        BY <1>2, <3>1, <3>3 DEF Fresh, NoneAsks, About
      <4>2. address'[q] # "none"
        BY <2>5, <2>6, <3>1, <4>1 DEF HearsAnswer, Continued
      <4>3. ~Asks(Request(Sub(f.call.queue, 0)), "NEW", q)
        BY <3>2, MsgOf DEF Asks
      <4>4. \A r \in Socket : \A g \in Range(sock'[r].up) : g \in Range(sock[r].up) \/ g = Request(Sub(f.call.queue, 0))
        <5>1. CASE UpsSame
          BY <5>1 DEF UpsSame
        <5>2. CASE Written(c, Request(Sub(f.call.queue, 0)))
          BY <2>1, <5>2
        <5>3. QED
          BY <2>6, <5>1, <5>2 DEF HearsAnswer
      <4>5. QED
        BY <1>4, <4>1, <4>2, <4>3, <4>4
    <3>4. CASE ~About(f, q)
      <4>1. f.call.queue # q \/ f.call.cmd \notin {"NEW", "SUB"}
        BY <3>1, <3>4 DEF About, Asks
      <4>2. CASE Continued(c, f.call) /\ Written(c, Request(Sub(f.call.queue, 0)))
        <5>1. f.call.queue # q /\ address' = address
          BY <4>1, <4>2 DEF Continued
        <5>2. ~About(Request(Sub(f.call.queue, 0)), q)
          BY <3>2, <5>1, MsgOf DEF About, Asks
        <5>3. QED
          BY <2>2, <4>2, <5>1, <5>2
      <4>3. QED
        BY <2>3, <2>4, <2>6, <3>1, <4>1, <4>2 DEF HearsAnswer, UpsSame
    <3>5. QED
      BY <3>3, <3>4
  <2>7. ASSUME NEW s \in Socket, NEW c \in Client, NEW m \in Message, HearsMsg(s, c, m) PROVE Fresh(q)'
    <3>1. ~About(Ack(m), q)
      BY MsgOf DEF About, Asks
    <3>2. QED
      BY <2>2, <2>3, <2>7, <3>1 DEF HearsMsg, UpsSame
  <2>8. ASSUME NEW c \in Client, NEW call \in Call, GivesUp(c, call) PROVE Fresh(q)'
    <3>1. address'[q] = address[q] \/ (address[q] = "creating" /\ address'[q] = "failed")
      BY <2>5, <2>8 DEF GivesUp
    <3>2. QED
      BY <2>3, <2>8, <3>1 DEF GivesUp
  <2>9. ASSUME NEW c \in Client, NEW call \in Call, Calls(c, call) PROVE Fresh(q)'
    <3> DEFINE g == Request(call)
    <3>0. Written(c, g) /\ g.call = call /\ call # None
      BY <2>9, MsgOf, ConstantTypes DEF Calls, Called
    <3> HIDE DEF g
    <3>1. ASSUME NEW p \in Queue, Creates(c, call, p) PROVE Fresh(q)'
      <4>1. call.cmd = "NEW" /\ call.queue = p
        BY <3>1 DEF Creates, New
      <4>2. CASE p # q
        <5>1. ~About(g, q) /\ address'[q] = address[q]
          BY <1>0, <3>0, <3>1, <4>1, <4>2 DEF About, Asks, Creates, TypeOK
        <5>2. QED
          BY <2>2, <3>0, <5>1
      <4>3. CASE p = q
        <5>1. address[q] = "none" /\ address'[q] = "creating"
          BY <1>0, <3>1, <4>3 DEF Creates, TypeOK
        <5>2. queue[q] = None /\ NoneAsks("NEW", q) /\ NoneAsks("SUB", q)
          BY <1>2, <5>1 DEF Fresh
        <5>3. ~Asks(g, "SUB", q)
          BY <3>0, <4>1 DEF Asks
        <5>4. NoneAsks("SUB", q)'
          BY <2>0, <2>1, <3>0, <5>2, <5>3 DEF NoneAsks
        <5>5. \A t \in Socket : \A h \in Range(sock'[t].down) : ~Asks(h, "NEW", q)
          BY <2>0, <5>2 DEF NoneAsks
        <5>6. \A r \in Socket : \A h \in Range(sock'[r].up) : Asks(h, "NEW", q) => r = ws[c] /\ h = g
          BY <2>1, <3>0, <5>2 DEF NoneAsks
        <5>7. \A r \in Socket : \A x, y : Asks(x, "NEW", q) => ~Before(x, y, sock'[r].up)
          <6>1. \A r \in Socket : \A x, y : Before(x, y, sock'[r].up) => x \in Range(sock[r].up)
            BY <2>1, <3>0, BeforeBoth
          <6>2. QED
            BY <5>2, <6>1 DEF NoneAsks
        <5>8. QED
          BY <2>0, <5>1, <5>2, <5>4, <5>5, <5>6, <5>7 DEF Fresh
      <4>4. QED
        BY <4>2, <4>3
    <3>2. ASSUME NEW p \in Queue, Accepts(c, call, p) PROVE Fresh(q)'
      <4>1. call.cmd = "SUB" /\ call.queue = p /\ address' = address
        BY <3>2 DEF Accepts
      <4>2. CASE p # q
        <5>1. ~About(g, q)
          BY <3>0, <4>1, <4>2 DEF About, Asks
        <5>2. QED
          BY <2>2, <3>0, <4>1, <5>1
      <4>3. CASE p = q
        <5>1. address[q] = "shared"
          BY <3>2, <4>3 DEF Accepts
        <5>2. \A r \in Socket : \A h \in Range(sock[r].up) : ~Asks(h, "NEW", q)
          BY <1>2, <5>1 DEF Fresh
        <5>3. ~Asks(g, "NEW", q)
          BY <3>0, <4>1 DEF Asks
        <5>4. QED
          BY <1>4, <2>1, <3>0, <4>1, <5>1, <5>2, <5>3
      <4>4. QED
        BY <4>2, <4>3
    <3>3. ASSUME NEW m \in Message, Sends(c, call, m) \/ Acknowledges(c, call, m) PROVE Fresh(q)'
      <4>1. call.cmd \in {"SEND", "ACK"} /\ address' = address
        BY <3>3 DEF Sends, Send, Acknowledges, AckOf
      <4>2. ~About(g, q)
        BY <3>0, <4>1 DEF About, Asks
      <4>3. QED
        BY <2>2, <3>0, <4>1, <4>2
    <3>4. QED
      BY <2>9, <3>1, <3>2, <3>3 DEF Calls
  <2>10. QED
    BY <1>6, <2>6, <2>7, <2>8, <2>9 DEF Acts
<1>7. CASE Fading
  <2>1. /\ address' = address /\ \A r \in Socket : Fades(r)
        /\ ~About(CloseFrame, q)
    BY <1>7 DEF Fading, About, Asks, CloseFrame
  <2>2. queue[q] = None => queue'[q] = None
    BY <1>7 DEF Fading, Stays, Restarted
  <2>3. /\ \A r \in Socket : \A g \in Range(sock'[r].up) : g \in Range(sock[r].up) \/ g = CloseFrame
        /\ \A r \in Socket : \A x, y : Before(x, y, sock'[r].up) => Before(x, y, sock[r].up) \/ y = CloseFrame
    BY <2>1 DEF Fades
  <2>4. QED
    BY <1>3, <2>1, <2>2, <2>3, FadesDown
<1>8. QED
  BY <1>5, <1>6, <1>7, Kinds

\* The answers to SUBs are true.
LEMMA StepAnswers ==
  ASSUME IInv, Next
  PROVE  AnswerInv'
<1>0. AnswerInv /\ NewInv /\ TypeOK /\ Base
  BY Kinds DEF IInv, Base
<1>1. SUFFICES ASSUME NEW r \in Socket, sock'[r].client = "open", NEW g \in Range(sock'[r].down),
                      NEW q \in Queue, Asks(g, "SUB", q)
               PROVE  (g.cmd = "OK") <=> (queue'[q] # None)
  BY DEF AnswerInv
<1>2. sock[r].client = "open" /\ g \in Range(sock[r].down) => ((g.cmd = "OK") <=> (queue[q] # None))
  BY <1>0, <1>1 DEF AnswerInv
<1>3. ASSUME NEW s \in Socket, NEW f \in Frame, Handles(s, f) PROVE (g.cmd = "OK") <=> (queue'[q] # None)
  <2>0. Handled(s, f) /\ sock[r].client = "open"
    BY <1>1, <1>3, EndsStay DEF Handles
  <2>1. CASE g \in Range(sock[r].down)
    <3>1. f \in Range(sock[s].up)
      BY <2>0 DEF Handled
    <3>2. ~Asks(f, "NEW", q)
      BY <1>0, <1>1, <2>1, <3>1 DEF NewInv, NoneAsks
    <3>3. (queue'[q] = None) <=> (queue[q] = None)
      BY <1>3, <3>2, HandlesQueues
    <3>4. QED
      BY <1>2, <2>0, <2>1, <3>3
  <2>2. CASE g \notin Range(sock[r].down)
    <3>1. \A m : ~Asks(Msg(m), "SUB", q)
      BY MsgOf DEF Asks
    <3>2. PICK cmd \in {"OK", "ERR"} :
            /\ f.call \in Call /\ f.call.cmd = f.cmd /\ g = Answer(cmd, f.call)
            /\ (f.cmd = "SUB" => ((cmd = "OK") <=> (queue[f.call.queue] # None)))
      BY <1>0, <1>1, <1>3, <2>2, <3>1, HandlesDowns DEF Base
    <3>3. g.cmd = cmd /\ g.call = f.call
      BY <3>2, MsgOf
    <3>4. f.call.queue = q /\ f.cmd = "SUB"
      BY <1>1, <3>2, <3>3 DEF Asks
    <3>5. (queue'[q] = None) <=> (queue[q] = None)
      BY <1>3, <3>4, HandlesQueues
    <3>6. QED
      BY <3>2, <3>3, <3>4, <3>5
  <2>3. QED
    BY <2>1, <2>2
<1>4. CASE Acts
  BY <1>1, <1>2, <1>4, ActsDowns, EndsStay DEF Acts
<1>5. CASE Fading
  <2>1. Fades(r)
    BY <1>5 DEF Fading
  <2>2. sock'[r].down = sock[r].down /\ sock[r].client = "open" /\ g \in Range(sock[r].down)
    BY <1>1, <2>1, EmptyOf DEF Fades
  <2>3. ~Restarted
    BY <1>1, EmptyOf DEF Restarted
  <2>4. (queue'[q] = None) <=> (queue[q] = None)
    <3>1. queue[q] # None => queue[q] \in Record
      BY <1>0, Types
    <3>2. queue[q] # None => [queue[q] EXCEPT !.subscriber = None] # None
      BY <3>1, RecordTypes, ConstantTypes
    <3>3. QED
      BY <1>5, <2>3, <3>2 DEF Fading, Stays
  <2>5. QED
    BY <1>2, <2>2, <2>4
<1>6. QED
  BY <1>3, <1>4, <1>5, Kinds
-----------------------------------------------------------------------------
(* A message reaches a client behind the OK of its SUB                     *)

LEMMA DownsGrow ==
  ASSUME NEW s \in Socket, NEW f \in Frame, Handles(s, f)
  PROVE  \A r \in Socket : /\ Range(sock[r].down) \subseteq Range(sock'[r].down)
                           /\ \A x, y : Before(x, y, sock[r].down) => Before(x, y, sock'[r].down)
<1>1. ASSUME NEW cmd, NEW call, Answered(s, cmd, call)
      PROVE  \A r \in Socket : /\ Range(sock[r].down) \subseteq Range(sock'[r].down)
                               /\ \A x, y : Before(x, y, sock[r].down) => Before(x, y, sock'[r].down)
  BY <1>1 DEF Answered, Grew
<1>2. QED
  BY <1>1 DEF Handles, Refuses, Makes, Forgets, Subscribes, Flushed, Takes, Passes, PushedTo, Keeps, Grew

\* The subscriber of a queue changes by a SUB only.
LEMMA HandlesSubscriber ==
  ASSUME IInv, NEW s \in Socket, NEW f \in Frame, Handles(s, f), NEW q \in Queue
  PROVE  \/ queue'[q] = queue[q]
         \/ queue[q] = None /\ queue'[q].subscriber = None
         \/ /\ queue[q] # None /\ queue'[q].subscriber = queue[q].subscriber
            /\ Range(queue[q].pending) \subseteq Range(queue'[q].pending)
         \/ /\ Subscribes(s, f) /\ f.call.queue = q /\ queue'[q].subscriber = s
<1>0. queue \in [Queue -> Record \cup {None}]
  BY Types DEF IInv, Base
<1>1. f.call \in Call => f.call.queue \in Queue
  BY CallTypes
<1>2. CASE Makes(s, f)
  BY <1>0, <1>1, <1>2 DEF Makes
<1>3. CASE Subscribes(s, f)
  BY <1>0, <1>1, <1>3 DEF Subscribes
<1>4. ASSUME NEW m \in Message, Takes(s, f, m)
      PROVE  \/ queue'[q] = queue[q]
             \/ /\ queue[q] # None /\ queue'[q].subscriber = queue[q].subscriber
                /\ Range(queue[q].pending) \subseteq Range(queue'[q].pending)
  <2>1. ASSUME Keeps(s, f, m), q = Target[m]
        PROVE  /\ queue[q] # None /\ queue'[q].subscriber = queue[q].subscriber
               /\ Range(queue[q].pending) \subseteq Range(queue'[q].pending)
    <3>1. queue[q] \in Record /\ queue[q] # None
      BY <1>4, <2>1 DEF Takes
    <3>2. queue'[q] = [queue[q] EXCEPT !.pending = Append(@, m)]
      BY <1>0, <2>1 DEF Keeps
    <3>3. queue'[q].subscriber = queue[q].subscriber /\ queue'[q].pending = Append(queue[q].pending, m)
      BY <3>1, <3>2, RecordTypes
    <3>4. queue[q].pending \in Seq(Message)
      BY <3>1, RecordTypes
    <3>5. QED
      BY <3>1, <3>3, <3>4, AppendOf
  <2>2. ASSUME Keeps(s, f, m), q # Target[m] PROVE queue'[q] = queue[q]
    BY <1>0, <2>2 DEF Keeps
  <2>3. QED
    BY <1>4, <2>1, <2>2 DEF Takes, Passes
<1>5. QED
  BY <1>2, <1>3, <1>4 DEF Handles, Refuses, Forgets

LEMMA KnowsGrows ==
  ASSUME IInv, Next, NEW c \in Client, NEW q, Knows(c, q)
  PROVE  Knows(c, q)'
<1>0. subscribed \in [Client -> SUBSET Queue]
  BY DEF IInv, Base, TypeOK
<1>1. ASSUME NEW d \in Client, NEW call, NEW ok, Over(d, call, ok) PROVE subscribed[c] \subseteq subscribed'[c]
  BY <1>0, <1>1 DEF Over
<1>2. subscribed[c] \subseteq subscribed'[c] /\ late \subseteq late'
  BY <1>1, Kinds DEF Handles, Acts, HearsAnswer, Continued, HearsMsg, GivesUp, Calls, Fading
<1>3. QED
  BY <1>2 DEF Knows

\* A SUB that waits goes on waiting, until its client knows how it ended.
LEMMA SubStays ==
  ASSUME IInv, Next, Acts, NEW c \in Client, NEW call \in calls[c], call.cmd = "SUB", queue[call.queue] # None
  PROVE  call \in calls'[c] \/ Knows(c, call.queue)'
<1>0. /\ calls \in [Client -> SUBSET Call] /\ subscribed \in [Client -> SUBSET Queue] /\ AnswerInv
      /\ call \in Call
  BY DEF IInv, Base, TypeOK
<1>1. call.queue \in Queue
  BY <1>0, CallTypes
<1>2. ASSUME NEW d \in Client, NEW other \in Call, NEW ok, Over(d, other, ok), call \notin calls'[c]
      PROVE  d = c /\ other = call /\ (ok => call.queue \in subscribed'[c])
  BY <1>0, <1>2 DEF Over
<1>3. ASSUME NEW s \in Socket, NEW d \in Client, NEW f \in Frame, HearsAnswer(s, d, f), call \notin calls'[c]
      PROVE  Knows(c, call.queue)'
  <2>1. ~Continued(d, f.call)
    BY <1>0, <1>3 DEF Continued
  <2>2. Over(d, f.call, f.cmd = "OK") /\ f.call \in Call
    BY <1>3, <2>1 DEF HearsAnswer
  <2>3. d = c /\ f.call = call /\ (f.cmd = "OK" => call.queue \in subscribed'[c])
    BY <1>2, <1>3, <2>2
  <2>4. f \in Range(sock[s].down) /\ sock[s].client = "open"
    BY <1>3 DEF HearsAnswer, Taken
  <2>5. Asks(f, "SUB", call.queue)
    BY <1>0, <2>3, ConstantTypes DEF Asks
  <2>6. f.cmd = "OK"
    BY <1>0, <1>1, <2>4, <2>5 DEF AnswerInv
  <2>7. QED
    BY <2>3, <2>6 DEF Knows
<1>4. ASSUME NEW d \in Client, NEW other \in Call, GivesUp(d, other), call \notin calls'[c]
      PROVE  Knows(c, call.queue)'
  <2>1. d = c /\ other = call
    BY <1>2, <1>4 DEF GivesUp
  <2>2. QED
    BY <1>4, <2>1 DEF GivesUp, Knows
<1>5. ASSUME NEW d \in Client, NEW other \in Call, Calls(d, other) PROVE call \in calls'[c]
  BY <1>0, <1>5 DEF Calls, Called
<1>6. QED
  BY <1>3, <1>4, <1>5 DEF Acts, HearsMsg

\* The answer that confirms a subscription stays in front, until it was heard.
LEMMA ConfirmsStays ==
  ASSUME IInv, Next, Acts, NEW s \in Socket, NEW q \in Queue, NEW g \in Range(sock[s].down),
         sock[s].client = "open", Confirms(s, q, g), NEW c \in Client, c = sock[s].owner
  PROVE  \/ Knows(c, q)'
         \/ /\ Confirms(s, q, g)' /\ g \in Range(sock'[s].down)
            /\ \A f \in Range(sock'[s].down) : Before(g, f, sock[s].down) => Before(g, f, sock'[s].down)
<1>0. AnswerInv /\ KeepsEnds /\ TypeOK
  BY DEF IInv, Base, Acts
<1>1. g.cmd = "OK" /\ Asks(g, "SUB", q) /\ g.call \in calls[c] /\ g.call.cmd = "SUB" /\ g.call.queue = q
  BY DEF Confirms, Asks
<1>2. queue[q] # None
  BY <1>0, <1>1 DEF AnswerInv
<1>3. g.call \in calls'[c] \/ Knows(c, q)'
  BY <1>1, <1>2, SubStays
<1>4. sock'[s].owner = sock[s].owner
  BY <1>0, EndsStay
<1>5. ASSUME g \notin Range(sock'[s].down) \/ \E f \in Range(sock'[s].down) : Before(g, f, sock[s].down) /\ ~Before(g, f, sock'[s].down)
      PROVE  Knows(c, q)'
  <2>1. ASSUME NEW r \in Socket, NEW f, Taken(r, f) PROVE r = s /\ f = g
    <3>1. r = s
      BY <1>5, <2>1, BeforeBoth DEF Taken
    <3>2. Shrank(sock'[s].down, sock[s].down, f)
      BY <2>1, <3>1 DEF Taken
    <3>3. QED
      BY <1>5, <3>1, <3>2 DEF Shrank
  <2>2. ASSUME NEW r \in Socket, NEW d \in Client, NEW f \in Frame, HearsAnswer(r, d, f) PROVE Knows(c, q)'
    <3>1. r = s /\ f = g /\ d = c
      BY <2>1, <2>2 DEF HearsAnswer
    <3>2. Over(c, g.call, TRUE)
      BY <1>1, <2>2, <3>1 DEF HearsAnswer, Continued
    <3>3. q \in subscribed'[c]
      BY <1>0, <1>1, <3>2 DEF Over, TypeOK
    <3>4. QED
      BY <3>1, <3>3 DEF Knows
  <2>3. ASSUME NEW r \in Socket, NEW d \in Client, NEW m \in Message, HearsMsg(r, d, m) PROVE FALSE
    <3>1. Msg(m) = g
      BY <2>1, <2>3 DEF HearsMsg
    <3>2. QED
      BY <1>1, <3>1, MsgOf
  <2>4. ASSUME NEW d \in Client, NEW call \in Call, GivesUp(d, call) \/ Calls(d, call) PROVE FALSE
    BY <1>5, <2>4 DEF GivesUp, Calls, Called
  <2>5. QED
    BY <2>2, <2>3, <2>4 DEF Acts
<1>6. QED
  BY <1>1, <1>3, <1>4, <1>5 DEF Confirms

\* The three parts of SubInv.
SubWaits == \A s \in Socket : sock[s].client = "open" => \A f \in Range(sock[s].up) : f.cmd = "SUB" =>
       \/ queue[f.call.queue] = None \/ Knows(sock[s].owner, f.call.queue)
       \/ f.call \in calls[sock[s].owner]
MsgBehindOk == \A s \in Socket : sock[s].client = "open" => \A f \in Range(sock[s].down) : f.cmd = "MSG" =>
       \/ Knows(sock[s].owner, Target[f.msg])
       \/ \E g \in Range(sock[s].down) : Confirms(s, Target[f.msg], g) /\ Before(g, f, sock[s].down)
SubscriberKnows == \A q \in Queue : \A s \in Socket : queue[q] # None /\ queue[q].subscriber = s /\ ~Dead(s) =>
       Knows(Recipient[q], q) \/ \E g \in Range(sock[s].down) : Confirms(s, q, g)

LEMMA SubParts == SubInv <=> SubWaits /\ MsgBehindOk /\ SubscriberKnows
BY DEF SubInv, SubWaits, MsgBehindOk, SubscriberKnows

LEMMA StepSubWaits ==
  ASSUME IInv, Next
  PROVE  SubWaits'
<1>0. SubWaits /\ NewInv /\ FrameInv /\ FrameInv' /\ TypeOK /\ SockInv /\ Base
  BY Kinds, SubParts DEF IInv, Base
<1>1. SUFFICES ASSUME NEW r \in Socket, sock'[r].client = "open", NEW g \in Range(sock'[r].up), g.cmd = "SUB",
                      queue'[g.call.queue] # None, NEW c, c = sock'[r].owner
               PROVE  Knows(c, g.call.queue)' \/ g.call \in calls'[c]
  BY DEF SubWaits, Knows
<1> DEFINE q == g.call.queue
<1>2. ASSUME sock[r].client = "open", g \in Range(sock[r].up)
      PROVE  /\ q \in Queue /\ Asks(g, "SUB", q) /\ sock[r].owner \in Client /\ g.call \in Call
             /\ queue[q] = None \/ Knows(sock[r].owner, q) \/ g.call \in calls[sock[r].owner]
  <2>1. Holds(r, g) /\ g \in Frame
    BY <1>0, <1>2, Types DEF FrameInv, Range
  <2>2. g.call # None /\ g.call.cmd = "SUB" /\ g.call \in Call \cup {None}
    BY <1>1, <2>1 DEF Holds, Frame
  <2>3. sock[r].owner \in Client
    BY <1>0, <1>2, Types DEF SockInv
  <2>4. QED
    BY <1>0, <1>1, <1>2, <2>2, <2>3, CallTypes DEF SubWaits, Asks
<1>3. ASSUME NEW s \in Socket, NEW f \in Frame, Handles(s, f)
      PROVE  Knows(c, q)' \/ g.call \in calls'[c]
  <2>1. /\ Handled(s, f) /\ calls' = calls /\ sock[r].client = "open" /\ c = sock[r].owner
        /\ subscribed' = subscribed /\ late' = late
    BY <1>1, <1>3, EndsStay DEF Handles
  <2>2. g \in Range(sock[r].up) /\ f \in Range(sock[s].up)
    BY <2>1 DEF Handled, Shrank
  <2>3. ~Asks(f, "NEW", q)
    BY <1>0, <1>2, <2>1, <2>2 DEF NewInv, NoneAsks
  <2>4. queue[q] # None
    BY <1>1, <1>2, <1>3, <2>1, <2>2, <2>3, HandlesQueues
  <2>5. QED
    BY <1>2, <2>1, <2>2, <2>4 DEF Knows
<1>4. CASE Acts
  <2>1. queue' = queue /\ sock[r].client = "open" /\ c = sock[r].owner
    BY <1>1, <1>4, EndsStay DEF Acts
  <2>2. CASE g \in Range(sock[r].up)
    <3>1. g.call.cmd = "SUB" /\ queue[q] # None
      BY <1>1, <1>2, <2>1, <2>2 DEF Asks
    <3>2. CASE Knows(c, q)
      BY <1>2, <2>1, <2>2, <3>2, KnowsGrows
    <3>3. CASE g.call \in calls[c]
      BY <1>2, <1>4, <2>1, <2>2, <3>1, <3>3, SubStays
    <3>4. QED
      BY <1>2, <2>1, <2>2, <3>1, <3>2, <3>3
  <2>3. CASE g \notin Range(sock[r].up)
    <3>1. ASSUME NEW d \in Client, NEW call \in Call, Written(d, Request(call)), call \in calls'[d]
          PROVE  g.call \in calls'[c]
      <4>1. r = ws[d] /\ g = Request(call)
        BY <2>3, <3>1 DEF Written, Added
      <4>2. sock[r].owner = d
        BY <1>0, <3>1, <4>1, ConstantTypes DEF Base, WsInv
      <4>3. g.call = call
        BY <4>1, MsgOf
      <4>4. QED
        BY <2>1, <3>1, <4>2, <4>3
    <3>2. ASSUME NEW s \in Socket, NEW d \in Client, NEW f \in Frame, HearsAnswer(s, d, f)
          PROVE  g.call \in calls'[c]
      <4>1. ~UpsSame
        BY <2>3 DEF UpsSame
      <4>2. Continued(d, f.call) /\ Written(d, Request(Sub(f.call.queue, 0)))
        BY <3>2, <4>1 DEF HearsAnswer
      <4>3. Sub(f.call.queue, 0) \in calls'[d]
        BY <1>0, <4>2 DEF Continued, TypeOK
      <4>4. Sub(f.call.queue, 0) \in Call
        BY <3>2, CallTypes, FrameTypes DEF HearsAnswer
      <4>5. QED
        BY <3>1, <4>2, <4>3, <4>4
    <3>3. ASSUME NEW s \in Socket, NEW d \in Client, NEW m \in Message, HearsMsg(s, d, m) PROVE FALSE
      <4>1. Written(d, Ack(m))
        BY <2>3, <3>3 DEF HearsMsg, UpsSame
      <4>2. g = Ack(m)
        BY <2>3, <4>1 DEF Written, Added
      <4>3. QED
        BY <1>1, <4>2, MsgOf
    <3>4. ASSUME NEW d \in Client, NEW call \in Call, Calls(d, call) PROVE g.call \in calls'[c]
      <4>1. Written(d, Request(call)) /\ call \in calls'[d]
        BY <1>0, <3>4 DEF Calls, Called, TypeOK
      <4>2. QED
        BY <3>1, <4>1
    <3>5. QED
      BY <1>4, <2>3, <3>2, <3>3, <3>4 DEF Acts, GivesUp
  <2>4. QED
    BY <2>2, <2>3
<1>5. CASE Fading
  <2>1. Fades(r) /\ calls' = calls /\ subscribed' = subscribed /\ late' = late
    BY <1>5 DEF Fading
  <2>2. sock[r].client = "open" /\ c = sock[r].owner
    BY <1>1, <2>1, EmptyOf DEF Fades
  <2>3. g \in Range(sock[r].up)
    BY <1>1, <2>1 DEF Fades, CloseFrame
  <2>4. queue[q] # None
    BY <1>1, <1>2, <1>5, <2>2, <2>3 DEF Fading, Stays, Restarted
  <2>5. QED
    BY <1>2, <2>1, <2>2, <2>3, <2>4 DEF Knows
<1>6. QED
  BY <1>3, <1>4, <1>5, Kinds

LEMMA StepMsgBehindOk ==
  ASSUME IInv, Next
  PROVE  MsgBehindOk'
<1>0. /\ SubWaits /\ MsgBehindOk /\ SubscriberKnows /\ FrameInv /\ FrameInv' /\ TypeOK /\ SockInv
      /\ Base /\ QueueInv
  BY Kinds, SubParts DEF IInv, Base
<1>1. SUFFICES ASSUME NEW r \in Socket, sock'[r].client = "open", NEW f \in Range(sock'[r].down), f.cmd = "MSG",
                      NEW c, c = sock'[r].owner
               PROVE  \/ Knows(c, Target[f.msg])'
                      \/ \E g \in Range(sock'[r].down) : Confirms(r, Target[f.msg], g)' /\ Before(g, f, sock'[r].down)
  BY DEF MsgBehindOk, Knows, Confirms, Asks
<1> DEFINE q == Target[f.msg]
<1>2. f.msg \in Message /\ q \in Queue /\ f = Msg(f.msg) /\ c = Recipient[q] /\ Recipient[q] \in Client
  <2>1. Brings(r, f)'
    BY <1>0 DEF FrameInv
  <2>2. f = Msg(f.msg) /\ f.msg \in accepted' /\ c = Recipient[q]
    BY <1>1, <2>1 DEF Brings
  <2>3. accepted' \subseteq Message
    BY Kinds DEF Base, TypeOK
  <2>4. QED
    BY <2>2, <2>3, ConstantTypes
<1>3. ASSUME sock[r].client = "open", f \in Range(sock[r].down)
      PROVE  \/ Knows(sock[r].owner, q)
             \/ \E g \in Range(sock[r].down) : Confirms(r, q, g) /\ Before(g, f, sock[r].down)
  BY <1>0, <1>1, <1>3 DEF MsgBehindOk
<1>4. ASSUME NEW s \in Socket, NEW h \in Frame, Handles(s, h)
      PROVE  \/ Knows(c, q)'
             \/ \E g \in Range(sock'[r].down) : Confirms(r, q, g)' /\ Before(g, f, sock'[r].down)
  <2>1. /\ Handled(s, h) /\ calls' = calls /\ sock[r].client = "open" /\ c = sock[r].owner
        /\ subscribed' = subscribed /\ late' = late
    BY <1>1, <1>4, EndsStay DEF Handles
  <2>2. \A g : Confirms(r, q, g) => Confirms(r, q, g)'
    BY <1>1, <2>1 DEF Confirms
  <2>3. CASE f \in Range(sock[r].down)
    <3>1. CASE Knows(c, q)
      BY <2>1, <3>1 DEF Knows
    <3>2. ASSUME NEW g \in Range(sock[r].down), Confirms(r, q, g), Before(g, f, sock[r].down)
          PROVE  g \in Range(sock'[r].down) /\ Confirms(r, q, g)' /\ Before(g, f, sock'[r].down)
      BY <1>4, <2>2, <3>2, DownsGrow
    <3>3. QED
      BY <1>3, <2>1, <2>3, <3>1, <3>2
  <2>4. CASE f \notin Range(sock[r].down)
    <3>1. \A cmd, call : f # Answer(cmd, call) \/ cmd \notin {"OK", "ERR"}
      BY <1>1, MsgOf
    <3>2. ASSUME NEW cmd \in {"OK", "ERR"}, Answered(s, cmd, h.call) PROVE FALSE
      BY <2>4, <3>1, <3>2 DEF Answered, Grew
    <3>3. ~(Refuses(s, h) \/ Makes(s, h) \/ Forgets(s, h))
      BY <2>4, <3>2 DEF Refuses, Makes, Forgets
    <3>4. CASE Subscribes(s, h)
      <4> DEFINE p == h.call.queue
                 flush == queue[p].pending
                 g == Answer("OK", h.call)
      <4>1. /\ p \in Queue /\ queue[p] # None /\ h.cmd = "SUB" /\ h.call \in Call /\ Flushed(s, h.call, flush)
        BY <3>4, CallTypes DEF Subscribes
      <4>2. h.call # None /\ h.call.cmd = "SUB" /\ h \in Range(sock[s].up)
        BY <2>1, <4>1, ConstantTypes DEF Handled, Holds
      <4>3. r = s /\ \E m \in Range(flush) : f = Msg(m)
        BY <2>4, <3>1, <4>1 DEF Flushed, Grew
      <4>4. f.msg \in Range(flush)
        BY <4>3, MsgOf
      <4>5. q = p
        BY <1>0, <4>1, <4>4 DEF QueueInv
      <4>6. g \in Range(sock'[r].down) /\ Before(g, f, sock'[r].down)
        BY <1>2, <4>1, <4>3, <4>4 DEF Flushed
      <4>7. Knows(c, q) \/ h.call \in calls[sock[r].owner]
        BY <1>0, <2>1, <4>1, <4>2, <4>3, <4>5 DEF SubWaits
      <4>8. g.cmd = "OK" /\ g.call = h.call
        BY MsgOf
      <4>9. h.call \in calls[sock[r].owner] => Confirms(r, q, g)'
        BY <1>1, <2>1, <4>2, <4>5, <4>8 DEF Confirms, Asks
      <4>10. Knows(c, q) => Knows(c, q)'
        BY <2>1 DEF Knows
      <4>11. QED
        BY <4>6, <4>7, <4>9, <4>10
    <3>5. ASSUME NEW m \in Message, NEW t \in Socket, Takes(s, h, m), Passes(s, h, m, t)
          PROVE  \/ Knows(c, q)'
                 \/ \E g \in Range(sock'[r].down) : Confirms(r, q, g)' /\ Before(g, f, sock'[r].down)
      <4>1. f = Msg(m)
        BY <2>4, <3>1, <3>5 DEF Passes, PushedTo, Grew
      <4>2. r = t
        BY <2>4, <3>1, <3>5, <4>1 DEF Passes, PushedTo
      <4>3. q = Target[m]
        BY <4>1, MsgOf
      <4>4. ~sock[t].cut
        BY <2>1, <2>4, <4>2 DEF Handled
      <4>5. queue[q] # None /\ queue[q].subscriber = t /\ ~Dead(t)
        BY <2>1, <3>5, <4>2, <4>3, <4>4 DEF Takes, Passes, Dead
      <4>6. Knows(Recipient[q], q) \/ \E g \in Range(sock[t].down) : Confirms(t, q, g)
        BY <1>0, <1>2, <4>5 DEF SubscriberKnows
      <4>7. \A x \in Range(sock[t].down) : Before(x, Msg(m), sock'[t].down) /\ x \in Range(sock'[t].down)
        BY <3>5, <4>4, BeforeBoth DEF Passes, PushedTo
      <4>8. CASE Knows(Recipient[q], q)
        BY <1>2, <2>1, <4>8 DEF Knows
      <4>9. ASSUME NEW g \in Range(sock[t].down), Confirms(t, q, g)
            PROVE  g \in Range(sock'[r].down) /\ Confirms(r, q, g)' /\ Before(g, f, sock'[r].down)
        BY <2>2, <4>1, <4>2, <4>7, <4>9
      <4>10. QED
        BY <4>6, <4>8, <4>9
    <3>6. QED
      BY <1>4, <3>2, <3>3, <3>4, <3>5 DEF Handles, Takes, Keeps
  <2>5. QED
    BY <2>3, <2>4
<1>5. CASE Acts
  <2>1. sock[r].client = "open" /\ c = sock[r].owner /\ f \in Range(sock[r].down)
    BY <1>1, <1>5, ActsDowns, EndsStay DEF Acts
  <2>2. CASE Knows(c, q)
    BY <1>2, <2>1, <2>2, KnowsGrows
  <2>3. ASSUME NEW g \in Range(sock[r].down), Confirms(r, q, g), Before(g, f, sock[r].down)
        PROVE  \/ Knows(c, q)'
               \/ g \in Range(sock'[r].down) /\ Confirms(r, q, g)' /\ Before(g, f, sock'[r].down)
    <3>1. \/ Knows(c, q)'
          \/ /\ Confirms(r, q, g)' /\ g \in Range(sock'[r].down)
             /\ \A x \in Range(sock'[r].down) : Before(g, x, sock[r].down) => Before(g, x, sock'[r].down)
      BY <1>2, <1>5, <2>1, <2>3, ConfirmsStays
    <3>2. QED
      BY <2>1, <2>3, <3>1 DEF Knows
  <2>4. QED
    BY <1>3, <2>1, <2>2, <2>3
<1>6. CASE Fading
  <2>1. Fades(r) /\ calls' = calls /\ subscribed' = subscribed /\ late' = late
    BY <1>6 DEF Fading
  <2>2. sock[r].client = "open" /\ c = sock[r].owner /\ sock'[r].down = sock[r].down
    BY <1>1, <2>1, EmptyOf DEF Fades
  <2>3. QED
    BY <1>1, <1>3, <2>1, <2>2 DEF Knows, Confirms
<1>7. QED
  BY <1>4, <1>5, <1>6, Kinds

LEMMA StepSubscriberKnows ==
  ASSUME IInv, Next
  PROVE  SubscriberKnows'
<1>0. /\ SubWaits /\ SubscriberKnows /\ FrameInv /\ TypeOK /\ SockInv /\ Base /\ QueueInv
  BY Kinds, SubParts DEF IInv, Base
<1>1. SUFFICES ASSUME NEW q \in Queue, NEW r \in Socket, queue'[q] # None, queue'[q].subscriber = r, ~Dead(r)'
               PROVE  Knows(Recipient[q], q)' \/ \E g \in Range(sock'[r].down) : Confirms(r, q, g)'
  BY DEF SubscriberKnows, Knows, Confirms, Asks
<1>2. ASSUME queue[q] # None, queue[q].subscriber = r, ~Dead(r)
      PROVE  Knows(Recipient[q], q) \/ \E g \in Range(sock[r].down) : Confirms(r, q, g)
  BY <1>0, <1>2 DEF SubscriberKnows
<1>3. Recipient[q] \in Client /\ r # None
  BY ConstantTypes
<1>4. ASSUME NEW s \in Socket, NEW h \in Frame, Handles(s, h)
      PROVE  Knows(Recipient[q], q)' \/ \E g \in Range(sock'[r].down) : Confirms(r, q, g)'
  <2>1. /\ Handled(s, h) /\ calls' = calls /\ sock'[r].owner = sock[r].owner /\ ~Dead(r)
        /\ subscribed' = subscribed /\ late' = late
    BY <1>1, <1>4, EndsStay DEF Handles
  <2>2. CASE queue[q] # None /\ queue[q].subscriber = r
    <3>1. \A g : Confirms(r, q, g) => Confirms(r, q, g)'
      BY <2>1 DEF Confirms
    <3>2. Range(sock[r].down) \subseteq Range(sock'[r].down)
      BY <1>4, DownsGrow
    <3>3. Knows(Recipient[q], q) => Knows(Recipient[q], q)'
      BY <2>1 DEF Knows
    <3>4. QED
      BY <1>2, <2>1, <2>2, <3>1, <3>2, <3>3
  <2>3. CASE Subscribes(s, h) /\ h.call.queue = q /\ queue'[q].subscriber = s
    <3> DEFINE g == Answer("OK", h.call)
    <3>1. r = s /\ queue[q] # None /\ h.cmd = "SUB" /\ h.call \in Call /\ g \in Range(sock'[s].down)
      BY <1>1, <2>3 DEF Subscribes, Flushed
    <3>2. h.call # None /\ h.call.cmd = "SUB" /\ h \in Range(sock[s].up) /\ sock[s].relay = "open"
      BY <2>1, <3>1, ConstantTypes DEF Handled, Holds
    <3>3. sock[s].owner = Recipient[q]
      BY <2>1, <2>3, <3>1 DEF Handled, Holds, Legit
    <3>4. sock[s].client = "open"
      <4>1. sock[s].client \in {"none", "connecting", "open", "closing", "closed"}
        BY <1>0 DEF TypeOK
      <4>2. QED
        BY <1>0, <2>1, <3>1, <3>2, <4>1 DEF SockInv, Dead
    <3>5. Knows(sock[s].owner, q) \/ h.call \in calls[sock[s].owner]
      BY <1>0, <2>3, <3>1, <3>2, <3>4 DEF SubWaits
    <3>6. g.cmd = "OK" /\ g.call = h.call
      BY MsgOf
    <3>7. h.call \in calls[sock[s].owner] => Confirms(r, q, g)'
      BY <2>1, <2>3, <3>1, <3>2, <3>6 DEF Confirms, Asks
    <3>8. Knows(Recipient[q], q) => Knows(Recipient[q], q)'
      BY <2>1 DEF Knows
    <3>9. QED
      BY <3>1, <3>3, <3>5, <3>7, <3>8
  <2>4. QED
    BY <1>0, <1>1, <1>3, <1>4, <2>2, <2>3, HandlesSubscriber DEF Base
<1>5. CASE Acts
  <2>1. /\ sock'[r].owner = sock[r].owner /\ queue[q] # None /\ queue[q].subscriber = r /\ ~Dead(r)
    BY <1>1, <1>5, EndsStay DEF Acts
  <2>2. sock[r].owner = Recipient[q] /\ sock[r].relay # "none"
    BY <1>0, <1>3, <2>1 DEF QueueInv
  <2>3. sock[r].client = "open"
    <3>1. sock[r].client \in {"none", "connecting", "open", "closing", "closed"}
      BY <1>0 DEF TypeOK
    <3>2. QED
      BY <1>0, <2>1, <2>2, <3>1 DEF SockInv, Dead
  <2>4. CASE Knows(Recipient[q], q)
    BY <1>3, <2>4, KnowsGrows
  <2>5. ASSUME NEW g \in Range(sock[r].down), Confirms(r, q, g)
        PROVE  Knows(Recipient[q], q)' \/ (g \in Range(sock'[r].down) /\ Confirms(r, q, g)')
    <3>1. \/ Knows(Recipient[q], q)'
          \/ /\ Confirms(r, q, g)' /\ g \in Range(sock'[r].down)
             /\ \A x \in Range(sock'[r].down) : Before(g, x, sock[r].down) => Before(g, x, sock'[r].down)
      BY <1>3, <1>5, <2>2, <2>3, <2>5, ConfirmsStays
    <3>2. QED
      BY <2>1, <2>2, <3>1 DEF Knows
  <2>6. QED
    BY <1>2, <2>1, <2>4, <2>5
<1>6. CASE Fading
  <2>1. Fades(r) /\ calls' = calls /\ subscribed' = subscribed /\ late' = late
    BY <1>6 DEF Fading
  <2>2. Stays
    BY <1>1, <1>6 DEF Fading, Restarted
  <2>3. queue[q] # None /\ queue[q].subscriber = r
    <3>1. queue[q] # None => queue[q] \in Record
      BY <1>0, Types
    <3>2. queue[q] # None => [queue[q] EXCEPT !.subscriber = None].subscriber = None
      BY <3>1, RecordTypes
    <3>3. QED
      BY <1>1, <1>3, <2>2, <3>2 DEF Stays
  <2>4. ~Dead(r) /\ sock'[r].down = sock[r].down
    BY <1>1, <2>1 DEF Fades, Dead
  <2>5. sock[r].relay # "none" /\ sock'[r].owner = sock[r].owner
    BY <1>0, <1>3, <2>1, <2>3 DEF QueueInv, Fades, SockInv
  <2>6. QED
    BY <1>2, <2>1, <2>3, <2>4, <2>5 DEF Knows, Confirms
<1>7. QED
  BY <1>4, <1>5, <1>6, Kinds-----------------------------------------------------------------------------
(* A subscription that the client of a single living socket believes in is real *)

LEMMA OnlyStays ==
  ASSUME KeepsEnds, NEW c
  PROVE  Only(c)' <=> Only(c)
BY EndsStay DEF Only

\* The one socket of a client, if it lives on, was the only one before, and keeps its queues.
LEMMA OnlyFades ==
  ASSUME IInv, Next, Fading, NEW c \in Client, NEW s \in Socket, sock[s].owner = c,
         sock[s].client \notin {"none", "connecting"}, Only(c)'
  PROVE  /\ Only(c) /\ s = ws[c] /\ s = ws'[c]
         /\ \A q \in Queue : queue[q] # None /\ queue[q].subscriber = s => queue'[q] = queue[q]
<1>0. WsInv /\ WsInv' /\ TypeOK
  BY Kinds DEF IInv, Base
<1>1. \A t \in Socket : Fades(t)
  BY DEF Fading
<1>2. sock'[s].owner = c
  BY <1>1 DEF Fades
<1>3. s = ws'[c] /\ ~sock'[s].cut /\ s # None
  BY <1>2, ConstantTypes DEF Only
<1>4. sock'[s].client = "open"
  BY <1>0, <1>3 DEF WsInv
<1>5. sock[s].client = "open" /\ ~sock[s].cut
  BY <1>1, <1>3, <1>4 DEF Fades
<1>6. ws[c] = s
  BY <1>0, <1>5 DEF WsInv
<1>7. ASSUME NEW t \in Socket, sock[t].owner = c PROVE t = s
  <2>1. sock'[t].owner = c
    BY <1>3, <1>7, ConstantTypes DEF Fading
  <2>2. QED
    BY <1>3, <2>1 DEF Only
<1>8. Only(c)
  BY <1>5, <1>6, <1>7 DEF Only
<1>9. ~Dead(s) /\ Stays
  BY <1>3, <1>4, <1>5 DEF Dead, Fading, Restarted
<1>10. QED
  BY <1>3, <1>6, <1>8, <1>9 DEF Stays

\* What a client newly believes in, its socket has just been told.
LEMMA ActsSubscribe ==
  ASSUME IInv, Acts, NEW c \in Client, NEW q \in subscribed'[c], q \notin subscribed[c]
  PROVE  \E s \in Socket : /\ sock[s].owner = c /\ sock[s].client = "open" /\ ws[c] = s
                           /\ \E f \in Range(sock[s].down) : f.cmd = "OK" /\ Asks(f, "SUB", q)
<1>0. subscribed \in [Client -> SUBSET Queue]
  BY DEF IInv, Base, TypeOK
<1>1. ASSUME NEW d \in Client, NEW call \in Call, NEW ok, Over(d, call, ok)
      PROVE  d = c /\ ok /\ call.cmd = "SUB" /\ call.queue = q
  BY <1>0, <1>1 DEF Over
<1>2. ASSUME NEW s \in Socket, NEW d \in Client, NEW f \in Frame, HearsAnswer(s, d, f)
      PROVE  /\ sock[s].owner = c /\ sock[s].client = "open" /\ ws[c] = s
             /\ f \in Range(sock[s].down) /\ f.cmd = "OK" /\ Asks(f, "SUB", q)
  <2>1. f.call \in Call /\ f.call # None
    BY <1>2, ConstantTypes DEF HearsAnswer
  <2>2. Over(d, f.call, f.cmd = "OK")
    BY <1>2 DEF HearsAnswer, Continued
  <2>3. d = c /\ f.cmd = "OK" /\ f.call.cmd = "SUB" /\ f.call.queue = q
    BY <1>1, <2>1, <2>2
  <2>4. QED
    BY <1>2, <2>1, <2>3 DEF HearsAnswer, Taken, Asks
<1>3. ASSUME NEW d \in Client, NEW call \in Call, GivesUp(d, call) \/ Calls(d, call) PROVE FALSE
  BY <1>1, <1>3 DEF GivesUp, Calls
<1>4. QED
  BY <1>2, <1>3 DEF Acts, HearsMsg

LEMMA StepReal ==
  ASSUME IInv, Next
  PROVE  RealInv'
<1>0. /\ RealInv /\ SockInv /\ FrameInv /\ TypeOK
  BY DEF IInv, Base
<1>1. ASSUME NEW c \in Client, subscribed'[c] # {}
      PROVE  \E s \in Socket : sock'[s].owner = c /\ sock'[s].client \notin {"none", "connecting"}
  <2>1. ASSUME NEW s \in Socket, NEW f \in Frame, Handles(s, f)
        PROVE  \E r \in Socket : sock'[r].owner = c /\ sock'[r].client \notin {"none", "connecting"}
    BY <1>0, <1>1, <2>1, EndsStay DEF Handles, RealInv
  <2>2. CASE Acts
    <3>1. \E s \in Socket : sock[s].owner = c /\ sock[s].client \notin {"none", "connecting"}
      BY <1>0, <1>1, <2>2, ActsSubscribe DEF RealInv
    <3>2. QED
      BY <2>2, <3>1, EndsStay DEF Acts
  <2>3. CASE Fading
    <3>1. PICK s \in Socket : sock[s].owner = c /\ sock[s].client \notin {"none", "connecting"}
      BY <1>0, <1>1, <2>3 DEF RealInv, Fading
    <3>2. sock[s].client \in {"none", "connecting", "open", "closing", "closed"} /\ Fades(s)
      BY <1>0, <2>3 DEF TypeOK, Fading
    <3>3. QED
      BY <3>1, <3>2 DEF Fades
  <2>4. QED
    BY <2>1, <2>2, <2>3, Kinds
<1>2. ASSUME NEW c \in Client, Only(c)', NEW s \in Socket, sock'[s].owner = c, NEW f \in Range(sock'[s].down),
             NEW q \in Queue, f.cmd = "OK", Asks(f, "SUB", q)
      PROVE  queue'[q] # None /\ queue'[q].subscriber = s
  <2>1. ASSUME Only(c), sock[s].owner = c, f \in Range(sock[s].down)
        PROVE  queue[q] # None /\ queue[q].subscriber = s /\ Recipient[q] = c
    <3>1. Brings(s, f)
      BY <1>0, <2>1 DEF FrameInv
    <3>2. Recipient[q] = c
      BY <1>2, <2>1, <3>1 DEF Brings, Legit, Asks
    <3>3. QED
      BY <1>0, <1>2, <2>1, <3>2 DEF RealInv
  <2>2. ASSUME NEW r \in Socket, NEW h \in Frame, Handles(r, h) PROVE queue'[q] # None /\ queue'[q].subscriber = s
    <3>1. Only(c) /\ sock[s].owner = c /\ Handled(r, h) /\ Holds(r, h)
      BY <1>2, <2>2, OnlyStays, EndsStay DEF Handles, Handled
    <3>2. CASE f \in Range(sock[s].down)
      <4>1. queue[q] # None /\ queue[q].subscriber = s /\ Recipient[q] = c
        BY <2>1, <3>1, <3>2
      <4>2. queue'[q] # None
        BY <2>2, <4>1, HandlesQueues
      <4>3. ASSUME Subscribes(r, h), h.call.queue = q PROVE r = s
        <5>1. sock[r].owner = Recipient[q]
          BY <3>1, <4>3 DEF Subscribes, Holds, Legit
        <5>2. QED
          BY <3>1, <4>1, <5>1 DEF Only
      <4>4. QED
        BY <2>2, <4>1, <4>2, <4>3, HandlesSubscriber
    <3>3. CASE f \notin Range(sock[s].down)
      <4>1. s = r /\ h.call.cmd = h.cmd /\ f.call = h.call /\ (h.cmd = "SUB" => queue[h.call.queue] # None)
        BY <1>2, <2>2, <3>3, HandlesDowns, MsgOf
      <4>2. h.cmd = "SUB" /\ h.call.queue = q /\ queue[q] # None
        BY <1>2, <4>1 DEF Asks
      <4>3. Subscribes(r, h)
        BY <2>2, <4>2 DEF Handles, Refuses, Makes, Takes, Forgets
      <4>4. queue'[q] = [subscriber |-> r, pending |-> <<>>]
        BY <1>0, <4>2, <4>3, Types DEF Subscribes
      <4>5. queue'[q] # None
        BY <2>2, <4>2, HandlesQueues
      <4>6. QED
        BY <4>1, <4>4, <4>5
    <3>4. QED
      BY <3>2, <3>3
  <2>3. CASE Acts
    <3>1. Only(c) /\ sock[s].owner = c /\ f \in Range(sock[s].down) /\ queue' = queue
      BY <1>2, <2>3, OnlyStays, EndsStay, ActsDowns DEF Acts
    <3>2. QED
      BY <2>1, <3>1
  <2>4. CASE Fading
    <3>1. f \in Range(sock[s].down) /\ Fades(s)
      BY <1>2, <2>4, FadesDown DEF Fading
    <3>2. sock[s].client \notin {"none", "connecting"}
      BY <1>0, <3>1, EmptyOf DEF SockInv
    <3>3. sock[s].owner = c
      BY <1>2, <3>1, <3>2 DEF Fades
    <3>4. Only(c) /\ (queue[q] # None /\ queue[q].subscriber = s => queue'[q] = queue[q])
      BY <1>2, <2>4, <3>2, <3>3, OnlyFades
    <3>5. QED
      BY <2>1, <3>1, <3>3, <3>4
  <2>5. QED
    BY <2>2, <2>3, <2>4, Kinds
<1>3. QED
  BY <1>1, <1>2 DEF RealInv

LEMMA StepBelieved ==
  ASSUME IInv, Next
  PROVE  BelievedSubscriptionIsReal'
<1>0. /\ RealInv /\ SockInv /\ FrameInv /\ TypeOK /\ SetInv
      /\ \A c \in Client : \A q \in subscribed[c] : Only(c) => queue[q] # None /\ queue[q].subscriber = ws[c]
  BY DEF IInv, Base, BelievedSubscriptionIsReal, Only
<1>1. SUFFICES ASSUME NEW c \in Client, NEW q \in subscribed'[c], Only(c)'
               PROVE  queue'[q] # None /\ queue'[q].subscriber = ws'[c]
  BY DEF BelievedSubscriptionIsReal, Only
<1>2. q \in Queue
  <2>1. Base'
    BY Kinds
  <2>2. QED
    BY <2>1 DEF Base, TypeOK
<1>3. ASSUME NEW s \in Socket, NEW f \in Frame, Handles(s, f) PROVE queue'[q] # None /\ queue'[q].subscriber = ws'[c]
  <2>1. Only(c) /\ q \in subscribed[c] /\ Handled(s, f) /\ Holds(s, f) /\ ws' = ws
    BY <1>1, <1>3, OnlyStays, EndsStay DEF Handles, Handled
  <2>2. queue[q] # None /\ queue[q].subscriber = ws[c] /\ Recipient[q] = c
    BY <1>0, <2>1 DEF SetInv
  <2>3. queue'[q] # None
    BY <1>2, <1>3, <2>2, HandlesQueues
  <2>4. ASSUME Subscribes(s, f), f.call.queue = q PROVE s = ws[c]
    <3>1. sock[s].owner = Recipient[q]
      BY <2>1, <2>4 DEF Subscribes, Holds, Legit
    <3>2. QED
      BY <2>1, <2>2, <3>1 DEF Only
  <2>5. QED
    BY <1>2, <1>3, <2>1, <2>2, <2>3, <2>4, HandlesSubscriber
<1>4. CASE Acts
  <2>1. Only(c) /\ queue' = queue /\ ws' = ws
    BY <1>1, <1>4, OnlyStays, EndsStay DEF Acts
  <2>2. CASE q \in subscribed[c]
    BY <1>0, <2>1, <2>2
  <2>3. CASE q \notin subscribed[c]
    <3>1. PICK s \in Socket : /\ sock[s].owner = c /\ ws[c] = s
                              /\ \E f \in Range(sock[s].down) : f.cmd = "OK" /\ Asks(f, "SUB", q)
      BY <1>1, <1>4, <2>3, ActsSubscribe
    <3>2. QED
      BY <1>0, <1>2, <2>1, <3>1 DEF RealInv
  <2>4. QED
    BY <2>2, <2>3
<1>5. CASE Fading
  <2>1. q \in subscribed[c]
    BY <1>5 DEF Fading
  <2>2. PICK s \in Socket : sock[s].owner = c /\ sock[s].client \notin {"none", "connecting"}
    BY <1>0, <2>1 DEF RealInv
  <2>3. Only(c) /\ s = ws[c] /\ s = ws'[c] /\ (queue[q] # None /\ queue[q].subscriber = s => queue'[q] = queue[q])
    BY <1>1, <1>2, <1>5, <2>2, OnlyFades
  <2>4. QED
    BY <1>0, <2>1, <2>3
<1>6. QED
  BY <1>3, <1>4, <1>5, Kinds-----------------------------------------------------------------------------
(* An accepted message is lost with its socket only                        *)

\* Where an accepted message is, or why it is nowhere.
Found(m) ==
  \/ Delivered(m) \/ Pending(m) \/ InFlight(m)
  \/ via[m].pushed # None /\ Dead(via[m].pushed)
  \/ Target[m] \in late

LEMMA CausesStay ==
  ASSUME IInv, Next, NEW m \in accepted
  PROVE  /\ m \in Message /\ Target[m] \in Queue
         /\ Delivered(m) => Delivered(m)'
         /\ Target[m] \in late => Target[m] \in late'
         /\ via[m].pushed # None /\ Dead(via[m].pushed) => (via[m].pushed # None /\ Dead(via[m].pushed))'
<1>0. TypeOK /\ Grows
  BY Kinds DEF IInv, Base
<1>1. m \in Message /\ Target[m] \in Queue
  BY <1>0, ConstantTypes DEF TypeOK
<1>2. late \subseteq late'
  BY Kinds DEF Handles, Acts, HearsAnswer, HearsMsg, GivesUp, Calls, Fading
<1>3. ASSUME NEW s \in Socket, Dead(s) PROVE Dead(s)'
  <2>1. ASSUME KeepsEnds PROVE Dead(s)'
    BY <1>3, <2>1, EndsStay
  <2>2. ASSUME Fades(s) PROVE Dead(s)'
    BY <1>3, <2>2 DEF Fades, Dead
  <2>3. QED
    BY <2>1, <2>2, Kinds DEF Handles, Acts, Fading
<1>4. ASSUME via[m].pushed # None, Dead(via[m].pushed) PROVE (via[m].pushed # None /\ Dead(via[m].pushed))'
  <2>1. PICK s \in Socket : s = via[m].pushed
    BY <1>0, <1>1, <1>4 DEF TypeOK
  <2>2. s = via'[m].pushed /\ s # None
    BY <1>0, <1>1, <1>4, <2>1, ConstantTypes DEF Grows
  <2>3. Dead(s)'
    BY <1>3, <1>4, <2>1
  <2>4. QED
    BY <2>2, <2>3 DEF Dead
<1>5. QED
  BY <1>0, <1>1, <1>2, <1>4 DEF Grows

\* The relay pushes m to s: it is on its way, or s is dead.
LEMMA PushedOrDead ==
  ASSUME IInv, Next, KeepsEnds, NEW m \in Message, NEW s \in Socket, sock[s].relay = "open",
         via'[m].pushed = s, sock[s].cut \/ Msg(m) \in Range(sock'[s].down)
  PROVE  Found(m)'
<1>0. TypeOK /\ SockInv
  BY DEF IInv, Base
<1>1. s # None /\ sock'[s].client = sock[s].client /\ sock'[s].cut = sock[s].cut
  BY EndsStay, ConstantTypes
<1>2. sock[s].client \in {"open", "closing", "closed"}
  BY <1>0 DEF TypeOK, SockInv
<1>3. CASE sock[s].client = "open" /\ ~sock[s].cut
  BY <1>1, <1>3 DEF Found, InFlight
<1>4. CASE sock[s].client # "open" \/ sock[s].cut
  BY <1>1, <1>2, <1>4 DEF Found, Dead
<1>5. QED
  BY <1>3, <1>4

LEMMA KeptIsPending ==
  ASSUME TypeOK, NEW q \in Queue, NEW m \in Message, queue[q] # None,
         queue' = [queue EXCEPT ![q].pending = Append(@, m)]
  PROVE  queue'[q] # None /\ m \in Range(queue'[q].pending)
<1>1. queue[q] \in Record /\ queue'[q] = [queue[q] EXCEPT !.pending = Append(@, m)]
  BY Types
<1>2. queue'[q] \in Record /\ queue'[q].pending = Append(queue[q].pending, m)
  <2>1. \A r \in Record : LET r1 == [r EXCEPT !.pending = Append(@, m)]
                        IN  r1 \in Record /\ r1.pending = Append(r.pending, m)
    BY ONLY m \in Message, RecordTypes
  <2>2. QED
    BY ONLY <1>1, <2>1
<1>3. queue[q].pending \in Seq(Message)
  BY ONLY <1>1, RecordTypes
<1>4. m \in Range(queue'[q].pending)
  BY <1>2, <1>3, AppendOf
<1>5. QED
  BY <1>2, <1>4, ConstantTypes

LEMMA AppendDelivers ==
  ASSUME TypeOK, NEW q \in Queue, NEW m \in Message, delivered' = [delivered EXCEPT ![q] = Append(@, m)]
  PROVE  m \in Range(delivered'[q])
<1>1. \A p \in Queue : Range(delivered'[p]) = Range(delivered[p]) \cup IF p = q THEN {m} ELSE {}
  BY DeliveredGrows
<1>2. QED
  BY <1>1

LEMMA StepLost ==
  ASSUME IInv, Next
  PROVE  LostOnlyWithItsSocket'
<1>0. /\ LostOnlyWithItsSocket /\ TypeOK /\ FrameInv /\ MsgBehindOk /\ Base
      /\ accepted' \subseteq Message
  BY Kinds, SubParts DEF IInv, Base, TypeOK
<1>1. SUFFICES ASSUME NEW m \in accepted', m \notin wiped' PROVE Found(m)'
  BY DEF LostOnlyWithItsSocket, Found
<1> DEFINE q == Target[m]
<1>2. m \in Message /\ q \in Queue /\ (queue[q] # None => queue[q] \in Record)
  <2>1. m \in Message
    BY <1>0
  <2>2. QED
    BY <1>0, <2>1, ConstantTypes, Types
<1>3. ASSUME m \notin accepted PROVE Found(m)'
  <2>1. PICK s \in Socket, f \in Frame : Handles(s, f) /\ Takes(s, f, m)
    <3>1. accepted' # accepted
      BY <1>1, <1>3
    <3>2. PICK s \in Socket, f \in Frame : Handles(s, f)
      BY <3>1, Kinds DEF Acts, Fading
    <3>3. PICK n \in Message : Takes(s, f, n)
      BY <3>1, <3>2 DEF Handles, Refuses, Makes, Subscribes, Forgets
    <3>4. n = m
      BY <1>1, <1>3, <3>3 DEF Takes
    <3>5. QED
      BY <3>2, <3>3, <3>4
  <2>2. KeepsEnds
    BY <2>1 DEF Handles
  <2>3. ASSUME NEW t \in Socket, Passes(s, f, m, t) PROVE Found(m)'
    <3>1. sock[t].relay = "open" /\ (sock[t].cut \/ Msg(m) \in Range(sock'[t].down))
      BY <1>0, <2>3, Types DEF Passes, PushedTo
    <3>2. via'[m].pushed = t
      BY <1>0, <1>2, <2>3 DEF Passes, TypeOK
    <3>3. QED
      BY <1>2, <2>2, <3>1, <3>2, PushedOrDead
  <2>4. CASE Keeps(s, f, m)
    <3>1. queue[q] # None
      BY <2>1 DEF Takes
    <3>2. queue' = [queue EXCEPT ![q].pending = Append(@, m)]
      BY <2>4 DEF Keeps
    <3>3. queue'[q] # None /\ m \in Range(queue'[q].pending)
      BY ONLY <1>0, <1>2, <3>1, <3>2, KeptIsPending
    <3>4. QED
      BY <3>3 DEF Found, Pending
  <2>5. QED
    BY <2>1, <2>3, <2>4 DEF Takes
<1>4. ASSUME m \in accepted, Pending(m) PROVE Found(m)'
  <2>0. queue[q] # None /\ m \in Range(queue[q].pending) /\ queue[q] \in Record
    BY <1>2, <1>4 DEF Pending
  <2>1. ASSUME NEW s \in Socket, NEW f \in Frame, Handles(s, f) PROVE Found(m)'
    <3>1. queue'[q] # None
      BY <1>2, <2>0, <2>1, HandlesQueues
    <3>2. CASE m \in Range(queue'[q].pending)
      BY <3>1, <3>2 DEF Found, Pending
    <3>3. CASE m \notin Range(queue'[q].pending)
      <4>1. Subscribes(s, f) /\ f.call.queue = q
        BY <1>2, <2>0, <2>1, <3>3, HandlesSubscriber
      <4>2. KeepsEnds /\ sock[s].relay = "open"
        BY <2>1 DEF Handles, Handled
      <4>3. Msg(m) \in Range(sock'[s].down)
        BY <2>0, <4>1 DEF Subscribes, Flushed
      <4>4. via'[m] = [via[m] EXCEPT !.pushed = s]
        BY <1>2, <2>0, <4>1 DEF Subscribes
      <4>5. via'[m].pushed = s
        BY <1>0, <1>2, <4>4, ViaTypes
      <4>6. QED
        BY <1>2, <4>2, <4>3, <4>5, PushedOrDead
    <3>4. QED
      BY <3>2, <3>3
  <2>2. CASE Acts
    BY <1>4, <2>2 DEF Acts, Found, Pending
  <2>3. CASE Fading
    <3>1. Stays
      BY <1>1, <1>4, <2>3 DEF Fading, Restarted
    <3>2. queue'[q] = queue[q] \/ queue'[q] = [queue[q] EXCEPT !.subscriber = None]
      BY <1>2, <3>1 DEF Stays
    <3>3. queue'[q] # None /\ queue'[q].pending = queue[q].pending
      BY <2>0, <3>2, RecordTypes, ConstantTypes
    <3>4. QED
      BY <2>0, <3>3 DEF Found, Pending
  <2>4. QED
    BY <2>1, <2>2, <2>3, Kinds
<1>5. ASSUME m \in accepted, NEW r \in Socket, sock[r].client = "open", Msg(m) \in Range(sock[r].down) PROVE Found(m)'
  <2>1. ASSUME sock'[r].client = "open", Msg(m) \in Range(sock'[r].down) PROVE Found(m)'
    BY <2>1 DEF Found, InFlight
  <2>2. ASSUME NEW s \in Socket, NEW f \in Frame, Handles(s, f) PROVE Found(m)'
    BY <1>5, <2>1, <2>2, DownsGrow, EndsStay DEF Handles
  <2>3. CASE Acts
    <3>0. sock'[r].client = "open"
      BY <1>5, <2>3, EndsStay DEF Acts
    <3>1. ASSUME NEW s \in Socket, NEW f, Taken(s, f), s # r \/ f # Msg(m) PROVE Found(m)'
      BY <1>5, <2>1, <3>0, <3>1 DEF Taken, Shrank
    <3>2. ASSUME NEW s \in Socket, NEW c \in Client, NEW f \in Frame, HearsAnswer(s, c, f) PROVE Found(m)'
      BY <3>1, <3>2, MsgOf DEF HearsAnswer
    <3>3. ASSUME NEW c \in Client, HearsMsg(r, c, m) PROVE Found(m)'
      <4>1. CASE q \in subscribed[c]
        <5>1. delivered' = [delivered EXCEPT ![q] = Append(@, m)]
          BY <3>3, <4>1 DEF HearsMsg
        <5>2. m \in Range(delivered'[q])
          BY ONLY <1>0, <1>2, <5>1, AppendDelivers
        <5>3. QED
          BY <5>2 DEF Found, Delivered
      <4>2. ASSUME q \in late PROVE Found(m)'
        BY <3>3, <4>2 DEF HearsMsg, Found
      <4>3. ASSUME NEW g, Confirms(r, q, g), Before(g, Msg(m), sock[r].down) PROVE Found(m)'
        <5>1. g # Msg(m)
          BY <4>3, MsgOf DEF Confirms
        <5>2. Before(g, Msg(m), sock'[r].down)
          BY <3>3, <4>3, <5>1 DEF HearsMsg, Taken, Shrank
        <5>3. QED
          BY <2>1, <3>0, <5>2, BeforeBoth
      <4>4. \/ Knows(c, q)
            \/ \E g \in Range(sock[r].down) : Confirms(r, q, g) /\ Before(g, Msg(m), sock[r].down)
        BY <1>0, <1>5, <3>3, MsgOf DEF MsgBehindOk, HearsMsg
      <4>5. QED
        BY <4>1, <4>2, <4>3, <4>4 DEF Knows
    <3>4. ASSUME NEW s \in Socket, NEW c \in Client, NEW n \in Message, HearsMsg(s, c, n) PROVE Found(m)'
      <4>1. CASE s = r /\ n = m
        BY <3>3, <3>4, <4>1
      <4>2. CASE s # r \/ n # m
        <5>1. Taken(s, Msg(n)) /\ (s # r \/ Msg(n) # Msg(m))
          BY <3>4, <4>2, MsgOf DEF HearsMsg
        <5>2. QED
          BY <3>1, <5>1
      <4>3. QED
        BY <4>1, <4>2
    <3>5. ASSUME NEW c \in Client, NEW call \in Call, GivesUp(c, call) \/ Calls(c, call) PROVE Found(m)'
      BY <1>5, <2>1, <3>0, <3>5 DEF GivesUp, Calls, Called
    <3>6. QED
      BY <2>3, <3>2, <3>4, <3>5 DEF Acts
  <2>4. CASE Fading
    <3>1. Fades(r) /\ via' = via
      BY <2>4 DEF Fading
    <3>2. Brings(r, Msg(m))
      BY <1>0, <1>5 DEF FrameInv
    <3>3. via'[m].pushed = r /\ r # None
      BY <3>1, <3>2, MsgOf, ConstantTypes DEF Brings
    <3>4. CASE Dead(r)'
      BY <3>3, <3>4 DEF Found, Dead
    <3>5. CASE ~Dead(r)'
      BY <1>5, <2>1, <3>1, <3>5 DEF Fades, Dead
    <3>6. QED
      BY <3>4, <3>5
  <2>5. QED
    BY <2>2, <2>3, <2>4, Kinds
<1>6. ASSUME m \in accepted PROVE m \notin wiped
  <2>1. wiped' = wiped \/ wiped' = accepted
    BY Kinds DEF Handles, Acts, Fading, Stays, Restarted
  <2>2. QED
    BY <1>1, <1>6, <2>1
<1>7. QED
  <2>1. CASE m \notin accepted
    BY <1>3, <2>1
  <2>2. CASE m \in accepted
    <3>1. Found(m)
      BY <1>0, <1>6, <2>2 DEF LostOnlyWithItsSocket, Found
    <3>2. CASE Pending(m)
      BY <1>4, <2>2, <3>2
    <3>3. CASE InFlight(m)
      BY <1>5, <2>2, <3>3 DEF InFlight
    <3>4. CASE Delivered(m) \/ (via[m].pushed # None /\ Dead(via[m].pushed)) \/ Target[m] \in late
      BY <2>2, <3>4, CausesStay DEF Found
    <3>5. QED
      BY <3>1, <3>2, <3>3, <3>4 DEF Found
  <2>3. QED
    BY <2>1, <2>2-----------------------------------------------------------------------------
(* The theorems                                                            *)

LEMMA StutterBase ==
  ASSUME IInv, UNCHANGED vars
  PROVE  Base' /\ LiveInv' /\ CallInv' /\ QueueInv' /\ SetInv' /\ NewInv' /\ AnswerInv'
<1>0. /\ UNCHANGED <<sock, queue, messages, ws, state, subscribed, calls, timers, bridge>>
      /\ UNCHANGED <<address, tries, outcome, acked, accepted, wiped, via, late, delivered, faults>>
  BY DEF vars, relayVars, clientVars, userVars, history
<1>1. TypeOK'
  BY <1>0 DEF IInv, Base, TypeOK
<1>2. SockInv' /\ WsInv'
  BY <1>0 DEF IInv, Base, SockInv, WsInv, Dead
<1>3. FrameInv'
  BY <1>0 DEF IInv, Base, FrameInv, Holds, Brings, Legit, Delivered
<1>4. LiveInv'
  BY <1>0 DEF IInv, LiveInv, Live
<1>5. CallInv'
  BY <1>0 DEF IInv, CallInv, Legit
<1>6. QueueInv' /\ SetInv'
  BY <1>0 DEF IInv, QueueInv, SetInv
<1>7. NewInv'
  BY <1>0 DEF IInv, NewInv, NoneAsks
<1>8. AnswerInv'
  BY <1>0 DEF IInv, AnswerInv
<1>9. QED
  BY <1>1, <1>2, <1>3, <1>4, <1>5, <1>6, <1>7, <1>8 DEF Base

LEMMA StutterInv ==
  ASSUME IInv, UNCHANGED vars
  PROVE  IInv'
<1>0. /\ UNCHANGED <<sock, queue, messages, ws, state, subscribed, calls, timers, bridge>>
      /\ UNCHANGED <<address, tries, outcome, acked, accepted, wiped, via, late, delivered, faults>>
  BY DEF vars, relayVars, clientVars, userVars, history
<1>1. SubInv'
  BY <1>0 DEF IInv, SubInv, Knows, Confirms, Dead
<1>2. RealInv'
  BY <1>0 DEF IInv, RealInv, Only
<1>3. SendOrder'
  BY <1>0 DEF IInv, SendOrder, Ahead
<1>4. GetOrder'
  BY <1>0 DEF IInv, GetOrder, Precedes, Comes, Ahead
<1>5. StoredUntilDelivered'
  BY <1>0 DEF IInv, StoredUntilDelivered, Delivered
<1>6. KeptNeedsLostAck'
  BY <1>0 DEF IInv, KeptNeedsLostAck, Delivered, Dead
<1>7. BelievedSubscriptionIsReal'
  BY <1>0 DEF IInv, BelievedSubscriptionIsReal
<1>8. LostOnlyWithItsSocket'
  BY <1>0 DEF IInv, LostOnlyWithItsSocket, Delivered, Pending, InFlight, Dead
<1>9. QED
  BY <1>1, <1>2, <1>3, <1>4, <1>5, <1>6, <1>7, <1>8, StutterBase DEF IInv

LEMMA StepInv ==
  ASSUME IInv, [Next]_vars
  PROVE  IInv'
<1>1. CASE Next
  <2>1. SubInv'
    <3>1. SubWaits' /\ MsgBehindOk' /\ SubscriberKnows'
      BY <1>1, StepSubWaits, StepMsgBehindOk, StepSubscriberKnows
    <3>2. QED
      BY <3>1 DEF SubInv, SubWaits, MsgBehindOk, SubscriberKnows
  <2>2. Base' /\ LiveInv' /\ CallInv' /\ QueueInv' /\ SetInv' /\ NewInv' /\ AnswerInv'
    BY <1>1, StepBase, StepCalls, StepQueues, StepSets, StepNew, StepAnswers
  <2>3. RealInv' /\ SendOrder' /\ GetOrder'
    BY <1>1, StepReal, StepSendOrder, StepGetOrder
  <2>4. StoredUntilDelivered' /\ KeptNeedsLostAck' /\ BelievedSubscriptionIsReal' /\ LostOnlyWithItsSocket'
    BY <1>1, StepStored, StepKept, StepBelieved, StepLost
  <2>5. QED
    BY <2>1, <2>2, <2>3, <2>4 DEF IInv
<1>2. CASE UNCHANGED vars
  BY <1>2, StutterInv
<1>3. QED
  BY <1>1, <1>2

LEMMA RelayAlways == Spec => []IInv
BY InitInv, StepInv, PTL DEF Spec

\* What was handed to the callbacks came in the order it was sent.
LEMMA OrderOfDelivered ==
  ASSUME GetOrder, TypeOK
  PROVE  OnceAndInOrder
<1>1. SUFFICES ASSUME NEW q \in Queue, NEW i \in DOMAIN delivered[q], NEW j \in DOMAIN delivered[q], i < j
               PROVE  Ahead(delivered[q][i], delivered[q][j])
  BY DEF OnceAndInOrder, Ahead
<1>2. Before(delivered[q][i], delivered[q][j], delivered[q])
  BY <1>1 DEF Before
<1>3. QED
  BY <1>2 DEF GetOrder, Precedes

\* Relay and client keep their word, with any number of clients, queues and messages, and
\* whatever is cut, closed, restarted, shut down and opened again: the relay's map keeps a
\* message until a client's callbacks had it and hardly longer (SEND, ACK and the
\* 'close' handler of index.mjs), messages arrive once and in order, and a subscription
\* that the client believes in is held by the relay (handleMessage, subscribeToQueue).
THEOREM RelayKeepsItsWord == Spec => []RelayInv
<1>1. IInv => RelayInv
  BY OrderOfDelivered DEF IInv, Base, RelayInv
<1>2. QED
  BY <1>1, RelayAlways, PTL

\* A message the relay answered OK for is pending, on its way or was delivered, unless the
\* socket it was pushed to died (a SEND to a subscriber is not kept pending) or a SUB of its
\* queue was given up by the client's 10 s timer before its answer came.
THEOREM LostOnlyWithASocket == Spec => []LostOnlyWithItsSocket
<1>1. IInv => LostOnlyWithItsSocket
  BY DEF IInv
<1>2. QED
  BY <1>1, RelayAlways, PTL

-----------------------------------------------------------------------------
(* Sequences without repetitions                                           *)

\* Of finitely many numbers one is the smallest.
LEMMA SmallestOf ==
  ASSUME NEW N \in Nat, NEW S, S \subseteq 0..N, S # {}
  PROVE  \E m \in S : \A k \in S : m <= k
<1> DEFINE U == 0..N
           T == {0..k : k \in S}
<1>1. IsFiniteSet(U)
  BY FS_Interval
<1>2. FiniteSubsetsOf(U) = SUBSET U
  BY <1>1, FS_FiniteSubsetsOfFinite
<1>3. IsWellFoundedOn(StrictSubsetOrdering(U), SUBSET U)
  BY <1>2, FS_StrictSubsetOrderingWellFounded
<1>4. T \subseteq SUBSET U /\ T # {}
  <2>1. \A k \in S : 0..k \subseteq 0..N
    OBVIOUS
  <2>2. QED
    BY <2>1
<1>5. PICK x \in T : \A y \in T : ~(<<y, x>> \in StrictSubsetOrdering(U))
  <2> HIDE DEF T, U
  <2>1. QED
    BY <1>3, <1>4, WFMin
<1>6. PICK m \in S : x = 0..m
  OBVIOUS
<1>7. ASSUME NEW k \in S PROVE m <= k
  <2>1. SUFFICES ASSUME k < m PROVE FALSE
    OBVIOUS
  <2>2. (0..k) \subseteq (0..m) /\ 0..k # 0..m
    <3>1. m \in 0..m /\ m \notin 0..k
      BY <2>1
    <3>2. QED
      BY <2>1, <3>1
  <2>3. <<0..k, 0..m>> \in StrictSubsetOrdering(U)
    BY <2>2 DEF StrictSubsetOrdering
  <2>4. QED
    BY <1>5, <1>6, <2>3
<1>8. QED
  BY <1>7

\* No message is in t twice.
Once(t) == \A x : ~Before(x, x, t)

LEMMA OnceOf ==
  ASSUME NEW S, NEW t \in Seq(S), Once(t)
  PROVE  /\ \A i, j \in DOMAIN t : t[i] = t[j] => i = j
         /\ \A x, y : Before(x, y, t) => ~Before(y, x, t)
<1>1. \A i \in DOMAIN t : i \in Nat
  OBVIOUS
<1>2. \A i, j \in DOMAIN t : t[i] = t[j] => i = j
  <2>1. SUFFICES ASSUME NEW i \in DOMAIN t, NEW j \in DOMAIN t, t[i] = t[j], i < j PROVE FALSE
    BY <1>1
  <2>2. QED
    BY <2>1 DEF Once, Before
<1>3. ASSUME NEW x, NEW y, Before(x, y, t), Before(y, x, t) PROVE FALSE
  <2>1. PICK i \in DOMAIN t, j \in DOMAIN t : i < j /\ t[i] = x /\ t[j] = y
    BY <1>3 DEF Before
  <2>2. PICK k \in DOMAIN t, l \in DOMAIN t : k < l /\ t[k] = y /\ t[l] = x
    BY <1>3 DEF Before
  <2>3. i = l /\ j = k
    BY <1>2, <2>1, <2>2
  <2>4. QED
    BY <1>1, <2>1, <2>2, <2>3
<1>4. QED
  BY <1>2, <1>3

\* What is in a sequence and in which order determines it.
LEMMA SameOrder ==
  ASSUME NEW S, NEW t \in Seq(S), NEW u \in Seq(S), Once(t), Once(u),
         Range(t) = Range(u), \A x, y : Before(x, y, t) <=> Before(x, y, u)
  PROVE  t = u
<1>1. /\ Len(t) \in Nat /\ Len(u) \in Nat /\ DOMAIN t = 1..Len(t) /\ DOMAIN u = 1..Len(u)
  OBVIOUS
<1>2. /\ \A i, j \in DOMAIN t : t[i] = t[j] => i = j
      /\ \A i, j \in DOMAIN u : u[i] = u[j] => i = j
      /\ \A x, y : Before(x, y, t) => ~Before(y, x, t)
  BY OnceOf
<1> DEFINE N == Len(t) + Len(u)
           D == {i \in 0..N : i > 0 /\ ~(i \in DOMAIN t /\ i \in DOMAIN u /\ t[i] = u[i])
                                    /\ (i \in DOMAIN t \/ i \in DOMAIN u)}
<1>3. ASSUME D = {} PROVE t = u
  <2>1. \A i \in DOMAIN t \cup DOMAIN u : i \in DOMAIN t /\ i \in DOMAIN u /\ t[i] = u[i]
    <3>1. \A i \in DOMAIN t \cup DOMAIN u : i \in 0..N /\ i > 0
      BY <1>1
    <3>2. QED
      BY <1>3, <3>1
  <2>2. Len(t) = Len(u)
    <3>1. ~(Len(t) < Len(u))
      <4>1. Len(t) < Len(u) => Len(u) \in DOMAIN u
        BY <1>1
      <4>2. Len(t) < Len(u) => Len(u) \in DOMAIN t
        BY <2>1, <4>1
      <4>3. QED
        BY <1>1, <4>2
    <3>2. ~(Len(u) < Len(t))
      <4>1. Len(u) < Len(t) => Len(t) \in DOMAIN t
        BY <1>1
      <4>2. Len(u) < Len(t) => Len(t) \in DOMAIN u
        BY <2>1, <4>1
      <4>3. QED
        BY <1>1, <4>2
    <3>3. Len(t) \in Nat /\ Len(u) \in Nat
      BY <1>1
    <3>4. QED
      BY ONLY <3>1, <3>2, <3>3
  <2>3. QED
    BY <1>1, <2>1, <2>2, SeqEqual
<1>4. ASSUME D # {} PROVE FALSE
  <2>1. N \in Nat /\ D \subseteq 0..N
    BY <1>1
  <2>2. PICK m \in D : \A k \in D : m <= k
    <3> HIDE DEF D, N
    <3>1. QED
      BY <1>4, <2>1, SmallestOf
  <2>3. \A i : i \in 1..(m - 1) /\ (i \in DOMAIN t \/ i \in DOMAIN u) => i \in DOMAIN t /\ i \in DOMAIN u /\ t[i] = u[i]
    <3>1. SUFFICES ASSUME NEW i \in 1..(m - 1), i \in DOMAIN t \/ i \in DOMAIN u,
                          ~(i \in DOMAIN t /\ i \in DOMAIN u /\ t[i] = u[i])
                   PROVE  FALSE
      OBVIOUS
    <3>2. i \in 0..N /\ i > 0 /\ i < m
      BY <1>1, <3>1
    <3>3. i \in D
      BY <3>1, <3>2
    <3>4. QED
      BY <2>2, <3>2, <3>3
  <2>4. m \in Nat /\ m > 0 /\ (m \in DOMAIN t \/ m \in DOMAIN u) /\ ~(m \in DOMAIN t /\ m \in DOMAIN u /\ t[m] = u[m])
    OBVIOUS
  <2> HIDE DEF D, N
  \* Where the one goes on, the other has the same message, further on.
  <2>5. ASSUME m \in DOMAIN t PROVE \E k \in DOMAIN u : u[k] = t[m] /\ k > m
    <3>1. PICK k \in DOMAIN u : u[k] = t[m]
      BY <2>5 DEF Range
    <3>2. k # m
      BY <2>4, <2>5, <3>1
    <3>3. ~(k < m)
      <4>1. k < m => k \in 1..(m - 1)
        BY <1>1, <2>4
      <4>2. k < m => k \in DOMAIN t /\ t[k] = t[m]
        BY <2>3, <3>1, <4>1
      <4>3. QED
        BY <1>2, <2>5, <3>2, <4>2
    <3>4. QED
      BY <1>1, <2>4, <3>1, <3>2, <3>3
  <2>6. ASSUME m \in DOMAIN u PROVE \E k \in DOMAIN t : t[k] = u[m] /\ k > m
    <3>1. PICK k \in DOMAIN t : t[k] = u[m]
      BY <2>6 DEF Range
    <3>2. k # m
      BY <2>4, <2>6, <3>1
    <3>3. ~(k < m)
      <4>1. k < m => k \in 1..(m - 1)
        BY <1>1, <2>4
      <4>2. k < m => k \in DOMAIN u /\ u[k] = u[m]
        BY <2>3, <3>1, <4>1
      <4>3. QED
        BY <1>2, <2>6, <3>2, <4>2
    <3>4. QED
      BY <1>1, <2>4, <3>1, <3>2, <3>3
  <2>7. m \in DOMAIN t /\ m \in DOMAIN u
    <3>1. \A k \in DOMAIN u : k > m => m \in DOMAIN u
      BY <1>1, <2>4
    <3>2. \A k \in DOMAIN t : k > m => m \in DOMAIN t
      BY <1>1, <2>4
    <3>3. QED
      BY <2>4, <2>5, <2>6, <3>1, <3>2
  <2>8. Before(t[m], u[m], t)
    BY <2>6, <2>7 DEF Before
  <2>9. Before(u[m], t[m], u)
    BY <2>5, <2>7 DEF Before
  <2>10. QED
    BY <1>2, <2>8, <2>9
<1>5. QED
  BY <1>3, <1>4

\* With less in it, in the same order, t is what remains of u.
LEMMA RemainsOf ==
  ASSUME NEW S, NEW t \in Seq(S), NEW u \in Seq(S), Once(u),
         Range(t) \subseteq Range(u), \A x, y : Before(x, y, t) => Before(x, y, u)
  PROVE  Promise!Remains(t, u)
<1> DEFINE at == [i \in DOMAIN t |-> CHOOSE j \in DOMAIN u : u[j] = t[i]]
<1>1. \A i \in DOMAIN t : at[i] \in DOMAIN u /\ u[at[i]] = t[i]
  BY DEF Range
<1>2. at \in [DOMAIN t -> DOMAIN u]
  BY <1>1
<1>3. \A i, j \in DOMAIN u : u[i] = u[j] => i = j
  BY OnceOf
<1> HIDE DEF at
<1>4. ASSUME NEW i \in DOMAIN t, NEW j \in DOMAIN t, i < j PROVE at[i] < at[j]
  <2>1. Before(t[i], t[j], u)
    <3>1. Before(t[i], t[j], t)
      BY <1>4 DEF Before
    <3>2. QED
      BY <3>1
  <2>2. PICK k \in DOMAIN u, l \in DOMAIN u : k < l /\ u[k] = t[i] /\ u[l] = t[j]
    BY <2>1 DEF Before
  <2>3. QED
    BY <1>1, <1>3, <2>2
<1>5. QED
  BY <1>1, <1>2, <1>4 DEF Promise!Remains

-----------------------------------------------------------------------------
(* What MsgsOf makes of a stream of frames                                 *)

\* Frame f brings a message of queue q.
Mine(f, q) == f.cmd = "MSG" /\ Target[f.msg] = q

\* f[i] is what the first i frames of t bring of queue q.
Collects(f, t, q, n) ==
  f = [i \in 0..n |-> IF i = 0 THEN <<>>
                      ELSE IF t[i].cmd = "MSG" /\ Target[t[i].msg] = q THEN Append(f[i - 1], t[i].msg)
                      ELSE f[i - 1]]

LEMMA CollectsOf ==
  ASSUME NEW t, NEW q, NEW n \in Nat
  PROVE  \E f : Collects(f, t, q, n)
<1> DEFINE D == {i \in 0..n : ~\E f : Collects(f, t, q, i)}
<1>1. SUFFICES ASSUME D # {} PROVE FALSE
  <2>1. n \in 0..n
    OBVIOUS
  <2>2. QED
    BY <2>1
<1>2. PICK m \in D : \A k \in D : m <= k
  <2>1. D \subseteq 0..n
    OBVIOUS
  <2> HIDE DEF D
  <2>2. QED
    BY <1>1, <2>1, SmallestOf
<1>3. m \in 0..n /\ ~\E f : Collects(f, t, q, m)
  OBVIOUS
<1>4. CASE m = 0
  <2> DEFINE f == [i \in 0..0 |-> <<>>]
  <2>1. Collects(f, t, q, 0)
    BY DEF Collects
  <2>2. QED
    BY <1>3, <1>4, <2>1
<1>5. CASE m # 0
  <2>1. m - 1 \in 0..n /\ m - 1 \notin D
    BY <1>2, <1>3, <1>5
  <2>2. PICK f : Collects(f, t, q, m - 1)
    BY <2>1
  <2> HIDE DEF D
  <2> DEFINE Body(g, i) == IF i = 0 THEN <<>>
                           ELSE IF t[i].cmd = "MSG" /\ Target[t[i].msg] = q THEN Append(g[i - 1], t[i].msg)
                           ELSE g[i - 1]
             g == [i \in 0..m |-> IF i = m THEN Body(f, m) ELSE f[i]]
  <2>3. \A i \in 0..(m - 1) : f[i] = Body(f, i) /\ i \in 0..m /\ i # m
    <3>1. \A i \in 0..(m - 1) : i \in 0..m /\ i # m
      BY <1>3
    <3>2. f = [i \in 0..(m - 1) |-> Body(f, i)]
      BY <2>2 DEF Collects
    <3> HIDE DEF Body, g
    <3>3. \A i \in 0..(m - 1) : f[i] = Body(f, i)
      BY <3>2
    <3>4. QED
      BY <3>1, <3>3
  <2>4. \A i \in 0..(m - 1) : g[i] = f[i]
    BY <2>3
  <2>5. g[m] = Body(f, m)
    BY <1>3
  <2>6. \A i \in 0..m : i = 0 \/ i - 1 \in 0..(m - 1)
    BY <1>3
  <2>7. \A i \in 0..m : Body(g, i) = Body(f, i)
    <3> HIDE DEF g
    <3>1. QED
      BY <2>4, <2>6
  <2>8. \A i \in 0..m : g[i] = Body(f, i)
    <3>1. \A i \in 0..m : i = m \/ i \in 0..(m - 1)
      BY <1>3
    <3> HIDE DEF g, Body
    <3>2. QED
      BY <2>3, <2>4, <2>5, <3>1
  <2>9. g = [i \in 0..m |-> Body(g, i)]
    <3>1. g = [i \in 0..m |-> g[i]]
      OBVIOUS
    <3> HIDE DEF g, Body
    <3>2. QED
      BY <2>7, <2>8, <3>1
  <2>10. Collects(g, t, q, m)
    <3> HIDE DEF g
    <3>1. QED
      BY <2>9 DEF Collects
  <2>11. QED
    BY <1>3, <2>10
<1>6. QED
  BY <1>4, <1>5

LEMMA MsgsCollected ==
  ASSUME NEW t \in Seq(Frame), NEW q
  PROVE  \E f : Collects(f, t, q, Len(t)) /\ MsgsOf(t, q) = f[Len(t)]
<1>1. Len(t) \in Nat
  OBVIOUS
<1>2. MsgsOf(t, q) = (CHOOSE f : Collects(f, t, q, Len(t)))[Len(t)]
  BY DEF MsgsOf, Collects
<1>3. Collects(CHOOSE f : Collects(f, t, q, Len(t)), t, q, Len(t))
  BY <1>1, CollectsOf
<1>4. QED
  BY <1>2, <1>3

\* The message of q in front and the message behind, among the first n frames of t.
Pairs(t, q, n, x, y) ==
  \E j, k \in 1..n : j < k /\ Mine(t[j], q) /\ t[j].msg = x /\ Mine(t[k], q) /\ t[k].msg = y

\* s holds the messages of q among the first n frames of t, in their order.
Gathers(s, t, q, n) ==
  /\ s \in Seq(Message)
  /\ \A x : x \in Range(s) <=> \E j \in 1..n : Mine(t[j], q) /\ t[j].msg = x
  /\ \A x, y : Before(x, y, s) <=> Pairs(t, q, n, x, y)

LEMMA GathersOne ==
  ASSUME NEW s, NEW t, NEW q, NEW n \in Nat, n > 0, Gathers(s, t, q, n - 1), t[n].msg \in Message, Mine(t[n], q)
  PROVE  Gathers(Append(s, t[n].msg), t, q, n)
<1> DEFINE m == t[n].msg
<1>0. s \in Seq(Message) /\ m \in Message
  BY DEF Gathers
<1>1. /\ Append(s, m) \in Seq(Message)
      /\ Range(Append(s, m)) = Range(s) \cup {m}
      /\ \A x, y : Before(x, y, s) => Before(x, y, Append(s, m))
      /\ \A x \in Range(s) : Before(x, m, Append(s, m))
      /\ \A x, y : Before(x, y, Append(s, m)) => Before(x, y, s) \/ (x \in Range(s) /\ y = m)
  <2> HIDE DEF m
  <2>1. QED
    BY <1>0, AppendOf
<1>2. /\ \A j : j \in 1..n <=> j \in 1..(n - 1) \/ j = n
      /\ \A j \in 1..(n - 1) : j < n
      /\ \A j \in 1..n : ~(n < j)
  OBVIOUS
<1>3. \A x : x \in Range(Append(s, m)) <=> \E j \in 1..n : Mine(t[j], q) /\ t[j].msg = x
  <2>1. \A x : x \in Range(s) <=> \E j \in 1..(n - 1) : Mine(t[j], q) /\ t[j].msg = x
    BY DEF Gathers
  <2>2. QED
    BY <1>1, <1>2, <2>1
<1>4. \A x, y : Pairs(t, q, n, x, y) <=> Pairs(t, q, n - 1, x, y) \/ (y = m /\ x \in Range(s))
  <2>1. \A x : x \in Range(s) <=> \E j \in 1..(n - 1) : Mine(t[j], q) /\ t[j].msg = x
    BY DEF Gathers
  <2>2. ASSUME NEW x, NEW y, Pairs(t, q, n, x, y) PROVE Pairs(t, q, n - 1, x, y) \/ (y = m /\ x \in Range(s))
    <3>1. PICK j \in 1..n, k \in 1..n : j < k /\ Mine(t[j], q) /\ t[j].msg = x /\ Mine(t[k], q) /\ t[k].msg = y
      BY <2>2 DEF Pairs
    <3>2. j \in 1..(n - 1)
      BY <1>2, <3>1
    <3>3. CASE k = n
      BY <2>1, <3>1, <3>2, <3>3
    <3>4. CASE k # n
      BY <1>2, <3>1, <3>2, <3>4 DEF Pairs
    <3>5. QED
      BY <3>3, <3>4
  <2>3. ASSUME NEW x, NEW y, Pairs(t, q, n - 1, x, y) PROVE Pairs(t, q, n, x, y)
    BY <1>2, <2>3 DEF Pairs
  <2>4. ASSUME NEW x \in Range(s) PROVE Pairs(t, q, n, x, m)
    <3>1. PICK j \in 1..(n - 1) : Mine(t[j], q) /\ t[j].msg = x
      BY <2>1
    <3>2. j \in 1..n /\ n \in 1..n /\ j < n
      BY <1>2
    <3>3. QED
      BY <3>1, <3>2 DEF Pairs
  <2>5. QED
    BY <2>2, <2>3, <2>4
<1>5. \A x, y : Before(x, y, Append(s, m)) <=> Pairs(t, q, n, x, y)
  <2>1. \A x, y : Before(x, y, s) <=> Pairs(t, q, n - 1, x, y)
    BY DEF Gathers
  <2>2. QED
    BY <1>1, <1>4, <2>1
<1>6. QED
  BY <1>1, <1>3, <1>5 DEF Gathers

LEMMA GathersNone ==
  ASSUME NEW s, NEW t, NEW q, NEW n \in Nat, n > 0, Gathers(s, t, q, n - 1), ~Mine(t[n], q)
  PROVE  Gathers(s, t, q, n)
<1>1. /\ \A j : j \in 1..n <=> j \in 1..(n - 1) \/ j = n
  OBVIOUS
<1>2. \A x, y : Pairs(t, q, n, x, y) <=> Pairs(t, q, n - 1, x, y)
  BY <1>1 DEF Pairs
<1>3. \A x : (\E j \in 1..n : Mine(t[j], q) /\ t[j].msg = x) <=> (\E j \in 1..(n - 1) : Mine(t[j], q) /\ t[j].msg = x)
  BY <1>1
<1>4. QED
  BY <1>2, <1>3 DEF Gathers

\* MsgsOf filters: the messages of q that t brings, in their order.
LEMMA MsgsOfStream ==
  ASSUME NEW t \in Seq(Frame), NEW q, \A g \in Range(t) : g.cmd = "MSG" => g = Msg(g.msg) /\ g.msg \in Message
  PROVE  /\ MsgsOf(t, q) \in Seq(Message)
         /\ \A m : m \in Range(MsgsOf(t, q)) <=> m \in Message /\ Target[m] = q /\ Msg(m) \in Range(t)
         /\ \A m, n : Before(m, n, MsgsOf(t, q)) <=>
              /\ m \in Message /\ Target[m] = q /\ n \in Message /\ Target[n] = q
              /\ Before(Msg(m), Msg(n), t)
<1> DEFINE N == Len(t)
<1>0. N \in Nat /\ DOMAIN t = 1..N
  OBVIOUS
<1>1. PICK f : Collects(f, t, q, N) /\ MsgsOf(t, q) = f[N]
  BY MsgsCollected
<1> HIDE DEF N
<1>2. \A i \in 1..N : Mine(t[i], q) => t[i] = Msg(t[i].msg) /\ t[i].msg \in Message
  BY <1>0 DEF Range, Mine
<1> DEFINE D == {i \in 0..N : ~Gathers(f[i], t, q, i)}
<1>3. D = {}
  <2>1. SUFFICES ASSUME D # {} PROVE FALSE
    OBVIOUS
  <2>2. PICK n \in D : \A k \in D : n <= k
    <3>1. D \subseteq 0..N
      OBVIOUS
    <3> HIDE DEF D
    <3>2. QED
      BY <1>0, <2>1, <3>1, SmallestOf
  <2>3. n \in 0..N /\ ~Gathers(f[n], t, q, n) /\ n \in Nat
    BY <1>0
  <2>4. f[n] = IF n = 0 THEN <<>> ELSE IF Mine(t[n], q) THEN Append(f[n - 1], t[n].msg) ELSE f[n - 1]
    BY <2>3, <1>1 DEF Collects, Mine
  <2>5. CASE n = 0
    <3>1. 1..0 = {}
      OBVIOUS
    <3>2. f[0] = <<>>
      BY <2>4, <2>5
    <3>3. Gathers(<<>>, t, q, 0)
      BY <3>1, EmptySeq, EmptyOf DEF Gathers, Pairs
    <3>4. QED
      BY <2>3, <2>5, <3>2, <3>3
  <2>6. CASE n # 0
    <3>1. n - 1 \in 0..N /\ n > 0 /\ n \in 1..N
      BY <1>0, <2>3, <2>6
    <3>2. n - 1 \notin D
      BY <1>0, <2>2, <2>3, <3>1
    <3>3. Gathers(f[n - 1], t, q, n - 1)
      BY <3>1, <3>2
    <3> HIDE DEF D
    <3>4. CASE Mine(t[n], q)
      BY <1>2, <2>3, <2>4, <2>6, <3>1, <3>3, <3>4, GathersOne
    <3>5. CASE ~Mine(t[n], q)
      BY <2>3, <2>4, <2>6, <3>1, <3>3, <3>5, GathersNone
    <3>6. QED
      BY <3>4, <3>5
  <2>7. QED
    BY <2>5, <2>6
<1>4. Gathers(MsgsOf(t, q), t, q, N)
  <2>1. N \in 0..N
    BY <1>0
  <2>2. QED
    BY <1>1, <1>3, <2>1
<1> HIDE DEF D
<1>5. \A m : Mine(Msg(m), q) <=> Target[m] = q
  BY MsgOf DEF Mine
<1>6. \A m : m \in Range(MsgsOf(t, q)) <=> m \in Message /\ Target[m] = q /\ Msg(m) \in Range(t)
  <2>1. ASSUME NEW m, m \in Range(MsgsOf(t, q)) PROVE m \in Message /\ Target[m] = q /\ Msg(m) \in Range(t)
    <3>1. PICK j \in 1..N : Mine(t[j], q) /\ t[j].msg = m
      BY <1>4, <2>1 DEF Gathers
    <3>2. QED
      BY <1>0, <1>2, <3>1 DEF Mine, Range
  <2>2. ASSUME NEW m, m \in Message, Target[m] = q, Msg(m) \in Range(t) PROVE m \in Range(MsgsOf(t, q))
    <3>1. PICK j \in 1..N : t[j] = Msg(m)
      BY <1>0, <2>2 DEF Range
    <3>2. Mine(t[j], q) /\ t[j].msg = m
      BY <1>5, <2>2, <3>1, MsgOf
    <3>3. QED
      BY <1>4, <3>2 DEF Gathers
  <2>3. QED
    BY <2>1, <2>2
<1>7. ASSUME NEW m, NEW n, Before(m, n, MsgsOf(t, q))
      PROVE  /\ m \in Message /\ Target[m] = q /\ n \in Message /\ Target[n] = q
             /\ Before(Msg(m), Msg(n), t)
  <2>1. PICK j \in 1..N, k \in 1..N : j < k /\ Mine(t[j], q) /\ t[j].msg = m /\ Mine(t[k], q) /\ t[k].msg = n
    BY <1>4, <1>7 DEF Gathers, Pairs
  <2>2. t[j] = Msg(m) /\ t[k] = Msg(n)
    BY <1>2, <2>1
  <2>3. Before(Msg(m), Msg(n), t)
    BY <1>0, <2>1, <2>2 DEF Before
  <2>4. QED
    BY <1>2, <2>1, <2>3 DEF Mine
<1>8. ASSUME NEW m, NEW n, m \in Message, Target[m] = q, n \in Message, Target[n] = q, Before(Msg(m), Msg(n), t)
      PROVE  Before(m, n, MsgsOf(t, q))
  <2>1. PICK j \in 1..N, k \in 1..N : j < k /\ t[j] = Msg(m) /\ t[k] = Msg(n)
    BY <1>0, <1>8 DEF Before
  <2>2. Mine(t[j], q) /\ t[j].msg = m /\ Mine(t[k], q) /\ t[k].msg = n
    BY <1>5, <1>8, <2>1, MsgOf
  <2>3. Pairs(t, q, N, m, n)
    BY <2>1, <2>2 DEF Pairs
  <2>4. QED
    BY <1>4, <2>3 DEF Gathers
<1>9. QED
  <2>1. MsgsOf(t, q) \in Seq(Message)
    BY <1>4 DEF Gathers
  <2>2. QED
    BY <1>6, <1>7, <1>8, <2>1

-----------------------------------------------------------------------------
(* What an observer sees of a queue                                        *)

\* Message m of queue q waits with the relay.
Waits(q, m) == queue[q] # None /\ m \in Range(queue[q].pending)

Stored(q, m) == Waits(q, m) \/ \E s \in Socket : Comes(s, q, m)

\* Both are stored, and m is in front of n.
InFront(q, m, n) ==
  \/ \E s \in Socket : Comes(s, q, m) /\ Comes(s, q, n) /\ Before(Msg(m), Msg(n), sock[s].down)
  \/ Waits(q, n) /\ \E s \in Socket : Comes(s, q, m)
  \/ queue[q] # None /\ Before(m, n, queue[q].pending)

\* What an observer sees of queue q.
Seen(q) ==
  /\ Store(q) \in Seq(Message)
  /\ \A m : m \in Range(Store(q)) <=> Stored(q, m)
  /\ \A m, n : Before(m, n, Store(q)) <=> InFront(q, m, n)
  /\ Once(Store(q))

\* On the way to a client are messages of its own queues, on the socket it holds.
LEMMA ComesTo ==
  ASSUME IInv, NEW q \in Queue, NEW s \in Socket, NEW m, Comes(s, q, m)
  PROVE  ws[Recipient[q]] = s /\ s # None
<1>1. Brings(s, Msg(m)) /\ sock[s].client = "open" /\ Target[m] = q
  BY DEF IInv, Base, FrameInv, Comes
<1>2. sock[s].owner = Recipient[q]
  BY <1>1, MsgOf DEF Brings
<1>3. QED
  BY <1>1, <1>2, ConstantTypes DEF IInv, Base, WsInv

LEMMA ArrivingOf ==
  ASSUME IInv, NEW q \in Queue
  PROVE  /\ Arriving(q) \in Seq(Message)
         /\ \A m : m \in Range(Arriving(q)) <=> \E s \in Socket : Comes(s, q, m)
         /\ \A m, n : Before(m, n, Arriving(q)) <=>
              \E s \in Socket : Comes(s, q, m) /\ Comes(s, q, n) /\ Before(Msg(m), Msg(n), sock[s].down)
<1> DEFINE c == Recipient[q]
<1>0. c \in Client /\ ws[c] \in Socket \cup {None} /\ TypeOK /\ FrameInv /\ WsInv
  BY ConstantTypes, Types DEF IInv, Base
<1>1. CASE ws[c] = None
  <2>1. Arriving(q) = <<>>
    BY <1>1 DEF Arriving
  <2>2. \A s \in Socket : \A m : ~Comes(s, q, m)
    BY <1>1, ComesTo
  <2>3. QED
    BY <2>1, <2>2, EmptySeq, EmptyOf
<1>2. CASE ws[c] # None
  <2> DEFINE s == ws[c]
             t == sock[s].down
  <2>1. s \in Socket /\ t \in Seq(Frame) /\ sock[s].client = "open"
    BY <1>0, <1>2, Types DEF WsInv
  <2>2. Arriving(q) = MsgsOf(t, q)
    BY <1>2 DEF Arriving
  <2>3. \A g \in Range(t) : g.cmd = "MSG" => g = Msg(g.msg) /\ g.msg \in Message
    <3>1. accepted \subseteq Message
      BY <1>0 DEF TypeOK
    <3>2. QED
      BY <1>0, <2>1, <3>1 DEF FrameInv, Brings
  <2>4. \A r \in Socket : \A m : Comes(r, q, m) <=> r = s /\ m \in Message /\ Target[m] = q /\ Msg(m) \in Range(t)
    <3>1. \A r \in Socket : \A m : Comes(r, q, m) => r = s
      BY ComesTo
    <3>2. QED
      BY <2>1, <3>1 DEF Comes
  <2>5. \A x, y : Before(x, y, t) => x \in Range(t) /\ y \in Range(t)
    BY BeforeBoth
  <2>6. /\ MsgsOf(t, q) \in Seq(Message)
        /\ \A m : m \in Range(MsgsOf(t, q)) <=> m \in Message /\ Target[m] = q /\ Msg(m) \in Range(t)
        /\ \A m, n : Before(m, n, MsgsOf(t, q)) <=>
             /\ m \in Message /\ Target[m] = q /\ n \in Message /\ Target[n] = q
             /\ Before(Msg(m), Msg(n), t)
    <3> HIDE DEF t, s
    <3>1. QED
      BY <2>1, <2>3, MsgsOfStream
  <2>7. \A m : m \in Range(MsgsOf(t, q)) <=> \E r \in Socket : Comes(r, q, m)
    BY <2>1, <2>4, <2>6
  <2>8. \A m, n : Before(m, n, MsgsOf(t, q)) <=>
          \E r \in Socket : Comes(r, q, m) /\ Comes(r, q, n) /\ Before(Msg(m), Msg(n), sock[r].down)
    BY <2>1, <2>4, <2>5, <2>6
  <2>9. QED
    BY <2>2, <2>6, <2>7, <2>8
<1>3. QED
  BY <1>1, <1>2

LEMMA StoreOf == IInv => \A q \in Queue : Seen(q)
<1>1. SUFFICES ASSUME IInv, NEW q \in Queue PROVE Seen(q)
  OBVIOUS
<1>2. /\ Arriving(q) \in Seq(Message)
      /\ \A m : m \in Range(Arriving(q)) <=> \E s \in Socket : Comes(s, q, m)
      /\ \A m, n : Before(m, n, Arriving(q)) <=>
           \E s \in Socket : Comes(s, q, m) /\ Comes(s, q, n) /\ Before(Msg(m), Msg(n), sock[s].down)
  BY <1>1, ArrivingOf
<1> DEFINE p == IF queue[q] = None THEN <<>> ELSE queue[q].pending
<1>3. Store(q) = Arriving(q) \o p
  BY DEF Store
<1>4. p \in Seq(Message)
  BY <1>1, Types, RecordTypes, EmptySeq DEF IInv, Base
<1>5. /\ \A m : m \in Range(p) <=> Waits(q, m)
      /\ \A m, n : Before(m, n, p) <=> queue[q] # None /\ Before(m, n, queue[q].pending)
  BY EmptyOf DEF Waits
<1> HIDE DEF p
<1>6. /\ Arriving(q) \o p \in Seq(Message)
      /\ Range(Arriving(q) \o p) = Range(Arriving(q)) \cup Range(p)
      /\ \A x, y : Before(x, y, Arriving(q)) \/ Before(x, y, p) => Before(x, y, Arriving(q) \o p)
      /\ \A x \in Range(Arriving(q)), y \in Range(p) : Before(x, y, Arriving(q) \o p)
      /\ \A x, y : Before(x, y, Arriving(q) \o p) =>
           Before(x, y, Arriving(q)) \/ Before(x, y, p) \/ (x \in Range(Arriving(q)) /\ y \in Range(p))
  BY ONLY <1>2, <1>4, ConcatOf
<1>7. \A m : m \in Range(Store(q)) <=> Stored(q, m)
  BY <1>2, <1>3, <1>5, <1>6 DEF Stored
<1>8. \A m, n : Before(m, n, Store(q)) <=> InFront(q, m, n)
  BY <1>2, <1>3, <1>5, <1>6 DEF InFront
<1>9. \A m, n : InFront(q, m, n) => Precedes(q, m, n)
  BY BeforeBoth DEF InFront, Precedes, Waits
<1>10. Once(Store(q))
  BY <1>1, <1>8, <1>9 DEF IInv, GetOrder, Ahead, Once
<1>11. QED
  BY <1>3, <1>6, <1>7, <1>8, <1>10 DEF Seen

LEMMA StoreOfNext == IInv' => \A q \in Queue : Seen(q)'
<1>1. (IInv => \A q \in Queue : Seen(q))'
  BY StoreOf, PTL
<1>2. QED
  BY <1>1

\* The queues an observer sees.
Stores == [q \in Queue |-> Store(q)]

LEMMA StoresLose ==
  ASSUME IInv, IInv', accepted' = accepted, delivered' = delivered,
         \A q \in Queue : \A m : Stored(q, m)' => Stored(q, m),
         \A q \in Queue : \A m, n : InFront(q, m, n)' => InFront(q, m, n)
  PROVE  Promise!Lose
<1>1. ASSUME NEW q \in Queue PROVE Store(q)' \in Seq(Message) /\ Promise!Remains(Store(q)', Store(q))
  <2> DEFINE t == Store(q)'
             u == Store(q)
  <2>1. /\ t \in Seq(Message) /\ \A m : m \in Range(t) <=> Stored(q, m)'
        /\ \A m, n : Before(m, n, t) <=> InFront(q, m, n)'
    BY <1>1, StoreOfNext DEF Seen
  <2>2. /\ u \in Seq(Message) /\ Once(u) /\ \A m : m \in Range(u) <=> Stored(q, m)
        /\ \A m, n : Before(m, n, u) <=> InFront(q, m, n)
    BY <1>1, StoreOf DEF Seen
  <2>3. Range(t) \subseteq Range(u) /\ \A x, y : Before(x, y, t) => Before(x, y, u)
    BY <1>1, <2>1, <2>2
  <2> HIDE DEF t, u
  <2>4. Promise!Remains(t, u)
    BY <2>1, <2>2, <2>3, RemainsOf
  <2>5. QED
    BY <2>1, <2>4 DEF t, u
<1>2. QED
  BY <1>1 DEF Promise!Lose

LEMMA SameStore ==
  ASSUME IInv, IInv', NEW q \in Queue, \A m : Stored(q, m)' <=> Stored(q, m),
         \A m, n : InFront(q, m, n)' <=> InFront(q, m, n)
  PROVE  Store(q)' = Store(q)
<1> DEFINE t == Store(q)'
           u == Store(q)
<1>1. /\ t \in Seq(Message) /\ Once(t) /\ \A m : m \in Range(t) <=> Stored(q, m)'
      /\ \A m, n : Before(m, n, t) <=> InFront(q, m, n)'
  BY StoreOfNext DEF Seen, Once
<1>2. /\ u \in Seq(Message) /\ Once(u) /\ \A m : m \in Range(u) <=> Stored(q, m)
      /\ \A m, n : Before(m, n, u) <=> InFront(q, m, n)
  BY StoreOf DEF Seen
<1>3. Range(t) = Range(u) /\ \A x, y : Before(x, y, t) <=> Before(x, y, u)
  BY <1>1, <1>2
<1> HIDE DEF t, u
<1>4. t = u
  BY <1>1, <1>2, <1>3, SameOrder
<1>5. QED
  BY <1>4 DEF t, u

-----------------------------------------------------------------------------
(* Steps that add nothing                                                  *)

\* Nothing is added to what is stored of queue q, and nothing changes places.
Thins(q) == /\ \A m : Stored(q, m)' => Stored(q, m)
            /\ \A m, n : InFront(q, m, n)' => InFront(q, m, n)

\* The relay keeps what waited for q, or no longer has it.
Unfilled(q) == queue'[q] = None \/ Range(queue'[q].pending) = {} \/ (queue[q] # None /\ queue'[q].pending = queue[q].pending)

LEMMA Thin ==
  ASSUME NEW q \in Queue, Unfilled(q),
         \A s \in Socket : \A k : Comes(s, q, k)' => Comes(s, q, k),
         \A s \in Socket : \A k, l : Comes(s, q, k)' /\ Comes(s, q, l)' /\ Before(Msg(k), Msg(l), sock'[s].down)
            => Before(Msg(k), Msg(l), sock[s].down)
  PROVE  Thins(q)
<1>1. /\ \A m : Waits(q, m)' => Waits(q, m)
      /\ \A m, n : queue'[q] # None /\ Before(m, n, queue'[q].pending)
            => queue[q] # None /\ Before(m, n, queue[q].pending)
  BY BeforeBoth DEF Unfilled, Waits
<1>2. QED
  BY <1>1 DEF Thins, Stored, InFront

LEMMA SilentThin ==
  ASSUME NEW q \in Queue, Unfilled(q), \A s \in Socket : sock'[s].client = sock[s].client,
         \A s \in Socket : \A f \in Range(sock'[s].down) : f \in Range(sock[s].down) \/ f.cmd # "MSG",
         \A s \in Socket : \A x, y : Before(x, y, sock'[s].down) => Before(x, y, sock[s].down) \/ y.cmd # "MSG"
  PROVE  Thins(q)
<1>1. \A s \in Socket : \A k : Comes(s, q, k)' => Comes(s, q, k)
  BY MsgOf DEF Comes
<1>2. \A s \in Socket : \A k, l : Before(Msg(k), Msg(l), sock'[s].down) => Before(Msg(k), Msg(l), sock[s].down)
  BY MsgOf
<1>3. QED
  BY <1>1, <1>2, Thin

\* An answer is no message.
LEMMA AnsweredThin ==
  ASSUME NEW s \in Socket, NEW cmd \in {"OK", "ERR"}, NEW call, Answered(s, cmd, call)
  PROVE  /\ \A r \in Socket : \A f \in Range(sock'[r].down) : f \in Range(sock[r].down) \/ f.cmd # "MSG"
         /\ \A r \in Socket : \A x, y : Before(x, y, sock'[r].down) => Before(x, y, sock[r].down) \/ y.cmd # "MSG"
<1>1. Answer(cmd, call).cmd # "MSG"
  BY MsgOf
<1>2. \A r \in Socket : Grew(sock'[r].down, sock[r].down, {Answer(cmd, call)})
  BY GrewNothing DEF Answered
<1>3. QED
  BY <1>1, <1>2 DEF Grew

LEMMA FadingThins ==
  ASSUME IInv, Fading, NEW q \in Queue
  PROVE  Thins(q)
<1>1. \A r \in Socket : Fades(r)
  BY DEF Fading
<1>2. \A s \in Socket : \A k : Comes(s, q, k)' => Comes(s, q, k) /\ sock'[s].down = sock[s].down
  BY <1>1, EmptyOf DEF Fades, Comes
<1>3. Unfilled(q)
  <2>1. CASE Restarted
    BY <2>1 DEF Restarted, Unfilled
  <2>2. CASE Stays
    BY <2>2, Types, RecordTypes DEF Stays, Unfilled, IInv, Base
  <2>3. QED
    BY <2>1, <2>2 DEF Fading
<1>4. QED
  BY <1>2, <1>3, Thin

LEMMA ActsThin ==
  ASSUME IInv, Acts, NEW q \in Queue
  PROVE  Thins(q)
<1>1. \A s \in Socket : sock'[s].client = sock[s].client
  BY EndsStay DEF Acts
<1>2. Unfilled(q)
  BY DEF Acts, Unfilled
<1>3. QED
  BY <1>1, <1>2, ActsDowns, SilentThin

\* The pending messages that follow the OK of a SUB were at the end before.
LEMMA SubscribesThin ==
  ASSUME IInv, NEW s \in Socket, NEW f \in Frame, Handles(s, f), Subscribes(s, f), NEW q \in Queue
  PROVE  Thins(q)
<1>0. /\ QueueInv /\ TypeOK /\ \A r \in Socket : sock'[r].client = sock[r].client
  BY EndsStay DEF Handles, IInv, Base
<1> DEFINE p == f.call.queue
           flush == queue[p].pending
<1>1. /\ p \in Queue /\ queue[p] # None /\ queue'[q] = (IF q = p THEN [subscriber |-> s, pending |-> <<>>] ELSE queue[q])
      /\ Flushed(s, f.call, flush)
  BY <1>0, CallTypes, Types DEF Subscribes
<1>2. /\ \A k \in Range(flush) : Target[k] = p
      /\ \A k, l : Before(k, l, flush) => k \in Range(flush) /\ l \in Range(flush)
  BY <1>0, <1>1, BeforeBoth DEF QueueInv
<1> HIDE DEF p, flush
<1>3. /\ \A r \in Socket : r # s => sock'[r].down = sock[r].down
      /\ \A k : Msg(k) \in Range(sock'[s].down) => Msg(k) \in Range(sock[s].down) \/ k \in Range(flush)
  <2>1. \A k : Msg(k) # Answer("OK", f.call)
    BY MsgOf
  <2>2. \A k : Msg(k) \in Range(sock'[s].down) =>
          Msg(k) \in Range(sock[s].down) \/ \E l \in Range(flush) : Msg(k) = Msg(l)
    BY <1>1, <2>1 DEF Flushed, Grew
  <2>3. QED
    BY <1>1, <2>2, MsgOf DEF Flushed
<1>4. \A k, l : Before(Msg(k), Msg(l), sock'[s].down) =>
         \/ Before(Msg(k), Msg(l), sock[s].down)
         \/ l \in Range(flush) /\ Msg(k) \in Range(sock[s].down)
         \/ Before(k, l, flush)
  <2>1. \A x, k : Before(x, Msg(k), sock'[s].down) =>
          \/ Before(x, Msg(k), sock[s].down)
          \/ k \in Range(flush) /\ (x = Answer("OK", f.call) \/ x \in Range(sock[s].down))
          \/ \E l : Before(l, k, flush) /\ x = Msg(l)
    BY <1>1 DEF Flushed
  <2>2. \A k : Msg(k) # Answer("OK", f.call)
    BY MsgOf
  <2>3. QED
    BY <2>1, <2>2, MsgOf
<1>5. CASE q # p
  <2>1. \A r \in Socket : \A k : Comes(r, q, k)' => Comes(r, q, k)
    BY <1>0, <1>2, <1>3, <1>5 DEF Comes
  <2>2. \A r \in Socket : \A k, l : Comes(r, q, k)' /\ Comes(r, q, l)' /\ Before(Msg(k), Msg(l), sock'[r].down)
           => Before(Msg(k), Msg(l), sock[r].down)
    BY <1>2, <1>3, <1>4, <1>5 DEF Comes
  <2>3. Unfilled(q)
    BY <1>1, <1>5 DEF Unfilled
  <2>4. QED
    BY <2>1, <2>2, <2>3, Thin
<1>6. CASE q = p
  <2>1. Range(queue'[q].pending) = {}
    BY <1>1, <1>6, EmptyOf
  <2>2. /\ \A m : ~Waits(q, m)' /\ (m \in Range(flush) => Waits(q, m))
        /\ \A m, n : ~Before(m, n, queue'[q].pending)
    BY <1>1, <1>6, <2>1, BeforeBoth DEF Waits, flush
  <2>3. \A r \in Socket : \A k : Comes(r, q, k)' => Comes(r, q, k) \/ (r = s /\ k \in Range(flush))
    BY <1>0, <1>3 DEF Comes
  <2>4. ASSUME NEW r \in Socket, NEW m, NEW n, Comes(r, q, m)', Comes(r, q, n)', Before(Msg(m), Msg(n), sock'[r].down)
        PROVE  InFront(q, m, n)
    <3>1. CASE Before(Msg(m), Msg(n), sock[r].down)
      <4>1. Msg(m) \in Range(sock[r].down) /\ Msg(n) \in Range(sock[r].down)
        BY <3>1, BeforeBoth
      <4>2. Comes(r, q, m) /\ Comes(r, q, n)
        BY <1>0, <2>4, <4>1 DEF Comes
      <4>3. QED
        BY <3>1, <4>2 DEF InFront
    <3>2. CASE r = s /\ n \in Range(flush) /\ Msg(m) \in Range(sock[s].down)
      <4>1. Comes(s, q, m)
        BY <1>0, <2>4, <3>2 DEF Comes
      <4>2. QED
        BY <2>2, <3>2, <4>1 DEF InFront
    <3>3. CASE Before(m, n, flush)
      BY <1>1, <1>6, <3>3 DEF InFront, flush
    <3>4. QED
      BY <1>3, <1>4, <2>4, <3>1, <3>2, <3>3
  <2>5. QED
    BY <2>2, <2>3, <2>4 DEF Thins, Stored, InFront
<1>7. QED
  BY <1>5, <1>6

LEMMA MakesThin ==
  ASSUME IInv, NEW s \in Socket, NEW f \in Frame, Handles(s, f), Makes(s, f), NEW q \in Queue
  PROVE  Thins(q)
<1>0. TypeOK /\ \A r \in Socket : sock'[r].client = sock[r].client
  BY EndsStay DEF Handles, IInv, Base
<1>1. \E cmd \in {"OK", "ERR"} : Answered(s, cmd, f.call)
  BY DEF Makes
<1>2. f.call.queue \in Queue
  BY CallTypes DEF Makes
<1>3. queue'[q] = queue[q] \/ queue'[q] = [subscriber |-> None, pending |-> <<>>]
  BY <1>0, <1>2, Types DEF Makes
<1>4. Unfilled(q)
  BY <1>3, EmptyOf DEF Unfilled
<1>5. QED
  BY <1>0, <1>1, <1>4, AnsweredThin, SilentThin

LEMMA OthersThin ==
  ASSUME IInv, NEW s \in Socket, NEW f \in Frame, Handles(s, f), Refuses(s, f) \/ Forgets(s, f), NEW q \in Queue
  PROVE  Thins(q)
<1>0. \A r \in Socket : sock'[r].client = sock[r].client
  BY EndsStay DEF Handles
<1>1. Unfilled(q)
  BY DEF Refuses, Forgets, Unfilled
<1>2. CASE \E cmd \in {"OK", "ERR"} : Answered(s, cmd, f.call)
  BY <1>0, <1>1, <1>2, AnsweredThin, SilentThin
<1>3. CASE \A r \in Socket : sock'[r].down = sock[r].down
  BY <1>0, <1>1, <1>3, SilentThin
<1>4. QED
  BY <1>2, <1>3 DEF Refuses, Forgets

-----------------------------------------------------------------------------
(* A message is taken, a message is delivered                              *)

\* Message m is put behind what is stored of queue q.
LEMMA AppendStore ==
  ASSUME IInv, IInv', NEW q \in Queue, NEW m \in Message,
         \A l : Stored(q, l)' <=> Stored(q, l) \/ l = m,
         \A n, l : InFront(q, n, l)' <=> InFront(q, n, l) \/ (Stored(q, n) /\ l = m)
  PROVE  Store(q)' = Append(Store(q), m)
<1> DEFINE t == Store(q)'
           u == Store(q)
           v == Append(u, m)
<1>1. /\ t \in Seq(Message) /\ Once(t) /\ \A x : x \in Range(t) <=> Stored(q, x)'
      /\ \A x, y : Before(x, y, t) <=> InFront(q, x, y)'
  BY StoreOfNext DEF Seen, Once
<1>2. /\ u \in Seq(Message) /\ \A x : x \in Range(u) <=> Stored(q, x)
      /\ \A x, y : Before(x, y, u) <=> InFront(q, x, y)
  BY StoreOf DEF Seen
<1> HIDE DEF t, u
<1>3. /\ v \in Seq(Message) /\ Range(v) = Range(u) \cup {m}
      /\ \A x, y : Before(x, y, u) => Before(x, y, v)
      /\ \A x \in Range(u) : Before(x, m, v)
      /\ \A x, y : Before(x, y, v) => Before(x, y, u) \/ (x \in Range(u) /\ y = m)
  BY ONLY <1>2, m \in Message, AppendOf
<1> HIDE DEF v
<1>4. Range(t) = Range(v) /\ \A x, y : Before(x, y, t) <=> Before(x, y, v)
  BY <1>1, <1>2, <1>3
<1>5. Once(v)
  BY <1>1, <1>4 DEF Once
<1>6. t = v
  BY <1>1, <1>3, <1>4, <1>5, SameOrder
<1>7. QED
  BY <1>6 DEF t, u, v

\* Message m was in front of all that is stored of queue q.
LEMMA HeadStore ==
  ASSUME IInv, IInv', NEW q \in Queue, NEW m \in Message,
         \A l : Stored(q, l) <=> Stored(q, l)' \/ l = m,
         \A n, l : InFront(q, n, l) <=> InFront(q, n, l)' \/ (n = m /\ Stored(q, l)')
  PROVE  Store(q) # <<>> /\ Head(Store(q)) = m /\ Tail(Store(q)) = Store(q)'
<1> DEFINE t == Store(q)
           u == Store(q)'
           o == <<m>>
           v == o \o u
<1>1. /\ t \in Seq(Message) /\ Once(t) /\ \A x : x \in Range(t) <=> Stored(q, x)
      /\ \A x, y : Before(x, y, t) <=> InFront(q, x, y)
  BY StoreOf DEF Seen
<1>2. /\ u \in Seq(Message) /\ \A x : x \in Range(u) <=> Stored(q, x)'
      /\ \A x, y : Before(x, y, u) <=> InFront(q, x, y)'
  BY StoreOfNext DEF Seen
<1> HIDE DEF t, u
<1>3. o \in Seq(Message) /\ Range(o) = {m} /\ \A x, y : ~Before(x, y, o)
  BY SingleOf
<1>4. v # <<>> /\ Head(v) = m /\ Tail(v) = u
  BY <1>2
<1> HIDE DEF o
<1>5. /\ v \in Seq(Message) /\ Range(v) = Range(o) \cup Range(u)
      /\ \A x, y : Before(x, y, o) \/ Before(x, y, u) => Before(x, y, v)
      /\ \A x \in Range(o), y \in Range(u) : Before(x, y, v)
      /\ \A x, y : Before(x, y, v) => Before(x, y, o) \/ Before(x, y, u) \/ (x \in Range(o) /\ y \in Range(u))
  BY ONLY <1>2, <1>3, ConcatOf
<1> HIDE DEF v
<1>6. Range(t) = Range(v) /\ \A x, y : Before(x, y, t) <=> Before(x, y, v)
  BY <1>1, <1>2, <1>3, <1>5
<1>7. Once(v)
  BY <1>1, <1>6 DEF Once
<1>8. t = v
  BY <1>1, <1>5, <1>6, <1>7, SameOrder
<1>9. QED
  BY <1>4, <1>8 DEF t, u

\* The relay takes message k of socket s.
LEMMA TakesStores ==
  ASSUME IInv, IInv', NEW s \in Socket, NEW f \in Frame, Handles(s, f), NEW k \in Message, Takes(s, f, k)
  PROVE  /\ k \notin accepted /\ Target[k] \in Queue
         /\ \A q \in Queue : q # Target[k] => Store(q)' = Store(q)
         /\ Store(Target[k])' \in {Store(Target[k]), Append(Store(Target[k]), k)}
<1> DEFINE p == Target[k]
<1>0. /\ TypeOK /\ SockInv /\ WsInv /\ FrameInv /\ QueueInv /\ Handled(s, f) /\ KeepsEnds
      /\ \A r \in Socket : sock'[r].client = sock[r].client
      /\ ws' = ws
  BY EndsStay DEF Handles, IInv, Base
<1>1. /\ f.cmd = "SEND" /\ f.msg = k /\ k \notin accepted
      /\ queue[p] # None /\ queue[p] \in Record /\ p \in Queue
  BY <1>0, HandledSend, ConstantTypes DEF Takes
<1>2. /\ \A r \in Socket : Range(sock[r].down) \subseteq Range(sock'[r].down)
      /\ \A r \in Socket : \A x, y : Before(x, y, sock[r].down) => Before(x, y, sock'[r].down)
  BY DownsGrow
<1>3. \A l : Msg(l) # Answer("OK", f.call) /\ (Msg(l) = Msg(k) => l = k)
  BY MsgOf
<1>4. \A r \in Socket : Msg(k) \notin Range(sock[r].down)
  BY <1>0, <1>1, MsgOf DEF FrameInv, Brings
<1>5. ASSUME NEW q \in Queue, queue'[q] = queue[q],
             \A r \in Socket : \A l : Comes(r, q, l)' => Comes(r, q, l),
             \A r \in Socket : \A n, l : Comes(r, q, n)' /\ Comes(r, q, l)' /\ Before(Msg(n), Msg(l), sock'[r].down)
                => Before(Msg(n), Msg(l), sock[r].down)
      PROVE  Store(q)' = Store(q)
  <2>1. \A r \in Socket : \A l : Comes(r, q, l)' <=> Comes(r, q, l)
    BY <1>0, <1>2, <1>5 DEF Comes
  <2>2. \A l : Waits(q, l)' <=> Waits(q, l)
    BY <1>5 DEF Waits
  <2>3. \A l : Stored(q, l)' <=> Stored(q, l)
    BY <2>1, <2>2 DEF Stored
  <2>4. \A n, l : InFront(q, n, l)' <=> InFront(q, n, l)
    BY <1>2, <1>5, <2>1, <2>2 DEF InFront
  <2>5. QED
    BY <1>5, <2>3, <2>4, SameStore
<1>6. ASSUME NEW t \in Socket, Passes(s, f, k, t)
      PROVE  /\ \A q \in Queue : q # p => Store(q)' = Store(q)
             /\ Store(p)' = Store(p) \/ Store(p)' = Append(Store(p), k)
  <2>1. /\ queue' = queue /\ t = queue[p].subscriber /\ sock[t].relay = "open" /\ t # None
        /\ \A r \in Socket : Grew(sock'[r].down, sock[r].down, {Answer("OK", f.call), Msg(k)})
        /\ \A r \in Socket : \A x : Before(x, Msg(k), sock'[r].down) => x \in Range(sock[r].down)
        /\ \A r \in Socket : r # s /\ r # t => sock'[r].down = sock[r].down
        /\ Range(sock'[s].down) \subseteq Range(sock[s].down) \cup {Answer("OK", f.call)} \/ s = t
        /\ ~sock[t].cut => /\ Msg(k) \in Range(sock'[t].down)
                           /\ \A x \in Range(sock[t].down) : Before(x, Msg(k), sock'[t].down)
    BY <1>6, ConstantTypes DEF Passes, PushedTo
  <2>2. \A r \in Socket : \A q : \A l : Comes(r, q, l)' => Comes(r, q, l) \/ l = k
    BY <1>0, <1>3, <2>1 DEF Comes, Grew
  <2>3. \A r \in Socket : \A x, l : Before(x, Msg(l), sock'[r].down) =>
          Before(x, Msg(l), sock[r].down) \/ (l = k /\ x \in Range(sock[r].down))
    BY <1>3, <2>1 DEF Grew
  <2>4. \A r \in Socket : Msg(k) \in Range(sock'[r].down) => r = t
    BY <1>3, <1>4, <2>1
  <2>5. ASSUME NEW q \in Queue, \A r \in Socket : ~Comes(r, q, k)' PROVE Store(q)' = Store(q)
    <3>1. \A r \in Socket : \A l : Comes(r, q, l)' => Comes(r, q, l)
      BY <2>2, <2>5
    <3>2. \A r \in Socket : \A n, l : Comes(r, q, n)' /\ Comes(r, q, l)' /\ Before(Msg(n), Msg(l), sock'[r].down)
             => Before(Msg(n), Msg(l), sock[r].down)
      BY <2>3, <2>5
    <3>3. QED
      BY <1>5, <2>1, <3>1, <3>2
  <2>6. \A q \in Queue : q # p => Store(q)' = Store(q)
    BY <2>5 DEF Comes
  <2>7. CASE sock[t].client # "open" \/ sock[t].cut
    <3>1. sock[t].cut => Msg(k) \notin Range(sock'[t].down)
      BY <1>0, <1>4 DEF KeepsEnds
    <3>2. \A r \in Socket : ~Comes(r, p, k)'
      BY <1>0, <2>4, <2>7, <3>1 DEF Comes
    <3>3. QED
      BY <1>1, <2>5, <2>6, <3>2
  <2>8. CASE sock[t].client = "open" /\ ~sock[t].cut
    <3>1. Comes(t, p, k)'
      BY <1>0, <2>1, <2>8 DEF Comes
    <3>2. \A r \in Socket : \A l : Comes(r, p, l) => r = t
      <4>1. ws[Recipient[p]] = t
        BY <1>0, <1>1, <2>1, <2>8 DEF QueueInv, WsInv
      <4>2. QED
        BY <1>1, <4>1, ComesTo
    <3>3. \A r \in Socket : \A l : Comes(r, p, l)' <=> Comes(r, p, l) \/ (r = t /\ l = k)
      <4>1. \A r \in Socket : \A l : Comes(r, p, l) => Comes(r, p, l)'
        BY <1>0, <1>2 DEF Comes
      <4>2. \A r \in Socket : Comes(r, p, k)' => r = t
        BY <2>4 DEF Comes
      <4>3. QED
        BY <2>2, <3>1, <4>1, <4>2
    <3>4. \A l : ~Waits(p, l) /\ ~Waits(p, l)'
      BY <1>0, <1>1, <2>1 DEF QueueInv, Waits
    <3>5. \A x, y : ~Before(x, y, queue[p].pending)
      <4>1. Range(queue[p].pending) = {}
        BY <1>0, <1>1, <2>1 DEF QueueInv
      <4>2. QED
        BY <4>1, BeforeBoth
    <3>6. \A l : Stored(p, l)' <=> Stored(p, l) \/ l = k
      BY <3>3, <3>4 DEF Stored
    <3>7. \A n, l : InFront(p, n, l) <=>
            \E r \in Socket : Comes(r, p, n) /\ Comes(r, p, l) /\ Before(Msg(n), Msg(l), sock[r].down)
      BY <3>4, <3>5 DEF InFront
    <3>8. \A n, l : InFront(p, n, l)' <=>
            \E r \in Socket : Comes(r, p, n)' /\ Comes(r, p, l)' /\ Before(Msg(n), Msg(l), sock'[r].down)
      BY <2>1, <3>4, <3>5 DEF InFront
    <3>9. \A n, l : InFront(p, n, l)' <=> InFront(p, n, l) \/ (Stored(p, n) /\ l = k)
      <4>1. ASSUME NEW n, NEW l, InFront(p, n, l)' PROVE InFront(p, n, l) \/ (Stored(p, n) /\ l = k)
        <5>1. PICK r \in Socket : Comes(r, p, n)' /\ Comes(r, p, l)' /\ Before(Msg(n), Msg(l), sock'[r].down)
          BY <3>8, <4>1
        <5>2. CASE l = k /\ Msg(n) \in Range(sock[r].down)
          <6>1. Comes(r, p, n)
            BY <1>0, <5>1, <5>2 DEF Comes
          <6>2. QED
            BY <5>2, <6>1 DEF Stored
        <5>3. CASE Before(Msg(n), Msg(l), sock[r].down)
          <6>1. Msg(n) \in Range(sock[r].down) /\ Msg(l) \in Range(sock[r].down)
            BY <5>3, BeforeBoth
          <6>2. Comes(r, p, n) /\ Comes(r, p, l)
            BY <1>0, <5>1, <6>1 DEF Comes
          <6>3. QED
            BY <3>7, <5>3, <6>2
        <5>4. QED
          BY <2>3, <5>1, <5>2, <5>3
      <4>2. ASSUME NEW n, NEW l, InFront(p, n, l) PROVE InFront(p, n, l)'
        BY <1>2, <3>3, <3>7, <3>8, <4>2
      <4>3. ASSUME NEW n, Stored(p, n) PROVE InFront(p, n, k)'
        <5>1. Comes(t, p, n)
          BY <3>2, <3>4, <4>3 DEF Stored
        <5>2. Before(Msg(n), Msg(k), sock'[t].down)
          BY <2>1, <2>8, <5>1 DEF Comes
        <5>3. QED
          BY <3>1, <3>3, <3>8, <5>1, <5>2
      <4>4. QED
        BY <4>1, <4>2, <4>3
    <3>10. QED
      BY <1>1, <2>6, <3>6, <3>9, AppendStore
  <2>9. QED
    BY <2>7, <2>8
<1>7. ASSUME Keeps(s, f, k)
      PROVE  /\ \A q \in Queue : q # p => Store(q)' = Store(q)
             /\ Store(p)' = Append(Store(p), k)
  <2>1. /\ \A r \in Socket : \A g \in Range(sock'[r].down) : g \in Range(sock[r].down) \/ g.cmd # "MSG"
        /\ \A r \in Socket : \A x, y : Before(x, y, sock'[r].down) => Before(x, y, sock[r].down) \/ y.cmd # "MSG"
    BY <1>7, AnsweredThin DEF Keeps
  <2>2. /\ \A r \in Socket : \A q, l : Comes(r, q, l)' <=> Comes(r, q, l)
        /\ \A r \in Socket : \A n, l : Before(Msg(n), Msg(l), sock'[r].down) <=> Before(Msg(n), Msg(l), sock[r].down)
    <3>1. \A r \in Socket : \A l : Msg(l) \in Range(sock'[r].down) <=> Msg(l) \in Range(sock[r].down)
      BY <1>2, <2>1, MsgOf
    <3>2. \A r \in Socket : \A n, l : Before(Msg(n), Msg(l), sock'[r].down) <=> Before(Msg(n), Msg(l), sock[r].down)
      BY <1>2, <2>1, MsgOf
    <3>3. \A r \in Socket : \A q, l : Comes(r, q, l)' <=> Comes(r, q, l)
      BY <1>0, <3>1 DEF Comes
    <3>4. QED
      BY <3>2, <3>3
  <2>3. ASSUME NEW q \in Queue, q # p PROVE Store(q)' = Store(q)
    <3>1. queue'[q] = queue[q]
      BY <1>0, <1>7, <2>3, Types DEF Keeps
    <3>2. QED
      BY <1>5, <2>2, <3>1
  <2>4. /\ queue'[p].pending = Append(queue[p].pending, k) /\ queue[p].pending \in Seq(Message)
        /\ queue[p] # None /\ queue'[p] # None
    <3>1. queue'[p] = [queue[p] EXCEPT !.pending = Append(@, k)]
      BY <1>0, <1>1, <1>7, Types DEF Keeps
    <3>2. /\ queue[p].pending \in Seq(Message)
          /\ [queue[p] EXCEPT !.pending = Append(@, k)] \in Record
          /\ [queue[p] EXCEPT !.pending = Append(@, k)].pending = Append(queue[p].pending, k)
      BY <1>1, RecordTypes
    <3>3. QED
      BY <1>1, <3>1, <3>2, ConstantTypes
  <2>5. /\ Range(queue'[p].pending) = Range(queue[p].pending) \cup {k}
        /\ \A x, y : Before(x, y, queue[p].pending) => Before(x, y, queue'[p].pending)
        /\ \A x \in Range(queue[p].pending) : Before(x, k, queue'[p].pending)
        /\ \A x, y : Before(x, y, queue'[p].pending) =>
             Before(x, y, queue[p].pending) \/ (x \in Range(queue[p].pending) /\ y = k)
    BY <2>4, AppendOf
  <2>6. \A l : Waits(p, l)' <=> Waits(p, l) \/ l = k
    BY <2>4, <2>5 DEF Waits
  <2>7. \A l : Stored(p, l)' <=> Stored(p, l) \/ l = k
    BY <2>2, <2>6 DEF Stored
  <2>8. \A n, l : InFront(p, n, l)' <=> InFront(p, n, l) \/ (Stored(p, n) /\ l = k)
    <3>1. \A n : Waits(p, n) <=> n \in Range(queue[p].pending)
      BY <2>4 DEF Waits
    <3>2. \A n, l : Before(n, l, queue'[p].pending) <=>
            Before(n, l, queue[p].pending) \/ (Waits(p, n) /\ l = k)
      BY <2>5, <3>1
    <3>3. \A n, l : InFront(p, n, l)' <=>
            \/ \E r \in Socket : Comes(r, p, n) /\ Comes(r, p, l) /\ Before(Msg(n), Msg(l), sock[r].down)
            \/ (Waits(p, l) \/ l = k) /\ \E r \in Socket : Comes(r, p, n)
            \/ Before(n, l, queue[p].pending) \/ (Waits(p, n) /\ l = k)
      BY <2>2, <2>4, <2>6, <3>2 DEF InFront
    <3>4. QED
      BY <2>4, <3>3 DEF InFront, Stored
  <2>9. QED
    BY <1>1, <2>3, <2>7, <2>8, AppendStore
<1>8. QED
  BY <1>1, <1>6, <1>7 DEF Takes

\* The client of socket s hands message k to the callbacks.
LEMMA HearsStores ==
  ASSUME IInv, IInv', Acts, NEW s \in Socket, NEW c \in Client, NEW k \in Message, HearsMsg(s, c, k)
  PROVE  /\ Target[k] \in Queue /\ \A q \in Queue : q # Target[k] => Store(q)' = Store(q)
         /\ Store(Target[k]) # <<>> /\ Head(Store(Target[k])) = k /\ Tail(Store(Target[k])) = Store(Target[k])'
<1> DEFINE p == Target[k]
<1>0. /\ queue' = queue /\ p \in Queue /\ \A r \in Socket : sock'[r].client = sock[r].client
      /\ ws[Recipient[p]] = s /\ sock[s].client = "open" /\ Msg(k) \in Range(sock[s].down)
      /\ \A r \in Socket : r # s => sock'[r].down = sock[r].down
      /\ Shrank(sock'[s].down, sock[s].down, Msg(k))
  BY EndsStay, ConstantTypes DEF Acts, HearsMsg, Taken
<1>1. \A l : Msg(l) = Msg(k) <=> l = k
  BY MsgOf
<1>2. \A q, l : Waits(q, l)' <=> Waits(q, l)
  BY <1>0 DEF Waits
<1>3. ASSUME NEW q \in Queue, q # p PROVE Store(q)' = Store(q)
  <2>1. \A r \in Socket : \A l : Comes(r, q, l)' <=> Comes(r, q, l)
    BY <1>0, <1>1, <1>3 DEF Comes, Shrank
  <2>2. \A r \in Socket : \A n, l : Comes(r, q, n) /\ Comes(r, q, l) =>
          (Before(Msg(n), Msg(l), sock'[r].down) <=> Before(Msg(n), Msg(l), sock[r].down))
    BY <1>0, <1>1, <1>3 DEF Comes, Shrank
  <2>3. \A l : Stored(q, l)' <=> Stored(q, l)
    BY <1>2, <2>1 DEF Stored
  <2>4. \A n, l : InFront(q, n, l)' <=> InFront(q, n, l)
    BY <1>0, <1>2, <2>1, <2>2 DEF InFront
  <2>5. QED
    BY <1>3, <2>3, <2>4, SameStore
<1>4. \A r \in Socket : \A l : Comes(r, p, l) <=> Comes(r, p, l)' \/ (r = s /\ l = k)
  BY <1>0, <1>1 DEF Comes, Shrank
<1>5. \A r \in Socket : \A l : Comes(r, p, l) => r = s
  BY <1>0, ComesTo
<1>6. \A n, l : Before(Msg(n), Msg(l), sock[s].down) <=>
        Before(Msg(n), Msg(l), sock'[s].down) \/ (n = k /\ Msg(l) \in Range(sock'[s].down))
  BY <1>0, <1>1 DEF Shrank
<1>7. \A l : Stored(p, l) <=> Stored(p, l)' \/ l = k
  BY <1>2, <1>4 DEF Stored
<1>8. \A l : Comes(s, p, l)' => Msg(l) \in Range(sock'[s].down)
  BY DEF Comes
<1>9. \A n, l : Before(Msg(n), Msg(l), sock'[s].down) => Msg(n) \in Range(sock'[s].down) /\ Msg(l) \in Range(sock'[s].down)
  BY BeforeBoth
<1>10. \A l : Comes(s, p, l) /\ Msg(l) \in Range(sock'[s].down) => Comes(s, p, l)'
  BY <1>0 DEF Comes
<1>11. \A n, l : InFront(p, n, l) <=>
         \/ Comes(s, p, n) /\ Comes(s, p, l) /\ Before(Msg(n), Msg(l), sock[s].down)
         \/ Waits(p, l) /\ Comes(s, p, n)
         \/ queue[p] # None /\ Before(n, l, queue[p].pending)
  BY <1>5 DEF InFront
<1>12. \A n, l : InFront(p, n, l)' <=>
         \/ Comes(s, p, n)' /\ Comes(s, p, l)' /\ Before(Msg(n), Msg(l), sock'[s].down)
         \/ Waits(p, l) /\ Comes(s, p, n)'
         \/ queue[p] # None /\ Before(n, l, queue[p].pending)
  BY <1>0, <1>2, <1>4, <1>5 DEF InFront
<1>13. \A l : Stored(p, l)' <=> Waits(p, l) \/ Comes(s, p, l)'
  BY <1>2, <1>4, <1>5 DEF Stored
<1>14. \A n, l : InFront(p, n, l) <=> InFront(p, n, l)' \/ (n = k /\ Stored(p, l)')
  BY <1>0, <1>4, <1>6, <1>8, <1>9, <1>10, <1>11, <1>12, <1>13
<1>15. QED
  BY <1>0, <1>3, <1>7, <1>14, HeadStore

-----------------------------------------------------------------------------
(* The refinement of MessageQueue                                          *)

\* A step in which nothing is accepted or delivered.
LEMMA ThinStep ==
  ASSUME IInv, IInv', accepted' = accepted, delivered' = delivered, \A q \in Queue : Thins(q)
  PROVE  Promise!Next
<1>1. Promise!Lose
  BY StoresLose DEF Thins
<1>2. QED
  BY <1>1 DEF Promise!Next

\* Every step is one of MessageQueue, under the invariant.
LEMMA StepPromise ==
  ASSUME IInv, IInv', Next
  PROVE  Promise!Next
<1>1. ASSUME NEW s \in Socket, NEW f \in Frame, Handles(s, f) PROVE Promise!Next
  <2>0. delivered' = delivered
    BY <1>1 DEF Handles
  <2>1. CASE Refuses(s, f) \/ Forgets(s, f)
    BY <1>1, <2>0, <2>1, OthersThin, ThinStep DEF Refuses, Forgets
  <2>2. CASE Makes(s, f)
    BY <1>1, <2>0, <2>2, MakesThin, ThinStep DEF Makes
  <2>3. CASE Subscribes(s, f)
    BY <1>1, <2>0, <2>3, SubscribesThin, ThinStep DEF Subscribes
  <2>4. ASSUME NEW k \in Message, Takes(s, f, k) PROVE Promise!Next
    <3>1. /\ k \notin accepted /\ Target[k] \in Queue
          /\ \A q \in Queue : q # Target[k] => Store(q)' = Store(q)
          /\ Store(Target[k])' = Store(Target[k]) \/ Store(Target[k])' = Append(Store(Target[k]), k)
      BY <1>1, <2>4, TakesStores
    <3>2. accepted' = accepted \cup {k}
      BY <2>4 DEF Takes
    <3>3. CASE Store(Target[k])' = Store(Target[k])
      <4>1. Stores' = Stores
        BY <3>1, <3>3 DEF Stores
      <4>2. Promise!Accept(Target[k], k)
        BY <2>0, <3>1, <3>2, <4>1 DEF Promise!Accept, Stores
      <4>3. QED
        BY <3>1, <4>2 DEF Promise!Next
    <3>4. CASE Store(Target[k])' = Append(Store(Target[k]), k)
      <4>1. Stores' = [Stores EXCEPT ![Target[k]] = Append(@, k)]
        BY <3>1, <3>4 DEF Stores
      <4>2. Promise!Accept(Target[k], k)
        BY <2>0, <3>1, <3>2, <4>1 DEF Promise!Accept, Stores
      <4>3. QED
        BY <3>1, <4>2 DEF Promise!Next
    <3>5. QED
      BY <3>1, <3>3, <3>4
  <2>5. QED
    BY <1>1, <2>1, <2>2, <2>3, <2>4 DEF Handles
<1>2. CASE Acts
  <2>1. accepted' = accepted
    BY <1>2 DEF Acts
  <2>2. CASE delivered' = delivered
    BY <1>2, <2>1, <2>2, ActsThin, ThinStep
  <2>3. CASE delivered' # delivered
    <3>1. PICK s \in Socket, c \in Client, k \in Message : HearsMsg(s, c, k)
      BY <1>2, <2>3 DEF Acts, HearsAnswer, GivesUp, Calls
    <3>2. delivered' = [delivered EXCEPT ![Target[k]] = Append(@, k)]
      BY <2>3, <3>1 DEF HearsMsg
    <3>3. /\ Target[k] \in Queue /\ \A q \in Queue : q # Target[k] => Store(q)' = Store(q)
          /\ Store(Target[k]) # <<>> /\ Head(Store(Target[k])) = k /\ Tail(Store(Target[k])) = Store(Target[k])'
      BY <1>2, <3>1, HearsStores
    <3>4. Stores' = [Stores EXCEPT ![Target[k]] = Tail(@)]
      BY <3>3 DEF Stores
    <3>5. Promise!Deliver(Target[k])
      <4>1. Stores[Target[k]] = Store(Target[k])
        BY <3>3 DEF Stores
      <4>2. delivered' = [delivered EXCEPT ![Target[k]] = Append(@, Head(Stores[Target[k]]))]
        BY <3>2, <3>3, <4>1
      <4>3. QED
        BY <2>1, <3>3, <3>4, <4>1, <4>2 DEF Promise!Deliver, Stores
    <3>6. QED
      BY <3>3, <3>5 DEF Promise!Next
  <2>4. QED
    BY <2>2, <2>3
<1>3. CASE Fading
  BY <1>3, FadingThins, ThinStep DEF Fading
<1>4. QED
  BY <1>1, <1>2, <1>3, Kinds

LEMMA InitPromise == Init => Promise!Init
<1>1. SUFFICES ASSUME Init PROVE Promise!Init
  OBVIOUS
<1>2. ASSUME NEW q \in Queue PROVE Store(q) = <<>>
  <2>1. Recipient[q] \in Client /\ ws[Recipient[q]] = None /\ queue[q] = None
    BY <1>1, ConstantTypes DEF Init
  <2>2. QED
    BY <2>1 DEF Store, Arriving
<1>3. QED
  BY <1>1, <1>2 DEF Init, Promise!Init

LEMMA StutterPromise ==
  ASSUME UNCHANGED vars
  PROVE  UNCHANGED Promise!vars
<1>1. UNCHANGED <<sock, queue, ws, accepted, delivered>>
  BY DEF vars, relayVars, clientVars, userVars, history
<1>2. \A q \in Queue : Store(q)' = Store(q)
  BY <1>1 DEF Store, Arriving
<1>3. QED
  BY <1>1, <1>2 DEF Promise!vars

\* The relay and its client implement MessageQueue, for any number of clients, queues,
\* messages and sockets: a message that SEND accepts is taken once, SUB and the close of a
\* socket move what is pending to the wire or lose it but never turn it round, and
\* handleMessage delivers what is at the front.
THEOREM RelayKeepsItsPromise == Spec => KeepsPromise
<1>1. IInv /\ IInv' /\ [Next]_vars => [Promise!Next]_Promise!vars
  BY StepPromise, StutterPromise
<1>2. QED
  BY <1>1, RelayAlways, InitPromise, PTL DEF Spec, KeepsPromise, Promise!Spec
=============================================================================
