--------------------------- MODULE MessagingProofs ---------------------------
(***************************************************************************)
(* The promises of a conversation hold for any number of messages, files   *)
(* and group keys, any of the faults and any interleaving of the two pages *)
(* and the queues between them.                                            *)
(***************************************************************************)
EXTENDS Messaging, SequenceTheorems, TLAPS

-----------------------------------------------------------------------------
(* The inductive invariant                                                 *)

\* An envelope has a position from its encryption on, and is taken from the page only then.
StageInv == \A e \in Envelope :
  /\ pc[e] \in {"idle", "ack", "seal", "encrypt"} => pos[e] = None
  /\ pc[e] \in {"send", "wait"} => pos[e] \in Nat
  /\ e \in taken => pos[e] \in Nat /\ pc[e] \in {"wait", "done", "failed", "gone"}
  /\ pc[e] = "seal" => e.kind = "msg" /\ e.m \in keys
  /\ pc[e] = "ack" => e.kind = "delivered"

\* No position of a chain is given out twice.
PosInv ==
  /\ \A e \in Envelope : pos[e] # None => pos[e] < sendPos[From(e)]
  /\ \A e, f \in Envelope : From(e) = From(f) /\ pos[e] = pos[f] /\ pos[e] # None => e = f

\* Somewhere in the sequence t, x comes before y.
Before(x, y, t) == \E i, j \in DOMAIN t : i < j /\ t[i] = x /\ t[j] = y

\* A queue holds, in chain order, envelopes that were taken and not received.
WireInv == \A p \in Party :
  /\ \A e \in Range(wire[p]) : e \in taken /\ From(e) = Other(p) /\ e \notin handled /\ e \notin unsaved
  /\ \A e, f \in Envelope : Before(e, f, wire[p]) => pos[e] < pos[f]

\* What is ready to be sent is behind all that was taken.
OrderInv == \A e, f \in Envelope : From(e) = From(f) /\ e \in taken /\ pc[f] = "send" => pos[e] < pos[f]

\* The receiving chain is as far as what was received, and no further than the sending one.
RecvInv ==
  /\ \A p \in Party : recvPos[p] <= sendPos[Other(p)]
  /\ \A e \in handled \cup unsaved : e \in taken /\ pos[e] < recvPos[Other(From(e))]
  /\ \A f \in Envelope : pos[f] # None /\ pos[f] < recvPos[Other(From(f))] => f \in handled \cup unsaved

\* A receipt is about a message that was received, and read.
ReceiptInv == \A m \in Message :
  /\ pc[Env("delivered", m)] # "idle" => Env("msg", m) \in handled
  /\ pc[Env("read", m)] # "idle" => status[Reader(m)][m] = "read"

\* What the two sides show of a message, given how far sending and receiving it are.
StatusInv == \A m \in Message :
  /\ m \in keys => status[Author[m]][m] = "absent" /\ status[Reader(m)][m] = "absent"
  /\ pc[Env("msg", m)] = "idle" => status[Author[m]][m] = "absent"
  /\ m \in File /\ pc[Env("msg", m)] \in {"encrypt", "send", "wait"} => status[Author[m]][m] = "absent"
  /\ m \in Text /\ pc[Env("msg", m)] \in {"encrypt", "send", "wait"} => status[Author[m]][m] = "sending"
  /\ status[Reader(m)][m] \in {"absent", "delivered", "read"}
  /\ status[Reader(m)][m] # "absent" => Env("msg", m) \in handled
  /\ Env("msg", m) \in handled /\ m \notin keys => status[Reader(m)][m] # "absent"

\* Nothing went wrong on the way to p.
Smooth(p) ==
  /\ faults = 0 /\ early = {}
  /\ \A g \in keys : Author[g] # p => pc[Env("msg", g)] \in {"idle", "seal"}

\* Then each position its receiving chain will ask for is on its way.
CoverInv == \A p \in Party : Smooth(p) => \A n \in Nat : recvPos[p] <= n /\ n < sendPos[Other(p)] =>
  \E f \in Envelope : From(f) = Other(p) /\ pos[f] = n /\ (pc[f] = "send" \/ f \in Range(wire[p]))

ChainInv == StageInv /\ PosInv /\ WireInv /\ OrderInv /\ RecvInv

IInv == TypeOK /\ ChainInv /\ ReceiptInv /\ StatusInv /\ CoverInv

-----------------------------------------------------------------------------
(* Sequences, parties and envelopes                                        *)

LEMMA TailOf ==
  ASSUME NEW S, NEW t \in Seq(S), t # <<>>
  PROVE  /\ Head(t) \in S /\ Tail(t) \in Seq(S)
         /\ Range(t) = {Head(t)} \cup Range(Tail(t))
         /\ \A x \in Range(Tail(t)) : Before(Head(t), x, t)
         /\ \A x, y : Before(x, y, Tail(t)) => Before(x, y, t)
<1>1. /\ Head(t) \in S /\ Tail(t) \in Seq(S) /\ Head(t) = t[1]
      /\ Len(t) \in Nat \ {0} /\ DOMAIN t = 1..Len(t)
      /\ Len(Tail(t)) = Len(t) - 1 /\ DOMAIN Tail(t) = 1..(Len(t) - 1)
      /\ \A i \in 1..(Len(t) - 1) : Tail(t)[i] = t[i + 1]
  BY HeadTailProperties, LenProperties, EmptySeq
<1>2. Range(t) = {Head(t)} \cup Range(Tail(t))
  <2>1. ASSUME NEW x \in Range(t) PROVE x \in {Head(t)} \cup Range(Tail(t))
    <3>1. PICK i \in 1..Len(t) : t[i] = x
      BY <1>1 DEF Range
    <3>2. i = 1 \/ (i - 1 \in DOMAIN Tail(t) /\ Tail(t)[i - 1] = x)
      BY <1>1, <3>1
    <3>3. QED
      BY <1>1, <3>1, <3>2 DEF Range
  <2>2. ASSUME NEW x \in Range(Tail(t)) PROVE x \in Range(t)
    <3>1. PICK i \in 1..(Len(t) - 1) : Tail(t)[i] = x
      BY <1>1 DEF Range
    <3>2. i + 1 \in DOMAIN t /\ t[i + 1] = x
      BY <1>1, <3>1
    <3>3. QED
      BY <3>2 DEF Range
  <2>3. Head(t) \in Range(t)
    BY <1>1 DEF Range
  <2>4. QED
    BY <2>1, <2>2, <2>3
<1>3. ASSUME NEW x \in Range(Tail(t)) PROVE Before(Head(t), x, t)
  <2>1. PICK i \in 1..(Len(t) - 1) : Tail(t)[i] = x
    BY <1>1 DEF Range
  <2>2. 1 \in DOMAIN t /\ i + 1 \in DOMAIN t /\ 1 < i + 1 /\ t[i + 1] = x
    BY <1>1, <2>1
  <2>3. QED
    BY <1>1, <2>2 DEF Before
<1>4. ASSUME NEW x, NEW y, Before(x, y, Tail(t)) PROVE Before(x, y, t)
  <2>1. PICK i \in 1..(Len(t) - 1), j \in 1..(Len(t) - 1) : i < j /\ Tail(t)[i] = x /\ Tail(t)[j] = y
    BY <1>1, <1>4 DEF Before
  <2>2. i + 1 \in DOMAIN t /\ j + 1 \in DOMAIN t /\ i + 1 < j + 1 /\ t[i + 1] = x /\ t[j + 1] = y
    BY <1>1, <2>1
  <2>3. QED
    BY <2>2 DEF Before
<1>5. QED
  BY <1>1, <1>2, <1>3, <1>4

LEMMA AppendOf ==
  ASSUME NEW S, NEW t \in Seq(S), NEW f \in S
  PROVE  /\ Append(t, f) \in Seq(S)
         /\ Range(Append(t, f)) = Range(t) \cup {f}
         /\ \A x, y : Before(x, y, Append(t, f)) => Before(x, y, t) \/ (x \in Range(t) /\ y = f)
<1> DEFINE u == Append(t, f)
<1>1. /\ u \in Seq(S) /\ Len(t) \in Nat /\ DOMAIN t = 1..Len(t) /\ DOMAIN u = 1..(Len(t) + 1)
      /\ u[Len(t) + 1] = f /\ \A i \in 1..Len(t) : u[i] = t[i]
  BY AppendProperties, LenProperties
<1> HIDE DEF u
<1>2. Range(u) = Range(t) \cup {f}
  <2>1. ASSUME NEW x \in Range(u) PROVE x \in Range(t) \cup {f}
    <3>1. PICK i \in 1..(Len(t) + 1) : u[i] = x
      BY <1>1 DEF Range
    <3>2. i = Len(t) + 1 \/ i \in 1..Len(t)
      BY <1>1, <3>1
    <3>3. QED
      BY <1>1, <3>1, <3>2 DEF Range
  <2>2. ASSUME NEW x \in Range(t) PROVE x \in Range(u)
    <3>1. PICK i \in 1..Len(t) : t[i] = x
      BY <1>1 DEF Range
    <3>2. i \in DOMAIN u /\ u[i] = x
      BY <1>1, <3>1
    <3>3. QED
      BY <3>2 DEF Range
  <2>3. f \in Range(u)
    <3>1. Len(t) + 1 \in DOMAIN u
      BY <1>1
    <3>2. QED
      BY <1>1, <3>1 DEF Range
  <2>4. QED
    BY <2>1, <2>2, <2>3
<1>3. ASSUME NEW x, NEW y, Before(x, y, u) PROVE Before(x, y, t) \/ (x \in Range(t) /\ y = f)
  <2>1. PICK i \in 1..(Len(t) + 1), j \in 1..(Len(t) + 1) : i < j /\ u[i] = x /\ u[j] = y
    BY <1>1, <1>3 DEF Before
  <2>2. i \in DOMAIN t /\ t[i] = x
    BY <1>1, <2>1
  <2>3. CASE j = Len(t) + 1
    BY <1>1, <2>1, <2>2, <2>3 DEF Range
  <2>4. CASE j # Len(t) + 1
    <3>1. j \in DOMAIN t /\ t[j] = y
      BY <1>1, <2>1, <2>4
    <3>2. QED
      BY <2>1, <2>2, <3>1 DEF Before
  <2>5. QED
    BY <2>3, <2>4
<1>4. QED
  BY <1>1, <1>2, <1>3 DEF u

LEMMA Parties ==
  /\ \A p \in Party : Other(p) \in Party /\ Other(p) # p /\ Other(Other(p)) = p
  /\ \A p, q \in Party : q = p \/ q = Other(p)
  /\ \A m \in Message : Author[m] \in Party /\ Reader(m) = Other(Author[m]) /\ Reader(m) \in Party
  /\ None \notin Nat /\ File \cap GroupKey = {} /\ GroupKey \subseteq Message /\ File \subseteq Message
BY MessagingAssumption DEF Party, Other, Reader

LEMMA Envelopes ==
  /\ \A k \in Kind, m \in Message : Env(k, m) \in Envelope /\ Env(k, m).kind = k /\ Env(k, m).m = m
  /\ \A e \in Envelope : e.kind \in Kind /\ e.m \in Message /\ e = Env(e.kind, e.m) /\ From(e) \in Party
  /\ \A e \in Envelope : From(e) = IF e.kind = "msg" THEN Author[e.m] ELSE Reader(e.m)
<1>1. \A k \in Kind, m \in Message : Env(k, m) \in Envelope /\ Env(k, m).kind = k /\ Env(k, m).m = m
  BY DEF Env, Envelope
<1>2. \A e \in Envelope : e.kind \in Kind /\ e.m \in Message /\ e = Env(e.kind, e.m)
  BY DEF Env, Envelope
<1>3. QED
  BY <1>1, <1>2, Parties DEF From, Reader

LEMMA Kinds3 == Kind = {"msg", "delivered", "read"}
BY DEF Kind

-----------------------------------------------------------------------------
(* The kinds of steps, by what they do to the chains and the queues         *)

PcAt(e, to) == \A f \in Envelope : pc'[f] = IF f = e THEN to ELSE pc[f]

SendPosAt(p) == \A q \in Party : sendPos'[q] = IF q = p THEN sendPos[p] + 1 ELSE sendPos[q]

RecvPosAt(p) == \A q \in Party : recvPos'[q] = IF q = p THEN recvPos[p] + 1 ELSE recvPos[q]

HeadLeaves(p) == /\ wire[p] # <<>> /\ listening' = listening
                 /\ \A q \in Party : wire'[q] = IF q = p THEN Tail(wire[p]) ELSE wire[q]

QueuesStay == /\ wire' = wire /\ taken' = taken /\ handled' = handled /\ unsaved' = unsaved
              /\ recvPos' = recvPos /\ early' = early

Still == pc' = pc /\ pos' = pos /\ sendPos' = sendPos /\ QueuesStay /\ faults' = faults

\* The function that sends e goes on, without the chain.
Advances(e, to) ==
  /\ PcAt(e, to) /\ pos' = pos /\ sendPos' = sendPos /\ QueuesStay
  /\ faults' \in {faults, faults + 1}
  /\ \/ pc[e] = "idle" /\ to = "encrypt"
     \/ pc[e] = "idle" /\ to = "seal" /\ e.kind = "msg" /\ e.m \in keys
     \/ pc[e] = "ack" /\ to \in {"encrypt", "failed"}
     \/ pc[e] = "wait" /\ to \in {"done", "failed"}
     \/ pc[e] = "send" /\ to = "wait" /\ faults' = faults + 1

Seals(e) ==
  /\ pc[e] = "seal" /\ PcAt(e, "encrypt")
  /\ SendPosAt(From(e)) /\ pos' = pos /\ QueuesStay /\ faults' = faults

Encrypts(e, to) ==
  /\ PcAt(e, to) /\ SendPosAt(From(e))
  /\ \A f \in Envelope : pos'[f] = IF f = e THEN sendPos[From(e)] ELSE pos[f]
  /\ QueuesStay
  /\ \/ pc[e] = "encrypt" /\ to = "send" /\ faults' = faults
     \/ pc[e] \in {"seal", "encrypt"} /\ to = "failed" /\ faults' = faults + 1

Transmits(e) ==
  /\ pc[e] = "send" /\ MyTurn(e) /\ PcAt(e, "wait")
  /\ \A q \in Party : wire'[q] = IF q = Other(From(e)) THEN Append(wire[q], e) ELSE wire[q]
  /\ taken' = taken \cup {e}
  /\ pos' = pos /\ sendPos' = sendPos /\ recvPos' = recvPos /\ handled' = handled /\ unsaved' = unsaved
  /\ early' = early /\ faults' = faults

\* The head of p's queue goes, and is neither handled nor passed over.
Discards(p) ==
  /\ HeadLeaves(p)
  /\ pc' = pc /\ pos' = pos /\ sendPos' = sendPos /\ recvPos' = recvPos
  /\ taken' = taken /\ handled' = handled /\ unsaved' = unsaved
  /\ \/ early' = early \cup {Head(wire[p])} /\ faults' = faults
     \/ pos[Head(wire[p])] # recvPos[p] /\ early' = early /\ faults' = faults
     \/ faults' = faults + 1 /\ early' = early

\* The receiving chain of p goes on with e.
Receives(p, e) ==
  /\ HeadLeaves(p) /\ e = Head(wire[p]) /\ pos[e] = recvPos[p] /\ RecvPosAt(p)
  /\ pos' = pos /\ sendPos' = sendPos /\ taken' = taken /\ early' = early
  /\ \/ /\ handled' = handled \cup {e} /\ unsaved' = unsaved /\ faults' = faults
        /\ pc' = pc \/ (e.kind = "msg" /\ PcAt(Env("delivered", e.m), "ack"))
     \/ unsaved' = unsaved \cup {e} /\ handled' = handled /\ faults' = faults + 1 /\ pc' = pc

Reloads(p) ==
  /\ \A e \in Envelope : pc'[e] = pc[e] \/ (pc'[e] = "gone" /\ pc[e] \in Running)
  /\ \A q \in Party : sendPos'[q] \in {sendPos[q], sendPos[q] + 1}
  /\ pos' = pos /\ QueuesStay /\ faults' = faults + 1

Moves ==
  \/ Still
  \/ \E e \in Envelope : Seals(e) \/ Transmits(e) \/ \E to \in Running \cup {"done", "failed"} : Advances(e, to) \/ Encrypts(e, to)
  \/ \E p \in Party : Discards(p) \/ Reloads(p) \/ \E e \in Envelope : Receives(p, e)

LEMMA Types ==
  ASSUME TypeOK
  PROVE  /\ \A e \in Envelope : pc[e] \in Running \cup {"idle", "done", "failed", "gone"} /\ pos[e] \in Nat \cup {None}
         /\ \A p \in Party : sendPos[p] \in Nat /\ recvPos[p] \in Nat /\ wire[p] \in Seq(Envelope)
         /\ taken \subseteq Envelope /\ handled \subseteq Envelope /\ unsaved \subseteq Envelope /\ early \subseteq Envelope
         /\ faults \in Nat /\ keys \subseteq GroupKey
BY MessagingAssumption DEF TypeOK

LEMMA GotoAt ==
  ASSUME TypeOK, NEW e \in Envelope, NEW to, Goto(e, to)
  PROVE  PcAt(e, to)
BY DEF TypeOK, Goto, PcAt

LEMMA HeadOf ==
  ASSUME TypeOK, NEW p \in Party, wire[p] # <<>>
  PROVE  /\ Head(wire[p]) \in Envelope /\ Tail(wire[p]) \in Seq(Envelope)
         /\ Head(wire[p]) \in Range(wire[p])
         /\ Range(wire[p]) = {Head(wire[p])} \cup Range(Tail(wire[p]))
         /\ \A x \in Range(Tail(wire[p])) : x \in Envelope /\ Before(Head(wire[p]), x, wire[p])
         /\ \A x, y : Before(x, y, Tail(wire[p])) => Before(x, y, wire[p])
<1>1. wire[p] \in Seq(Envelope)
  BY Types
<1>2. QED
  <2>1. Range(wire[p]) \subseteq Envelope
    BY <1>1 DEF Range
  <2>2. QED
    BY <1>1, <2>1, TailOf

LEMMA LeavesAt ==
  ASSUME TypeOK, NEW p \in Party, wire[p] # <<>>, wire' = [wire EXCEPT ![p] = Tail(@)], listening' = listening
  PROVE  HeadLeaves(p)
BY DEF TypeOK, HeadLeaves

LEMMA TakesAt ==
  ASSUME TypeOK, NEW e \in Envelope, TakePosition(e)
  PROVE  /\ SendPosAt(From(e))
         /\ \A f \in Envelope : pos'[f] = IF f = e THEN sendPos[From(e)] ELSE pos[f]
BY Envelopes DEF TypeOK, TakePosition, SendPosAt

LEMMA SendingMoves ==
  ASSUME TypeOK, StageInv, NEW e \in Envelope,
         Seal(e) \/ Encrypt(e) \/ EncryptFails(e) \/ Transmit(e) \/ Offline(e) \/ SendAnswered(e) \/ SendTimesOut(e)
           \/ Acknowledged(e) \/ AckTimesOut(e)
  PROVE  Moves
<1>1. CASE Seal(e)
  <2>1. SendPosAt(From(e))
    BY <1>1, Envelopes DEF Seal, TypeOK, SendPosAt
  <2>2. Seals(e)
    BY <1>1, <2>1, GotoAt DEF Seal, Seals, QueuesStay, drops
  <2>3. QED
    BY <2>2 DEF Moves
<1>2. CASE Encrypt(e)
  <2>1. Encrypts(e, "send")
    BY <1>2, GotoAt, TakesAt DEF Encrypt, Encrypts, QueuesStay, drops
  <2>2. QED
    BY <2>1 DEF Moves, Running
<1>3. CASE EncryptFails(e)
  <2>1. Encrypts(e, "failed")
    BY <1>3, GotoAt, TakesAt DEF EncryptFails, Failed, Faulty, Encrypts, QueuesStay, drops
  <2>2. QED
    BY <2>1 DEF Moves
<1>4. CASE Transmit(e)
  <2>1. \A q \in Party : wire'[q] = IF q = Other(From(e)) THEN Append(wire[q], e) ELSE wire[q]
    BY <1>4, Envelopes, Parties DEF Transmit, TypeOK
  <2>2. Transmits(e)
    BY <1>4, <2>1, GotoAt DEF Transmit, Transmits, drops
  <2>3. QED
    BY <2>2 DEF Moves
<1>5. CASE Offline(e)
  <2>1. Advances(e, "wait")
    BY <1>5, GotoAt DEF Offline, Advances, Faulty, QueuesStay, drops
  <2>2. QED
    BY <2>1 DEF Moves, Running
<1>6. CASE SendAnswered(e)
  <2>1. Advances(e, "done")
    BY <1>6, GotoAt DEF SendAnswered, Sent, Advances, QueuesStay, drops
  <2>2. QED
    BY <2>1 DEF Moves
<1>7. CASE SendTimesOut(e)
  <2>1. Advances(e, "failed")
    BY <1>7, GotoAt DEF SendTimesOut, Failed, Faulty, Advances, QueuesStay, drops
  <2>2. QED
    BY <2>1 DEF Moves
<1>8. CASE Acknowledged(e)
  <2>1. Advances(e, "encrypt")
    BY <1>8, GotoAt DEF Acknowledged, Advances, QueuesStay, drops
  <2>2. QED
    BY <2>1 DEF Moves, Running
<1>9. CASE AckTimesOut(e)
  <2>1. Advances(e, "failed")
    BY <1>9, GotoAt DEF AckTimesOut, Faulty, Advances, QueuesStay, drops
  <2>2. QED
    BY <2>1 DEF Moves
<1>10. QED
  BY <1>1, <1>2, <1>3, <1>4, <1>5, <1>6, <1>7, <1>8, <1>9

LEMMA ComposingMoves ==
  ASSUME TypeOK, ReceiptInv, NEW m \in Message, Compose(m) \/ DistributeKey(m) \/ MarkRead(m)
  PROVE  Moves
<1>0. Env("msg", m) \in Envelope /\ Env("msg", m).kind = "msg" /\ Env("msg", m).m = m /\ Env("read", m) \in Envelope
  BY Envelopes, Kinds3
<1>1. CASE Compose(m)
  <2>1. Advances(Env("msg", m), "encrypt")
    BY <1>0, <1>1, GotoAt DEF Compose, Advances, QueuesStay, drops
  <2>2. QED
    BY <1>0, <2>1 DEF Moves, Running
<1>2. CASE DistributeKey(m)
  <2>1. Advances(Env("msg", m), "seal")
    BY <1>0, <1>2, GotoAt DEF DistributeKey, Advances, QueuesStay, drops
  <2>2. QED
    BY <1>0, <2>1 DEF Moves, Running
<1>3. CASE MarkRead(m)
  <2>1. pc[Env("read", m)] = "idle"
    BY <1>3 DEF ReceiptInv, MarkRead
  <2>2. Advances(Env("read", m), "encrypt")
    BY <1>0, <1>3, <2>1, GotoAt DEF MarkRead, Advances, QueuesStay, drops
  <2>3. QED
    BY <1>0, <2>2 DEF Moves, Running
<1>4. QED
  BY <1>1, <1>2, <1>3

LEMMA ReceivingMoves ==
  ASSUME TypeOK, NEW p \in Party,
         Subscribe(p) \/ SaveContact(p) \/ Incoming(p) \/ ReceiveFails(p) \/ Lose(p) \/ Reload(p)
  PROVE  Moves
<1>1. CASE Subscribe(p) \/ SaveContact(p)
  BY <1>1 DEF Subscribe, SaveContact, Moves, Still, QueuesStay, drops
<1>2. CASE Unknown(p)
  <2>1. Discards(p)
    BY <1>2, LeavesAt DEF Unknown, Arrives, Discards
  <2>2. QED
    BY <2>1 DEF Moves
<1>3. CASE OutOfOrder(p)
  <2>1. Discards(p)
    BY <1>3, LeavesAt DEF OutOfOrder, Arrives, Discards, drops
  <2>2. QED
    BY <2>1 DEF Moves
<1>4. CASE Lose(p)
  <2>1. Discards(p)
    BY <1>4, LeavesAt DEF Lose, Faulty, Discards, drops
  <2>2. QED
    BY <2>1 DEF Moves
<1>5. CASE Receive(p) \/ ReceiveFails(p)
  <2>1. PICK e \in Envelope : e = Head(wire[p])
    BY <1>5, HeadOf DEF Receive, ReceiveFails, Arrives
  <2>2. RecvPosAt(p)
    BY <1>5 DEF Receive, ReceiveFails, TypeOK, RecvPosAt
  <2>3. HeadLeaves(p)
    BY <1>5, LeavesAt DEF Receive, ReceiveFails, Arrives
  <2>4. ASSUME Receive(p) PROVE pc' = pc \/ (e.kind = "msg" /\ PcAt(Env("delivered", e.m), "ack"))
    <3>1. e.kind = "msg" => Env("delivered", e.m) \in Envelope
      BY Envelopes, Kinds3
    <3>2. Handle(p, e)
      BY <2>1, <2>4 DEF Receive
    <3>3. QED
      BY <3>1, <3>2, GotoAt DEF Handle
  <2>5. Receives(p, e)
    <3>1. CASE Receive(p)
      BY <2>1, <2>2, <2>3, <2>4, <3>1 DEF Receive, Receives, drops
    <3>2. CASE ReceiveFails(p)
      BY <2>1, <2>2, <2>3, <3>2 DEF ReceiveFails, Receives, Faulty
    <3>3. QED
      BY <1>5, <3>1, <3>2
  <2>6. QED
    BY <2>5 DEF Moves
<1>6. CASE Reload(p)
  <2>1. \A e \in Envelope : pc'[e] = pc[e] \/ (pc'[e] = "gone" /\ pc[e] \in Running)
    BY <1>6 DEF Reload
  <2>2. \A q \in Party : sendPos'[q] \in {sendPos[q], sendPos[q] + 1}
    BY <1>6 DEF Reload, TypeOK
  <2>3. Reloads(p)
    BY <1>6, <2>1, <2>2 DEF Reload, Reloads, Faulty, QueuesStay, drops
  <2>4. QED
    BY <2>3 DEF Moves
<1>7. QED
  BY <1>1, <1>2, <1>3, <1>4, <1>5, <1>6 DEF Incoming

LEMMA Kinds ==
  ASSUME TypeOK, StageInv, ReceiptInv, Next
  PROVE  Moves /\ keys' = keys
<1>1. Moves
  BY SendingMoves, ComposingMoves, ReceivingMoves DEF Next, Step
<1>2. keys' = keys
  BY DEF Next, Step, Incoming, Subscribe, SaveContact, Unknown, OutOfOrder, Receive, ReceiveFails, Lose, Reload,
         Compose, DistributeKey, MarkRead, Seal, Encrypt, Transmit, SendAnswered, SendTimesOut, Acknowledged,
         EncryptFails, Offline, AckTimesOut
<1>3. QED
  BY <1>1, <1>2

-----------------------------------------------------------------------------
(* The chains                                                              *)

\* The receipt of a message that is still in the queue has not been thought of.
LEMMA UnreadReceipt ==
  ASSUME TypeOK, WireInv, ReceiptInv, NEW p \in Party, wire[p] # <<>>,
         NEW e \in Envelope, e = Head(wire[p]), e.kind = "msg"
  PROVE  /\ Env("delivered", e.m) \in Envelope /\ Env("delivered", e.m).kind = "delivered"
         /\ pc[Env("delivered", e.m)] = "idle"
<1>1. /\ e \in Range(wire[p]) /\ e.m \in Message /\ e = Env("msg", e.m)
      /\ Env("delivered", e.m) \in Envelope /\ Env("delivered", e.m).kind = "delivered"
  BY HeadOf, Envelopes, Kinds3
<1>2. Env("msg", e.m) \notin handled
  BY <1>1 DEF WireInv
<1>3. QED
  BY <1>1, <1>2 DEF ReceiptInv

StageOf(f) ==
  /\ pc[f] \in {"idle", "ack", "seal", "encrypt"} => pos[f] = None
  /\ pc[f] \in {"send", "wait"} => pos[f] \in Nat
  /\ f \in taken => pos[f] \in Nat /\ pc[f] \in {"wait", "done", "failed", "gone"}
  /\ pc[f] = "seal" => f.kind = "msg" /\ f.m \in keys
  /\ pc[f] = "ack" => f.kind = "delivered"

LEMMA StepStage ==
  ASSUME TypeOK, StageInv, ReceiptInv, WireInv, RecvInv, Moves, keys' = keys
  PROVE  StageInv'
<1>1. SUFFICES ASSUME NEW f \in Envelope PROVE StageOf(f)'
  BY DEF StageInv, StageOf
<1>2. StageOf(f)
  BY DEF StageInv, StageOf
<1>3. CASE Still
  BY <1>2, <1>3 DEF Still, QueuesStay, StageOf
<1>4. ASSUME NEW e \in Envelope, NEW to, Advances(e, to) PROVE StageOf(f)'
  BY <1>2, <1>4 DEF Advances, PcAt, QueuesStay, StageOf
<1>5. ASSUME NEW e \in Envelope, Seals(e) PROVE StageOf(f)'
  BY <1>2, <1>5 DEF Seals, PcAt, QueuesStay, StageOf
<1>6. ASSUME NEW e \in Envelope, NEW to, Encrypts(e, to) PROVE StageOf(f)'
  <2>1. sendPos[From(e)] \in Nat
    BY Types, Envelopes
  <2>2. e \notin taken
    BY <1>6 DEF StageInv, Encrypts
  <2>3. QED
    BY <1>2, <1>6, <2>1, <2>2 DEF Encrypts, PcAt, QueuesStay, StageOf
<1>7. ASSUME NEW e \in Envelope, Transmits(e) PROVE StageOf(f)'
  <2>1. pos[e] \in Nat
    BY <1>7 DEF Transmits, StageInv
  <2>2. QED
    BY <1>2, <1>7, <2>1 DEF Transmits, PcAt, StageOf
<1>8. ASSUME NEW p \in Party, Discards(p) PROVE StageOf(f)'
  BY <1>2, <1>8 DEF Discards, StageOf
<1>9. ASSUME NEW p \in Party, NEW e \in Envelope, Receives(p, e) PROVE StageOf(f)'
  <2>1. CASE pc' = pc
    BY <1>2, <1>9, <2>1 DEF Receives, StageOf
  <2>2. CASE e.kind = "msg" /\ PcAt(Env("delivered", e.m), "ack")
    <3>1. /\ Env("delivered", e.m) \in Envelope /\ Env("delivered", e.m).kind = "delivered"
          /\ pc[Env("delivered", e.m)] = "idle"
      BY <1>9, <2>2, UnreadReceipt DEF Receives, HeadLeaves
    <3>2. QED
      BY <1>2, <1>9, <2>2, <3>1 DEF Receives, PcAt, StageOf
  <2>3. QED
    BY <1>9, <2>1, <2>2 DEF Receives
<1>10. ASSUME NEW p \in Party, Reloads(p) PROVE StageOf(f)'
  BY <1>2, <1>10 DEF Reloads, QueuesStay, StageOf, Running
<1>11. QED
  BY <1>3, <1>4, <1>5, <1>6, <1>7, <1>8, <1>9, <1>10 DEF Moves

LEMMA StepPos ==
  ASSUME TypeOK, StageInv, PosInv, Moves
  PROVE  PosInv'
<1>0. /\ \A e \in Envelope : From(e) \in Party /\ pos[e] \in Nat \cup {None}
      /\ \A p \in Party : sendPos[p] \in Nat
      /\ None \notin Nat
  BY Types, Envelopes, Parties
<1>1. CASE pos' = pos /\ \A p \in Party : sendPos'[p] \in {sendPos[p], sendPos[p] + 1}
  BY <1>0, <1>1 DEF PosInv
<1>2. ASSUME NEW e \in Envelope, NEW to, Encrypts(e, to) PROVE PosInv'
  <2>1. /\ \A f \in Envelope : pos'[f] = IF f = e THEN sendPos[From(e)] ELSE pos[f]
        /\ SendPosAt(From(e))
    BY <1>2 DEF Encrypts
  <2>2. \A f \in Envelope : pos'[f] # None => pos'[f] < sendPos'[From(f)]
    BY <1>0, <2>1 DEF PosInv, SendPosAt
  <2>3. ASSUME NEW f \in Envelope, NEW g \in Envelope, From(f) = From(g), pos'[f] = pos'[g], pos'[f] # None
        PROVE  f = g
    BY <1>0, <2>1, <2>3 DEF PosInv
  <2>4. QED
    BY <2>2, <2>3 DEF PosInv
<1>3. QED
  <2>1. CASE \E p \in Party : Discards(p) \/ Reloads(p) \/ \E e \in Envelope : Receives(p, e)
    BY <1>1, <2>1 DEF Discards, Reloads, Receives
  <2>2. CASE Still
    BY <1>1, <2>2 DEF Still
  <2>3. ASSUME NEW e \in Envelope, Seals(e) PROVE PosInv'
    BY <1>1, <2>3 DEF Seals, SendPosAt
  <2>4. ASSUME NEW e \in Envelope, Transmits(e) PROVE PosInv'
    BY <1>1, <2>4 DEF Transmits
  <2>5. ASSUME NEW e \in Envelope, NEW to, Advances(e, to) PROVE PosInv'
    BY <1>1, <2>5 DEF Advances
  <2>6. QED
    BY <1>2, <2>1, <2>2, <2>3, <2>4, <2>5 DEF Moves

LEMMA StepOrder ==
  ASSUME TypeOK, StageInv, PosInv, WireInv, ReceiptInv, OrderInv, Moves
  PROVE  OrderInv'
<1>0. /\ \A e \in Envelope : From(e) \in Party /\ pos[e] \in Nat \cup {None}
      /\ \A p \in Party : sendPos[p] \in Nat
      /\ None \notin Nat
  BY Types, Envelopes, Parties
<1>1. ASSUME pos' = pos, taken' = taken, \A f \in Envelope : pc'[f] = "send" => pc[f] = "send" PROVE OrderInv'
  BY <1>1 DEF OrderInv
<1>2. ASSUME NEW e \in Envelope, NEW to, Encrypts(e, to) PROVE OrderInv'
  <2>1. /\ \A f \in Envelope : pos'[f] = IF f = e THEN sendPos[From(e)] ELSE pos[f]
        /\ PcAt(e, to) /\ taken' = taken
    BY <1>2 DEF Encrypts, QueuesStay
  <2>2. e \notin taken
    BY <1>2 DEF StageInv, Encrypts
  <2>3. SUFFICES ASSUME NEW f \in Envelope, NEW g \in Envelope, From(f) = From(g), f \in taken, pc'[g] = "send"
                 PROVE  pos'[f] < pos'[g]
    BY <2>1 DEF OrderInv
  <2>4. pos'[f] = pos[f] /\ pos[f] \in Nat /\ pos[f] < sendPos[From(f)]
    BY <1>0, <2>1, <2>2, <2>3 DEF StageInv, PosInv
  <2>5. QED
    BY <1>0, <2>1, <2>3, <2>4 DEF OrderInv, PcAt
<1>3. ASSUME NEW e \in Envelope, Transmits(e) PROVE OrderInv'
  <2>1. SUFFICES ASSUME NEW f \in Envelope, NEW g \in Envelope, From(f) = From(g), f \in taken', pc'[g] = "send"
                 PROVE  pos[f] < pos[g]
    BY <1>3 DEF OrderInv, Transmits
  <2>2. pc[g] = "send" /\ g # e
    BY <1>3, <2>1 DEF Transmits, PcAt
  <2>3. CASE f \in taken
    BY <2>1, <2>2, <2>3 DEF OrderInv
  <2>4. CASE f = e
    <3>1. pos[e] <= pos[g] /\ pos[e] # pos[g] /\ pos[e] \in Nat /\ pos[g] \in Nat
      BY <1>0, <1>3, <2>1, <2>2, <2>4 DEF Transmits, MyTurn, PosInv, StageInv
    <3>2. QED
      BY <2>4, <3>1
  <2>5. QED
    BY <1>3, <2>1, <2>3, <2>4 DEF Transmits
<1>4. ASSUME NEW p \in Party, NEW e \in Envelope, Receives(p, e) PROVE OrderInv'
  <2>1. \A f \in Envelope : pc'[f] = "send" => pc[f] = "send"
    BY <1>4 DEF Receives, PcAt
  <2>2. QED
    BY <1>1, <1>4, <2>1 DEF Receives
<1>5. QED
  <2>1. ASSUME NEW p \in Party, Discards(p) \/ Reloads(p) PROVE OrderInv'
    BY <1>1, <2>1 DEF Discards, Reloads, QueuesStay
  <2>2. CASE Still
    BY <1>1, <2>2 DEF Still, QueuesStay
  <2>3. ASSUME NEW e \in Envelope, Seals(e) PROVE OrderInv'
    BY <1>1, <2>3 DEF Seals, PcAt, QueuesStay
  <2>4. ASSUME NEW e \in Envelope, NEW to, Advances(e, to) PROVE OrderInv'
    BY <1>1, <2>4 DEF Advances, PcAt, QueuesStay
  <2>5. QED
    BY <1>2, <1>3, <1>4, <2>1, <2>2, <2>3, <2>4 DEF Moves

LEMMA StepWire ==
  ASSUME TypeOK, StageInv, PosInv, WireInv, OrderInv, RecvInv, Moves
  PROVE  WireInv'
<1>0. /\ \A e \in Envelope : From(e) \in Party /\ pos[e] \in Nat \cup {None}
      /\ \A p \in Party : wire[p] \in Seq(Envelope) /\ Range(wire[p]) \subseteq Envelope
  BY Types, Envelopes DEF Range
<1> DEFINE Holds(p) == /\ \A e \in Range(wire[p]) : e \in taken /\ From(e) = Other(p) /\ e \notin handled /\ e \notin unsaved
                       /\ \A e, f \in Envelope : Before(e, f, wire[p]) => pos[e] < pos[f]
<1>1. \A p \in Party : Holds(p)
  BY DEF WireInv
<1>2. SUFFICES ASSUME NEW p \in Party PROVE Holds(p)'
  BY DEF WireInv
<1>3. ASSUME wire'[p] = wire[p], taken \subseteq taken', \A e \in taken : pos'[e] = pos[e],
             \A e \in Range(wire[p]) : e \notin handled' /\ e \notin unsaved'
      PROVE  Holds(p)'
  <2>1. \A e, f \in Envelope : Before(e, f, wire[p]) => e \in Range(wire[p]) /\ f \in Range(wire[p])
    BY DEF Before, Range
  <2>2. \A e, f \in Envelope : Before(e, f, wire[p]) => pos'[e] < pos'[f]
    BY <1>1, <1>3, <2>1
  <2>3. QED
    BY <1>1, <1>3, <2>2
<1>4. ASSUME NEW q \in Party, HeadLeaves(q), taken' = taken, pos' = pos,
             handled' \subseteq handled \cup {Head(wire[q])}, unsaved' \subseteq unsaved \cup {Head(wire[q])}
      PROVE  Holds(p)'
  <2>1. CASE p = q
    <3>1. /\ Range(wire[p]) = {Head(wire[p])} \cup Range(Tail(wire[p])) /\ Head(wire[p]) \in Envelope
          /\ \A x \in Range(Tail(wire[p])) : x \in Envelope /\ Before(Head(wire[p]), x, wire[p])
          /\ \A x, y : Before(x, y, Tail(wire[p])) => Before(x, y, wire[p])
          /\ wire'[p] = Tail(wire[p])
      BY <1>4, <2>1, HeadOf DEF HeadLeaves
    <3>2. \A x \in Range(Tail(wire[p])) : x # Head(wire[p])
      <4>1. \A x \in Range(Tail(wire[p])) : pos[Head(wire[p])] < pos[x]
        BY <1>1, <3>1
      <4>2. Head(wire[p]) \in taken /\ pos[Head(wire[p])] \in Nat
        BY <1>1, <3>1 DEF StageInv
      <4>3. QED
        BY <4>1, <4>2
    <3>3. \A e \in Range(wire'[p]) : e \in taken' /\ From(e) = Other(p) /\ e \notin handled' /\ e \notin unsaved'
      BY <1>1, <1>4, <2>1, <3>1, <3>2
    <3>4. \A e, f \in Envelope : Before(e, f, wire'[p]) => pos'[e] < pos'[f]
      BY <1>1, <1>4, <3>1
    <3>5. QED
      BY <3>3, <3>4
  <2>2. CASE p # q
    <3>1. wire'[p] = wire[p]
      BY <1>4, <2>2 DEF HeadLeaves
    <3>2. Head(wire[q]) \in Range(wire[q])
      BY <1>4, HeadOf DEF HeadLeaves
    <3>3. Head(wire[q]) \notin Range(wire[p])
      BY <1>1, <2>2, <3>2, Parties
    <3>4. QED
      BY <1>1, <1>3, <1>4, <3>1, <3>3
  <2>3. QED
    BY <2>1, <2>2
<1>5. ASSUME NEW e \in Envelope, NEW to, Encrypts(e, to) PROVE Holds(p)'
  <2>1. e \notin taken
    BY <1>5 DEF StageInv, Encrypts
  <2>2. \A f \in taken : f \in Envelope /\ pos'[f] = pos[f]
    BY <1>5, <2>1, Types DEF Encrypts
  <2>3. QED
    BY <1>1, <1>3, <1>5, <2>2 DEF Encrypts, QueuesStay
<1>6. ASSUME NEW e \in Envelope, Transmits(e) PROVE Holds(p)'
  <2>1. CASE p = Other(From(e))
    <3>1. wire'[p] = Append(wire[p], e) /\ taken' = taken \cup {e} /\ pos' = pos /\ handled' = handled /\ unsaved' = unsaved
      BY <1>6, <2>1 DEF Transmits
    <3>2. /\ Range(Append(wire[p], e)) = Range(wire[p]) \cup {e}
          /\ \A x, y : Before(x, y, Append(wire[p], e)) => Before(x, y, wire[p]) \/ (x \in Range(wire[p]) /\ y = e)
      BY <1>0, AppendOf
    <3>3. From(e) = Other(p) /\ pc[e] = "send" /\ e \notin handled /\ e \notin unsaved
      BY <1>0, <1>6, <2>1, Parties DEF Transmits, RecvInv, StageInv
    <3>4. \A x \in Range(wire[p]) : pos[x] < pos[e]
      BY <1>0, <1>1, <3>3 DEF OrderInv
    <3>5. \A x \in Range(wire'[p]) : x \in taken' /\ From(x) = Other(p) /\ x \notin handled' /\ x \notin unsaved'
      BY <1>1, <3>1, <3>2, <3>3
    <3>6. \A x, y \in Envelope : Before(x, y, wire'[p]) => pos'[x] < pos'[y]
      BY <1>1, <3>1, <3>2, <3>4
    <3>7. QED
      BY <3>5, <3>6
  <2>2. CASE p # Other(From(e))
    BY <1>1, <1>3, <1>6, <2>2 DEF Transmits
  <2>3. QED
    BY <2>1, <2>2
<1>7. QED
  <2>1. CASE Still
    BY <1>1, <1>3, <2>1 DEF Still, QueuesStay
  <2>2. ASSUME NEW e \in Envelope, Seals(e) PROVE Holds(p)'
    BY <1>1, <1>3, <2>2 DEF Seals, QueuesStay
  <2>3. ASSUME NEW e \in Envelope, NEW to, Advances(e, to) PROVE Holds(p)'
    BY <1>1, <1>3, <2>3 DEF Advances, QueuesStay
  <2>4. ASSUME NEW q \in Party, Discards(q) PROVE Holds(p)'
    BY <1>4, <2>4 DEF Discards
  <2>5. ASSUME NEW q \in Party, Reloads(q) PROVE Holds(p)'
    BY <1>1, <1>3, <2>5 DEF Reloads, QueuesStay
  <2>6. ASSUME NEW q \in Party, NEW e \in Envelope, Receives(q, e) PROVE Holds(p)'
    BY <1>4, <2>6 DEF Receives
  <2>7. QED
    BY <1>5, <1>6, <2>1, <2>2, <2>3, <2>4, <2>5, <2>6 DEF Moves

LEMMA StepRecv ==
  ASSUME TypeOK, StageInv, PosInv, WireInv, RecvInv, Moves
  PROVE  RecvInv'
<1>0. /\ \A e \in Envelope : From(e) \in Party /\ Other(From(e)) \in Party /\ pos[e] \in Nat \cup {None}
      /\ \A p \in Party : sendPos[p] \in Nat /\ recvPos[p] \in Nat /\ Other(p) \in Party
      /\ handled \cup unsaved \subseteq Envelope /\ None \notin Nat
  BY Types, Envelopes, Parties
<1>1. ASSUME pos' = pos, recvPos' = recvPos, taken \subseteq taken', handled' = handled, unsaved' = unsaved,
             \A p \in Party : sendPos'[p] \in {sendPos[p], sendPos[p] + 1}
      PROVE  RecvInv'
  <2>1. \A p \in Party : recvPos[p] <= sendPos'[Other(p)]
    <3>1. ASSUME NEW p \in Party PROVE recvPos[p] <= sendPos'[Other(p)]
      <4>1. recvPos[p] <= sendPos[Other(p)] /\ sendPos'[Other(p)] \in {sendPos[Other(p)], sendPos[Other(p)] + 1}
        BY <1>0, <1>1 DEF RecvInv
      <4>2. QED
        BY <1>0, <4>1
    <3>2. QED
      BY <3>1
  <2>2. QED
    BY <1>1, <2>1 DEF RecvInv
<1>2. ASSUME NEW e \in Envelope, NEW to, Encrypts(e, to) PROVE RecvInv'
  <2>1. /\ \A f \in Envelope : pos'[f] = IF f = e THEN sendPos[From(e)] ELSE pos[f]
        /\ SendPosAt(From(e)) /\ taken' = taken /\ handled' = handled /\ unsaved' = unsaved /\ recvPos' = recvPos
    BY <1>2 DEF Encrypts, QueuesStay
  <2>2. e \notin taken
    BY <1>2 DEF StageInv, Encrypts
  <2>3. \A p \in Party : recvPos[p] <= sendPos'[Other(p)]
    <3>1. ASSUME NEW p \in Party PROVE recvPos[p] <= sendPos'[Other(p)]
      <4>1. recvPos[p] <= sendPos[Other(p)] /\ sendPos'[Other(p)] \in {sendPos[Other(p)], sendPos[Other(p)] + 1}
        BY <1>0, <2>1 DEF RecvInv, SendPosAt
      <4>2. QED
        BY <1>0, <4>1
    <3>2. QED
      BY <3>1
  <2>4. \A f \in handled \cup unsaved : f \in taken /\ pos'[f] < recvPos[Other(From(f))]
    BY <1>0, <2>1, <2>2 DEF RecvInv
  <2>5. recvPos[Other(From(e))] <= sendPos[From(e)]
    BY <1>0, Parties DEF RecvInv
  <2>6. \A f \in Envelope : pos'[f] # None /\ pos'[f] < recvPos[Other(From(f))] => f \in handled \cup unsaved
    BY <1>0, <2>1, <2>5 DEF RecvInv
  <2>7. QED
    BY <2>1, <2>3, <2>4, <2>6 DEF RecvInv
<1>3. ASSUME NEW p \in Party, NEW e \in Envelope, Receives(p, e) PROVE RecvInv'
  <2>1. /\ pos' = pos /\ sendPos' = sendPos /\ taken' = taken /\ RecvPosAt(p) /\ pos[e] = recvPos[p]
        /\ handled' \cup unsaved' = (handled \cup unsaved) \cup {e}
    BY <1>3 DEF Receives
  <2>2. e \in taken /\ From(e) = Other(p) /\ Other(From(e)) = p /\ pos[e] \in Nat
    <3>1. e \in Range(wire[p])
      BY <1>3, HeadOf DEF Receives, HeadLeaves
    <3>2. QED
      BY <3>1, Parties DEF WireInv, StageInv
  <2>3. \A q \in Party : recvPos'[q] <= sendPos[Other(q)]
    <3>1. pos[e] < sendPos[Other(p)]
      BY <1>0, <2>2 DEF PosInv
    <3>2. QED
      BY <1>0, <2>1, <3>1 DEF RecvInv, RecvPosAt
  <2>4. \A f \in (handled \cup unsaved) \cup {e} : f \in taken /\ pos[f] < recvPos'[Other(From(f))]
    <3>1. ASSUME NEW f \in handled \cup unsaved PROVE f \in taken /\ pos[f] < recvPos'[Other(From(f))]
      <4>1. f \in Envelope /\ f \in taken /\ pos[f] < recvPos[Other(From(f))] /\ pos[f] \in Nat
        BY <1>0 DEF RecvInv, StageInv
      <4>2. QED
        BY <1>0, <2>1, <4>1 DEF RecvPosAt
    <3>2. pos[e] < recvPos'[Other(From(e))]
      BY <1>0, <2>1, <2>2 DEF RecvPosAt
    <3>3. QED
      BY <2>2, <3>1, <3>2
  <2>5. ASSUME NEW f \in Envelope, pos[f] # None, pos[f] < recvPos'[Other(From(f))] PROVE f \in (handled \cup unsaved) \cup {e}
    <3>1. CASE pos[f] < recvPos[Other(From(f))]
      BY <2>5, <3>1 DEF RecvInv
    <3>2. CASE ~(pos[f] < recvPos[Other(From(f))])
      <4>1. Other(From(f)) = p /\ pos[f] = recvPos[p]
        BY <1>0, <2>1, <2>5, <3>2 DEF RecvPosAt
      <4>2. From(f) = From(e) /\ pos[f] = pos[e]
        BY <1>0, <2>1, <2>2, <4>1, Parties
      <4>3. QED
        BY <2>5, <4>2 DEF PosInv
    <3>3. QED
      BY <3>1, <3>2
  <2>6. QED
    BY <2>1, <2>3, <2>4, <2>5 DEF RecvInv
<1>4. QED
  <2>1. CASE Still
    BY <1>1, <2>1 DEF Still, QueuesStay
  <2>2. ASSUME NEW e \in Envelope, Seals(e) PROVE RecvInv'
    BY <1>1, <2>2 DEF Seals, QueuesStay, SendPosAt
  <2>3. ASSUME NEW e \in Envelope, NEW to, Advances(e, to) PROVE RecvInv'
    BY <1>1, <2>3 DEF Advances, QueuesStay
  <2>4. ASSUME NEW p \in Party, Discards(p) PROVE RecvInv'
    BY <1>1, <2>4 DEF Discards
  <2>5. ASSUME NEW p \in Party, Reloads(p) PROVE RecvInv'
    BY <1>1, <2>5 DEF Reloads, QueuesStay
  <2>6. ASSUME NEW e \in Envelope, Transmits(e) PROVE RecvInv'
    BY <1>1, <2>6 DEF Transmits
  <2>7. QED
    BY <1>2, <1>3, <2>1, <2>2, <2>3, <2>4, <2>5, <2>6 DEF Moves

\* Where position n of the chain that leads to p is on its way.
OnItsWay(f, p, n) == From(f) = Other(p) /\ pos[f] = n /\ (pc[f] = "send" \/ f \in Range(wire[p]))

\* While nothing went wrong, the head of a queue is what the chain waits for.
LEMMA SmoothHead ==
  ASSUME TypeOK, ChainInv, CoverInv, NEW p \in Party, Smooth(p), wire[p] # <<>>
  PROVE  pos[Head(wire[p])] = recvPos[p]
<1> DEFINE h == Head(wire[p])
<1>0. /\ \A e \in Envelope : pos[e] \in Nat \cup {None}
      /\ sendPos[Other(p)] \in Nat /\ recvPos[p] \in Nat /\ None \notin Nat
  BY Types, Parties
<1>1. /\ h \in Envelope /\ Range(wire[p]) = {h} \cup Range(Tail(wire[p]))
      /\ \A x \in Range(Tail(wire[p])) : x \in Envelope /\ Before(h, x, wire[p])
  BY HeadOf
<1>2. h \in taken /\ From(h) = Other(p) /\ Other(From(h)) = p /\ h \notin handled \cup unsaved
  BY <1>1, Parties DEF ChainInv, WireInv
<1>3. pos[h] \in Nat /\ recvPos[p] <= pos[h] /\ pos[h] < sendPos[Other(p)]
  BY <1>0, <1>1, <1>2 DEF ChainInv, StageInv, PosInv, RecvInv
<1> HIDE DEF h
<1>4. SUFFICES ASSUME recvPos[p] # pos[h] PROVE FALSE
  BY DEF h
<1>5. PICK f \in Envelope : OnItsWay(f, p, recvPos[p])
  BY <1>0, <1>3 DEF CoverInv, OnItsWay
<1>6. ~(pos[h] < pos[f])
  BY <1>0, <1>3, <1>5 DEF OnItsWay
<1>7. CASE pc[f] = "send"
  BY <1>1, <1>2, <1>5, <1>6, <1>7 DEF ChainInv, OrderInv, OnItsWay
<1>8. CASE f \in Range(wire[p])
  <2>1. f # h
    BY <1>4, <1>5 DEF OnItsWay
  <2>2. Before(h, f, wire[p])
    BY <1>1, <1>8, <2>1
  <2>3. QED
    BY <1>1, <1>6, <2>2 DEF ChainInv, WireInv
<1>9. QED
  BY <1>5, <1>7, <1>8 DEF OnItsWay

LEMMA StepCover ==
  ASSUME TypeOK, ChainInv, ReceiptInv, CoverInv, Moves, keys' = keys
  PROVE  CoverInv'
<1>0. /\ \A e \in Envelope : From(e) \in Party /\ pos[e] \in Nat \cup {None}
      /\ \A p \in Party : sendPos[p] \in Nat /\ recvPos[p] \in Nat /\ Other(p) \in Party
      /\ faults \in Nat /\ None \notin Nat /\ \A g \in keys : g \in Message /\ Env("msg", g) \in Envelope
  BY Types, Envelopes, Parties, Kinds3
<1>1. SUFFICES ASSUME NEW p \in Party, Smooth(p)', NEW n \in Nat, recvPos'[p] <= n, n < sendPos'[Other(p)]
               PROVE  \E f \in Envelope : OnItsWay(f, p, n)'
  BY DEF CoverInv, OnItsWay
<1>2. faults' = 0 /\ early' = {} /\ \A g \in keys : Author[g] # p => pc'[Env("msg", g)] \in {"idle", "seal"}
  BY <1>1 DEF Smooth
<1>3. ASSUME Smooth(p), recvPos[p] <= n, n < sendPos[Other(p)] PROVE \E f \in Envelope : OnItsWay(f, p, n)
  BY <1>3 DEF CoverInv, OnItsWay
<1>4. CASE Still
  <2>1. Smooth(p) /\ recvPos[p] <= n /\ n < sendPos[Other(p)]
    BY <1>1, <1>2, <1>4 DEF Still, QueuesStay, Smooth
  <2>2. QED
    BY <1>3, <1>4, <2>1 DEF Still, QueuesStay, OnItsWay
<1>5. ASSUME NEW e \in Envelope, NEW to, Advances(e, to) PROVE \E f \in Envelope : OnItsWay(f, p, n)'
  <2>1. faults = 0 /\ faults' # faults + 1
    BY <1>0, <1>2, <1>5 DEF Advances
  <2>2. \A g \in keys : Author[g] # p => pc[Env("msg", g)] \in {"idle", "seal"}
    <3>1. ASSUME NEW g \in keys, Author[g] # p PROVE pc[Env("msg", g)] \in {"idle", "seal"}
      BY <1>0, <1>2, <1>5, <3>1 DEF Advances, PcAt
    <3>2. QED
      BY <3>1
  <2>3. PICK f \in Envelope : OnItsWay(f, p, n)
    BY <1>1, <1>2, <1>3, <1>5, <2>1, <2>2 DEF Advances, QueuesStay, Smooth
  <2>4. OnItsWay(f, p, n)'
    BY <1>5, <2>1, <2>3 DEF Advances, PcAt, QueuesStay, OnItsWay
  <2>5. QED
    BY <2>4
<1>6. ASSUME NEW e \in Envelope, Seals(e) PROVE \E f \in Envelope : OnItsWay(f, p, n)'
  <2>1. e = Env("msg", e.m) /\ e.m \in keys /\ From(e) = Author[e.m]
    BY <1>6, Envelopes DEF Seals, ChainInv, StageInv
  <2>2. From(e) = p
    BY <1>2, <1>6, <2>1 DEF Seals, PcAt
  <2>3. \A g \in keys : Author[g] # p => pc[Env("msg", g)] \in {"idle", "seal"}
    BY <1>0, <1>2, <1>6 DEF Seals, PcAt
  <2>4. Smooth(p) /\ recvPos[p] <= n /\ n < sendPos[Other(p)]
    BY <1>0, <1>1, <1>2, <1>6, <2>2, <2>3, Parties DEF Seals, QueuesStay, SendPosAt, Smooth
  <2>5. PICK f \in Envelope : OnItsWay(f, p, n)
    BY <1>3, <2>4
  <2>6. OnItsWay(f, p, n)'
    BY <1>6, <2>5 DEF Seals, PcAt, QueuesStay, OnItsWay
  <2>7. QED
    BY <2>6
<1>7. ASSUME NEW e \in Envelope, NEW to, Encrypts(e, to) PROVE \E f \in Envelope : OnItsWay(f, p, n)'
  <2>1. pc[e] = "encrypt" /\ to = "send" /\ faults' = faults
    BY <1>0, <1>2, <1>7 DEF Encrypts
  <2>2. \A g \in keys : Author[g] # p => pc[Env("msg", g)] \in {"idle", "seal"}
    BY <1>0, <1>2, <1>7, <2>1 DEF Encrypts, PcAt
  <2>3. Smooth(p) /\ recvPos[p] <= n
    BY <1>1, <1>2, <1>7, <2>1, <2>2 DEF Encrypts, QueuesStay, Smooth
  <2>4. CASE n < sendPos[Other(p)]
    <3>1. PICK f \in Envelope : OnItsWay(f, p, n)
      BY <1>3, <2>3, <2>4
    <3>2. f # e
      BY <1>0, <2>1, <3>1 DEF ChainInv, StageInv, OnItsWay
    <3>3. OnItsWay(f, p, n)'
      BY <1>7, <3>1, <3>2 DEF Encrypts, PcAt, QueuesStay, OnItsWay
    <3>4. QED
      BY <3>3
  <2>5. CASE ~(n < sendPos[Other(p)])
    <3>1. From(e) = Other(p) /\ n = sendPos[From(e)]
      BY <1>0, <1>1, <1>7, <2>5 DEF Encrypts, SendPosAt
    <3>2. OnItsWay(e, p, n)'
      BY <1>7, <2>1, <3>1 DEF Encrypts, PcAt, OnItsWay
    <3>3. QED
      BY <3>2
  <2>6. QED
    BY <2>4, <2>5
<1>8. ASSUME NEW e \in Envelope, Transmits(e) PROVE \E f \in Envelope : OnItsWay(f, p, n)'
  <2>1. \A g \in keys : Author[g] # p => pc[Env("msg", g)] \in {"idle", "seal"}
    BY <1>0, <1>2, <1>8 DEF Transmits, PcAt
  <2>2. Smooth(p) /\ recvPos[p] <= n /\ n < sendPos[Other(p)]
    BY <1>1, <1>2, <1>8, <2>1 DEF Transmits, Smooth
  <2>3. PICK f \in Envelope : OnItsWay(f, p, n)
    BY <1>3, <2>2
  <2>4. /\ wire[p] \in Seq(Envelope) /\ Range(Append(wire[p], e)) = Range(wire[p]) \cup {e}
        /\ wire'[p] = IF p = Other(From(e)) THEN Append(wire[p], e) ELSE wire[p]
    BY <1>8, Types, AppendOf DEF Transmits
  <2>5. f = e => p = Other(From(e))
    BY <2>3, Parties DEF OnItsWay
  <2>6. OnItsWay(f, p, n)'
    BY <1>8, <2>3, <2>4, <2>5 DEF Transmits, PcAt, OnItsWay
  <2>7. QED
    BY <2>6
<1>9. ASSUME NEW q \in Party, Discards(q) PROVE \E f \in Envelope : OnItsWay(f, p, n)'
  <2>1. pos[Head(wire[q])] # recvPos[q] /\ early = {} /\ faults = 0
    BY <1>0, <1>2, <1>9 DEF Discards
  <2>2. Smooth(p) /\ recvPos[p] <= n /\ n < sendPos[Other(p)]
    BY <1>1, <1>2, <1>9, <2>1 DEF Discards, Smooth
  <2>3. p # q
    BY <1>9, <2>1, <2>2, SmoothHead DEF Discards, HeadLeaves
  <2>4. PICK f \in Envelope : OnItsWay(f, p, n)
    BY <1>3, <2>2
  <2>5. OnItsWay(f, p, n)'
    BY <1>9, <2>3, <2>4 DEF Discards, HeadLeaves, OnItsWay
  <2>6. QED
    BY <2>5
<1>10. ASSUME NEW q \in Party, NEW e \in Envelope, Receives(q, e) PROVE \E f \in Envelope : OnItsWay(f, p, n)'
  <2>1. faults' = faults /\ faults = 0 /\ early = {}
    BY <1>0, <1>2, <1>10 DEF Receives
  <2>2. \A f \in Envelope : pc'[f] = pc[f] \/ (f.kind = "delivered" /\ pc[f] = "idle")
    <3>1. ASSUME e.kind = "msg" PROVE Env("delivered", e.m) \in Envelope /\ pc[Env("delivered", e.m)] = "idle"
                                      /\ Env("delivered", e.m).kind = "delivered"
      BY <1>10, <3>1, UnreadReceipt, Envelopes, Kinds3 DEF Receives, HeadLeaves, ChainInv
    <3>2. QED
      BY <1>0, <1>2, <1>10, <2>1, <3>1 DEF Receives, PcAt
  <2>3. \A g \in keys : Author[g] # p => pc[Env("msg", g)] \in {"idle", "seal"}
    BY <1>0, <1>2, <2>2
  <2>4. Smooth(p) /\ recvPos[p] <= n /\ n < sendPos[Other(p)] /\ (p = q => n # recvPos[p])
    BY <1>0, <1>1, <1>2, <1>10, <2>1, <2>3 DEF Receives, RecvPosAt, Smooth
  <2>5. PICK f \in Envelope : OnItsWay(f, p, n)
    BY <1>3, <2>4
  <2>6. p = q => f # e
    BY <1>10, <2>4, <2>5 DEF Receives, OnItsWay
  <2>7. p = q /\ f \in Range(wire[p]) => f \in Range(wire'[p])
    BY <1>10, <2>6, HeadOf DEF Receives, HeadLeaves
  <2>8. OnItsWay(f, p, n)'
    BY <1>10, <2>2, <2>5, <2>7 DEF Receives, HeadLeaves, OnItsWay
  <2>9. QED
    BY <2>8
<1>11. ASSUME NEW q \in Party, Reloads(q) PROVE FALSE
  BY <1>0, <1>2, <1>11 DEF Reloads
<1>12. QED
  BY <1>4, <1>5, <1>6, <1>7, <1>8, <1>9, <1>10, <1>11 DEF Moves

-----------------------------------------------------------------------------
(* Types                                                                   *)

Label  == Running \cup {"idle", "done", "failed", "gone"}
Status == {"absent", "sending", "sent", "failed", "delivered", "read"}

LEMMA TypeOfGoto ==
  ASSUME TypeOK, NEW e \in Envelope, NEW to \in Label, Goto(e, to)
  PROVE  pc' \in [Envelope -> Label]
BY DEF TypeOK, Goto, Label

LEMMA TypeOfSetting ==
  ASSUME TypeOK, NEW p \in Party, NEW m \in Message, NEW s \in Status,
         SetStatus(p, m, s) \/ AddMessage(p, m, s)
  PROVE  status' \in [Party -> [Message -> Status]]
<1>1. status \in [Party -> [Message -> Status]]
  BY DEF TypeOK, Status
<1>2. PICK v \in Status : status' = [status EXCEPT ![p][m] = v]
  BY <1>1 DEF SetStatus, AddMessage
<1>3. QED
  BY <1>1, <1>2

LEMMA TypeOfTaking ==
  ASSUME TypeOK, NEW e \in Envelope, TakePosition(e)
  PROVE  pos' \in [Envelope -> Nat \cup {None}] /\ sendPos' \in [Party -> Nat]
BY Envelopes DEF TypeOK, TakePosition

LEMMA TypeOfLeaving ==
  ASSUME TypeOK, NEW p \in Party, wire[p] # <<>>, wire' = [wire EXCEPT ![p] = Tail(@)]
  PROVE  wire' \in [Party -> Seq(Envelope)]
BY HeadOf DEF TypeOK

LEMMA TypeOfFaulty ==
  ASSUME TypeOK, NEW k, Faulty(k)
  PROVE  faults' \in 0..MaxFaults
BY MessagingAssumption DEF TypeOK, Faulty

LEMMA StepTypeSending ==
  ASSUME TypeOK, NEW e \in Envelope,
         Seal(e) \/ Encrypt(e) \/ EncryptFails(e) \/ Transmit(e) \/ Offline(e) \/ SendAnswered(e) \/ SendTimesOut(e)
           \/ Acknowledged(e) \/ AckTimesOut(e)
  PROVE  TypeOK'
<1> USE DEF drops
<1>0. /\ From(e) \in Party /\ e.m \in Message /\ Other(From(e)) \in Party
      /\ {"sent", "failed"} \subseteq Status /\ {"encrypt", "failed", "send", "wait", "done"} \subseteq Label
  BY Envelopes, Parties DEF Status, Label, Running
<1>1. pc' \in [Envelope -> Label]
  BY <1>0, TypeOfGoto DEF Seal, Encrypt, EncryptFails, Transmit, Offline, SendAnswered, SendTimesOut, Acknowledged,
                          AckTimesOut, Sent, Failed
<1>2. status' \in [Party -> [Message -> Status]]
  <2>1. status \in [Party -> [Message -> Status]]
    BY DEF TypeOK, Status
  <2>2. QED
    BY <1>0, <2>1, TypeOfSetting DEF Seal, Encrypt, EncryptFails, Transmit, Offline, SendAnswered, SendTimesOut,
                          Acknowledged, AckTimesOut, Sent, Failed
<1>3. pos' \in [Envelope -> Nat \cup {None}] /\ sendPos' \in [Party -> Nat]
  <2>1. CASE Seal(e)
    BY <1>0, <2>1 DEF Seal, TypeOK
  <2>2. CASE Encrypt(e) \/ EncryptFails(e)
    BY <2>2, TypeOfTaking DEF Encrypt, EncryptFails
  <2>3. QED
    BY <2>1, <2>2 DEF TypeOK, Transmit, Offline, SendAnswered, SendTimesOut, Acknowledged, AckTimesOut
<1>4. wire' \in [Party -> Seq(Envelope)] /\ taken' \subseteq Envelope
  <2>1. CASE Transmit(e)
    BY <1>0, <2>1 DEF Transmit, TypeOK
  <2>2. QED
    BY <2>1 DEF TypeOK, Seal, Encrypt, EncryptFails, Offline, SendAnswered, SendTimesOut, Acknowledged, AckTimesOut
<1>5. faults' \in 0..MaxFaults
  BY TypeOfFaulty DEF TypeOK, Seal, Encrypt, EncryptFails, Transmit, Offline, SendAnswered, SendTimesOut, Acknowledged,
                      AckTimesOut
<1>6. /\ keys' = keys /\ paired' = paired /\ listening' = listening /\ recvPos' = recvPos /\ handled' = handled
      /\ early' = early /\ unsaved' = unsaved
  BY DEF Seal, Encrypt, EncryptFails, Transmit, Offline, SendAnswered, SendTimesOut, Acknowledged, AckTimesOut
<1>7. QED
  BY <1>1, <1>2, <1>3, <1>4, <1>5, <1>6 DEF TypeOK, Label, Status

LEMMA StepTypeComposing ==
  ASSUME TypeOK, NEW m \in Message, Compose(m) \/ DistributeKey(m) \/ MarkRead(m)
  PROVE  TypeOK'
<1> USE DEF drops
<1>0. /\ Env("msg", m) \in Envelope /\ Env("read", m) \in Envelope /\ Author[m] \in Party /\ Reader(m) \in Party
      /\ {"sending", "read"} \subseteq Status /\ {"encrypt", "seal"} \subseteq Label
  BY Envelopes, Parties, Kinds3 DEF Status, Label, Running
<1>1. pc' \in [Envelope -> Label]
  BY <1>0, TypeOfGoto DEF Compose, DistributeKey, MarkRead
<1>2. status' \in [Party -> [Message -> Status]]
  <2>1. status \in [Party -> [Message -> Status]]
    BY DEF TypeOK, Status
  <2>2. QED
    BY <1>0, <2>1, TypeOfSetting DEF Compose, DistributeKey, MarkRead
<1>3. /\ keys' = keys /\ paired' = paired /\ listening' = listening /\ recvPos' = recvPos /\ handled' = handled
      /\ early' = early /\ unsaved' = unsaved /\ pos' = pos /\ sendPos' = sendPos /\ wire' = wire /\ taken' = taken
      /\ faults' = faults
  BY DEF Compose, DistributeKey, MarkRead
<1>4. QED
  BY <1>1, <1>2, <1>3 DEF TypeOK, Label, Status

LEMMA StepTypeReceiving ==
  ASSUME TypeOK, NEW p \in Party, Unknown(p) \/ OutOfOrder(p) \/ Receive(p) \/ ReceiveFails(p) \/ Lose(p)
  PROVE  TypeOK'
<1> USE DEF drops
<1>0. /\ wire[p] # <<>> /\ wire' = [wire EXCEPT ![p] = Tail(@)]
      /\ keys' = keys /\ paired' = paired /\ listening' = listening /\ pos' = pos /\ sendPos' = sendPos /\ taken' = taken
  BY DEF Unknown, OutOfOrder, Receive, ReceiveFails, Lose, Arrives
<1>1. PICK e \in Envelope : e = Head(wire[p])
  BY <1>0, HeadOf
<1>2. wire' \in [Party -> Seq(Envelope)]
  BY <1>0, TypeOfLeaving
<1>3. pc' \in [Envelope -> Label] /\ status' \in [Party -> [Message -> Status]]
  <2>1. pc \in [Envelope -> Label] /\ status \in [Party -> [Message -> Status]]
    BY DEF TypeOK, Status, Label
  <2>2. CASE Receive(p)
    <3>1. Handle(p, e)
      BY <1>1, <2>2 DEF Receive
    <3>2. e.m \in Message /\ e.kind \in Kind /\ Env("delivered", e.m) \in Envelope
      BY Envelopes, Kinds3
    <3>3. "ack" \in Label /\ {"delivered", "read"} \subseteq Status
      BY DEF Label, Status, Running
    <3>4. QED
      BY <2>1, <3>1, <3>2, <3>3, TypeOfGoto, TypeOfSetting, Kinds3 DEF Handle
  <2>3. QED
    BY <2>1, <2>2 DEF Unknown, OutOfOrder, ReceiveFails, Lose
<1>4. recvPos' \in [Party -> Nat]
  BY DEF TypeOK, Unknown, OutOfOrder, Receive, ReceiveFails, Lose
<1>5. handled' \subseteq Envelope /\ early' \subseteq Envelope /\ unsaved' \subseteq Envelope
  BY <1>1 DEF TypeOK, Unknown, OutOfOrder, Receive, ReceiveFails, Lose
<1>6. faults' \in 0..MaxFaults
  BY TypeOfFaulty DEF TypeOK, Unknown, OutOfOrder, Receive, ReceiveFails, Lose
<1>7. QED
  BY <1>0, <1>2, <1>3, <1>4, <1>5, <1>6 DEF TypeOK, Label, Status

LEMMA StepType ==
  ASSUME TypeOK, Next
  PROVE  TypeOK'
<1>1. ASSUME NEW p \in Party, Subscribe(p) \/ SaveContact(p) PROVE TypeOK'
  BY <1>1 DEF Subscribe, SaveContact, TypeOK, drops
<1>2. ASSUME NEW p \in Party, Reload(p) PROVE TypeOK'
  <2>1. pc' \in [Envelope -> Running \cup {"idle", "done", "failed", "gone"}]
    BY <1>2 DEF Reload, TypeOK
  <2>2. sendPos' \in [Party -> Nat]
    BY <1>2 DEF Reload, TypeOK
  <2>5. listening' \in [Party -> BOOLEAN]
    BY <1>2 DEF Reload, TypeOK
  <2>6. paired' \in [Party -> {"no", "subscribed", "paired"}]
    BY <1>2 DEF Reload, TypeOK
  <2>3. faults' \in 0..MaxFaults
    BY <1>2, TypeOfFaulty DEF Reload
  <2>4. QED
    BY <1>2, <2>1, <2>2, <2>3, <2>5, <2>6 DEF Reload, TypeOK, drops
<1>3. QED
  BY <1>1, <1>2, StepTypeSending, StepTypeComposing, StepTypeReceiving DEF Next, Step, Incoming

-----------------------------------------------------------------------------
(* What the two sides show                                                 *)

SetsAt(p, m, s) == \A q \in Party, n \in Message :
  status'[q][n] = IF q = p /\ n = m THEN s ELSE status[q][n]

\* A step of the abstract specification, about message m.
TickOf(m) ==
  \/ m \in Text /\ status[Author[m]][m] = "absent" /\ SetsAt(Author[m], m, "sending")
  \/ status[Author[m]][m] = (IF m \in File THEN "absent" ELSE "sending") /\ SetsAt(Author[m], m, "sent")
  \/ status[Author[m]][m] = "sending" /\ SetsAt(Author[m], m, "failed")
  \/ status[Reader(m)][m] = "absent" /\ SetsAt(Reader(m), m, "delivered")
  \/ status[Reader(m)][m] = "delivered" /\ SetsAt(Reader(m), m, "read")
  \/ \E news \in {"delivered", "read"} :
        status[Reader(m)][m] \in {news, "read"} /\ status[Author[m]][m] # "absent" /\ SetsAt(Author[m], m, news)

Tells == status' = status \/ \E m \in Message : TickOf(m)

LEMMA SettingAt ==
  ASSUME TypeOK, NEW p \in Party, NEW m \in Message, NEW s
  PROVE  /\ AddMessage(p, m, s) => IF status[p][m] = "absent" THEN SetsAt(p, m, s) ELSE status' = status
         /\ SetStatus(p, m, s) => IF status[p][m] = "absent" THEN status' = status ELSE SetsAt(p, m, s)
<1>1. status \in [Party -> [Message -> Status]]
  BY DEF TypeOK, Status
<1>2. [status EXCEPT ![p][m] = status[p][m]] = status
  BY <1>1
<1>3. QED
  BY <1>1, <1>2 DEF AddMessage, SetStatus, SetsAt

LEMMA AuthorSets ==
  ASSUME NEW m \in Message, NEW s, SetsAt(Author[m], m, s), NEW n \in Message
  PROVE  /\ status'[Reader(n)][n] = status[Reader(n)][n]
         /\ status'[Author[n]][n] = IF n = m THEN s ELSE status[Author[n]][n]
BY Parties DEF SetsAt

LEMMA ReaderSets ==
  ASSUME NEW m \in Message, NEW s, SetsAt(Reader(m), m, s), NEW n \in Message
  PROVE  /\ status'[Author[n]][n] = status[Author[n]][n]
         /\ status'[Reader(n)][n] = IF n = m THEN s ELSE status[Reader(n)][n]
BY Parties DEF SetsAt

\* A step that tells nothing.
Quiet ==
  /\ status' = status /\ handled' = handled
  /\ \A e \in Envelope : pc[e] = "idle" /\ e.kind # "msg" => pc'[e] = "idle"
  /\ \A e \in Envelope : e.kind = "msg" =>
        \/ pc'[e] = pc[e] \/ pc'[e] \in {"done", "failed", "gone"}
        \/ pc[e] \in {"encrypt", "send"} /\ pc'[e] \in {"send", "wait"}
        \/ e.m \in keys /\ pc'[e] # "idle"

LEMMA QuietKeeps ==
  ASSUME TypeOK, ReceiptInv, StatusInv, Quiet, keys' = keys
  PROVE  ReceiptInv' /\ StatusInv'
<1>1. \A m \in Message : /\ Env("msg", m) \in Envelope /\ Env("msg", m).kind = "msg" /\ Env("msg", m).m = m
                         /\ Env("delivered", m) \in Envelope /\ Env("delivered", m).kind = "delivered"
                         /\ Env("read", m) \in Envelope /\ Env("read", m).kind = "read"
  BY Envelopes, Kinds3
<1>2. ReceiptInv'
  BY <1>1 DEF Quiet, ReceiptInv
<1>3. /\ \A m \in keys : m \notin File /\ m \notin Text
      /\ Text' = Text
  BY Types, Parties DEF Text
<1>4. StatusInv'
  <2>1. SUFFICES ASSUME NEW m \in Message
                 PROVE  /\ pc'[Env("msg", m)] = "idle" => status[Author[m]][m] = "absent"
                        /\ m \in File /\ pc'[Env("msg", m)] \in {"encrypt", "send", "wait"} => status[Author[m]][m] = "absent"
                        /\ m \in Text /\ pc'[Env("msg", m)] \in {"encrypt", "send", "wait"} => status[Author[m]][m] = "sending"
    BY <1>3 DEF StatusInv, Quiet
  <2>2. \/ pc'[Env("msg", m)] = pc[Env("msg", m)] \/ pc'[Env("msg", m)] \in {"done", "failed", "gone"}
        \/ pc[Env("msg", m)] \in {"encrypt", "send"} /\ pc'[Env("msg", m)] \in {"send", "wait"}
        \/ m \in keys /\ pc'[Env("msg", m)] # "idle"
    BY <1>1 DEF Quiet
  <2>3. QED
    BY <1>3, <2>2 DEF StatusInv
<1>5. QED
  BY <1>2, <1>4

LEMMA QuietSteps ==
  ASSUME TypeOK, StageInv,
         \/ \E p \in Party : Subscribe(p) \/ SaveContact(p) \/ Unknown(p) \/ OutOfOrder(p) \/ ReceiveFails(p) \/ Lose(p) \/ Reload(p)
         \/ \E m \in Message : DistributeKey(m)
         \/ \E e \in Envelope : Seal(e) \/ Encrypt(e) \/ Transmit(e) \/ Offline(e) \/ Acknowledged(e) \/ AckTimesOut(e)
         \/ \E e \in Envelope : e.kind # "msg" /\ (SendAnswered(e) \/ SendTimesOut(e) \/ EncryptFails(e))
  PROVE  Quiet
<1>1. ASSUME NEW p \in Party, Subscribe(p) \/ SaveContact(p) \/ Unknown(p) \/ OutOfOrder(p) \/ ReceiveFails(p) \/ Lose(p)
      PROVE  Quiet
  BY <1>1 DEF Subscribe, SaveContact, Unknown, OutOfOrder, ReceiveFails, Lose, Quiet, drops
<1>2. ASSUME NEW p \in Party, Reload(p) PROVE Quiet
  BY <1>2 DEF Reload, Running, Quiet, drops
<1>3. ASSUME NEW m \in Message, DistributeKey(m) PROVE Quiet
  <2>1. Env("msg", m) \in Envelope /\ Env("msg", m).kind = "msg" /\ Env("msg", m).m = m
    BY Envelopes, Kinds3
  <2>2. PcAt(Env("msg", m), "seal") /\ m \in keys
    BY <1>3, <2>1, GotoAt DEF DistributeKey
  <2>3. QED
    BY <1>3, <2>1, <2>2 DEF DistributeKey, Quiet, PcAt, drops
<1>4. ASSUME NEW e \in Envelope, Seal(e) \/ Encrypt(e) \/ Transmit(e) \/ Offline(e) PROVE Quiet
  <2>1. CASE Seal(e)
    BY <2>1, GotoAt DEF Seal, StageInv, Quiet, PcAt, drops
  <2>2. CASE Encrypt(e)
    BY <2>2, GotoAt DEF Encrypt, Quiet, PcAt, drops
  <2>3. CASE Transmit(e)
    BY <2>3, GotoAt DEF Transmit, Quiet, PcAt, drops
  <2>4. CASE Offline(e)
    BY <2>4, GotoAt DEF Offline, Quiet, PcAt, drops
  <2>5. QED
    BY <1>4, <2>1, <2>2, <2>3, <2>4
<1>5. ASSUME NEW e \in Envelope, Acknowledged(e) \/ AckTimesOut(e) PROVE Quiet
  <2>1. pc[e] = "ack" /\ e.kind = "delivered"
    BY <1>5 DEF Acknowledged, AckTimesOut, StageInv
  <2>2. CASE Acknowledged(e)
    BY <2>1, <2>2, GotoAt DEF Acknowledged, Quiet, PcAt, drops
  <2>3. CASE AckTimesOut(e)
    BY <2>1, <2>3, GotoAt DEF AckTimesOut, Quiet, PcAt, drops
  <2>4. QED
    BY <1>5, <2>2, <2>3
<1>6. ASSUME NEW e \in Envelope, e.kind # "msg", SendAnswered(e) \/ SendTimesOut(e) \/ EncryptFails(e) PROVE Quiet
  <2>1. CASE SendAnswered(e)
    BY <1>6, <2>1, GotoAt DEF SendAnswered, Sent, Quiet, PcAt, drops
  <2>2. CASE SendTimesOut(e)
    BY <1>6, <2>2, GotoAt DEF SendTimesOut, Failed, Quiet, PcAt, drops
  <2>3. CASE EncryptFails(e)
    BY <1>6, <2>3, GotoAt DEF EncryptFails, Failed, Quiet, PcAt, drops
  <2>4. QED
    BY <1>6, <2>1, <2>2, <2>3
<1>7. QED
  BY <1>1, <1>2, <1>3, <1>4, <1>5, <1>6

LEMMA ComposeTells ==
  ASSUME IInv, NEW m \in Message, Compose(m)
  PROVE  ReceiptInv' /\ StatusInv' /\ Tells
<1>0. TypeOK /\ ReceiptInv /\ StatusInv /\ keys' = keys /\ handled' = handled /\ Text' = Text /\ m \notin keys
  BY DEF IInv, Compose, Text
<1>1. /\ Env("msg", m) \in Envelope /\ Env("msg", m).kind = "msg" /\ Author[m] \in Party
      /\ \A n \in Message : /\ Env("msg", n) \in Envelope /\ Env("msg", n).m = n
                            /\ Env("delivered", n) \in Envelope /\ Env("delivered", n).kind = "delivered"
                            /\ Env("read", n) \in Envelope /\ Env("read", n).kind = "read"
  BY Envelopes, Kinds3, Parties
<1>2. PcAt(Env("msg", m), "encrypt") /\ pc[Env("msg", m)] = "idle" /\ status[Author[m]][m] = "absent"
  BY <1>0, <1>1, GotoAt DEF Compose, StatusInv
<1>3. IF m \in Text THEN SetsAt(Author[m], m, "sending") ELSE status' = status
  BY <1>0, <1>1, <1>2, SettingAt DEF Compose
<1>4. \A n \in Message : /\ status'[Reader(n)][n] = status[Reader(n)][n]
                         /\ status'[Author[n]][n] = IF n = m /\ m \in Text THEN "sending" ELSE status[Author[n]][n]
  BY <1>3, AuthorSets
<1>5. ReceiptInv'
  BY <1>0, <1>1, <1>2, <1>4 DEF ReceiptInv, PcAt
<1>6. StatusInv'
  <2>1. \A n \in Message : pc'[Env("msg", n)] = IF n = m THEN "encrypt" ELSE pc[Env("msg", n)]
    BY <1>1, <1>2 DEF PcAt
  <2>2. m \in File => m \notin Text
    BY DEF Text
  <2>3. QED
    BY <1>0, <1>2, <1>4, <2>1, <2>2 DEF StatusInv
<1>7. QED
  BY <1>2, <1>3, <1>5, <1>6 DEF Tells, TickOf

LEMMA EndTells ==
  ASSUME IInv, NEW e \in Envelope, e.kind = "msg", SendAnswered(e) \/ SendTimesOut(e) \/ EncryptFails(e)
  PROVE  ReceiptInv' /\ StatusInv' /\ Tells
<1> DEFINE m == e.m
<1>0. TypeOK /\ StageInv /\ ReceiptInv /\ StatusInv /\ keys' = keys /\ handled' = handled /\ Text' = Text
  BY DEF IInv, ChainInv, SendAnswered, SendTimesOut, EncryptFails, Text
<1>1. /\ m \in Message /\ e = Env("msg", m) /\ From(e) = Author[m] /\ Author[m] \in Party
      /\ \A n \in Message : /\ Env("msg", n) \in Envelope /\ Env("msg", n).m = n
                            /\ Env("delivered", n) \in Envelope /\ Env("delivered", n).kind = "delivered"
                            /\ Env("read", n) \in Envelope /\ Env("read", n).kind = "read"
  BY Envelopes, Kinds3, Parties
<1> HIDE DEF m
<1>2. /\ m \in keys => status[Author[m]][m] = "absent"
      /\ m \in File /\ m \notin keys => status[Author[m]][m] = "absent"
      /\ m \notin File /\ m \notin keys => status[Author[m]][m] = "sending"
      /\ m \in File => m \notin keys
  <2>1. pc[Env("msg", m)] \in {"encrypt", "wait"} \/ (pc[e] = "seal" /\ m \in keys)
    BY <1>0, <1>1 DEF SendAnswered, SendTimesOut, EncryptFails, StageInv, m
  <2>2. m \in File => m \notin keys
    BY <1>0, Types, Parties
  <2>3. QED
    BY <1>0, <1>1, <2>1, <2>2 DEF StatusInv, Text
<1>3. \E to \in {"done", "failed"} : PcAt(e, to)
  BY <1>0, GotoAt DEF SendAnswered, SendTimesOut, EncryptFails, Sent, Failed
<1>4. \/ status' = status
      \/ m \notin keys /\ SetsAt(Author[m], m, "sent")
      \/ m \notin keys /\ m \notin File /\ SetsAt(Author[m], m, "failed")
  <2>1. CASE SendAnswered(e)
    BY <1>0, <1>1, <1>2, <2>1, SettingAt DEF SendAnswered, Sent, m
  <2>2. CASE SendTimesOut(e) \/ EncryptFails(e)
    <3>1. SetStatus(Author[m], m, "failed")
      BY <1>1, <2>2 DEF SendTimesOut, EncryptFails, Failed, m
    <3>2. QED
      BY <1>0, <1>1, <1>2, <3>1, SettingAt
  <2>3. QED
    BY <2>1, <2>2
<1>5. \A n \in Message : /\ status'[Reader(n)][n] = status[Reader(n)][n]
                         /\ status'[Author[n]][n] # status[Author[n]][n] => n = m /\ m \notin keys
  BY <1>1, <1>4, AuthorSets
<1>6. ReceiptInv'
  BY <1>0, <1>1, <1>3, <1>5 DEF ReceiptInv, PcAt
<1>7. StatusInv'
  <2>1. \A n \in Message : IF n = m THEN pc'[Env("msg", n)] \in {"done", "failed"} ELSE pc'[Env("msg", n)] = pc[Env("msg", n)]
    BY <1>1, <1>3 DEF PcAt
  <2>2. QED
    BY <1>0, <1>5, <2>1 DEF StatusInv
<1>8. Tells
  BY <1>1, <1>2, <1>4 DEF Tells, TickOf
<1>9. QED
  BY <1>6, <1>7, <1>8

LEMMA MarkReadTells ==
  ASSUME IInv, NEW m \in Message, MarkRead(m)
  PROVE  ReceiptInv' /\ StatusInv' /\ Tells
<1>0. TypeOK /\ ReceiptInv /\ StatusInv /\ keys' = keys /\ handled' = handled /\ Text' = Text
  BY DEF IInv, MarkRead, Text
<1>1. /\ Env("read", m) \in Envelope /\ Reader(m) \in Party
      /\ \A n \in Message : /\ Env("msg", n) \in Envelope /\ Env("msg", n).kind = "msg"
                            /\ Env("delivered", n) \in Envelope /\ Env("delivered", n).kind = "delivered"
                            /\ Env("read", n) \in Envelope /\ Env("read", n).kind = "read" /\ Env("read", n).m = n
  BY Envelopes, Kinds3, Parties
<1>2. PcAt(Env("read", m), "encrypt") /\ status[Reader(m)][m] = "delivered"
  BY <1>0, <1>1, GotoAt DEF MarkRead
<1>3. SetsAt(Reader(m), m, "read")
  BY <1>0, <1>1, <1>2, SettingAt DEF MarkRead
<1>4. \A n \in Message : /\ status'[Author[n]][n] = status[Author[n]][n]
                         /\ status'[Reader(n)][n] = IF n = m THEN "read" ELSE status[Reader(n)][n]
  BY <1>3, ReaderSets
<1>5. ReceiptInv'
  BY <1>0, <1>1, <1>2, <1>4 DEF ReceiptInv, PcAt
<1>6. StatusInv'
  <2>1. \A n \in Message : pc'[Env("msg", n)] = pc[Env("msg", n)]
    BY <1>1, <1>2 DEF PcAt
  <2>2. m \notin keys
    BY <1>0, <1>2 DEF StatusInv
  <2>3. QED
    BY <1>0, <1>2, <1>4, <2>1, <2>2 DEF StatusInv
<1>7. QED
  BY <1>2, <1>3, <1>5, <1>6 DEF Tells, TickOf

LEMMA ReceiveTells ==
  ASSUME IInv, NEW p \in Party, Receive(p)
  PROVE  ReceiptInv' /\ StatusInv' /\ Tells
<1>0. TypeOK /\ StageInv /\ WireInv /\ RecvInv /\ ReceiptInv /\ StatusInv /\ keys' = keys /\ Text' = Text
  BY DEF IInv, ChainInv, Receive, Text
<1>1. PICK e \in Envelope : e = Head(wire[p]) /\ e \in Range(wire[p]) /\ wire[p] # <<>>
  BY <1>0, HeadOf DEF Receive, Arrives
<1>2. /\ Handle(p, e) /\ OkComesFirst(e) /\ handled' = handled \cup {e}
      /\ e \in taken /\ From(e) = Other(p) /\ e \notin handled /\ pc[e] \in {"wait", "done", "failed", "gone"}
  BY <1>0, <1>1 DEF Receive, Arrives, WireInv, StageInv
<1>3. PICK m \in Message : m = e.m
  BY <1>1, Envelopes
<1>4. /\ e = Env(e.kind, m) /\ e.kind \in {"msg", "delivered", "read"}
      /\ \A n \in Message : /\ Env("msg", n) \in Envelope /\ Env("msg", n).kind = "msg" /\ Env("msg", n).m = n
                            /\ Env("delivered", n) \in Envelope /\ Env("delivered", n).kind = "delivered"
                            /\ Env("delivered", n).m = n
                            /\ Env("read", n) \in Envelope /\ Env("read", n).kind = "read"
  BY <1>3, Envelopes, Kinds3
<1>5. CASE e.kind = "msg"
  <2>1. p = Reader(m)
    BY <1>2, <1>3, <1>5, Envelopes, Parties
  <2>2. PcAt(Env("delivered", m), "ack")
    BY <1>0, <1>2, <1>3, <1>4, <1>5, GotoAt DEF Handle
  <2>3. status[Reader(m)][m] = "absent"
    BY <1>0, <1>2, <1>3, <1>4, <1>5 DEF StatusInv
  <2>4. IF m \in keys THEN status' = status ELSE SetsAt(Reader(m), m, "delivered")
    BY <1>0, <1>2, <1>3, <1>5, <2>1, <2>3, SettingAt DEF Handle
  <2>5. \A n \in Message : /\ status'[Author[n]][n] = status[Author[n]][n]
                           /\ status'[Reader(n)][n] = IF n = m /\ m \notin keys THEN "delivered" ELSE status[Reader(n)][n]
    BY <2>4, ReaderSets
  <2>6. \A n \in Message : /\ pc'[Env("msg", n)] = pc[Env("msg", n)] /\ pc'[Env("read", n)] = pc[Env("read", n)]
                           /\ n # m => pc'[Env("delivered", n)] = pc[Env("delivered", n)]
    BY <1>4, <2>2 DEF PcAt
  <2>7. ReceiptInv'
    <3>1. pc[Env("read", m)] = "idle"
      BY <1>0, <2>3 DEF ReceiptInv
    <3>2. QED
      BY <1>0, <1>2, <1>4, <1>5, <2>5, <2>6, <3>1 DEF ReceiptInv
  <2>8. StatusInv'
    <3>1. \A n \in Message : Env("msg", n) \in handled' <=> Env("msg", n) \in handled \/ n = m
      BY <1>2, <1>4, <1>5
    <3>2. QED
      BY <1>0, <2>3, <2>5, <2>6, <3>1 DEF StatusInv
  <2>9. QED
    BY <2>3, <2>4, <2>7, <2>8 DEF Tells, TickOf
<1>6. CASE e.kind # "msg"
  <2>1. p = Author[m]
    BY <1>2, <1>3, <1>6, Envelopes, Parties
  <2>2. pc' = pc
    BY <1>2, <1>6 DEF Handle
  <2>3. IF status[Author[m]][m] = "absent" THEN status' = status ELSE SetsAt(Author[m], m, e.kind)
    BY <1>0, <1>2, <1>3, <1>6, <2>1, SettingAt DEF Handle
  <2>4. Env("msg", m) \in handled /\ status[Reader(m)][m] \in {"absent", e.kind, "read"}
    BY <1>0, <1>2, <1>4, <1>6 DEF ReceiptInv, StatusInv
  <2>5. pc[Env("msg", m)] \in {"done", "failed", "gone"}
    BY <1>0, <1>2, <1>3, <1>4, <1>6, <2>4 DEF RecvInv, StageInv, OkComesFirst
  <2>6. m \in keys => status[Author[m]][m] = "absent"
    BY <1>0 DEF StatusInv
  <2>7. m \notin keys => status[Reader(m)][m] \in {e.kind, "read"}
    BY <1>0, <2>4 DEF StatusInv
  <2>8. \A n \in Message : /\ status'[Reader(n)][n] = status[Reader(n)][n]
                           /\ status'[Author[n]][n] # status[Author[n]][n] => n = m /\ m \notin keys
    BY <2>3, <2>6, AuthorSets
  <2>9. \A n \in Message : Env("msg", n) \in handled' <=> Env("msg", n) \in handled
    BY <1>2, <1>4, <1>6
  <2>10. ReceiptInv'
    BY <1>0, <2>2, <2>8, <2>9 DEF ReceiptInv
  <2>11. StatusInv'
    BY <1>0, <2>2, <2>5, <2>8, <2>9 DEF StatusInv
  <2>12. QED
    BY <1>4, <1>6, <2>3, <2>6, <2>7, <2>10, <2>11 DEF Tells, TickOf
<1>7. QED
  BY <1>5, <1>6

LEMMA StepTells ==
  ASSUME IInv, Next
  PROVE  ReceiptInv' /\ StatusInv' /\ Tells
<1>0. TypeOK /\ StageInv /\ ReceiptInv /\ StatusInv /\ keys' = keys
  BY Kinds DEF IInv, ChainInv
<1>1. CASE Quiet
  BY <1>0, <1>1, QuietKeeps DEF Tells, Quiet
<1>2. CASE ~Quiet
  <2>1. \/ \E m \in Message : Compose(m) \/ MarkRead(m)
        \/ \E p \in Party : Receive(p)
        \/ \E e \in Envelope : e.kind = "msg" /\ (SendAnswered(e) \/ SendTimesOut(e) \/ EncryptFails(e))
    BY <1>0, <1>2, QuietSteps DEF Next, Step, Incoming
  <2>2. QED
    BY <2>1, ComposeTells, EndTells, MarkReadTells, ReceiveTells
<1>3. QED
  BY <1>1, <1>2

-----------------------------------------------------------------------------
(* The inductive invariant holds                                           *)

LEMMA InitInv ==
  ASSUME Init
  PROVE  IInv
<1>0. /\ None \notin Nat /\ MaxFaults \in Nat
      /\ \A p \in Party : wire[p] = <<>> /\ sendPos[p] = 0 /\ recvPos[p] = 0 /\ Other(p) \in Party
      /\ \A e \in Envelope : pc[e] = "idle" /\ pos[e] = None /\ From(e) \in Party
      /\ taken = {} /\ handled = {} /\ unsaved = {} /\ early = {}
  BY MessagingAssumption, Parties, Envelopes DEF Init
<1>1. TypeOK
  <2>1. <<>> \in Seq(Envelope) /\ 0 \in 0..MaxFaults
    BY <1>0
  <2>2. QED
    BY <2>1 DEF Init, TypeOK
<1>2. \A p \in Party : Range(wire[p]) = {} /\ \A e, f \in Envelope : ~Before(e, f, wire[p])
  BY <1>0 DEF Range, Before
<1>3. ChainInv
  BY <1>0, <1>2 DEF ChainInv, StageInv, PosInv, WireInv, OrderInv, RecvInv
<1>4. \A m \in Message : /\ pc[Env("delivered", m)] = "idle" /\ pc[Env("read", m)] = "idle" /\ pc[Env("msg", m)] = "idle"
                         /\ status[Author[m]][m] = "absent" /\ status[Reader(m)][m] = "absent"
  BY Envelopes, Kinds3, Parties DEF Init
<1>5. ReceiptInv /\ StatusInv
  BY <1>0, <1>4 DEF ReceiptInv, StatusInv
<1>6. CoverInv
  BY <1>0 DEF CoverInv
<1>7. QED
  BY <1>1, <1>3, <1>5, <1>6 DEF IInv

LEMMA StepInv ==
  ASSUME IInv, Next
  PROVE  IInv'
<1>0. TypeOK /\ ChainInv /\ StageInv /\ PosInv /\ WireInv /\ OrderInv /\ RecvInv /\ ReceiptInv /\ CoverInv
  BY DEF IInv, ChainInv
<1>1. Moves /\ keys' = keys
  BY <1>0, Kinds
<1>2. TypeOK'
  BY <1>0, StepType
<1>3. ChainInv'
  BY <1>0, <1>1, StepStage, StepPos, StepWire, StepOrder, StepRecv DEF ChainInv
<1>4. ReceiptInv' /\ StatusInv'
  BY StepTells
<1>5. CoverInv'
  BY <1>0, <1>1, StepCover
<1>6. QED
  BY <1>2, <1>3, <1>4, <1>5 DEF IInv

LEMMA StutterInv ==
  ASSUME IInv, UNCHANGED vars
  PROVE  IInv'
<1>1. /\ keys' = keys /\ paired' = paired /\ listening' = listening /\ status' = status /\ pc' = pc /\ pos' = pos
      /\ sendPos' = sendPos /\ recvPos' = recvPos /\ wire' = wire /\ taken' = taken /\ handled' = handled
      /\ early' = early /\ unsaved' = unsaved /\ faults' = faults
  BY DEF vars, drops
<1>2. TypeOK'
  BY <1>1 DEF IInv, TypeOK
<1>3. ChainInv'
  BY <1>1 DEF IInv, ChainInv, StageInv, PosInv, WireInv, OrderInv, RecvInv
<1>4. ReceiptInv' /\ StatusInv'
  BY <1>1 DEF IInv, ReceiptInv, StatusInv, Text
<1>5. CoverInv'
  BY <1>1 DEF IInv, CoverInv, Smooth
<1>6. QED
  BY <1>2, <1>3, <1>4, <1>5 DEF IInv

LEMMA MessagingAlways == Spec => []IInv
<1>1. Init => IInv
  BY InitInv
<1>2. IInv /\ [Next]_vars => IInv'
  BY StepInv, StutterInv
<1>3. QED
  BY <1>1, <1>2, PTL DEF Spec

-----------------------------------------------------------------------------
(* The theorems                                                            *)

\* In every state of a conversation the variables have their types, and what a
\* party has handled has no hole but for what it could not save: sendTextMessage,
\* handleIncomingMessage and decryptMessage, whatever is lost, late or reloaded.
THEOREM MessagingKeepsItsWord == Spec => []MessagingInv
<1>1. ASSUME IInv PROVE MessagingInv
  <2>1. TypeOK /\ RecvInv /\ StageInv
    BY <1>1 DEF IInv, ChainInv
  <2>2. NoHoleInTheConversation
    <3>1. SUFFICES ASSUME NEW e \in handled, NEW f \in Envelope, From(f) = From(e), pos[f] # None, pos[f] < pos[e]
                   PROVE  f \in handled \cup unsaved
      BY DEF NoHoleInTheConversation
    <3>2. /\ e \in Envelope /\ Other(From(e)) \in Party /\ recvPos[Other(From(e))] \in Nat
          /\ pos[e] \in Nat \cup {None} /\ pos[f] \in Nat \cup {None}
      BY <2>1, Types, Envelopes, Parties
    <3>3. pos[e] \in Nat /\ pos[e] < recvPos[Other(From(e))]
      BY <2>1, <3>2 DEF RecvInv, StageInv
    <3>4. pos[f] < recvPos[Other(From(f))]
      BY <3>1, <3>2, <3>3
    <3>5. QED
      BY <2>1, <3>1, <3>4 DEF RecvInv
  <2>3. QED
    BY <2>1, <2>2 DEF MessagingInv
<1>2. QED
  BY <1>1, MessagingAlways, PTL

\* A conversation gets stuck by a fault, by a message that came before
\* acceptInvitation had saved the contact, or by a group key on its way, and by
\* nothing else: no interleaving of the two pages does it alone.
THEOREM StuckForACause == Spec => []StuckNeedsCause
<1>1. ASSUME IInv PROVE StuckNeedsCause
  <2>1. SUFFICES ASSUME NEW p \in Party, Stuck(p), ~(faults > 0), early = {},
                        \A g \in keys : Author[g] # p => pc[Env("msg", g)] \in {"idle", "seal"}
                 PROVE  FALSE
    BY DEF StuckNeedsCause
  <2>2. TypeOK /\ CoverInv
    BY <1>1 DEF IInv
  <2>3. faults = 0 /\ recvPos[p] \in Nat
    BY <2>1, <2>2, Types
  <2>4. PICK f \in Envelope : From(f) = Other(p) /\ pos[f] = recvPos[p] /\ (pc[f] = "send" \/ f \in Range(wire[p]))
    BY <2>1, <2>2, <2>3 DEF Smooth, CoverInv, Stuck
  <2>5. QED
    BY <2>1, <2>4, Parties DEF Stuck
<1>2. QED
  BY <1>1, MessagingAlways, PTL

-----------------------------------------------------------------------------
(* The refinement                                                          *)

LEMMA AuthorMaps ==
  ASSUME TypeOK, NEW m \in Message, NEW s, SetsAt(Author[m], m, s)
  PROVE  Mine' = [Mine EXCEPT ![m] = s] /\ Theirs' = Theirs
BY AuthorSets, ZenonT(60) DEF Mine, Theirs

LEMMA ReaderMaps ==
  ASSUME TypeOK, NEW m \in Message, NEW s, SetsAt(Reader(m), m, s)
  PROVE  Theirs' = [Theirs EXCEPT ![m] = s] /\ Mine' = Mine
BY ReaderSets DEF Mine, Theirs

LEMMA TickMaps ==
  ASSUME TypeOK, NEW m \in Message, TickOf(m)
  PROVE  Ticks!Next
<1>0. /\ Mine[m] = status[Author[m]][m] /\ Theirs[m] = status[Reader(m)][m]
      /\ status[Author[m]][m] \in {"absent", "sending", "sent", "failed", "delivered", "read"}
  BY Parties DEF Mine, Theirs, TypeOK
<1>1. CASE m \in Text /\ status[Author[m]][m] = "absent" /\ SetsAt(Author[m], m, "sending")
  <2>1. m \notin File /\ Ticks!Compose(m)
    BY <1>0, <1>1, AuthorMaps DEF Text, Ticks!Compose, Ticks!AuthorSees
  <2>2. QED
    BY <2>1 DEF Ticks!Next
<1>2. CASE status[Author[m]][m] = (IF m \in File THEN "absent" ELSE "sending") /\ SetsAt(Author[m], m, "sent")
  <2>1. Ticks!Confirm(m)
    BY <1>0, <1>2, AuthorMaps DEF Ticks!Confirm, Ticks!AuthorSees
  <2>2. QED
    BY <2>1 DEF Ticks!Next
<1>3. CASE status[Author[m]][m] = "sending" /\ SetsAt(Author[m], m, "failed")
  <2>1. Ticks!Fail(m)
    BY <1>0, <1>3, AuthorMaps DEF Ticks!Fail, Ticks!AuthorSees
  <2>2. QED
    BY <2>1 DEF Ticks!Next
<1>4. CASE status[Reader(m)][m] = "absent" /\ SetsAt(Reader(m), m, "delivered")
  <2>1. Ticks!Show(m)
    BY <1>0, <1>4, ReaderMaps DEF Ticks!Show, Ticks!Recipient
  <2>2. QED
    BY <2>1 DEF Ticks!Next
<1>5. CASE status[Reader(m)][m] = "delivered" /\ SetsAt(Reader(m), m, "read")
  <2>1. Ticks!Read(m)
    BY <1>0, <1>5, ReaderMaps DEF Ticks!Read, Ticks!Recipient
  <2>2. QED
    BY <2>1 DEF Ticks!Next
<1>6. ASSUME NEW news \in {"delivered", "read"}, status[Reader(m)][m] \in {news, "read"},
             status[Author[m]][m] # "absent", SetsAt(Author[m], m, news)
      PROVE  Ticks!Next
  <2>1. Ticks!Learn(m)
    BY <1>0, <1>6, AuthorMaps DEF Ticks!Learn, Ticks!AuthorSees
  <2>2. QED
    BY <2>1 DEF Ticks!Next
<1>7. QED
  BY <1>1, <1>2, <1>3, <1>4, <1>5, <1>6 DEF TickOf

\* The ticks tell the truth: the conversation of the two bridges implements the
\* abstract one of MessageTicks, so "sent" and "failed" of a sending function
\* never replace a receipt's news, and no receipt says more than the other side
\* shows (sendTextMessage, sendFile, handleIncomingMessage, markMessageAsRead).
THEOREM TicksAreTrue == Spec => TicksTellTheTruth
<1>1. ASSUME Init PROVE Ticks!Init
  <2>1. \A m \in Message : status[Author[m]][m] = "absent" /\ status[Reader(m)][m] = "absent"
    BY <1>1, Parties DEF Init
  <2>2. QED
    BY <2>1 DEF Ticks!Init, Mine, Theirs
<1>2. ASSUME IInv, [Next]_vars PROVE [Ticks!Next]_Ticks!vars
  <2>1. CASE Next
    <3>1. CASE status' = status
      BY <3>1 DEF Ticks!vars, Mine, Theirs
    <3>2. ASSUME NEW m \in Message, TickOf(m) PROVE Ticks!Next
      BY <1>2, <3>2, TickMaps DEF IInv
    <3>3. QED
      BY <1>2, <2>1, <3>1, <3>2, StepTells DEF Tells
  <2>2. CASE UNCHANGED vars
    BY <2>2 DEF vars, Ticks!vars, Mine, Theirs
  <2>3. QED
    BY <1>2, <2>1, <2>2
<1>3. QED
  BY <1>1, <1>2, MessagingAlways, PTL DEF Spec, Ticks!Spec, TicksTellTheTruth

-----------------------------------------------------------------------------
(* The files of the conversation: the same for FileTransfer, for any       *)
(* number of files, requests and failures.  Files is that module; its      *)
(* kinds and bound of failures are FileFault and MaxFileFaults here, and   *)
(* what it calls taken is handedOver.                                      *)
(*                                                                         *)
(* The argument: an id is given to one file by one device, whose store has *)
(* it, or has lost a put of it, from the moment its message may go out;    *)
(* and what goes out, waits or is on its way carries the data it says it   *)
(* carries.  The rest says what a task may leave behind when it ends.      *)

CONSTANTS Inviter, Invitee, MaxFiles, MaxRequests, MaxFileFaults, FileFault
VARIABLES media, pairing, db, files, committing, deaf, sent, shown, tasks, stream, drawn, requests,
          owner, announced, unsure, handedOver, mishap, torn, fileFaults

Files == INSTANCE FileTransfer
    WITH MaxFaults <- MaxFileFaults, Fault <- FileFault, taken <- handedOver, faults <- fileFaults

\* What FileTransfer assumes of its constants.
FileBounds ==
    /\ Inviter # Invitee
    /\ MaxFiles \in Nat /\ MaxRequests \in Nat /\ MaxFileFaults \in Nat
    /\ FileFault \subseteq Files!FaultKind

-----------------------------------------------------------------------------
(* The inductive invariant of the files                                    *)

\* The types, with the functions' domains.
Shape ==
    /\ Files!TypeOK
    /\ tasks \in [Files!Device -> SUBSET Files!Task]
    /\ stream \in [Files!Device -> Seq(Files!Frame)]
    /\ shown \in [Files!Device -> SUBSET Files!File]
    /\ handedOver \in [Files!Device -> SUBSET Files!File]
    /\ mishap \in [Files!Device -> SUBSET Files!File]
    /\ torn \in [Files!Device -> SUBSET Files!File]
    /\ committing \in [Files!Device -> SUBSET Files!File]

\* A device has its media key from the moment it is stored, unless the page is loaded
\* again before the contact is added.
KeyInv ==
    \A d \in Files!Device :
        media[d] = IF pairing[d] \in {"keys", "contact"} THEN "shared key's" ELSE "none"

\* An embedded file that will be taken is there.
Carries(frame) ==
    frame.kind = "FILE_DATA" /\ frame.meta => frame.data # Files!Nothing

\* A device has, or had, what is stored under an id.
Had(d, f) == files[d][f] # Files!Nothing \/ f \in torn[d]

\* A receipt on its way to d's peer, or from it to d, tells the truth.
TaskOK(d, t) ==
    /\ Carries(t.frame)
    /\ t.frame.kind = "RECEIPT" => t.frame.file \in shown[d]
    /\ t.do \in {"store", "post", "wait"} =>
         /\ owner[t.frame.file] = d /\ t.frame.file <= drawn
         /\ t.frame.data # Files!Nothing /\ t.frame.kind \in {"FILE", "FILE_DATA"}
    /\ t.do \in {"post", "wait"} => Had(d, t.frame.file)
    /\ t.do = "keep" => t.frame.kind = "FILE_DATA" /\ t.frame.meta
FrameOK(d, frame) ==
    /\ Carries(frame)
    /\ frame.kind = "RECEIPT" => frame.file \in shown[Files!Peer(d)]

TasksInv  == \A d \in Files!Device : \A t \in tasks[d] : TaskOK(d, t)
On(d) == {stream[d][i] : i \in 1..Len(stream[d])}
StreamInv == \A d \in Files!Device : \A x \in On(d) : FrameOK(d, x)

AnnouncedInv == \A f \in announced : f <= drawn

FilesIInv ==
    /\ Shape /\ KeyInv /\ TasksInv /\ StreamInv /\ AnnouncedInv
    /\ Files!AnnouncedIsStored /\ Files!UnseenBySenderNeedsMishap
    /\ Files!LostMessageNeedsMishap /\ Files!DeliveredIsShown

-----------------------------------------------------------------------------
(* What a step of the files may do                                         *)

\* Why a task may be gone.
Ends(d, t) ==
    /\ t.do = "wait" => sent'[d][t.frame.file] # "none" \/ t.frame.file \in mishap'[d]
    /\ t.do = "keep" => t.frame.file \in shown'[d] \cup mishap'[d]

Announces(f) ==
    /\ f <= drawn /\ (files'[owner[f]][f] # Files!Nothing \/ f \in torn'[owner[f]])
    /\ f \in unsure' \/ \E t \in tasks'[owner[f]] : t.frame.file = f /\ t.do = "wait"

Draws    == drawn <= drawn' /\ \A f \in Files!File : f <= drawn => owner'[f] = owner[f]
Grows    == /\ \A d \in Files!Device : shown[d] \subseteq shown'[d] /\ mishap[d] \subseteq mishap'[d]
            /\ unsure \subseteq unsure'
FilesOf  == \A d \in Files!Device, f \in Files!File : Had(d, f) => Had(d, f)'
NewTasks == \A d \in Files!Device : \A t \in tasks'[d] : t \in tasks[d] \/ TaskOK(d, t)'
OldTasks == \A d \in Files!Device : \A t \in tasks[d] : t \in tasks'[d] \/ Ends(d, t)
Streams  == \A d \in Files!Device : \A x \in On(d)' : x \in On(d) \/ FrameOK(d, x)'
FileTells    == \A f \in announced' : f \in announced \/ Announces(f)
FileTicks    == \A d \in Files!Device, f \in Files!File :
                /\ sent[d][f] # "none" => sent'[d][f] # "none"
                /\ sent'[d][f] = "delivered" => sent[d][f] = "delivered" \/ f \in shown[Files!Peer(d)]
Takes    == \A d \in Files!Device : \A f \in handedOver'[d] :
                \/ f \in handedOver[d] \/ f \in shown'[d]
                \/ \E t \in tasks'[d] : t.do = "keep" /\ t.frame.file = f

FileStep ==
    /\ Shape' /\ KeyInv' /\ Draws /\ Grows /\ FilesOf /\ NewTasks /\ OldTasks /\ Streams
    /\ FileTells /\ FileTicks /\ Takes

\* What the assumption on the constants says of the sets built from them.
LEMMA Constants ==
  ASSUME FileBounds
  PROVE
    /\ Inviter # Invitee /\ MaxFiles \in Nat /\ MaxRequests \in Nat /\ MaxFileFaults \in Nat
    /\ \A f \in Files!File : f \in Nat /\ f # 0
    /\ \A n \in 0..MaxFiles : n \in Nat
    /\ \A data \in Files!Data : data.of \in Nat
    /\ \A d \in Files!Device : Files!Peer(d) \in Files!Device /\ Files!Peer(d) # d /\ Files!Peer(Files!Peer(d)) = d
    /\ \A d, e \in Files!Device : e = d \/ e = Files!Peer(d)
BY DEF FileBounds, Files!Device, Files!Peer, Files!File, Files!Data

\* The types of what the steps below take out of the state.
LEMMA Shapes ==
    ASSUME FileBounds, Shape
    PROVE  /\ drawn \in 0..MaxFiles /\ drawn \in Nat /\ announced \subseteq Files!File /\ unsure \subseteq Files!File
           /\ owner \in [Files!File -> Files!Device]
           /\ files \in [Files!Device -> [Files!File -> Files!Data]]
           /\ \A d \in Files!Device,
               f \in Files!File : files[d][f] \in Files!Data
           /\ \A d \in Files!Device : \A t \in tasks[d] :
                t \in Files!Task /\ t.frame \in Files!Frame /\ t.frame.file \in Files!File /\ t.frame.data \in Files!Data
           /\ \A d \in Files!Device : \A x \in On(d) : x \in Files!Frame
<1>1. drawn \in 0..MaxFiles /\ announced \subseteq Files!File /\ unsure \subseteq Files!File
      /\ owner \in [Files!File -> Files!Device]
  BY DEF Shape, Files!TypeOK
<1>7. drawn \in Nat
  BY <1>1, Constants
<1>2. files \in [Files!Device -> [Files!File -> Files!Data]]
  BY DEF Shape, Files!TypeOK
<1>3. ASSUME NEW d \in Files!Device,
             NEW f \in Files!File PROVE files[d][f] \in Files!Data
  BY <1>2
<1>4. ASSUME NEW d \in Files!Device, NEW t \in tasks[d]
      PROVE  t \in Files!Task /\ t.frame \in Files!Frame /\ t.frame.file \in Files!File /\ t.frame.data \in Files!Data
  <2>1. t \in Files!Task
    BY DEF Shape
  <2>2. QED
    BY <2>1 DEF Files!Task, Files!Frame
<1>5. ASSUME NEW d \in Files!Device, NEW x \in On(d) PROVE x \in Files!Frame
  <2>1. stream[d] \in Seq(Files!Frame)
    BY DEF Shape
  <2>2. QED
    BY <2>1, ElementOfSeq DEF On
<1>6. QED
  BY <1>1, <1>7, <1>2, <1>3, <1>4, <1>5

\* A step that does what it may keeps the invariant.
LEMMA StepKeeps == ASSUME FileBounds, FilesIInv, FileStep PROVE FilesIInv'
<1>1. /\ drawn \in Nat /\ drawn' \in Nat /\ drawn <= drawn' /\ announced \subseteq Files!File
      /\ \A f \in Files!File : f <= drawn => owner'[f] = owner[f]
      /\ \A d \in Files!Device : shown[d] \subseteq shown'[d] /\ mishap[d] \subseteq mishap'[d]
      /\ \A f \in Files!File : f \in Nat
  <2>1. Shape /\ Shape'
    BY DEF FilesIInv, FileStep
  <2>2. drawn' \in Nat
    <3>1. drawn' \in 0..MaxFiles
      BY <2>1 DEF Shape, Files!TypeOK
    <3>2. QED
      BY <3>1, Constants
  <2>3. QED
    BY <2>1, <2>2, Shapes, Constants DEF FileStep, Draws, Grows
<1>2. \A d \in Files!Device, f \in Files!File :
          files[d][f] # Files!Nothing \/ f \in torn[d] =>
              files'[d][f] # Files!Nothing \/ f \in torn'[d]
  BY DEF FileStep, FilesOf, Had
<1>4. TasksInv'
  <2>1. ASSUME NEW d \in Files!Device, NEW t \in tasks'[d], t \in tasks[d] PROVE TaskOK(d, t)'
    <3>1. TaskOK(d, t) /\ t.frame \in Files!Frame /\ t.frame.file \in Files!File /\ t.frame.data \in Files!Data
      BY <2>1, Shapes DEF FilesIInv, TasksInv
    <3>2. Carries(t.frame)'
      BY <3>1 DEF TaskOK, Carries
    <3>3. t.frame.kind = "RECEIPT" => t.frame.file \in shown'[d]
      BY <1>1, <3>1 DEF TaskOK
    <3>4. t.frame.file <= drawn => t.frame.file <= drawn' /\ owner'[t.frame.file] = owner[t.frame.file]
      <4>1. t.frame.file \in Nat
        BY <1>1, <3>1
      <4>2. QED
        BY <1>1, <3>1, <4>1
    <3>5. Had(d, t.frame.file) => Had(d, t.frame.file)'
      BY <1>2, <3>1 DEF Had
    <3>6. QED
      BY <3>1, <3>2, <3>3, <3>4, <3>5 DEF TaskOK
  <2>2. QED
    BY <2>1 DEF TasksInv, FileStep, NewTasks
<1>5. StreamInv'
  <2>1. ASSUME NEW d \in Files!Device, NEW x \in On(d), x \in On(d)' PROVE FrameOK(d, x)'
    <3>1. FrameOK(d, x) /\ x \in Files!Frame /\ Files!Peer(d) \in Files!Device
      BY <2>1, Shapes, Constants DEF FilesIInv, StreamInv
    <3>2. QED
      BY <1>1, <3>1 DEF FrameOK, Carries
  <2>2. QED
    BY <2>1 DEF StreamInv, FileStep, Streams
<1>7. ASSUME NEW f \in announced, f \in announced'
      PROVE  /\ f \in Files!File /\ f <= drawn /\ f <= drawn' /\ owner'[f] = owner[f] /\ owner[f] \in Files!Device
             /\ files'[owner[f]][f] # Files!Nothing \/ f \in torn'[owner[f]]
             /\ \/ sent'[owner[f]][f] # "none" \/ f \in unsure' \/ f \in mishap'[owner[f]]
                \/ \E t \in tasks'[owner[f]] : t.frame.file = f /\ t.do = "wait"
  <2>1. f \in Files!File /\ f <= drawn /\ f <= drawn' /\ owner'[f] = owner[f] /\ owner[f] \in Files!Device
    BY <1>1, Shapes DEF FilesIInv, AnnouncedInv
  <2>2. files[owner[f]][f] # Files!Nothing \/ f \in torn[owner[f]]
    BY DEF FilesIInv, Files!AnnouncedIsStored
  <2>7. files'[owner[f]][f] # Files!Nothing \/ f \in torn'[owner[f]]
    BY <1>2, <2>1, <2>2
  <2>3. \/ sent[owner[f]][f] # "none" \/ f \in unsure \/ f \in mishap[owner[f]]
        \/ \E t \in tasks[owner[f]] : t.frame.file = f /\ t.do = "wait"
    BY DEF FilesIInv, Files!UnseenBySenderNeedsMishap
  <2>4. CASE sent[owner[f]][f] # "none" \/ f \in unsure \/ f \in mishap[owner[f]]
    BY <2>1, <2>4, <2>7 DEF FileStep, Grows, FileTicks
  <2>5. ASSUME NEW t \in tasks[owner[f]], t.frame.file = f, t.do = "wait"
        PROVE  \/ sent'[owner[f]][f] # "none" \/ f \in mishap'[owner[f]]
               \/ t \in tasks'[owner[f]]
    BY <2>1, <2>5 DEF FileStep, OldTasks, Ends
  <2>6. QED
    BY <2>1, <2>3, <2>4, <2>5, <2>7
<1>8. ASSUME NEW f \in announced', f \notin announced
      PROVE  /\ f \in Files!File /\ f <= drawn /\ f <= drawn' /\ owner'[f] = owner[f] /\ Announces(f)
  <2>1. Announces(f) /\ f \in Files!File
    BY <1>8 DEF FileStep, FileTells, Shape, Files!TypeOK
  <2>2. QED
    BY <1>1, <2>1 DEF Announces
<1>9. AnnouncedInv' /\ Files!AnnouncedIsStored' /\ Files!UnseenBySenderNeedsMishap'
  BY <1>7, <1>8 DEF AnnouncedInv, Files!AnnouncedIsStored, Files!UnseenBySenderNeedsMishap,
     Announces
<1>10. Files!LostMessageNeedsMishap'
  <2>1. ASSUME NEW d \in Files!Device, NEW f \in handedOver[d]
        PROVE  f \in shown'[d] \/ f \in mishap'[d] \/ \E t \in tasks'[d] : t.do = "keep" /\ t.frame.file = f
    <3>1. f \in shown[d] \/ f \in mishap[d] \/ \E t \in tasks[d] : t.do = "keep" /\ t.frame.file = f
      BY DEF FilesIInv, Files!LostMessageNeedsMishap
    <3>2. ASSUME NEW t \in tasks[d], t.do = "keep", t.frame.file = f
          PROVE  t \in tasks'[d] \/ f \in shown'[d] \/ f \in mishap'[d]
      BY <3>2 DEF FileStep, OldTasks, Ends
    <3>3. QED
      BY <1>1, <3>1, <3>2
  <2>2. QED
    BY <2>1 DEF Files!LostMessageNeedsMishap, FileStep, Takes
<1>11. Files!DeliveredIsShown'
  <2>1. \A d \in Files!Device,
      f \in Files!File : sent[d][f] = "delivered" => f \in shown[Files!Peer(d)]
    BY DEF FilesIInv, Files!DeliveredIsShown
  <2>2. \A d \in Files!Device : Files!Peer(d) \in Files!Device
    BY Constants
  <2>3. QED
    BY <1>1, <2>1, <2>2 DEF Files!DeliveredIsShown, FileStep, FileTicks
<1>12. QED
  BY <1>4, <1>5, <1>9, <1>10, <1>11 DEF FilesIInv, FileStep

\* What is left alone changes nothing.
LEMMA Idle ==
    ASSUME FileBounds, Shape
    PROVE  /\ KeyInv /\ UNCHANGED <<media, pairing>> => KeyInv'
           /\ UNCHANGED <<drawn, owner>> => Draws
           /\ UNCHANGED <<shown, mishap, unsure>> => Grows
           /\ UNCHANGED <<files, torn>> => FilesOf
           /\ UNCHANGED tasks => NewTasks /\ OldTasks
           /\ UNCHANGED stream => Streams
           /\ UNCHANGED announced => FileTells
           /\ UNCHANGED sent => FileTicks
           /\ UNCHANGED handedOver => Takes
<1>1. KeyInv /\ UNCHANGED <<media, pairing>> => KeyInv'
  BY DEF KeyInv
<1>2. UNCHANGED <<drawn, owner>> => Draws
  BY Shapes DEF Draws
<1>3. /\ UNCHANGED <<shown, mishap, unsure>> => Grows
      /\ UNCHANGED <<files, torn>> => FilesOf
      /\ UNCHANGED tasks => NewTasks /\ OldTasks
      /\ UNCHANGED stream => Streams
      /\ UNCHANGED announced => FileTells
      /\ UNCHANGED sent => FileTicks
      /\ UNCHANGED handedOver => Takes
  BY DEF Grows, FilesOf, Had, NewTasks, OldTasks, Streams, On, FileTells, FileTicks, Takes
<1>4. QED
  BY <1>1, <1>2, <1>3

\* The keys of a contact are stored one after the other.
LEMMA PairingSteps ==
    ASSUME FileBounds, FilesIInv, NEW d \in Files!Device,
           Files!StoreSharedKey(d) \/ Files!StoreMediaKey(d) \/ Files!AddContact(d)
    PROVE  FileStep
<1>1. UNCHANGED <<db, Files!disk, deaf, sent, shown, tasks, stream, drawn, requests, Files!past, fileFaults>>
  BY DEF Files!StoreSharedKey, Files!StoreMediaKey, Files!AddContact
<1>2. Shape /\ KeyInv
  BY DEF FilesIInv
<1>3. /\ media' \in [Files!Device -> Files!Key]
      /\ pairing' \in [Files!Device -> {"none", "shared key", "keys", "contact"}]
      /\ KeyInv'
  <2>1. media \in [Files!Device -> Files!Key] /\ pairing \in [Files!Device -> {"none", "shared key", "keys", "contact"}]
    BY <1>2 DEF Shape, Files!TypeOK
  <2>2. CASE Files!StoreSharedKey(d)
    BY <1>2, <2>1, <2>2 DEF Files!StoreSharedKey, KeyInv
  <2>3. CASE Files!StoreMediaKey(d)
    BY <1>2, <2>1, <2>3 DEF Files!StoreMediaKey, Files!MediaKey, KeyInv, Files!Key
  <2>4. CASE Files!AddContact(d)
    BY <1>2, <2>1, <2>4 DEF Files!AddContact, KeyInv
  <2>5. QED
    BY <2>2, <2>3, <2>4
<1>4. Shape'
  BY <1>1, <1>2, <1>3 DEF Shape, Files!TypeOK, Files!disk, Files!past
<1>5. QED
  BY <1>1, <1>2, <1>3, <1>4, Idle DEF FileStep, Files!disk, Files!past

\* Frames and tasks are made of their parts.
LEMMA Frames ==
    ASSUME FileBounds, NEW k \in {"FILE", "FILE_DATA", "FILE_REQUEST", "RECEIPT", "OK", "LOST"},
           NEW f \in Files!File, NEW data \in Files!Data, NEW m \in BOOLEAN,
           NEW do \in {"store", "post", "wait", "read", "send", "keep"}
    PROVE  /\ Files!Message(k, f, data, m) \in Files!Frame
           /\ [do |-> do, frame |-> Files!Message(k, f, data, m)] \in Files!Task
BY DEF Files!Message, Files!Frame, Files!Task

LEMMA NothingIsData == ASSUME FileBounds PROVE Files!Nothing \in Files!Data
BY DEF Files!Nothing, Files!Data, Files!Key

\* Drawing id f and waiting to store a file under it.
LEMMA DrawSteps ==
    ASSUME FileBounds, FilesIInv, NEW d \in Files!Device, NEW f \in Files!File, f = drawn + 1,
           Files!Draw(d),
           NEW k \in {"FILE", "FILE_DATA"}, NEW data \in Files!Data,
           data # Files!Nothing,
           tasks' = [tasks EXCEPT ![d] = @ \cup
               {[do |-> "store", frame |-> Files!Message(k, f, data, TRUE)]}],
           UNCHANGED <<Files!store, sent, shown, stream, requests, announced, unsure, handedOver,
                       mishap, torn, fileFaults>>
    PROVE  FileStep
<1> DEFINE new == [do |-> "store", frame |-> Files!Message(k, f, data, TRUE)]
<1>1. Shape /\ KeyInv
  BY DEF FilesIInv
<1>2. drawn \in Nat /\ drawn' = f /\ f \in Nat /\ drawn' \in 0..MaxFiles
  BY <1>1, Shapes, Constants DEF Files!Draw, Files!File
<1>3. new \in Files!Task /\ new.do = "store" /\ new.frame.kind = k /\ new.frame.file = f
      /\ new.frame.data = data
  BY <1>2, Frames DEF Files!Message
<1>4. /\ tasks' \in [Files!Device -> SUBSET Files!Task]
      /\ \A e \in Files!Device : \A t \in tasks'[e] : t \in tasks[e] \/ (e = d /\ t = new)
      /\ \A e \in Files!Device : \A t \in tasks[e] : t \in tasks'[e]
  <2>1. tasks \in [Files!Device -> SUBSET Files!Task]
    BY <1>1 DEF Shape
  <2>2. tasks' = [tasks EXCEPT ![d] = @ \cup {new}] /\ new \in Files!Task
    BY <1>3
  <2> HIDE DEF new
  <2>3. tasks' \in [Files!Device -> SUBSET Files!Task]
    BY <2>1, <2>2, ZenonT(60)
  <2>4. \A e \in Files!Device : tasks'[e] = IF e = d THEN tasks[e] \cup {new} ELSE tasks[e]
    BY <2>1, <2>2
  <2>5. QED
    BY <2>3, <2>4
<1> HIDE DEF new
<1>5. owner' = [owner EXCEPT ![f] = d] /\ owner' \in [Files!File -> Files!Device] /\ owner'[f] = d
  BY <1>1, Shapes DEF Files!Draw
<1>6. Shape'
  BY <1>1, <1>2, <1>4, <1>5 DEF Shape, Files!TypeOK, Files!store, Files!disk
<1>7. Draws
  BY <1>1, <1>2, <1>5, Shapes, Constants DEF Draws
<1>8. NewTasks
  <2>1. TaskOK(d, new)'
    <3>1. f <= drawn'
      BY <1>2
    <3>2. Carries(new.frame)'
      BY <1>3 DEF Carries
    <3>3. QED
      BY <1>3, <1>5, <3>1, <3>2 DEF TaskOK
  <2>2. QED
    BY <1>4, <2>1 DEF NewTasks
<1>9. OldTasks
  BY <1>4 DEF OldTasks
<1>10. QED
  BY <1>1, <1>6, <1>7, <1>8, <1>9, Idle DEF FileStep, Files!store, Files!disk

\* A file is drawn an id and encrypted for it.
LEMMA SendFileSteps ==
    ASSUME FileBounds, FilesIInv, NEW d \in Files!Device, NEW big \in BOOLEAN, Files!SendFile(d, big)
    PROVE  FileStep
<1>1. Shape /\ drawn \in Nat /\ Files!Draw(d)
  BY Shapes DEF FilesIInv, Files!SendFile
<1>2. PICK f \in Files!File : f = drawn + 1
  BY <1>1, Constants DEF Files!Draw, Files!File
<1>3. Files!Encrypted(d, f, big) \in Files!Data
  BY <1>1 DEF Files!Encrypted, Files!Data, Shape, Files!TypeOK
<1>4. PICK data \in Files!Data : data = Files!Encrypted(d, f, big)
  BY <1>3
<1>5. data # Files!Nothing
  BY <1>2, <1>4, Constants DEF Files!Encrypted, Files!Nothing
<1>6. /\ tasks' = [tasks EXCEPT ![d] = @ \cup
             {[do |-> "store", frame |-> Files!Message("FILE", f, data, TRUE)]}]
      /\ UNCHANGED <<Files!store, sent, shown, stream, requests, announced, unsure, handedOver,
                     mishap, torn, fileFaults>>
  BY <1>2, <1>4 DEF Files!SendFile
<1>7. QED
  <2>1. "FILE" \in {"FILE", "FILE_DATA"}
    OBVIOUS
  <2>2. QED
    BY <1>1, <1>2, <1>5, <1>6, <2>1, DrawSteps

\* A file that is here is imported under a new id, whatever it was encrypted for.
LEMMA SendEncryptedSteps ==
    ASSUME FileBounds, FilesIInv, NEW d \in Files!Device, NEW g \in Files!File,
           Files!SendEncryptedFile(d, g)
    PROVE  FileStep
<1>1. Shape /\ drawn \in Nat /\ Files!Draw(d) /\ Files!Retrieved(d, g) \in Files!Data
  BY Shapes DEF FilesIInv, Files!SendEncryptedFile, Files!Retrieved
<1>2. PICK f \in Files!File : f = drawn + 1
  BY <1>1, Constants DEF Files!Draw, Files!File
<1>3. PICK data \in Files!Data : data = Files!Retrieved(d, g)
  BY <1>1
<1>4. PICK k \in {"FILE", "FILE_DATA"} : k = IF data.big THEN "FILE" ELSE "FILE_DATA"
  OBVIOUS
<1>5. data # Files!Nothing
  BY <1>3 DEF Files!Retrieved, Files!SendEncryptedFile
<1>6. /\ tasks' = [tasks EXCEPT ![d] = @ \cup
             {[do |-> "store", frame |-> Files!Message(k, f, data, TRUE)]}]
      /\ UNCHANGED <<Files!store, sent, shown, stream, requests, announced, unsure, handedOver,
                     mishap, torn, fileFaults>>
  BY <1>2, <1>3, <1>4 DEF Files!SendEncryptedFile, Files!ImportId
<1>7. QED
  BY <1>1, <1>2, <1>5, <1>6, DrawSteps

\* What is done and what is new when a device's tasks change.
LEMMA Replaced ==
    ASSUME FileBounds, Shape, NEW d \in Files!Device, NEW S \in SUBSET Files!Task, NEW R,
           tasks' = [tasks EXCEPT ![d] = (@ \ R) \cup S]
    PROVE  /\ tasks' \in [Files!Device -> SUBSET Files!Task]
           /\ \A e \in Files!Device : \A t \in tasks'[e] : t \in tasks[e] \/ (e = d /\ t \in S)
           /\ \A e \in Files!Device : \A t \in tasks[e] : t \in tasks'[e] \/ (e = d /\ t \in R)
           /\ \A t \in S : t \in tasks'[d]
<1>1. tasks \in [Files!Device -> SUBSET Files!Task]
  BY DEF Shape
<1>2. tasks' \in [Files!Device -> SUBSET Files!Task]
  BY <1>1
<1>3. \A e \in Files!Device : tasks'[e] = IF e = d THEN (tasks[e] \ R) \cup S ELSE tasks[e]
  BY <1>1
<1>4. QED
  BY <1>2, <1>3

\* The same, when a task is added.
LEMMA Added ==
    ASSUME FileBounds, Shape, NEW d \in Files!Device, NEW do \in {"keep", "read", "send"},
           NEW x \in Files!Frame, Files!Add(d, do, x)
    PROVE  /\ tasks' \in [Files!Device -> SUBSET Files!Task]
           /\ \A e \in Files!Device : \A t \in tasks'[e] :
                t \in tasks[e] \/ (e = d /\ t.do = do /\ t.frame = x)
           /\ OldTasks
           /\ \E t \in tasks'[d] : t.do = do /\ t.frame = x
<1>1. PICK new \in Files!Task : new = [do |-> do, frame |-> x] /\ new.do = do /\ new.frame = x
  <2>1. [do |-> do, frame |-> x] \in Files!Task
    BY DEF Files!Task
  <2>2. QED
    BY <2>1
<1>2. tasks \in [Files!Device -> SUBSET Files!Task]
  BY DEF Shape
<1>3. tasks' = [tasks EXCEPT ![d] = @ \cup {new}]
  BY <1>1 DEF Files!Add
<1>4. tasks' \in [Files!Device -> SUBSET Files!Task]
  BY <1>2, <1>3
<1>5. \A e \in Files!Device : tasks'[e] = IF e = d THEN tasks[e] \cup {new} ELSE tasks[e]
  BY <1>2, <1>3
<1>6. QED
  BY <1>1, <1>4, <1>5 DEF OldTasks

\* A frame joins a stream.
LEMMA Appended ==
    ASSUME FileBounds, NEW s \in Seq(Files!Frame), NEW x \in Files!Frame
    PROVE  /\ Append(s, x) \in Seq(Files!Frame)
           /\ \A i \in 1..Len(Append(s, x)) :
                Append(s, x)[i] = x \/ \E j \in 1..Len(s) : Append(s, x)[i] = s[j]
OBVIOUS

\* What is left of the stream was there before.
LEMMA TakenSteps ==
    ASSUME FileBounds, Shape, NEW d \in Files!Device, stream[d] # <<>>, Files!Taken(d)
    PROVE  Head(stream[d]) \in On(d) /\ stream' \in [Files!Device -> Seq(Files!Frame)] /\ Streams
<1>1. stream \in [Files!Device -> Seq(Files!Frame)] /\ stream[d] \in Seq(Files!Frame)
  BY DEF Shape
<1>2. Tail(stream[d]) \in Seq(Files!Frame) /\ Head(stream[d]) = stream[d][1] /\ 1 \in 1..Len(stream[d])
      /\ \A i \in 1..Len(Tail(stream[d])) :
            \E j \in 1..Len(stream[d]) : Tail(stream[d])[i] = stream[d][j]
  <2>1. stream[d] \in Seq(Files!Frame) /\ stream[d] # <<>>
    BY <1>1
  <2>2. Len(stream[d]) \in Nat /\ Len(stream[d]) # 0
    BY <2>1
  <2>3. Tail(stream[d]) \in Seq(Files!Frame) /\ Head(stream[d]) = stream[d][1]
        /\ Len(Tail(stream[d])) = Len(stream[d]) - 1
    BY <2>1
  <2>4. ASSUME NEW i \in 1..Len(Tail(stream[d]))
        PROVE  i + 1 \in 1..Len(stream[d]) /\ Tail(stream[d])[i] = stream[d][i + 1]
    BY <2>1, <2>2, <2>3
  <2>5. QED
    BY <2>2, <2>3, <2>4
<1>3. stream' \in [Files!Device -> Seq(Files!Frame)] /\ stream'[d] = Tail(stream[d])
      /\ \A e \in Files!Device : e # d => stream'[e] = stream[e]
  BY <1>1, <1>2 DEF Files!Taken
<1>4. \A e \in Files!Device : \A x \in On(e)' : x \in On(e)
  <2>1. ASSUME NEW e \in Files!Device, NEW i \in 1..Len(stream'[e])
        PROVE  \E j \in 1..Len(stream[e]) : stream'[e][i] = stream[e][j]
    <3>1. CASE e = d
      BY <1>2, <1>3, <3>1
    <3>2. CASE e # d
      <4>1. stream'[e] = stream[e]
        BY <1>3, <3>2
      <4>2. QED
        BY <4>1
    <3>3. QED
      BY <3>1, <3>2
  <2>2. QED
    BY <2>1 DEF On
<1>5. QED
  BY <1>2, <1>3, <1>4 DEF On, Streams

\* Opening the store, or failing to, keeps the types.
LEMMA OpenTypes ==
    ASSUME FileBounds, Shape, NEW d \in Files!Device
    PROVE  /\ Files!Opened(d) => db' \in [Files!Device -> {"none", "open", "rejected"}]
           /\ Files!StoreFails(d) =>
                /\ db' \in [Files!Device -> {"none", "open", "rejected"}]
                /\ fileFaults' \in 0..MaxFileFaults /\ UNCHANGED <<files, committing>>
           /\ \A k : Files!Fails(k) => fileFaults' \in 0..MaxFileFaults
<1>1. db \in [Files!Device -> {"none", "open", "rejected"}] /\ fileFaults \in 0..MaxFileFaults
  BY DEF Shape, Files!TypeOK
<1>2. ASSUME NEW k, Files!Fails(k) PROVE fileFaults' \in 0..MaxFileFaults
  BY <1>1, <1>2, Constants DEF Files!Fails
<1>3. Files!Opened(d) => db' \in [Files!Device -> {"none", "open", "rejected"}]
  BY <1>1 DEF Files!Opened
<1>4. Files!OpenFails(d) => db' \in [Files!Device -> {"none", "open", "rejected"}] /\ fileFaults' \in 0..MaxFileFaults
  BY <1>1, <1>2 DEF Files!OpenFails
<1>5. Files!StoreFails(d) => UNCHANGED <<files, committing>>
  BY DEF Files!StoreFails, Files!disk
<1>6. Files!StoreFails(d) => Files!OpenFails(d) \/ (Files!Opened(d) /\ Files!Fails("db"))
  BY DEF Files!StoreFails
<1>7. QED
  BY <1>2, <1>3, <1>4, <1>5, <1>6

\* A put that was answered: the file is there.
LEMMA StoredSteps ==
    ASSUME FileBounds, Shape, NEW d \in Files!Device, NEW f \in Files!File,
           NEW data \in Files!Data, Files!Stored(d, f, data), data # Files!Nothing,
           UNCHANGED torn
    PROVE  /\ files' \in [Files!Device -> [Files!File -> Files!Data]] /\ FilesOf
           /\ committing' \in [Files!Device -> SUBSET Files!File]
           /\ files'[d][f] # Files!Nothing
<1>1. files \in [Files!Device -> [Files!File -> Files!Data]]
      /\ committing \in [Files!Device -> SUBSET Files!File]
  BY DEF Shape, Files!TypeOK
<1>2. files' = [files EXCEPT ![d][f] = data]
      /\ committing' = [committing EXCEPT ![d] = @ \cup {f}]
  BY DEF Files!Stored
<1>3. /\ files' \in [Files!Device -> [Files!File -> Files!Data]] /\ files'[d][f] = data
      /\ \A e \in Files!Device, g \in Files!File : (e = d /\ g = f) \/ files'[e][g] = files[e][g]
  BY <1>1, <1>2
<1>4. committing' \in [Files!Device -> SUBSET Files!File]
  BY <1>1, <1>2
<1>5. QED
  BY <1>3, <1>4 DEF FilesOf, Had

\* Puts that are undone have left their trace.
LEMMA UndoneSteps ==
    ASSUME FileBounds, Shape, NEW d \in Files!Device, NEW F \in SUBSET Files!File,
           Files!Undone(d, F)
    PROVE  /\ files' \in [Files!Device -> [Files!File -> Files!Data]] /\ FilesOf
           /\ torn' \in [Files!Device -> SUBSET Files!File]
<1>1. /\ files \in [Files!Device -> [Files!File -> Files!Data]]
      /\ torn \in [Files!Device -> SUBSET Files!File]
  BY DEF Shape, Files!TypeOK
<1>2. /\ files' = [files EXCEPT ![d] = [f \in Files!File |-> IF f \in F THEN Files!Nothing ELSE @[f]]]
      /\ torn' = [torn EXCEPT ![d] = @ \cup F]
  BY DEF Files!Undone
<1>3. /\ torn' \in [Files!Device -> SUBSET Files!File]
      /\ \A e \in Files!Device : torn'[e] = IF e = d THEN torn[e] \cup F ELSE torn[e]
  BY <1>1, <1>2
<1>4. /\ files' \in [Files!Device -> [Files!File -> Files!Data]]
      /\ \A e \in Files!Device, g \in Files!File :
            files'[e][g] = IF e = d /\ g \in F THEN Files!Nothing ELSE files[e][g]
  BY <1>1, <1>2, NothingIsData
<1>5. QED
  BY <1>3, <1>4 DEF FilesOf, Had

\* A transaction ends, well or not.
LEMMA CommitSteps ==
    ASSUME FileBounds, FilesIInv, NEW d \in Files!Device,
           Files!Commit(d) \/ Files!CommitFails(d)
    PROVE  FileStep
<1>1. Shape /\ KeyInv
  BY DEF FilesIInv
<1>2. committing' \in [Files!Device -> SUBSET Files!File]
  <2>1. committing \in [Files!Device -> SUBSET Files!File]
    BY <1>1 DEF Shape
  <2>2. PICK f : committing' = [committing EXCEPT ![d] = @ \ {f}]
    BY DEF Files!Commit, Files!CommitFails
  <2>3. QED
    BY <2>1, <2>2
<1>3. UNCHANGED <<media, pairing, db, deaf, sent, shown, tasks, stream, drawn, requests, owner,
                  announced, unsure, handedOver, mishap>>
  BY DEF Files!Commit, Files!CommitFails, Files!past
<1>4. CASE Files!Commit(d)
  <2>1. UNCHANGED <<files, torn, fileFaults>>
    BY <1>4 DEF Files!Commit, Files!past
  <2>2. Shape'
    BY <1>1, <1>2, <1>3, <2>1 DEF Shape, Files!TypeOK
  <2>3. QED
    BY <1>1, <1>3, <2>1, <2>2, Idle DEF FileStep
<1>5. CASE Files!CommitFails(d)
  <2>1. PICK f \in committing[d] : Files!Fails("db") /\ Files!Undone(d, {f})
    BY <1>5 DEF Files!CommitFails
  <2>2. {f} \in SUBSET Files!File /\ fileFaults' \in 0..MaxFileFaults
    BY <1>1, <2>1, OpenTypes DEF Shape
  <2>3. /\ files' \in [Files!Device -> [Files!File -> Files!Data]] /\ FilesOf
        /\ torn' \in [Files!Device -> SUBSET Files!File]
    BY <1>1, <2>1, <2>2, UndoneSteps
  <2>4. Shape'
    BY <1>1, <1>2, <1>3, <2>2, <2>3 DEF Shape, Files!TypeOK
  <2>5. QED
    BY <1>1, <1>3, <2>3, <2>4, Idle DEF FileStep
<1>6. QED
  BY <1>4, <1>5

\* Store: the task goes on to its message, or is gone with a mishap.
LEMMA StoreSteps ==
    ASSUME FileBounds, FilesIInv, NEW d \in Files!Device, NEW t \in tasks[d], Files!Store(d, t)
    PROVE  FileStep
<1>1. Shape /\ KeyInv /\ TaskOK(d, t) /\ t.do = "store"
  BY DEF FilesIInv, TasksInv, Files!Store
<1>2. t \in Files!Task /\ t.frame \in Files!Frame /\ t.frame.file \in Files!File /\ t.frame.data \in Files!Data
  BY <1>1, Shapes
<1>3. PICK f \in Files!File, data \in Files!Data : f = t.frame.file /\ data = t.frame.data
  BY <1>2
<1>4. data # Files!Nothing /\ owner[f] = d /\ f <= drawn
      /\ Carries(t.frame) /\ t.frame.kind \in {"FILE", "FILE_DATA"}
  BY <1>1, <1>3 DEF TaskOK
<1>5. UNCHANGED <<media, pairing, deaf, sent, shown, stream, drawn, requests, owner, announced,
                  unsure, handedOver, torn>>
  BY DEF Files!Store
<1>6. CASE Files!Opened(d) /\ Files!Stored(d, f, data) /\ Files!Replace(d, t, {[t EXCEPT !.do = "post"]})
           /\ UNCHANGED <<mishap, fileFaults>>
  <2>1. PICK new \in Files!Task : new = [t EXCEPT !.do = "post"] /\ new.do = "post" /\ new.frame = t.frame
    <3>1. [t EXCEPT !.do = "post"] \in Files!Task /\ [t EXCEPT !.do = "post"].do = "post"
          /\ [t EXCEPT !.do = "post"].frame = t.frame
      BY <1>2 DEF Files!Task
    <3>2. QED
      BY <3>1
  <2>2. /\ tasks' \in [Files!Device -> SUBSET Files!Task]
        /\ \A e \in Files!Device : \A u \in tasks'[e] : u \in tasks[e] \/ (e = d /\ u \in {new})
        /\ \A e \in Files!Device : \A u \in tasks[e] : u \in tasks'[e] \/ (e = d /\ u \in {t})
    <3>1. tasks' = [tasks EXCEPT ![d] = (@ \ {t}) \cup {new}] /\ {new} \in SUBSET Files!Task
      BY <1>6, <2>1 DEF Files!Replace
    <3>2. QED
      BY <1>1, <3>1, Replaced, ZenonT(60)
  <2>3. /\ files' \in [Files!Device -> [Files!File -> Files!Data]] /\ FilesOf
        /\ committing' \in [Files!Device -> SUBSET Files!File] /\ files'[d][f] # Files!Nothing
    BY <1>1, <1>4, <1>5, <1>6, StoredSteps
  <2>4. TaskOK(d, new)'
    BY <1>3, <1>4, <1>5, <2>1, <2>3 DEF TaskOK, Carries, Had
  <2>5. NewTasks /\ OldTasks
    BY <1>1, <2>2, <2>4 DEF NewTasks, OldTasks, Ends
  <2>6. Shape'
    BY <1>1, <1>5, <1>6, <2>2, <2>3, OpenTypes DEF Shape, Files!TypeOK
  <2>7. QED
    BY <1>1, <1>5, <1>6, <2>3, <2>5, <2>6, Idle DEF FileStep
<1>7. CASE Files!StoreFails(d) /\ Files!Replace(d, t, {}) /\ mishap' = [mishap EXCEPT ![d] = @ \cup {f}]
  <2>1. /\ tasks' \in [Files!Device -> SUBSET Files!Task]
        /\ \A e \in Files!Device : \A u \in tasks'[e] : u \in tasks[e] \/ (e = d /\ u \in {})
        /\ \A e \in Files!Device : \A u \in tasks[e] : u \in tasks'[e] \/ (e = d /\ u \in {t})
    BY <1>1, <1>7, Replaced, ZenonT(60) DEF Files!Replace
  <2>2. NewTasks /\ OldTasks
    BY <1>1, <2>1 DEF NewTasks, OldTasks, Ends
  <2>3. mishap' \in [Files!Device -> SUBSET Files!File] /\ Grows
    BY <1>1, <1>5, <1>7 DEF Shape, Grows
  <2>4. /\ db' \in [Files!Device -> {"none", "open", "rejected"}]
        /\ fileFaults' \in 0..MaxFileFaults /\ UNCHANGED <<files, committing>>
    BY <1>1, <1>7, OpenTypes
  <2>5. Shape'
    BY <1>1, <1>5, <2>1, <2>3, <2>4 DEF Shape, Files!TypeOK
  <2>6. QED
    BY <1>1, <1>5, <2>2, <2>3, <2>4, <2>5, Idle DEF FileStep
<1>8. QED
  BY <1>3, <1>6, <1>7 DEF Files!Store

\* Keep: a received file is stored and shown, or lost with a mishap.
LEMMA KeepSteps ==
    ASSUME FileBounds, FilesIInv, NEW d \in Files!Device, NEW t \in tasks[d], Files!Keep(d, t)
    PROVE  FileStep
<1>1. Shape /\ KeyInv /\ TaskOK(d, t) /\ t.do = "keep"
  BY DEF FilesIInv, TasksInv, Files!Keep
<1>2. t \in Files!Task /\ t.frame \in Files!Frame /\ t.frame.file \in Files!File /\ t.frame.data \in Files!Data
  BY <1>1, Shapes
<1>3. PICK f \in Files!File, data \in Files!Data : f = t.frame.file /\ data = t.frame.data
  BY <1>2
<1>4. data # Files!Nothing
  BY <1>1, <1>3 DEF TaskOK, Carries
<1>5. UNCHANGED <<media, pairing, deaf, sent, stream, drawn, requests, owner, announced, unsure,
                  handedOver, torn>>
  BY DEF Files!Keep
<1>6. /\ tasks' \in [Files!Device -> SUBSET Files!Task]
      /\ \A e \in Files!Device : \A u \in tasks'[e] : u \in tasks[e] \/ (e = d /\ u \in {})
      /\ \A e \in Files!Device : \A u \in tasks[e] : u \in tasks'[e] \/ (e = d /\ u \in {t})
  <2>1. tasks' = [tasks EXCEPT ![d] = (@ \ {t}) \cup {}]
    BY DEF Files!Keep, Files!Replace
  <2>2. QED
    BY <1>1, <2>1, Replaced
<1>7. CASE Files!Opened(d) /\ Files!Stored(d, f, data) /\ shown' = [shown EXCEPT ![d] = @ \cup {f}]
           /\ UNCHANGED <<mishap, fileFaults>>
  <2>1. /\ files' \in [Files!Device -> [Files!File -> Files!Data]] /\ FilesOf
        /\ committing' \in [Files!Device -> SUBSET Files!File]
    BY <1>1, <1>4, <1>5, <1>7, StoredSteps
  <2>2. shown' \in [Files!Device -> SUBSET Files!File] /\ Grows /\ f \in shown'[d]
    BY <1>1, <1>5, <1>7 DEF Shape, Grows
  <2>3. NewTasks /\ OldTasks
    BY <1>1, <1>3, <1>6, <2>2 DEF NewTasks, OldTasks, Ends
  <2>4. Shape'
    BY <1>1, <1>5, <1>6, <1>7, <2>1, <2>2, OpenTypes DEF Shape, Files!TypeOK
  <2>5. QED
    BY <1>1, <1>5, <1>7, <2>1, <2>2, <2>3, <2>4, Idle DEF FileStep
<1>8. CASE Files!StoreFails(d) /\ mishap' = [mishap EXCEPT ![d] = @ \cup {f}] /\ UNCHANGED shown
  <2>1. mishap' \in [Files!Device -> SUBSET Files!File] /\ Grows /\ f \in mishap'[d]
    BY <1>1, <1>5, <1>8 DEF Shape, Grows
  <2>2. NewTasks /\ OldTasks
    BY <1>1, <1>3, <1>6, <2>1 DEF NewTasks, OldTasks, Ends
  <2>3. /\ db' \in [Files!Device -> {"none", "open", "rejected"}]
        /\ fileFaults' \in 0..MaxFileFaults /\ UNCHANGED <<files, committing>>
    BY <1>1, <1>8, OpenTypes
  <2>4. Shape'
    BY <1>1, <1>5, <1>6, <1>8, <2>1, <2>3 DEF Shape, Files!TypeOK
  <2>5. QED
    BY <1>1, <1>5, <1>8, <2>1, <2>2, <2>3, <2>4, Idle DEF FileStep
<1>9. QED
  BY <1>3, <1>7, <1>8 DEF Files!Keep

\* Request: of a file whose message is shown.
LEMMA RequestSteps ==
    ASSUME FileBounds, FilesIInv, NEW d \in Files!Device, NEW f \in Files!File, Files!Request(d, f)
    PROVE  FileStep
<1>1. Shape /\ KeyInv
  BY DEF FilesIInv
<1>2. PICK x \in Files!Frame : x = Files!Message("FILE_REQUEST", f, Files!Nothing, FALSE) /\ x.kind = "FILE_REQUEST"
  BY Frames, NothingIsData DEF Files!Message
<1>3. /\ tasks' \in [Files!Device -> SUBSET Files!Task]
      /\ \A e \in Files!Device : \A t \in tasks'[e] :
            t \in tasks[e] \/ (e = d /\ t.do = "send" /\ t.frame = x)
      /\ OldTasks
  <2>1. Files!Add(d, "send", x)
    BY <1>2 DEF Files!Request
  <2>2. QED
    BY <1>1, <2>1, Added
<1>4. NewTasks
  BY <1>2, <1>3 DEF NewTasks, TaskOK, Carries
<1>5. UNCHANGED <<Files!store, sent, shown, stream, drawn, Files!past, fileFaults>>
      /\ requests < MaxRequests /\ requests' = requests + 1
  BY DEF Files!Request
<1>6. requests' \in 0..MaxRequests
  <2>1. requests \in 0..MaxRequests /\ MaxRequests \in Nat
    BY <1>1, Constants DEF Shape, Files!TypeOK
  <2>2. QED
    BY <1>5, <2>1
<1>7. Shape'
  BY <1>1, <1>3, <1>5, <1>6 DEF Shape, Files!TypeOK, Files!store, Files!disk, Files!past
<1>8. QED
  BY <1>1, <1>3, <1>4, <1>5, <1>7, Idle DEF FileStep, Files!store, Files!disk, Files!past

\* What goes out of a task's frame is as it should be.
LEMMA WireOK ==
    ASSUME FileBounds, FilesIInv, NEW d \in Files!Device, NEW t \in tasks[d]
    PROVE  /\ Files!OnTheWire(t.frame) \in Files!Frame /\ FrameOK(Files!Peer(d), Files!OnTheWire(t.frame))
           /\ Files!Answer(t.frame) \in Files!Frame /\ FrameOK(d, Files!Answer(t.frame))
           /\ \E gone \in Files!Frame :
                /\ gone = [t.frame EXCEPT !.kind = "LOST", !.data = Files!Nothing]
                /\ FrameOK(Files!Peer(d), gone)
<1>1. t.frame \in Files!Frame /\ Files!Peer(Files!Peer(d)) = d /\ TaskOK(d, t)
  BY Shapes, Constants DEF FilesIInv, TasksInv
<1>2. PICK x \in Files!Frame : x = t.frame /\ Carries(x) /\ (x.kind = "RECEIPT" => x.file \in shown[d])
  BY <1>1 DEF TaskOK
<1>3. Files!Answer(x) \in Files!Frame /\ Files!Answer(x).kind = "OK"
  BY DEF Files!Answer, Files!Frame
<1>4. Files!OnTheWire(x) \in Files!Frame /\ Files!OnTheWire(x).kind = x.kind /\ Files!OnTheWire(x).file = x.file
      /\ (x.kind = "FILE_DATA" => Files!OnTheWire(x) = x)
  BY NothingIsData DEF Files!OnTheWire, Files!Frame
<1>5. Carries(Files!OnTheWire(x))
  BY <1>2, <1>4 DEF Carries
<1>6. FrameOK(Files!Peer(d), Files!OnTheWire(x))
  BY <1>1, <1>2, <1>4, <1>5 DEF FrameOK
<1>7. FrameOK(d, Files!Answer(x))
  BY <1>3 DEF FrameOK, Carries
<1>9. PICK gone \in Files!Frame :
          gone = [x EXCEPT !.kind = "LOST", !.data = Files!Nothing] /\ gone.kind = "LOST"
  <2>1. [x EXCEPT !.kind = "LOST", !.data = Files!Nothing] \in Files!Frame
    BY NothingIsData DEF Files!Frame
  <2>2. [x EXCEPT !.kind = "LOST", !.data = Files!Nothing].kind = "LOST"
    BY DEF Files!Frame
  <2>3. QED
    BY <2>1, <2>2
<1>10. FrameOK(Files!Peer(d), gone)
  BY <1>9 DEF FrameOK, Carries
<1>11. QED
  BY <1>2, <1>3, <1>4, <1>6, <1>7, <1>9, <1>10

\* A frame is added to a device's stream, or not.
LEMMA StreamSteps ==
    ASSUME FileBounds, Shape, UNCHANGED shown,
           stream' \in [Files!Device -> Seq(Files!Frame)],
           \A e \in Files!Device :
              \/ stream'[e] = stream[e]
              \/ \E x \in Files!Frame : FrameOK(e, x) /\ stream'[e] = Append(stream[e], x)
    PROVE  Streams
<1>1. ASSUME NEW e \in Files!Device, NEW x \in Files!Frame, FrameOK(e, x),
             stream'[e] = Append(stream[e], x),
             NEW y \in On(e)'
      PROVE  y \in On(e) \/ FrameOK(e, y)'
  <2>1. stream[e] \in Seq(Files!Frame)
    BY DEF Shape
  <2>2. y = x \/ y \in On(e)
    BY <1>1, <2>1, Appended DEF On
  <2>3. FrameOK(e, x)'
    BY <1>1 DEF FrameOK, Carries
  <2>4. QED
    BY <2>2, <2>3
<1>2. ASSUME NEW e \in Files!Device, stream'[e] = stream[e], NEW y \in On(e)' PROVE y \in On(e)
  BY <1>2 DEF On
<1>3. QED
  BY <1>1, <1>2 DEF Streams

\* A frame joins the stream of the other device.
LEMMA LostSteps ==
    ASSUME FileBounds, Shape, UNCHANGED shown, NEW d \in Files!Device, NEW gone \in Files!Frame,
           FrameOK(Files!Peer(d), gone),
           stream' = [stream EXCEPT ![Files!Peer(d)] = Append(@, gone)]
    PROVE  stream' \in [Files!Device -> Seq(Files!Frame)] /\ Streams
<1>1. stream \in [Files!Device -> Seq(Files!Frame)] /\ Files!Peer(d) \in Files!Device
  BY Constants DEF Shape
<1>2. \A e \in Files!Device : Append(stream[e], gone) \in Seq(Files!Frame)
  BY <1>1, Appended
<1>3. stream' \in [Files!Device -> Seq(Files!Frame)]
  BY <1>1, <1>2
<1>4. ASSUME NEW e \in Files!Device
      PROVE  \/ stream'[e] = stream[e]
             \/ \E x \in Files!Frame : FrameOK(e, x) /\ stream'[e] = Append(stream[e], x)
  BY <1>1
<1>5. QED
  BY <1>3, <1>4, StreamSteps

\* Crash: every task is gone, and each is a mishap; what was put may be.
LEMMA CrashSteps ==
    ASSUME FileBounds, FilesIInv, NEW d \in Files!Device, Files!Crash(d)
    PROVE  FileStep
<1>1. Shape /\ KeyInv
  BY DEF FilesIInv
<1>2. /\ UNCHANGED <<sent, shown, drawn, requests, owner, announced, unsure, handedOver>>
      /\ Files!Fails("crash")
      /\ tasks' = [tasks EXCEPT ![d] = {}]
      /\ mishap' = [mishap EXCEPT ![d] = @ \cup {t.frame.file : t \in tasks[d]}]
      /\ committing' = [committing EXCEPT ![d] = {}]
      /\ deaf' = IF Files!Known(d) THEN deaf \cup {d} ELSE deaf
      /\ db' = [db EXCEPT ![d] = "none"]
      /\ pairing' = [pairing EXCEPT ![d] = IF @ = "contact" THEN @ ELSE "none"]
      /\ media' = [media EXCEPT ![d] = IF Files!Known(d) THEN @ ELSE "none"]
  BY DEF Files!Crash
<1>3. fileFaults' \in 0..MaxFileFaults
  BY <1>1, <1>2, OpenTypes
<1>4. tasks' \in [Files!Device -> SUBSET Files!Task] /\ tasks'[d] = {}
      /\ \A e \in Files!Device : e # d => tasks'[e] = tasks[e]
  BY <1>1, <1>2 DEF Shape
<1>5. {t.frame.file : t \in tasks[d]} \subseteq Files!File
  BY <1>1, Shapes
<1>6. mishap' \in [Files!Device -> SUBSET Files!File] /\ Grows
      /\ \A t \in tasks[d] : t.frame.file \in mishap'[d]
  BY <1>1, <1>2, <1>5 DEF Shape, Grows
<1>7. NewTasks /\ OldTasks
  BY <1>4, <1>6 DEF NewTasks, OldTasks, Ends
<1>8. db' \in [Files!Device -> {"none", "open", "rejected"}]
      /\ media' \in [Files!Device -> Files!Key]
      /\ pairing' \in [Files!Device -> {"none", "shared key", "keys", "contact"}]
      /\ committing' \in [Files!Device -> SUBSET Files!File] /\ deaf' \subseteq Files!Device
  BY <1>1, <1>2 DEF Shape, Files!TypeOK, Files!Key
<1>9. KeyInv'
  <2>1. media \in [Files!Device -> Files!Key] /\ pairing \in [Files!Device -> {"none", "shared key", "keys", "contact"}]
    BY <1>1 DEF Shape, Files!TypeOK
  <2>2. QED
    BY <1>1, <1>2, <2>1 DEF KeyInv, Files!Known
<1>10. /\ files' \in [Files!Device -> [Files!File -> Files!Data]] /\ FilesOf
       /\ torn' \in [Files!Device -> SUBSET Files!File]
  <2>1. PICK F \in SUBSET committing[d] : Files!Undone(d, F)
    BY DEF Files!Crash
  <2>2. F \in SUBSET Files!File
    BY <1>1, <2>1 DEF Shape
  <2>3. QED
    BY <1>1, <2>1, <2>2, UndoneSteps
<1>11. stream' \in [Files!Device -> Seq(Files!Frame)] /\ Streams
  <2>1. stream \in [Files!Device -> Seq(Files!Frame)]
    BY <1>1 DEF Shape
  <2>2. CASE UNCHANGED stream
    BY <1>1, <2>1, <2>2, Idle
  <2>3. ASSUME NEW t \in tasks[d], Files!Lost(Files!Peer(d), t.frame)
        PROVE  stream' \in [Files!Device -> Seq(Files!Frame)] /\ Streams
    <3>1. PICK gone \in Files!Frame :
              gone = [t.frame EXCEPT !.kind = "LOST", !.data = Files!Nothing] /\ FrameOK(Files!Peer(d), gone)
      BY WireOK
    <3>2. stream' = [stream EXCEPT ![Files!Peer(d)] = Append(@, gone)]
      BY <2>3, <3>1 DEF Files!Lost
    <3>3. QED
      BY <1>1, <1>2, <2>1, <3>1, <3>2, LostSteps
  <2>4. QED
    BY <2>2, <2>3 DEF Files!Crash
<1>12. Shape'
  BY <1>1, <1>2, <1>3, <1>4, <1>6, <1>8, <1>10, <1>11 DEF Shape, Files!TypeOK
<1>13. QED
  BY <1>1, <1>2, <1>6, <1>7, <1>9, <1>10, <1>11, <1>12, Idle DEF FileStep

\* Send: the frame is on its way, and of a file that is told of the call is waited for or unsure.
LEMMA SendSteps ==
    ASSUME FileBounds, FilesIInv, NEW d \in Files!Device, NEW t \in tasks[d], Files!Send(d, t)
    PROVE  FileStep
<1>1. Shape /\ KeyInv /\ TaskOK(d, t) /\ t.do \in {"post", "send"}
  BY DEF FilesIInv, TasksInv, Files!Send
<1>2. t \in Files!Task /\ t.frame \in Files!Frame /\ t.frame.file \in Files!File
  BY <1>1, Shapes
<1>3. PICK f \in Files!File : f = t.frame.file
  BY <1>2
<1>4. UNCHANGED <<Files!store, sent, shown, drawn, requests, owner, handedOver, mishap, torn>>
  BY DEF Files!Send
<1>5. t.do = "post" => owner[f] = d /\ f <= drawn /\ (files[d][f] # Files!Nothing \/ f \in torn[d])
  BY <1>1, <1>3 DEF TaskOK, Had
<1>6. PICK gone \in Files!Frame, ans \in Files!Frame :
          gone = Files!OnTheWire(t.frame) /\ FrameOK(Files!Peer(d), gone)
          /\ ans = Files!Answer(t.frame) /\ FrameOK(d, ans)
  BY WireOK
<1>7. stream \in [Files!Device -> Seq(Files!Frame)]
      /\ \A e \in Files!Device : /\ Append(stream[e], gone) \in Seq(Files!Frame)
                                 /\ Append(stream[e], ans) \in Seq(Files!Frame)
  <2>1. stream \in [Files!Device -> Seq(Files!Frame)]
    BY <1>1 DEF Shape
  <2>2. QED
    BY <2>1, Appended
<1>8. Files!Peer(d) \in Files!Device /\ \A e \in Files!Device : e = d \/ e = Files!Peer(d)
  BY Constants
<1>9. ASSUME NEW S \in SUBSET Files!Task, Files!Replace(d, t, S)
      PROVE  /\ tasks' \in [Files!Device -> SUBSET Files!Task]
             /\ \A e \in Files!Device : \A u \in tasks'[e] : u \in tasks[e] \/ (e = d /\ u \in S)
             /\ OldTasks /\ \A u \in S : u \in tasks'[d]
  <2>1. tasks' = [tasks EXCEPT ![d] = (@ \ {t}) \cup S]
    BY <1>9 DEF Files!Replace
  <2>2. /\ tasks' \in [Files!Device -> SUBSET Files!Task]
        /\ \A e \in Files!Device : \A u \in tasks'[e] : u \in tasks[e] \/ (e = d /\ u \in S)
        /\ \A e \in Files!Device : \A u \in tasks[e] : u \in tasks'[e] \/ (e = d /\ u \in {t})
        /\ \A u \in S : u \in tasks'[d]
    BY <1>1, <2>1, Replaced
  <2>3. QED
    BY <1>1, <2>2 DEF OldTasks, Ends
<1>10. ASSUME stream' \in [Files!Device -> Seq(Files!Frame)], Streams,
              fileFaults' \in 0..MaxFileFaults, unsure' \in SUBSET Files!File,
                  unsure \subseteq unsure',
              tasks' \in [Files!Device -> SUBSET Files!Task], NewTasks, OldTasks,
              \/ announced' = announced
              \/ /\ announced' = announced \cup {f} /\ t.do = "post"
                 /\ f \in unsure' \/ \E u \in tasks'[d] : u.frame.file = f /\ u.do = "wait"
       PROVE  FileStep
  <2>1. announced' \subseteq Files!File
    BY <1>1, <1>10 DEF Shape, Files!TypeOK
  <2>2. Shape'
    BY <1>1, <1>4, <1>10, <2>1 DEF Shape, Files!TypeOK, Files!store, Files!disk
  <2>3. FileTells
    BY <1>4, <1>5, <1>10 DEF FileTells, Announces, Files!store, Files!disk
  <2>4. Grows
    BY <1>4, <1>10 DEF Grows
  <2>5. QED
    BY <1>1, <1>4, <1>10, <2>2, <2>3, <2>4, Idle DEF FileStep, Files!store, Files!disk
<1>11. ASSUME Files!Fails("late") \/ Files!Fails("send") PROVE fileFaults' \in 0..MaxFileFaults
  BY <1>1, <1>11, OpenTypes
<1>12. unsure \in SUBSET Files!File /\ unsure \cup {f} \in SUBSET Files!File /\ fileFaults \in 0..MaxFileFaults
  BY <1>1 DEF Shape, Files!TypeOK
<1>13. CASE /\ t.do = "post" /\ Files!Replace(d, t, {[t EXCEPT !.do = "wait"]})
            /\ stream' = [e \in Files!Device |-> IF e = d THEN Append(stream[e], ans)
                                                    ELSE Append(stream[e], gone)]
            /\ UNCHANGED <<unsure, fileFaults>>
  <2>1. PICK new \in Files!Task : new = [t EXCEPT !.do = "wait"] /\ new.do = "wait" /\ new.frame = t.frame
    <3>1. [t EXCEPT !.do = "wait"] \in Files!Task /\ [t EXCEPT !.do = "wait"].do = "wait"
          /\ [t EXCEPT !.do = "wait"].frame = t.frame
      BY <1>2 DEF Files!Task
    <3>2. QED
      BY <3>1
  <2>2. /\ tasks' \in [Files!Device -> SUBSET Files!Task]
        /\ \A e \in Files!Device : \A u \in tasks'[e] : u \in tasks[e] \/ (e = d /\ u = new)
        /\ OldTasks /\ new \in tasks'[d]
    <3>1. Files!Replace(d, t, {new}) /\ {new} \in SUBSET Files!Task
      BY <1>13, <2>1
    <3>2. QED
      BY <1>9, <3>1
  <2>3. TaskOK(d, new)'
    <3>1. /\ Carries(t.frame) /\ t.frame.kind \in {"FILE", "FILE_DATA"}
          /\ owner[t.frame.file] = d /\ t.frame.file <= drawn /\ t.frame.data # Files!Nothing
          /\ Had(d, t.frame.file)
      BY <1>1, <1>13 DEF TaskOK
    <3>2. QED
      BY <1>4, <2>1, <3>1 DEF TaskOK, Carries, Had, Files!store, Files!disk
  <2>4. NewTasks
    BY <2>2, <2>3 DEF NewTasks
  <2>5. stream' \in [Files!Device -> Seq(Files!Frame)]
    BY <1>7, <1>13
  <2>6. Streams
    <3>1. ASSUME NEW e \in Files!Device
          PROVE  \E x \in Files!Frame : FrameOK(e, x) /\ stream'[e] = Append(stream[e], x)
      BY <1>6, <1>8, <1>13
    <3>2. QED
      BY <1>1, <1>4, <2>5, <3>1, StreamSteps
  <2>7. announced' \in {announced, announced \cup {f}}
    BY <1>3 DEF Files!Send
  <2>8. QED
    BY <1>3, <1>10, <1>12, <1>13, <2>1, <2>2, <2>4, <2>5, <2>6, <2>7
<1>14. ASSUME Files!Replace(d, t, {}) PROVE tasks' \in [Files!Device -> SUBSET Files!Task] /\ NewTasks /\ OldTasks
  <2>1. {} \in SUBSET Files!Task
    OBVIOUS
  <2>2. QED
    BY <1>9, <1>14, <2>1 DEF NewTasks
<1>15. ASSUME \/ stream' = [e \in Files!Device |-> IF e = d THEN stream[e] ELSE Append(stream[e], gone)]
              \/ stream' = [stream EXCEPT ![Files!Peer(d)] = Append(@, gone)]
              \/ stream' = stream
       PROVE  stream' \in [Files!Device -> Seq(Files!Frame)] /\ Streams
  <2>1. stream' \in [Files!Device -> Seq(Files!Frame)]
    BY <1>7, <1>15
  <2>2. ASSUME NEW e \in Files!Device
        PROVE  \/ stream'[e] = stream[e]
               \/ \E x \in Files!Frame : FrameOK(e, x) /\ stream'[e] = Append(stream[e], x)
    BY <1>6, <1>7, <1>8, <1>15
  <2>3. QED
    BY <1>1, <1>4, <2>1, <2>2, StreamSteps
<1>16. CASE /\ t.do = "send" /\ Files!Replace(d, t, {})
            /\ stream' = [e \in Files!Device |-> IF e = d THEN stream[e] ELSE Append(stream[e], gone)]
            /\ UNCHANGED <<unsure, fileFaults>>
  <2>1. announced' = announced
    BY <1>16 DEF Files!Send
  <2>2. QED
    BY <1>10, <1>12, <1>14, <1>15, <1>16, <2>1
<1>17. CASE /\ Files!Fails("late") /\ Files!Replace(d, t, {}) /\ unsure' = unsure \cup {f}
            /\ stream' = [stream EXCEPT ![Files!Peer(d)] = Append(@, gone)]
  <2>1. announced' = announced \/ (t.do = "post" /\ announced' = announced \cup {f})
    BY <1>3 DEF Files!Send
  <2>2. QED
    BY <1>10, <1>11, <1>12, <1>14, <1>15, <1>17, <2>1
<1>18. CASE /\ Files!Fails("send") /\ Files!Replace(d, t, {}) /\ unsure' = unsure \cup {f}
            /\ Files!Lost(Files!Peer(d), t.frame) \/ UNCHANGED stream
            /\ UNCHANGED announced
  <2>1. stream' \in [Files!Device -> Seq(Files!Frame)] /\ Streams
    <3>1. CASE UNCHANGED stream
      BY <1>15, <3>1
    <3>2. CASE Files!Lost(Files!Peer(d), t.frame)
      <4>1. PICK lost \in Files!Frame :
                lost = [t.frame EXCEPT !.kind = "LOST", !.data = Files!Nothing] /\ FrameOK(Files!Peer(d), lost)
        BY WireOK
      <4>2. stream' = [stream EXCEPT ![Files!Peer(d)] = Append(@, lost)]
        BY <3>2, <4>1 DEF Files!Lost
      <4>3. QED
        BY <1>1, <1>4, <4>1, <4>2, LostSteps
    <3>3. QED
      BY <1>18, <3>1, <3>2
  <2>2. QED
    BY <1>10, <1>11, <1>12, <1>14, <1>18, <2>1
<1>19. CASE /\ stream' = [e \in Files!Device |->
                  IF e = d THEN IF Files!Waits(t) THEN Append(stream[e], Files!Answer(t.frame)) ELSE stream[e]
                           ELSE Append(stream[e], Files!OnTheWire(t.frame))]
            /\ Files!Replace(d, t, IF Files!Waits(t) THEN {[t EXCEPT !.do = "wait"]} ELSE {})
            /\ UNCHANGED <<unsure, fileFaults>>
  <2>1. CASE t.do = "post"
    <3>1. Files!Waits(t)
      BY <2>1 DEF Files!Waits
    <3>2. QED
      BY <1>6, <1>13, <1>19, <2>1, <3>1
  <2>2. CASE t.do = "send"
    <3>1. ~Files!Waits(t)
      BY <2>2 DEF Files!Waits
    <3>2. QED
      BY <1>6, <1>16, <1>19, <2>2, <3>1
  <2>3. QED
    BY <1>1, <2>1, <2>2
<1>20. QED
  BY <1>3, <1>6, <1>17, <1>18, <1>19 DEF Files!Send

\* DropUnknown, and what a deaf device does with a frame: nothing is shown.
LEMMA DropSteps ==
    ASSUME FileBounds, FilesIInv, NEW d \in Files!Device,
           stream[d] # <<>>, Files!Taken(d), deaf' = deaf \cup {d},
           UNCHANGED <<media, pairing, db, Files!disk, sent, shown, tasks, drawn, requests,
                       Files!past, fileFaults>>
    PROVE  FileStep
<1>1. Shape /\ KeyInv
  BY DEF FilesIInv
<1>2. stream' \in [Files!Device -> Seq(Files!Frame)] /\ Streams
  BY <1>1, TakenSteps
<1>3. deaf' \subseteq Files!Device
  BY <1>1 DEF Shape, Files!TypeOK
<1>4. Shape'
  BY <1>1, <1>2, <1>3 DEF Shape, Files!TypeOK, Files!disk, Files!past
<1>5. QED
  BY <1>1, <1>2, <1>4, Idle DEF FileStep, Files!disk, Files!past

\* A bad save of the session costs the message.
LEMMA UnsavedSteps ==
    ASSUME FileBounds, FilesIInv, NEW d \in Files!Device, NEW x \in On(d), x \in Files!Frame,
           stream' \in [Files!Device -> Seq(Files!Frame)], Streams, Files!Unsaved(d, x)
    PROVE  FileStep
<1>1. Shape /\ KeyInv
  BY DEF FilesIInv
<1>2. UNCHANGED <<Files!store, sent, shown, tasks, drawn, requests, owner, announced, unsure,
                  handedOver, torn>>
      /\ Files!Fails("unsaved") /\ mishap' = [mishap EXCEPT ![d] = @ \cup {x.file}]
  BY DEF Files!Unsaved
<1>3. x.file \in Files!File
  BY DEF Files!Frame
<1>4. mishap' \in [Files!Device -> SUBSET Files!File] /\ Grows
  BY <1>1, <1>2, <1>3 DEF Shape, Grows
<1>5. fileFaults' \in 0..MaxFileFaults
  BY <1>1, <1>2, OpenTypes
<1>6. Shape'
  BY <1>1, <1>2, <1>4, <1>5 DEF Shape, Files!TypeOK, Files!store, Files!disk
<1>7. QED
  BY <1>1, <1>2, <1>4, <1>6, Idle DEF FileStep, Files!store, Files!disk

\* The two ends of an answer.
LEMMA AnswerSteps ==
    ASSUME FileBounds, FilesIInv, NEW d \in Files!Device, NEW x \in On(d), x \in Files!Frame,
           stream' \in [Files!Device -> Seq(Files!Frame)], Streams,
           Files!GetsAnswer(d, x) \/ Files!StrayAnswer(d, x)
    PROVE  FileStep
<1>1. Shape /\ KeyInv
  BY DEF FilesIInv
<1>2. UNCHANGED <<Files!store, shown, drawn, requests, Files!past, fileFaults>>
  BY DEF Files!GetsAnswer, Files!StrayAnswer
<1>3. CASE Files!StrayAnswer(d, x)
  <2>1. UNCHANGED <<sent, tasks>>
    BY <1>3 DEF Files!StrayAnswer
  <2>2. Shape'
    BY <1>1, <1>2, <2>1 DEF Shape, Files!TypeOK, Files!store, Files!disk, Files!past
  <2>3. QED
    BY <1>1, <1>2, <2>1, <2>2, Idle DEF FileStep, Files!store, Files!disk, Files!past
<1>4. CASE Files!GetsAnswer(d, x)
  <2>1. PICK t \in tasks[d], f \in Files!File :
            /\ t.do = "wait" /\ t.frame.file = f /\ Files!Replace(d, t, {})
            /\ sent' = [sent EXCEPT ![d][f] = "sent"]
    BY <1>4 DEF Files!GetsAnswer, Files!Frame
  <2>2. sent \in [Files!Device -> [Files!File -> {"none", "sent", "delivered"}]]
    BY <1>1 DEF Shape, Files!TypeOK
  <2>3. /\ sent' \in [Files!Device -> [Files!File -> {"none", "sent", "delivered"}]]
        /\ sent'[d][f] = "sent"
        /\ \A e \in Files!Device, g \in Files!File : (e = d /\ g = f) \/ sent'[e][g] = sent[e][g]
    BY <2>1, <2>2
  <2>4. FileTicks
    BY <2>3 DEF FileTicks
  <2>5. /\ tasks' \in [Files!Device -> SUBSET Files!Task]
        /\ \A e \in Files!Device : \A u \in tasks'[e] : u \in tasks[e] \/ (e = d /\ u \in {})
        /\ \A e \in Files!Device : \A u \in tasks[e] : u \in tasks'[e] \/ (e = d /\ u \in {t})
    <3>1. tasks' = [tasks EXCEPT ![d] = (@ \ {t}) \cup {}]
      BY <2>1 DEF Files!Replace
    <3>2. QED
      BY <1>1, <3>1, Replaced, ZenonT(60)
  <2>6. NewTasks /\ OldTasks
    BY <2>1, <2>3, <2>5 DEF NewTasks, OldTasks, Ends
  <2>7. Shape'
    BY <1>1, <1>2, <2>3, <2>5 DEF Shape, Files!TypeOK, Files!store, Files!disk, Files!past
  <2>8. QED
    BY <1>1, <1>2, <2>4, <2>6, <2>7, Idle DEF FileStep, Files!store, Files!disk, Files!past
<1>5. QED
  BY <1>3, <1>4

\* A FILE is shown, and then a receipt for it is sent.
LEMMA HandleFileSteps ==
    ASSUME FileBounds, FilesIInv, NEW d \in Files!Device, NEW x \in On(d), x \in Files!Frame,
           stream' \in [Files!Device -> Seq(Files!Frame)], Streams, Files!HandleFile(d, x)
    PROVE  FileStep
<1>1. Shape /\ KeyInv
  BY DEF FilesIInv
<1>2. PICK f \in Files!File : f = x.file
  BY DEF Files!Frame
<1>3. /\ UNCHANGED <<Files!store, sent, drawn, requests, owner, announced, unsure, mishap,
                     torn, fileFaults>>
      /\ shown' = [shown EXCEPT ![d] = @ \cup {f}]
      /\ handedOver' = [handedOver EXCEPT ![d] = @ \cup {f}]
      /\ Files!Add(d, "send", Files!Message("RECEIPT", f, Files!Nothing, FALSE))
  BY <1>2 DEF Files!HandleFile
<1>4. /\ shown' \in [Files!Device -> SUBSET Files!File] /\ handedOver' \in [Files!Device -> SUBSET Files!File]
      /\ Grows /\ Takes /\ f \in shown'[d]
  BY <1>1, <1>3 DEF Shape, Grows, Takes
<1>5. PICK r \in Files!Frame : r = Files!Message("RECEIPT", f, Files!Nothing, FALSE) /\ r.kind = "RECEIPT" /\ r.file = f
  BY Frames, NothingIsData DEF Files!Message
<1>6. /\ tasks' \in [Files!Device -> SUBSET Files!Task]
      /\ \A e \in Files!Device : \A t \in tasks'[e] :
            t \in tasks[e] \/ (e = d /\ t.do = "send" /\ t.frame = r)
      /\ OldTasks
  <2>1. Files!Add(d, "send", r)
    BY <1>3, <1>5
  <2>2. QED
    BY <1>1, <2>1, Added
<1>7. NewTasks
  BY <1>4, <1>5, <1>6 DEF NewTasks, TaskOK, Carries
<1>8. Shape'
  BY <1>1, <1>3, <1>4, <1>6 DEF Shape, Files!TypeOK, Files!store, Files!disk
<1>9. QED
  BY <1>1, <1>3, <1>4, <1>6, <1>7, <1>8, Idle DEF FileStep, Files!store, Files!disk

\* Data with metadata waits to be kept.
LEMMA HandleFileDataSteps ==
    ASSUME FileBounds, FilesIInv, NEW d \in Files!Device, NEW x \in On(d), x \in Files!Frame,
           stream' \in [Files!Device -> Seq(Files!Frame)], Streams, Files!HandleFileData(d, x)
    PROVE  FileStep
<1>1. Shape /\ KeyInv /\ FrameOK(d, x)
  BY DEF FilesIInv, StreamInv
<1>2. UNCHANGED <<Files!store, sent, shown, drawn, requests, owner, announced, unsure, mishap,
                  torn, fileFaults>>
  BY DEF Files!HandleFileData
<1>3. CASE ~x.meta
  <2>1. UNCHANGED <<tasks, handedOver>>
    BY <1>3 DEF Files!HandleFileData
  <2>2. Shape'
    BY <1>1, <1>2, <2>1 DEF Shape, Files!TypeOK, Files!store, Files!disk
  <2>3. QED
    BY <1>1, <1>2, <2>1, <2>2, Idle DEF FileStep, Files!store, Files!disk
<1>4. CASE x.meta
  <2>1. PICK f \in Files!File : f = x.file
    BY DEF Files!Frame
  <2>2. /\ Files!Add(d, "keep", x) /\ handedOver' = [handedOver EXCEPT ![d] = @ \cup {f}]
        /\ x.kind = "FILE_DATA"
    BY <1>4, <2>1 DEF Files!HandleFileData
  <2>3. /\ tasks' \in [Files!Device -> SUBSET Files!Task]
        /\ \A e \in Files!Device : \A t \in tasks'[e] :
              t \in tasks[e] \/ (e = d /\ t.do = "keep" /\ t.frame = x)
        /\ OldTasks
        /\ \E t \in tasks'[d] : t.do = "keep" /\ t.frame = x
    BY <1>1, <2>2, Added
  <2>4. Carries(x)'
    BY <1>1, <1>2 DEF FrameOK, Carries
  <2>5. NewTasks
    BY <1>4, <2>2, <2>3, <2>4 DEF NewTasks, TaskOK
  <2>6. handedOver' \in [Files!Device -> SUBSET Files!File] /\ Takes
    BY <1>1, <2>1, <2>2, <2>3 DEF Shape, Takes
  <2>7. Shape'
    BY <1>1, <1>2, <2>3, <2>6 DEF Shape, Files!TypeOK, Files!store, Files!disk
  <2>8. QED
    BY <1>1, <1>2, <2>3, <2>5, <2>6, <2>7, Idle DEF FileStep, Files!store, Files!disk
<1>5. QED
  BY <1>3, <1>4

\* A request waits to be answered.
LEMMA HandleRequestSteps ==
    ASSUME FileBounds, FilesIInv, NEW d \in Files!Device, NEW x \in On(d), x \in Files!Frame,
           stream' \in [Files!Device -> Seq(Files!Frame)], Streams, Files!HandleFileRequest(d, x)
    PROVE  FileStep
<1>1. Shape /\ KeyInv
  BY DEF FilesIInv
<1>2. UNCHANGED <<Files!store, sent, shown, drawn, requests, Files!past, fileFaults>>
      /\ Files!Add(d, "read", x) /\ x.kind = "FILE_REQUEST"
  BY DEF Files!HandleFileRequest
<1>3. /\ tasks' \in [Files!Device -> SUBSET Files!Task]
      /\ \A e \in Files!Device : \A t \in tasks'[e] :
            t \in tasks[e] \/ (e = d /\ t.do = "read" /\ t.frame = x)
      /\ OldTasks
  BY <1>1, <1>2, Added
<1>4. NewTasks
  BY <1>2, <1>3 DEF NewTasks, TaskOK, Carries
<1>5. Shape'
  BY <1>1, <1>2, <1>3 DEF Shape, Files!TypeOK, Files!store, Files!disk, Files!past
<1>6. QED
  BY <1>1, <1>2, <1>3, <1>4, <1>5, Idle DEF FileStep, Files!store, Files!disk, Files!past

\* The data that answers a request carries no metadata, so it will not be kept.
LEMMA ReadSteps ==
    ASSUME FileBounds, FilesIInv, NEW d \in Files!Device, NEW t \in tasks[d], Files!ReadFile(d, t)
    PROVE  FileStep
<1>1. Shape /\ KeyInv /\ t.do = "read" /\ t.frame.file \in Files!File
  BY Shapes DEF FilesIInv, Files!ReadFile
<1>2. UNCHANGED <<media, pairing, deaf, sent, shown, stream, drawn, requests, Files!past>>
  BY DEF Files!ReadFile
<1>3. /\ db' \in [Files!Device -> {"none", "open", "rejected"}]
      /\ fileFaults' \in 0..MaxFileFaults /\ UNCHANGED <<files, committing>>
  <2>1. fileFaults \in 0..MaxFileFaults
    BY <1>1 DEF Shape, Files!TypeOK
  <2>2. CASE Files!Opened(d) /\ UNCHANGED <<Files!disk, fileFaults>>
    BY <1>1, <2>1, <2>2, OpenTypes DEF Files!disk
  <2>3. CASE Files!StoreFails(d)
    BY <1>1, <2>3, OpenTypes
  <2>4. QED
    BY <2>2, <2>3 DEF Files!ReadFile
<1>4. PICK f \in Files!File, data \in Files!Data : f = t.frame.file /\ data = Files!Retrieved(d, t.frame.file)
  BY <1>1, Shapes DEF Files!Retrieved
<1>5. PICK r \in Files!Frame, new \in Files!Task :
          /\ new = [do |-> "send", frame |-> Files!Message("FILE_DATA", f, data, FALSE)]
          /\ new.do = "send" /\ new.frame = r /\ ~r.meta /\ r.kind = "FILE_DATA"
  BY Frames DEF Files!Message
<1>6. \E S \in SUBSET {new} : Files!Replace(d, t, S)
  <2>1. Files!Replace(d, t, {}) \/ Files!Replace(d, t, {new})
    BY <1>4, <1>5 DEF Files!ReadFile, Files!AnswerMeta
  <2>2. QED
    BY <2>1
<1>7. tasks' \in [Files!Device -> SUBSET Files!Task] /\ NewTasks /\ OldTasks
  <2>1. PICK S \in SUBSET {new} : Files!Replace(d, t, S)
    BY <1>6
  <2>2. S \in SUBSET Files!Task /\ tasks' = [tasks EXCEPT ![d] = (@ \ {t}) \cup S]
    BY <2>1 DEF Files!Replace
  <2>3. /\ tasks' \in [Files!Device -> SUBSET Files!Task]
        /\ \A e \in Files!Device : \A u \in tasks'[e] : u \in tasks[e] \/ (e = d /\ u \in S)
        /\ \A e \in Files!Device : \A u \in tasks[e] : u \in tasks'[e] \/ (e = d /\ u \in {t})
    BY <1>1, <2>2, Replaced, ZenonT(60)
  <2>4. TaskOK(d, new)'
    BY <1>5 DEF TaskOK, Carries
  <2>5. QED
    BY <1>1, <2>1, <2>3, <2>4 DEF NewTasks, OldTasks, Ends
<1>8. Shape'
  BY <1>1, <1>2, <1>3, <1>7 DEF Shape, Files!TypeOK, Files!past
<1>9. QED
  BY <1>1, <1>2, <1>3, <1>7, <1>8, Idle DEF FileStep, Files!past

\* A receipt is of a file its sender shows.
LEMMA HandleReceiptSteps ==
    ASSUME FileBounds, FilesIInv, NEW d \in Files!Device, NEW x \in On(d), x \in Files!Frame,
           stream' \in [Files!Device -> Seq(Files!Frame)], Streams, Files!HandleReceipt(d, x)
    PROVE  FileStep
<1>1. Shape /\ KeyInv /\ FrameOK(d, x)
  BY DEF FilesIInv, StreamInv
<1>2. UNCHANGED <<Files!store, shown, tasks, drawn, requests, Files!past, fileFaults>>
  BY DEF Files!HandleReceipt
<1>3. PICK f \in Files!File : f = x.file
  BY DEF Files!Frame
<1>4. f \in shown[Files!Peer(d)]
  BY <1>1, <1>3 DEF FrameOK, Files!HandleReceipt
<1>5. sent \in [Files!Device -> [Files!File -> {"none", "sent", "delivered"}]]
  BY <1>1 DEF Shape, Files!TypeOK
<1>6. sent' = [sent EXCEPT ![d][f] = IF @ = "none" THEN @ ELSE "delivered"]
  BY <1>3 DEF Files!HandleReceipt
<1>7. /\ sent' \in [Files!Device -> [Files!File -> {"none", "sent", "delivered"}]]
      /\ sent'[d][f] = IF sent[d][f] = "none" THEN "none" ELSE "delivered"
      /\ \A e \in Files!Device, g \in Files!File : (e = d /\ g = f) \/ sent'[e][g] = sent[e][g]
  BY <1>5, <1>6
<1>8. FileTicks
  BY <1>4, <1>7 DEF FileTicks
<1>9. Shape'
  BY <1>1, <1>2, <1>7 DEF Shape, Files!TypeOK, Files!store, Files!disk, Files!past
<1>10. QED
  BY <1>1, <1>2, <1>8, <1>9, Idle DEF FileStep, Files!store, Files!disk, Files!past

\* Receive: one of the above.
LEMMA ReceiveSteps ==
    ASSUME FileBounds, FilesIInv, NEW d \in Files!Device, Files!Receive(d)
    PROVE  FileStep
<1>1. PICK x : x = Head(stream[d])
  OBVIOUS
<1>2. /\ stream[d] # <<>> /\ Files!Taken(d)
      /\ \/ Files!GetsAnswer(d, x) \/ Files!StrayAnswer(d, x)
         \/ Files!Undecryptable(d, x)
         \/ Files!HandleFile(d, x) \/ Files!HandleFileData(d, x)
         \/ Files!HandleFileRequest(d, x) \/ Files!HandleReceipt(d, x)
         \/ Files!Unsaved(d, x)
  BY <1>1 DEF Files!Receive
<1>3. Shape
  BY DEF FilesIInv
<1>4. x \in On(d) /\ stream' \in [Files!Device -> Seq(Files!Frame)] /\ Streams
  BY <1>1, <1>2, <1>3, TakenSteps
<1>5. x \in Files!Frame
  BY <1>3, <1>4, Shapes
<1>6. CASE Files!Undecryptable(d, x)
  BY <1>2, <1>6, DropSteps DEF Files!Undecryptable
<1>7. QED
  BY <1>2, <1>4, <1>5, <1>6, AnswerSteps, HandleFileSteps, HandleFileDataSteps,
     HandleRequestSteps, HandleReceiptSteps, UnsavedSteps

\* Every step keeps the invariant.
LEMMA FilesNext == ASSUME FileBounds, FilesIInv, [Files!Next]_(Files!vars) PROVE FilesIInv'
<1>1. CASE Files!Next
  <2>1. ASSUME NEW d \in Files!Device,
               \/ Files!StoreSharedKey(d) \/ Files!StoreMediaKey(d) \/ Files!AddContact(d)
               \/ \E big \in BOOLEAN : Files!SendFile(d, big)
               \/ \E f \in Files!File : Files!SendEncryptedFile(d, f) \/ Files!Request(d, f)
               \/ \E t \in tasks[d] : Files!Store(d, t) \/ Files!Send(d, t) \/ Files!ReadFile(d, t) \/ Files!Keep(d, t)
               \/ Files!Receive(d) \/ Files!DropUnknown(d)
               \/ Files!Commit(d) \/ Files!CommitFails(d) \/ Files!Crash(d)
        PROVE  FileStep
    <3>1. Files!DropUnknown(d) => FileStep
      BY DropSteps DEF Files!DropUnknown
    <3>2. QED
      BY <2>1, <3>1, PairingSteps, SendFileSteps, SendEncryptedSteps, RequestSteps, StoreSteps,
         SendSteps, ReadSteps, KeepSteps, ReceiveSteps, CommitSteps, CrashSteps
  <2>2. FileStep
    BY <1>1, <2>1 DEF Files!Next
  <2>3. QED
    BY <2>2, StepKeeps
<1>2. CASE UNCHANGED Files!vars
  <2>1. Shape /\ KeyInv
    BY DEF FilesIInv
  <2>2. Shape'
    BY <1>2, <2>1 DEF Files!vars, Files!store, Files!disk, Files!past, Shape, Files!TypeOK
  <2>3. FileStep
    BY <1>2, <2>1, <2>2, Idle DEF Files!vars, Files!store, Files!disk, Files!past, FileStep
  <2>4. QED
    BY <2>3, StepKeeps
<1>3. QED
  BY <1>1, <1>2

\* The invariant holds at the start.
LEMMA FilesInit == ASSUME FileBounds, Files!Init PROVE FilesIInv
<1>1. /\ media = [d \in Files!Device |-> "none"] /\ pairing = [d \in Files!Device |-> "none"]
      /\ db = [d \in Files!Device |-> "none"]
      /\ files = [d \in Files!Device |-> [f \in Files!File |-> Files!Nothing]]
      /\ sent = [d \in Files!Device |-> [f \in Files!File |-> "none"]]
      /\ shown = [d \in Files!Device |-> {}] /\ tasks = [d \in Files!Device |-> {}]
      /\ stream = [d \in Files!Device |-> <<>>] /\ drawn = 0 /\ requests = 0 /\ fileFaults = 0
      /\ owner = [f \in Files!File |-> Inviter] /\ announced = {} /\ unsure = {}
      /\ handedOver = [d \in Files!Device |-> {}] /\ mishap = [d \in Files!Device |-> {}]
      /\ torn = [d \in Files!Device |-> {}] /\ committing = [d \in Files!Device |-> {}]
      /\ deaf = {}
  BY DEF Files!Init
<1>2. drawn \in 0..MaxFiles /\ requests \in 0..MaxRequests /\ fileFaults \in 0..MaxFileFaults
  BY <1>1, Constants
<1>3. media \in [Files!Device -> Files!Key] /\ files \in [Files!Device -> [Files!File -> Files!Data]]
      /\ sent \in [Files!Device -> [Files!File -> {"none", "sent", "delivered"}]]
      /\ owner \in [Files!File -> Files!Device]
  BY <1>1, NothingIsData DEF Files!Key, Files!Device
<1>4. Shape
  BY <1>1, <1>2, <1>3 DEF Shape, Files!TypeOK
<1>5. TasksInv /\ KeyInv
  BY <1>1 DEF TasksInv, KeyInv
<1>6. StreamInv
  BY <1>1 DEF StreamInv, On
<1>7. Files!DeliveredIsShown
  BY <1>1 DEF Files!DeliveredIsShown
<1>8. AnnouncedInv /\ Files!AnnouncedIsStored /\ Files!UnseenBySenderNeedsMishap /\ Files!LostMessageNeedsMishap
  BY <1>1 DEF AnnouncedInv, Files!AnnouncedIsStored, Files!UnseenBySenderNeedsMishap,
     Files!LostMessageNeedsMishap
<1>9. QED
  BY <1>4, <1>5, <1>6, <1>7, <1>8 DEF FilesIInv

\* The invariant says what is promised.
LEMMA IInvFilesInv == ASSUME FileBounds, FilesIInv PROVE Files!FilesInv
<1>1. Files!MediaKeysAgree
  BY DEF FilesIInv, KeyInv, Files!MediaKeysAgree, Files!Known, Files!Device
<1>2. QED
  BY <1>1 DEF FilesIInv, Shape, Files!FilesInv

\* What holds of the files of two devices in every state.
THEOREM FilesHold == ASSUME FileBounds PROVE Files!Spec => []Files!FilesInv
<1>1. FilesIInv /\ [Files!Next]_(Files!vars) => FilesIInv'
  BY FilesNext
<1>2. QED
  BY FilesInit, <1>1, IInvFilesInv, PTL DEF Files!Spec

=============================================================================
