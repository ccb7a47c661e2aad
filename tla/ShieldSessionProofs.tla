------------------------- MODULE ShieldSessionProofs -------------------------
(***************************************************************************)
(* Proofs about ShieldSession, for any set of calls and any number of      *)
(* reloads: type correctness, and that a send position is never used by    *)
(* two released ciphertexts unless getSession forked the session.          *)
(*                                                                         *)
(* The argument: while there is one session object, the values written by  *)
(* the queued transactions are read off a chain that only grows, and they  *)
(* run one after the other.  Once a call's own save is in the queue,       *)
(* everything behind it is therefore beyond the call's counter.  So is the *)
(* stored counter once that save has committed; should it not commit, the  *)
(* save that preceded the encryption has stored enough, provided that it   *)
(* did commit and that no other call used up the position it made room     *)
(* for.  A call that has neither is exposed, and nothing is claimed of it. *)
(*                                                                         *)
(* The second part is about SmpClient, which carries what is encrypted.    *)
(***************************************************************************)
EXTENDS ShieldSession, FiniteSets, FiniteSetTheorems, SequenceTheorems, TLAPS

-----------------------------------------------------------------------------
(* The inductive invariant                                                 *)

\* Transactions belong to calls that wait for them, one each, and a call that
\* waits for a write has the operands of that write.
QueueInv ==
    /\ \A i \in 1..Len(txq) :
          /\ pc[txq[i].call] \in {"loading"} \cup Saving
          /\ pc[txq[i].call] \in Saving => txq[i].val \in Nat
    /\ \A i, j \in 1..Len(txq) : txq[i].call = txq[j].call => i = j
    /\ \A c \in Call :
          /\ pc[c] \in Saving => entry # None /\ held[c] \in Call /\ target[c] \in Call
          /\ pc[c] = "restoring" => snap[c] \in Nat
          /\ pc[c] = "save" \/ c \in released => counter[c] \in Nat
          /\ c \in released => pc[c] = "done"
    /\ committing # None => entry # None

\* All calls work with the session object that is in the map; before there is
\* one, what a call has read of the record is still what is stored.
OneSession ==
    /\ \A c \in Call : pc[c] \in Saving => entry # None /\ held[c] = entry /\ target[c] = entry
    /\ entry = None =>
          \A c \in Call : /\ pc[c] = "restoring" => snap[c] = record
                          /\ pc[c] = "fetchKey" => record = None

\* x is below all that is queued.
QueuedBeyond(x) == \A i \in 1..Len(txq) : txq[i].val # None => x < txq[i].val

\* x is below everything that is being written, is queued or is in memory.
Beyond(x) ==
    /\ committing # None => x < committing.val
    /\ QueuedBeyond(x)
    /\ entry # None => x < chain[entry]

\* Position x is below the stored counter.
Recorded(x) == record \in Nat /\ x < record

\* The save before c's encryption cannot stand in for the one after it.
Unaided(c) == <<c, "presave">> \in lost \/ c \in overlapped

Committing(c, step) ==
    committing # None /\ committing.call = c /\ committing.step = step

ReleasedCovered ==
    \A c \in released : ~Exposed(c) =>
        /\ Beyond(counter[c])
        /\ Recorded(counter[c]) \/ (Unaided(c) /\ Committing(c, "save"))

\* What call c has queued, and what is queued behind it, is beyond x.
BehindBeyond(c, x) ==
    \A i \in 1..Len(txq) : txq[i].call = c =>
        \A j \in i..Len(txq) : txq[j].val # None => x < txq[j].val

\* Call c's first save has stored what is beyond its position, or is about to.
Aided(c) ==
    \/ Unaided(c)
    \/ committing = None /\ Recorded(counter[c])
    \/ Committing(c, "presave") /\ counter[c] < committing.val

\* A call between its encryption and its second save: what it wrote, and what
\* was queued behind it, is beyond its counter; so is what its first save wrote
\* if nobody came in between.
SavingCovered ==
    \A c \in Call : pc[c] = "save" =>
        counter[c] < chain[entry] /\ BehindBeyond(c, counter[c]) /\ Aided(c)

Encrypted(c) == pc[c] = "save" \/ (c \in released /\ ~Exposed(c))

Distinct ==
    \A c, d \in Call : c # d /\ Encrypted(c) /\ Encrypted(d) => counter[c] # counter[d]

\* A call that overlaps no other is the only one under way.
AloneInv == \A c \in UnderWay \ overlapped : UnderWay = {c}

\* Its first save writes the position after the one that it goes on to use.
AlonePut ==
    \A i \in 1..Len(txq) : LET c == txq[i].call
                           IN  pc[c] = "presave" /\ c \notin overlapped
                                   => txq[i].val = chain[entry] + 1

SendInv ==
    OneSession /\ ReleasedCovered /\ SavingCovered /\ Distinct /\ AloneInv /\ AlonePut

IInv == TypeOK /\ QueueInv /\ (forked \/ SendInv)

-----------------------------------------------------------------------------
(* The transaction queue                                                   *)

LEMMA QueueType ==
    ASSUME TypeOK, NEW i \in 1..Len(txq)
    PROVE  txq[i] \in Tx /\ txq[i].call \in Call /\ txq[i].val \in Nat \cup {None}
<1>1. txq[i] \in Tx
  BY DEF TypeOK
<1>2. QED
  BY <1>1 DEF Tx

\* Taking the head off the queue shifts the others by one.
LEMMA PopQueue ==
    ASSUME TypeOK, txq # <<>>
    PROVE  /\ Len(txq) \in Nat /\ Len(txq) >= 1
           /\ Head(txq) = txq[1] /\ txq[1] \in Tx
           /\ Tail(txq) \in Seq(Tx)
           /\ Len(Tail(txq)) = Len(txq) - 1
           /\ \A i \in 1..Len(Tail(txq)) : Tail(txq)[i] = txq[i + 1] /\ i + 1 \in 1..Len(txq)
<1>1. txq \in Seq(Tx)
  BY DEF TypeOK
<1>2. Len(txq) \in Nat /\ Len(txq) >= 1 /\ Head(txq) = txq[1] /\ txq[1] \in Tx
  BY <1>1
<1>3. Tail(txq) \in Seq(Tx) /\ Len(Tail(txq)) = Len(txq) - 1
  BY <1>1
<1>4. ASSUME NEW i \in 1..Len(Tail(txq))
      PROVE  Tail(txq)[i] = txq[i + 1] /\ i + 1 \in 1..Len(txq)
  BY <1>1, <1>2, <1>3
<1>5. QED
  BY <1>2, <1>3, <1>4

\* Appending leaves the transactions already queued where they are.
LEMMA PushQueue ==
    ASSUME TypeOK, NEW t \in Tx
    PROVE  /\ Len(txq) \in Nat
           /\ Append(txq, t) \in Seq(Tx)
           /\ Len(Append(txq, t)) = Len(txq) + 1
           /\ Append(txq, t)[Len(txq) + 1] = t
           /\ \A i \in 1..Len(txq) : Append(txq, t)[i] = txq[i]
BY DEF TypeOK

-----------------------------------------------------------------------------
(* Type correctness                                                        *)

Base == TypeOK /\ QueueInv

LEMMA BaseInit == Init => Base
<1> SUFFICES ASSUME Init PROVE Base
  OBVIOUS
<1>1. TypeOK
  <2>1. txq \in Seq(Tx)
    BY DEF Init
  <2>2. 0 \in 0..MaxReloads
    BY SessionAssumption
  <2>3. pc \in [Call -> States]
    BY DEF Init, States
  <2>4. QED
    BY <2>1, <2>2, <2>3 DEF Init, TypeOK
<1>2. QueueInv
  BY DEF Init, QueueInv, Saving
<1>3. QED
  BY <1>1, <1>2 DEF Base

\* What a transaction leaving the queue means for QueueInv: nothing.
LEMMA PopKeepsQueue ==
    ASSUME Base, txq # <<>>, txq' = Tail(txq), NEW c \in Call, Head(txq).call = c,
           NEW label \in States, pc' = [pc EXCEPT ![c] = label]
    PROVE  /\ \A i \in 1..Len(txq') :
                 /\ pc'[txq'[i].call] \in {"loading"} \cup Saving
                 /\ pc'[txq'[i].call] \in Saving => txq'[i].val \in Nat
           /\ \A i, j \in 1..Len(txq') : txq'[i].call = txq'[j].call => i = j
<1> USE PopQueue DEF Base
<1>1. ASSUME NEW i \in 1..Len(txq')
      PROVE  /\ txq'[i] = txq[i + 1] /\ i + 1 \in 1..Len(txq)
             /\ txq'[i].call \in Call /\ txq'[i].call # c
  <2>1. txq'[i] = txq[i + 1] /\ i + 1 \in 1..Len(txq) /\ i \in Nat /\ i >= 1
    OBVIOUS
  <2>2. txq[i + 1] \in Tx
    BY <2>1 DEF TypeOK
  <2>3. txq[i + 1].call # txq[1].call
    BY <2>1 DEF QueueInv
  <2>4. QED
    BY <2>1, <2>2, <2>3 DEF Tx
<1>2. \A i \in 1..Len(txq') :
          /\ pc'[txq'[i].call] \in {"loading"} \cup Saving
          /\ pc'[txq'[i].call] \in Saving => txq'[i].val \in Nat
  BY <1>1 DEF QueueInv, TypeOK
<1>3. ASSUME NEW i \in 1..Len(txq'), NEW j \in 1..Len(txq'), txq'[i].call = txq'[j].call
      PROVE  i = j
  <2>1. i + 1 = j + 1
    BY <1>1, <1>3 DEF QueueInv
  <2>2. QED
    BY <2>1
<1>4. QED
  BY <1>2, <1>3

\* Nor does a new one of a call that has none.
LEMMA PushKeepsQueue ==
    ASSUME Base, NEW c \in Call, ~Queued(c), NEW v \in Nat \cup {None},
           txq' = Append(txq, [call |-> c, val |-> v]),
           pc' \in [Call -> States], \A d \in Call \ {c} : pc'[d] = pc[d],
           pc'[c] \in {"loading"} \cup Saving, pc'[c] \in Saving => v \in Nat
    PROVE  /\ txq' \in Seq(Tx)
           /\ \A i \in 1..Len(txq') :
                 /\ pc'[txq'[i].call] \in {"loading"} \cup Saving
                 /\ pc'[txq'[i].call] \in Saving => txq'[i].val \in Nat
           /\ \A i, j \in 1..Len(txq') : txq'[i].call = txq'[j].call => i = j
<1> DEFINE t == [call |-> c, val |-> v]
<1>1. t \in Tx /\ t.call = c /\ t.val = v
  BY DEF Tx
<1> HIDE DEF t
<1>2. /\ txq' \in Seq(Tx) /\ Len(txq) \in Nat /\ Len(txq') = Len(txq) + 1
      /\ txq'[Len(txq) + 1] = t
      /\ \A i \in 1..Len(txq) : txq'[i] = txq[i]
  BY <1>1, PushQueue DEF Base, t
<1>3. \A i \in 1..Len(txq) : txq[i].call \in Call /\ txq[i].call # c
  BY QueueType DEF Queued, Base
<1>4. ASSUME NEW i \in 1..Len(txq')
      PROVE  /\ pc'[txq'[i].call] \in {"loading"} \cup Saving
             /\ pc'[txq'[i].call] \in Saving => txq'[i].val \in Nat
  <2>1. CASE i \in 1..Len(txq)
    BY <2>1, <1>2, <1>3 DEF Base, QueueInv
  <2>2. CASE i = Len(txq) + 1
    BY <2>2, <1>1, <1>2
  <2>3. QED
    BY <1>2, <2>1, <2>2
<1>5. ASSUME NEW i \in 1..Len(txq'), NEW j \in 1..Len(txq'), txq'[i].call = txq'[j].call
      PROVE  i = j
  <2>1. CASE i \in 1..Len(txq) /\ j \in 1..Len(txq)
    BY <2>1, <1>2, <1>5 DEF Base, QueueInv
  <2>2. CASE i = Len(txq) + 1 /\ j \in 1..Len(txq)
    BY <2>2, <1>1, <1>2, <1>3, <1>5
  <2>3. CASE i \in 1..Len(txq) /\ j = Len(txq) + 1
    BY <2>3, <1>1, <1>2, <1>3, <1>5
  <2>4. QED
    BY <1>2, <2>1, <2>2, <2>3
<1>6. QED
  BY <1>2, <1>4, <1>5

\* The call that leaves a state in which it owns the head of the queue.
LEMMA PutDoneOperands ==
    ASSUME Base, NEW c \in Call, PutDone(c)
    PROVE  /\ committing = None /\ UNCHANGED <<record, lost>>
           /\ committing' = [call |-> c, step |-> pc[c], val |-> Head(txq).val]
           /\ committing' \in Commits /\ txq' \in Seq(Tx)
           /\ entry \in Call /\ held[c] \in Call /\ target[c] \in Call
           /\ txq # <<>> /\ Head(txq).call = c /\ txq' = Tail(txq)
<1>1. /\ txq # <<>> /\ Head(txq).call = c /\ txq' = Tail(txq) /\ committing = None
      /\ committing' = [call |-> c, step |-> pc[c], val |-> Head(txq).val]
      /\ UNCHANGED <<record, lost>> /\ pc[c] \in Saving
  BY DEF PutDone, Runs
<1>2. txq[1].call = c /\ Head(txq).val = txq[1].val /\ txq' \in Seq(Tx) /\ 1 \in 1..Len(txq)
  BY <1>1, PopQueue DEF Base
<1>3. Head(txq).val \in Nat
  BY <1>1, <1>2 DEF Base, QueueInv
<1>4. committing' \in Commits
  BY <1>1, <1>3 DEF Commits
<1>5. QED
  BY <1>1, <1>2, <1>4 DEF Base, QueueInv, TypeOK

LEMMA UncommittedType == TypeOK => Uncommitted \subseteq Call \X Saving
BY DEF TypeOK, Uncommitted, Commits

LEMMA BaseNext == Base /\ [Next]_vars => Base'
<1> SUFFICES ASSUME Base, [Next]_vars PROVE Base'
  OBVIOUS
<1> USE DEF Base, disk, history
<1>1. ASSUME NEW c \in Call, BeginWarm(c) PROVE Base'
  <2>1. TypeOK'
    BY <1>1 DEF BeginWarm, Begins, UnderWay, Goto, TypeOK, States, Saving
  <2>2. QueueInv'
    BY <1>1, QueueType DEF BeginWarm, Begins, Goto, TypeOK, QueueInv, Saving
  <2>3. QED
    BY <2>1, <2>2
<1>2. ASSUME NEW c \in Call, BeginCold(c) PROVE Base'
  <2>1. ~Queued(c)
    BY <1>2 DEF BeginCold, Begins, Queued, QueueInv, Saving
  <2>2. /\ pc' \in [Call -> States] /\ pc'[c] = "loading"
        /\ \A d \in Call \ {c} : pc'[d] = pc[d]
    BY <1>2 DEF BeginCold, Goto, TypeOK, States
  <2>3. /\ txq' \in Seq(Tx)
        /\ \A i \in 1..Len(txq') :
              /\ pc'[txq'[i].call] \in {"loading"} \cup Saving
              /\ pc'[txq'[i].call] \in Saving => txq'[i].val \in Nat
        /\ \A i, j \in 1..Len(txq') : txq'[i].call = txq'[j].call => i = j
    BY <1>2, <2>1, <2>2, PushKeepsQueue DEF BeginCold, Saving
  <2>4. TypeOK'
    BY <1>2, <2>2, <2>3 DEF BeginCold, Begins, UnderWay, TypeOK
  <2>5. QueueInv'
    BY <1>2, <2>2, <2>3, ZenonT(60) DEF BeginCold, Begins, QueueInv, Saving, TypeOK
  <2>6. QED
    BY <2>4, <2>5
<1>3. ASSUME NEW c \in Call, LoadRead(c) PROVE Base'
  <2>1. PICK label \in {"fetchKey", "restoring"} :
           pc' = [pc EXCEPT ![c] = label] /\ (label = "restoring" => record # None)
    BY <1>3 DEF LoadRead, Goto
  <2>2. txq # <<>> /\ Head(txq).call = c /\ txq' = Tail(txq) /\ label \in States
    BY <1>3, <2>1 DEF LoadRead, Runs, States
  <2>3. /\ txq' \in Seq(Tx)
        /\ \A i \in 1..Len(txq') :
              /\ pc'[txq'[i].call] \in {"loading"} \cup Saving
              /\ pc'[txq'[i].call] \in Saving => txq'[i].val \in Nat
        /\ \A i, j \in 1..Len(txq') : txq'[i].call = txq'[j].call => i = j
    BY <2>1, <2>2, PopKeepsQueue, PopQueue
  <2>4. TypeOK'
    BY <1>3, <2>1, <2>2, <2>3 DEF LoadRead, TypeOK
  <2>5. QueueInv'
    BY <1>3, <2>1, <2>3 DEF LoadRead, QueueInv, Saving, TypeOK
  <2>6. QED
    BY <2>4, <2>5
<1>4. ASSUME NEW c \in Call, Restore(c) PROVE Base'
  <2>1. snap[c] \in Nat
    BY <1>4 DEF Restore, QueueInv
  <2>2. TypeOK'
    BY <1>4, <2>1 DEF Restore, Install, Goto, TypeOK, States, Saving
  <2>3. QueueInv'
    BY <1>4, QueueType, SessionAssumption DEF Restore, Install, Goto, TypeOK, QueueInv, Saving
  <2>4. QED
    BY <2>2, <2>3
<1>5. ASSUME NEW c \in Call, RestoreFails(c) PROVE Base'
  <2>1. TypeOK'
    BY <1>5 DEF RestoreFails, Goto, TypeOK, States
  <2>2. QueueInv'
    BY <1>5, QueueType DEF RestoreFails, Goto, TypeOK, QueueInv, Saving
  <2>3. QED
    BY <2>1, <2>2
<1>6. ASSUME NEW c \in Call, Create(c) PROVE Base'
  <2>1. TypeOK'
    BY <1>6 DEF Create, Install, Goto, TypeOK, States, Saving
  <2>2. QueueInv'
    BY <1>6, QueueType, SessionAssumption DEF Create, Install, Goto, TypeOK, QueueInv, Saving
  <2>3. QED
    BY <2>1, <2>2
<1>7. ASSUME NEW c \in Call, Put(c) PROVE Base'
  <2>1. target[c] \in Call /\ pc[c] \in Saving
    BY <1>7 DEF Put, QueueInv
  <2>2. PICK v \in Nat : txq' = Append(txq, [call |-> c, val |-> v])
    BY <1>7, <2>1 DEF Put, TypeOK
  <2>3. /\ txq' \in Seq(Tx)
        /\ \A i \in 1..Len(txq') :
              /\ pc'[txq'[i].call] \in {"loading"} \cup Saving
              /\ pc'[txq'[i].call] \in Saving => txq'[i].val \in Nat
        /\ \A i, j \in 1..Len(txq') : txq'[i].call = txq'[j].call => i = j
    <3>1. pc' = pc /\ ~Queued(c) /\ pc \in [Call -> States]
      BY <1>7 DEF Put, TypeOK
    <3>2. QED
      BY <2>1, <2>2, <3>1, PushKeepsQueue
  <2>4. TypeOK'
    BY <1>7, <2>3 DEF Put, TypeOK
  <2>5. QueueInv'
    BY <1>7, <2>3 DEF Put, QueueInv
  <2>6. QED
    BY <2>4, <2>5
<1>8. ASSUME NEW c \in Call, Created(c) \/ Encrypt(c) \/ Return(c) PROVE Base'
  <2>1. PutDone(c) /\ UNCHANGED <<entry, held, snap, reloads, forked, overlapped>>
    BY <1>8 DEF Created, Encrypt, Return
  <2>2. /\ committing' \in Commits /\ UNCHANGED <<record, lost>>
        /\ entry \in Call /\ entry # None /\ held[c] \in Call /\ target[c] \in Call
        /\ txq # <<>> /\ Head(txq).call = c /\ txq' = Tail(txq) /\ txq' \in Seq(Tx)
    BY <2>1, PutDoneOperands, SessionAssumption
  <2>3. PICK label \in {"presave", "save", "done"} : pc' = [pc EXCEPT ![c] = label]
    BY <1>8 DEF Created, Encrypt, Return, Goto
  <2>4. /\ \A i \in 1..Len(txq') :
              /\ pc'[txq'[i].call] \in {"loading"} \cup Saving
              /\ pc'[txq'[i].call] \in Saving => txq'[i].val \in Nat
        /\ \A i, j \in 1..Len(txq') : txq'[i].call = txq'[j].call => i = j
    <3>1. label \in States
      BY DEF States, Saving, Terminal
    <3>2. QED
      BY <2>2, <2>3, <3>1, PopKeepsQueue
  <2>5. /\ pc' \in [Call -> States] /\ txq' \in Seq(Tx)
        /\ committing' \in Commits /\ UNCHANGED <<record, lost>>
        /\ UNCHANGED <<entry, held, snap, reloads, forked, overlapped>>
    BY <2>1, <2>2, <2>3 DEF TypeOK, States, Saving, Terminal
  <2>6. CASE Created(c)
    <3>1. TypeOK'
      BY <2>5, <2>6 DEF Created, TypeOK
    <3>2. QueueInv'
      BY <2>2, <2>4, <2>6, SessionAssumption DEF Created, Goto, TypeOK, QueueInv, Saving
    <3>3. QED
      BY <3>1, <3>2
  <2>7. CASE Encrypt(c)
    <3>1. TypeOK'
      <4>1. chain \in [Call -> Nat] /\ chain[held[c]] \in Nat
        BY <2>2 DEF TypeOK
      <4>2. chain' \in [Call -> Nat] /\ counter' \in [Call -> Nat \cup {None}]
        BY <2>2, <2>7, <4>1 DEF Encrypt, TypeOK
      <4>3. target' \in [Call -> Call \cup {None}] /\ released' = released
        BY <2>2, <2>7 DEF Encrypt, TypeOK
      <4>4. QED
        BY <2>5, <4>2, <4>3 DEF TypeOK
    <3>2. QueueInv'
      BY <2>2, <2>4, <2>7, SessionAssumption DEF Encrypt, Goto, TypeOK, QueueInv, Saving
    <3>3. QED
      BY <3>1, <3>2
  <2>8. CASE Return(c)
    <3>1. TypeOK'
      BY <2>5, <2>8 DEF Return, TypeOK
    <3>2. QueueInv'
      BY <2>4, <2>8 DEF Return, Goto, TypeOK, QueueInv, Saving
    <3>3. QED
      BY <3>1, <3>2
  <2>9. QED
    BY <1>8, <2>6, <2>7, <2>8
<1>9. ASSUME NEW c \in Call, TxFails(c) PROVE Base'
  <2>1. /\ txq # <<>> /\ Head(txq).call = c /\ txq' = Tail(txq)
        /\ pc' = [pc EXCEPT ![c] = "failed"]
    BY <1>9 DEF TxFails, Runs, Goto
  <2>2. "failed" \in States
    BY DEF States, Terminal
  <2>3. /\ txq' \in Seq(Tx)
        /\ \A i \in 1..Len(txq') :
              /\ pc'[txq'[i].call] \in {"loading"} \cup Saving
              /\ pc'[txq'[i].call] \in Saving => txq'[i].val \in Nat
        /\ \A i, j \in 1..Len(txq') : txq'[i].call = txq'[j].call => i = j
    BY <2>1, <2>2, PopKeepsQueue, PopQueue
  <2>4. c \notin released
    <3>1. 1 \in 1..Len(txq) /\ txq[1].call = c
      BY <2>1, PopQueue
    <3>2. QED
      BY <3>1 DEF QueueInv, Saving
  <2>5. TypeOK'
    BY <1>9, <2>1, <2>2, <2>3 DEF TxFails, TypeOK
  <2>6. QueueInv'
    BY <1>9, <2>1, <2>3, <2>4 DEF TxFails, TypeOK, QueueInv, Saving
  <2>7. QED
    BY <2>5, <2>6
<1>10. ASSUME NEW c \in Call, CallFails(c) PROVE Base'
  <2>1. "failed" \in States
    BY DEF States, Terminal
  <2>2. TypeOK'
    BY <1>10, <2>1 DEF CallFails, Goto, TypeOK
  <2>3. \A i \in 1..Len(txq) : txq[i].call \in Call /\ txq[i].call # c
    BY <1>10, QueueType DEF CallFails, Queued
  <2>4. QueueInv'
    BY <1>10, <2>3 DEF CallFails, Goto, TypeOK, QueueInv, Saving
  <2>5. QED
    BY <2>2, <2>4
<1>11. CASE Reload
  <2>0. lost' \in SUBSET (Call \X Saving)
    BY <1>11, UncommittedType DEF Reload, TypeOK
  <2>1. TypeOK'
    BY <1>11, <2>0, SessionAssumption DEF Reload, TypeOK, States, Terminal
  <2>2. QueueInv'
    BY <1>11 DEF Reload, TypeOK, QueueInv, Saving, Terminal
  <2>3. QED
    BY <2>1, <2>2
<1>12. CASE UNCHANGED vars
  BY <1>12 DEF vars, TypeOK, QueueInv, Saving
<1>13. CASE Commit
  <2>1. committing \in Commits /\ committing.val \in Nat
    BY <1>13 DEF Commit, TypeOK, Commits
  <2>2. TypeOK'
    BY <1>13, <2>1 DEF Commit, TypeOK
  <2>3. QueueInv'
    BY <1>13 DEF Commit, QueueInv
  <2>4. QED
    BY <2>2, <2>3
<1>14. CASE CommitFails
  <2>1. lost' \in SUBSET (Call \X Saving)
    BY <1>14, UncommittedType DEF CommitFails, TypeOK
  <2>2. TypeOK'
    BY <1>14, <2>1 DEF CommitFails, TypeOK
  <2>3. QueueInv'
    BY <1>14 DEF CommitFails, QueueInv
  <2>4. QED
    BY <2>2, <2>3
<1>15. QED
  BY <1>1, <1>2, <1>3, <1>4, <1>5, <1>6, <1>7, <1>8, <1>9, <1>10, <1>11, <1>12, <1>13, <1>14
     DEF Next, Step

\* Every variable keeps its type; in particular a stored counter, once written,
\* is a number, and restoring never starts from a missing one.
THEOREM TypeCorrect == Spec => []TypeOK
<1>1. Init => Base
  BY BaseInit
<1>2. Base /\ [Next]_vars => Base'
  BY BaseNext
<1>3. Base => TypeOK
  BY DEF Base
<1>4. QED
  BY <1>1, <1>2, <1>3, PTL DEF Spec

-----------------------------------------------------------------------------
(* Counters are not reused                                                 *)

LEMMA SendInit == Init => SendInv
BY DEF Init, SendInv, OneSession, ReleasedCovered, SavingCovered, Distinct, Encrypted, Saving,
       AloneInv, AlonePut, UnderWay

\* A save that is committing is one.
LEMMA NoCommit == None \notin Commits
BY SessionAssumption

LEMMA ForkStays == [Next]_vars /\ forked => forked'
<1> SUFFICES ASSUME [Next]_vars, forked PROVE forked'
  OBVIOUS
<1>1. ASSUME NEW c \in Call, Step(c) PROVE forked'
  BY <1>1 DEF Step, BeginWarm, BeginCold, LoadRead, Restore, RestoreFails, Create, Install,
              Put, Created, Encrypt, Return, TxFails, CallFails, history
<1>2. QED
  BY <1>1 DEF Next, Reload, Commit, CommitFails, history, vars

\* What is lost stays lost, and an overlap stays one.
LEMMA HistoryGrows == [Next]_vars => lost \subseteq lost' /\ overlapped \subseteq overlapped'
<1> SUFFICES ASSUME [Next]_vars PROVE lost \subseteq lost' /\ overlapped \subseteq overlapped'
  OBVIOUS
<1>1. ASSUME NEW c \in Call, Step(c) PROVE lost' = lost
  BY <1>1 DEF Step, BeginWarm, BeginCold, LoadRead, Restore, RestoreFails, Create, Install,
              Put, Created, Encrypt, Return, PutDone, TxFails, CallFails, disk
<1>2. ASSUME NEW c \in Call, Step(c) PROVE overlapped \subseteq overlapped'
  BY <1>2 DEF Step, BeginWarm, BeginCold, Begins, LoadRead, Restore, RestoreFails, Create, Install,
              Put, Created, Encrypt, Return, TxFails, CallFails, history
<1>3. CASE Reload \/ Commit \/ CommitFails \/ UNCHANGED vars
  BY <1>3 DEF Reload, Commit, CommitFails, history, vars
<1>4. QED
  BY <1>1, <1>2, <1>3 DEF Next

LEMMA ExposedStays ==
    ASSUME lost \subseteq lost', overlapped \subseteq overlapped', NEW c
    PROVE  (Exposed(c) => Exposed(c)') /\ (Unaided(c) => Unaided(c)')
BY DEF Exposed, Unaided

\* A call of which nothing new begins: those under way are among those before.
LEMMA AloneKeeps ==
    ASSUME AloneInv, UnderWay' \subseteq UnderWay, overlapped \subseteq overlapped'
    PROVE  AloneInv'
BY DEF AloneInv

LEMMA UnderWayKeeps ==
    ASSUME Base, NEW c \in Call, c \in UnderWay, NEW label, Goto(c, label)
    PROVE  UnderWay' \subseteq UnderWay
BY DEF UnderWay, Goto, Base, TypeOK

\* A call that begins meets those that are under way.
LEMMA AloneBegins ==
    ASSUME Base, AloneInv, NEW c \in Call, Begins(c), NEW label, Goto(c, label)
    PROVE  AloneInv'
<1>1. UnderWay' \subseteq UnderWay \cup {c} /\ c \in Call /\ c \notin UnderWay
  BY DEF UnderWay, Begins, Goto, Base, TypeOK
<1>2. overlapped' = overlapped \cup (IF UnderWay = {} THEN {} ELSE UnderWay \cup {c})
  BY DEF Begins
<1>3. QED
  BY <1>1, <1>2 DEF AloneInv

\* The queue is as it was, or without its head: the i-th of the transactions
\* that are left was number i + n.
Shifted(n) ==
    /\ n \in {0, 1} /\ Len(txq') \in Nat /\ Len(txq) = Len(txq') + n
    /\ \A i \in 1..Len(txq') : i + n \in 1..Len(txq) /\ txq'[i] = txq[i + n]

LEMMA StaysOrPops ==
    ASSUME Base
    PROVE  /\ txq' = txq => Shifted(0)
           /\ txq # <<>> /\ txq' = Tail(txq) => Shifted(1)
<1>1. ASSUME txq' = txq PROVE Shifted(0)
  <2>1. Len(txq) \in Nat
    BY DEF Base, TypeOK
  <2>2. QED
    BY <1>1, <2>1 DEF Shifted
<1>2. ASSUME txq # <<>>, txq' = Tail(txq) PROVE Shifted(1)
  <2>1. /\ Len(txq) \in Nat /\ Len(txq) >= 1 /\ Len(txq') = Len(txq) - 1
        /\ \A i \in 1..Len(txq') : txq'[i] = txq[i + 1] /\ i + 1 \in 1..Len(txq)
    BY <1>2, PopQueue DEF Base
  <2>2. QED
    BY <2>1 DEF Shifted
<1>3. QED
  BY <1>1, <1>2

\* What was beyond x in the queue still is.
LEMMA ShiftedBeyond ==
    ASSUME NEW n, Shifted(n), NEW x
    PROVE  /\ QueuedBeyond(x) => \A i \in 1..Len(txq') : txq'[i].val # None => x < txq'[i].val
           /\ \A c : BehindBeyond(c, x) =>
                 \A i \in 1..Len(txq') : txq'[i].call = c =>
                     \A j \in i..Len(txq') : txq'[j].val # None => x < txq'[j].val
<1>1. QueuedBeyond(x) => \A i \in 1..Len(txq') : txq'[i].val # None => x < txq'[i].val
  BY DEF Shifted, QueuedBeyond
<1>2. ASSUME NEW c, BehindBeyond(c, x), NEW i \in 1..Len(txq'), txq'[i].call = c,
             NEW j \in i..Len(txq'), txq'[j].val # None
      PROVE  x < txq'[j].val
  <2>1. n \in {0, 1} /\ j \in 1..Len(txq') /\ Len(txq') \in Nat
    BY DEF Shifted
  <2>2. i + n \in 1..Len(txq) /\ txq[i + n].call = c
    BY <1>2 DEF Shifted
  <2>3. j + n \in 1..Len(txq) /\ txq[j + n] = txq'[j]
    BY <2>1 DEF Shifted
  <2>4. j + n \in (i + n)..Len(txq)
    BY <2>1, <2>2, <2>3
  <2>5. QED
    BY <1>2, <2>2, <2>3, <2>4 DEF BehindBeyond
<1>3. QED
  BY <1>1, <1>2

\* A step that leaves the record, the chains and the counters alone, and takes
\* at most the head off the queue.
LEMMA SendKeeps ==
    ASSUME Base, SendInv, NEW n, Shifted(n),
           UNCHANGED <<entry, chain, record, committing, counter, released>>,
           lost \subseteq lost', overlapped \subseteq overlapped',
           OneSession', AloneInv', \A d \in Call : pc'[d] = "save" => pc[d] = "save",
           \A i \in 1..Len(txq') : pc'[txq'[i].call] = "presave" => pc[txq'[i].call] = "presave"
    PROVE  SendInv'
<1>1. \A d \in Call : (Exposed(d) => Exposed(d)') /\ (Unaided(d) => Unaided(d)')
  BY ExposedStays
<1>2. ReleasedCovered'
  <2> SUFFICES ASSUME NEW d \in released, ~Exposed(d)'
               PROVE  (Beyond(counter[d]) /\ (Recorded(counter[d]) \/ (Unaided(d) /\ Committing(d, "save"))))'
    BY DEF ReleasedCovered
  <2>1. d \in Call
    BY DEF Base, TypeOK
  <2>2. Beyond(counter[d]) /\ (Recorded(counter[d]) \/ (Unaided(d) /\ Committing(d, "save")))
    BY <1>1, <2>1 DEF SendInv, ReleasedCovered
  <2>3. QueuedBeyond(counter[d])'
    BY <2>2, ShiftedBeyond DEF Beyond, QueuedBeyond
  <2>4. QED
    BY <1>1, <2>1, <2>2, <2>3 DEF Beyond, Recorded, Committing
<1>3. SavingCovered'
  <2> SUFFICES ASSUME NEW d \in Call, pc'[d] = "save"
               PROVE  (counter[d] < chain[entry] /\ BehindBeyond(d, counter[d]) /\ Aided(d))'
    BY DEF SavingCovered
  <2>1. counter[d] < chain[entry] /\ BehindBeyond(d, counter[d]) /\ Aided(d)
    BY DEF SendInv, SavingCovered
  <2>2. BehindBeyond(d, counter[d])'
    BY <2>1, ShiftedBeyond DEF BehindBeyond
  <2>3. Aided(d)'
    BY <1>1, <2>1 DEF Aided, Recorded, Committing
  <2>4. QED
    BY <2>1, <2>2, <2>3
<1>4. Distinct'
  BY <1>1 DEF SendInv, Distinct, Encrypted
<1>5. AlonePut'
  <2> SUFFICES ASSUME NEW i \in 1..Len(txq'),
                      pc'[txq'[i].call] = "presave", txq'[i].call \notin overlapped'
               PROVE  txq'[i].val = chain'[entry'] + 1
    BY DEF AlonePut
  <2>1. i + n \in 1..Len(txq) /\ txq[i + n] = txq'[i]
    BY DEF Shifted
  <2>2. pc[txq[i + n].call] = "presave" /\ txq[i + n].call \notin overlapped
    BY <2>1
  <2>3. txq[i + n].val = chain[entry] + 1
    BY <2>1, <2>2 DEF SendInv, AlonePut
  <2>4. QED
    BY <2>1, <2>3
<1>6. QED
  BY <1>2, <1>3, <1>4, <1>5 DEF SendInv

\* Steps that append a transaction: a read, or a write read off the chain.
LEMMA SendPush ==
    ASSUME Base, SendInv, NEW c \in Call, NEW v \in Nat \cup {None}, ~Queued(c),
           v # None => entry # None /\ v >= chain[entry],
           pc'[c] = "presave" => v = chain[entry] + 1,
           txq' = Append(txq, [call |-> c, val |-> v]),
           UNCHANGED <<entry, chain, record, committing, counter, released, lost>>,
           overlapped \subseteq overlapped', \A d \in Call \ {c} : pc'[d] = pc[d],
           OneSession', AloneInv', \A d \in Call : pc'[d] = "save" => pc[d] = "save"
    PROVE  SendInv'
<1> DEFINE t == [call |-> c, val |-> v]
<1>1. t \in Tx /\ t.call = c /\ t.val = v
  BY DEF Tx
<1> HIDE DEF t
<1>2. /\ Len(txq) \in Nat /\ Len(txq') = Len(txq) + 1
      /\ txq'[Len(txq) + 1] = t
      /\ \A i \in 1..Len(txq) : txq'[i] = txq[i]
  BY <1>1, PushQueue DEF Base, t
<1>3. ASSUME NEW x \in Nat, entry # None => x < chain[entry]
      PROVE  t.val # None => x < t.val
  BY <1>1, <1>3 DEF Base, TypeOK
<1>4. \A d \in Call : (Exposed(d) => Exposed(d)') /\ (Unaided(d) => Unaided(d)')
  BY ExposedStays
<1>5. ReleasedCovered'
  <2> SUFFICES ASSUME NEW d \in released, ~Exposed(d)'
               PROVE  (Beyond(counter[d]) /\ (Recorded(counter[d]) \/ (Unaided(d) /\ Committing(d, "save"))))'
    BY DEF ReleasedCovered
  <2>1. d \in Call /\ counter[d] \in Nat
    BY DEF Base, QueueInv, TypeOK
  <2>2. Beyond(counter[d]) /\ (Recorded(counter[d]) \/ (Unaided(d) /\ Committing(d, "save")))
    BY <1>4, <2>1 DEF SendInv, ReleasedCovered
  <2>3. t.val # None => counter[d] < t.val
    BY <2>1, <2>2, <1>3 DEF Beyond
  <2>4. ASSUME NEW i \in 1..Len(txq'), txq'[i].val # None PROVE counter[d] < txq'[i].val
    <3>1. CASE i \in 1..Len(txq)
      BY <1>2, <2>2, <2>4, <3>1 DEF Beyond, QueuedBeyond
    <3>2. CASE i = Len(txq) + 1
      BY <1>2, <2>3, <2>4, <3>2
    <3>3. QED
      BY <1>2, <3>1, <3>2
  <2>5. QED
    BY <1>4, <2>1, <2>2, <2>4 DEF Beyond, QueuedBeyond, Recorded, Committing
<1>6. SavingCovered'
  <2> SUFFICES ASSUME NEW d \in Call, pc'[d] = "save"
               PROVE  (counter[d] < chain[entry] /\ BehindBeyond(d, counter[d]) /\ Aided(d))'
    BY DEF SavingCovered
  <2>1. counter[d] < chain[entry] /\ counter[d] \in Nat /\ BehindBeyond(d, counter[d]) /\ Aided(d)
    BY DEF SendInv, SavingCovered, Base, QueueInv
  <2>2. ASSUME NEW i \in 1..Len(txq'), txq'[i].call = d, NEW j \in i..Len(txq'),
               txq'[j].val # None
        PROVE  counter[d] < txq'[j].val
    <3>1. CASE j = Len(txq) + 1
      BY <1>2, <1>3, <2>1, <2>2, <3>1
    <3>2. CASE j \in 1..Len(txq)
      <4>1. i \in 1..Len(txq) /\ j \in i..Len(txq) /\ txq'[i] = txq[i] /\ txq'[j] = txq[j]
        BY <1>2, <2>2, <3>2
      <4>2. QED
        BY <2>1, <2>2, <4>1 DEF BehindBeyond
    <3>3. QED
      BY <1>2, <2>2, <3>1, <3>2
  <2>3. Aided(d)'
    BY <1>4, <2>1 DEF Aided, Recorded, Committing
  <2>4. QED
    BY <2>1, <2>2, <2>3 DEF BehindBeyond
<1>7. Distinct'
  BY <1>4 DEF SendInv, Distinct, Encrypted
<1>8. AlonePut'
  <2> SUFFICES ASSUME NEW i \in 1..Len(txq'), pc'[txq'[i].call] = "presave",
                      txq'[i].call \notin overlapped'
               PROVE  txq'[i].val = chain'[entry'] + 1
    BY DEF AlonePut
  <2>1. CASE i \in 1..Len(txq)
    <3>1. txq'[i] = txq[i] /\ txq[i].call \in Call \ {c}
      BY <1>2, <2>1, QueueType DEF Queued, Base
    <3>2. QED
      BY <2>1, <3>1 DEF SendInv, AlonePut
  <2>2. CASE i = Len(txq) + 1
    BY <1>1, <1>2, <2>2
  <2>3. QED
    BY <1>2, <2>1, <2>2
<1>9. QED
  BY <1>5, <1>6, <1>7, <1>8 DEF SendInv

\* The head of the queue starts to commit: what was below everything queued is
\* below it, and below what is left.
LEMMA PutDoneBeyond ==
    ASSUME Base, NEW c \in Call, PutDone(c), NEW x \in Nat, QueuedBeyond(x)
    PROVE  /\ x < committing'.val
           /\ \A i \in 1..Len(txq') : txq'[i].val # None => x < txq'[i].val
<1>0. committing' = [call |-> c, step |-> pc[c], val |-> Head(txq).val]
  BY PutDoneOperands
<1>1. /\ txq # <<>> /\ txq' = Tail(txq) /\ committing'.val = Head(txq).val
      /\ committing' \in Commits
  <2>1. committing'.val = Head(txq).val
    BY <1>0
  <2>2. txq # <<>> /\ txq' = Tail(txq) /\ committing' \in Commits
    BY PutDoneOperands
  <2>3. QED
    BY <2>1, <2>2
<1>2. Head(txq) = txq[1] /\ 1 \in 1..Len(txq) /\ Shifted(1)
  <2>1. Head(txq) = txq[1] /\ 1 \in 1..Len(txq)
    BY <1>1, PopQueue DEF Base
  <2>2. QED
    BY <1>1, <2>1, StaysOrPops
<1>3. committing'.val \in Nat
  BY <1>1 DEF Commits
<1>4. x < committing'.val
  BY <1>1, <1>2, <1>3, SessionAssumption DEF QueuedBeyond
<1>5. \A i \in 1..Len(txq') : txq'[i].val # None => x < txq'[i].val
  BY <1>2, ShiftedBeyond
<1>6. QED
  BY <1>4, <1>5

\* Nothing was committing: what a released ciphertext rests on is the record,
\* which stays what it is.
LEMMA PutDoneReleased ==
    ASSUME Base, SendInv, NEW c \in Call, PutDone(c), NEW d \in released, ~Exposed(d)',
           lost \subseteq lost', overlapped \subseteq overlapped'
    PROVE  /\ counter[d] \in Nat /\ record' \in Nat /\ counter[d] < record'
           /\ counter[d] < committing'.val
           /\ \A i \in 1..Len(txq') : txq'[i].val # None => counter[d] < txq'[i].val
           /\ entry # None => counter[d] < chain[entry]
<1>1. ~Exposed(d) /\ d \in Call /\ counter[d] \in Nat
  BY ExposedStays DEF Base, TypeOK, QueueInv
<1>2. Beyond(counter[d]) /\ (Recorded(counter[d]) \/ (Unaided(d) /\ Committing(d, "save")))
  BY <1>1 DEF SendInv, ReleasedCovered
<1>3. committing = None /\ UNCHANGED record
  BY PutDoneOperands
<1>4. record' \in Nat /\ counter[d] < record'
  BY <1>2, <1>3 DEF Recorded, Committing
<1>5. QED
  BY <1>1, <1>2, <1>4, PutDoneBeyond DEF Beyond

\* The same of another call between its encryption and its second save.
LEMMA PutDoneSaving ==
    ASSUME Base, SendInv, NEW c \in Call, PutDone(c), NEW d \in Call, pc[d] = "save", d # c,
           lost \subseteq lost', overlapped \subseteq overlapped'
    PROVE  /\ counter[d] \in Nat /\ counter[d] < chain[entry]
           /\ \A i \in 1..Len(txq') : txq'[i].call = d =>
                 \A j \in i..Len(txq') : txq'[j].val # None => counter[d] < txq'[j].val
           /\ Unaided(d)'
<1>1. counter[d] \in Nat /\ counter[d] < chain[entry] /\ BehindBeyond(d, counter[d])
  BY DEF SendInv, SavingCovered, Base, QueueInv
<1>2. txq # <<>> /\ txq' = Tail(txq) /\ pc[c] \in Saving
  BY PutDoneOperands DEF PutDone
<1>3. c \in UnderWay /\ d \in UnderWay
  BY <1>2 DEF UnderWay, Saving, Terminal
<1>4. d \in overlapped
  BY <1>3 DEF SendInv, AloneInv
<1>5. Shifted(1)
  BY <1>2, StaysOrPops
<1>6. \A i \in 1..Len(txq') : txq'[i].call = d =>
          \A j \in i..Len(txq') : txq'[j].val # None => counter[d] < txq'[j].val
  BY <1>1, <1>5, ShiftedBeyond
<1>7. QED
  BY <1>1, <1>4, <1>6 DEF Unaided

\* A call has nothing queued any more when its put is done.
LEMMA PutDoneAlonePut ==
    ASSUME Base, SendInv, NEW c \in Call, PutDone(c), UNCHANGED <<entry, overlapped>>,
           \A d \in Call \ {c} : pc'[d] = pc[d]
    PROVE  AlonePut' /\ \A i \in 1..Len(txq') : txq'[i].call # c
<1>1. /\ txq # <<>> /\ txq' = Tail(txq) /\ txq[1].call = c /\ 1 \in 1..Len(txq)
      /\ pc[c] \in Saving
  BY PutDoneOperands, PopQueue DEF Base, PutDone
<1>2. ASSUME NEW i \in 1..Len(txq')
      PROVE  /\ i + 1 \in 1..Len(txq) /\ txq'[i] = txq[i + 1]
             /\ txq'[i].call \in Call /\ txq'[i].call # c
  <2>1. i + 1 \in 1..Len(txq) /\ txq'[i] = txq[i + 1] /\ i \in Nat /\ i >= 1
    BY <1>1, PopQueue DEF Base
  <2>2. txq[i + 1].call \in Call
    BY <2>1, QueueType DEF Base
  <2>3. txq[i + 1].call = c => i + 1 = 1
    BY <1>1, <2>1 DEF Base, QueueInv
  <2>4. QED
    BY <2>1, <2>2, <2>3
<1>3. ASSUME NEW i \in 1..Len(txq'), pc'[txq'[i].call] = "presave"
      PROVE  txq'[i].call \in overlapped
  <2>1. txq'[i].call \in UnderWay /\ c \in UnderWay
    BY <1>1, <1>2, <1>3 DEF UnderWay, Saving, Terminal
  <2>2. QED
    BY <1>2, <2>1 DEF SendInv, AloneInv
<1>4. QED
  BY <1>2, <1>3 DEF AlonePut

LEMMA SendCreated ==
    ASSUME Base, SendInv, NEW c \in Call, Created(c)
    PROVE  SendInv'
<1>1. /\ PutDone(c) /\ pc[c] = "initSave" /\ Goto(c, "presave") /\ pc' = [pc EXCEPT ![c] = "presave"]
      /\ target' = [target EXCEPT ![c] = entry]
      /\ UNCHANGED <<entry, chain, record, held, snap, counter, released, lost, overlapped>>
  BY DEF Created, Goto, PutDone, history
<1>2. /\ \A d \in Call : pc'[d] = "save" => pc[d] = "save" /\ d # c
      /\ \A d \in Call \ {c} : pc'[d] = pc[d]
      /\ c \in UnderWay
  BY <1>1 DEF Base, TypeOK, UnderWay, Terminal
<1>3. OneSession'
  BY <1>1, SessionAssumption DEF SendInv, OneSession, Base, TypeOK, Saving
<1>4. ReleasedCovered'
  <2> SUFFICES ASSUME NEW d \in released, ~Exposed(d)'
               PROVE  (Beyond(counter[d]) /\ Recorded(counter[d]))'
    BY <1>1 DEF ReleasedCovered
  <2>1. QED
    BY <1>1, PutDoneReleased DEF Beyond, QueuedBeyond, Recorded
<1>5. SavingCovered'
  <2> SUFFICES ASSUME NEW d \in Call, pc'[d] = "save"
               PROVE  (counter[d] < chain[entry] /\ BehindBeyond(d, counter[d]) /\ Unaided(d))'
    BY DEF SavingCovered, Aided
  <2>1. QED
    BY <1>1, <1>2, PutDoneSaving DEF BehindBeyond
<1>6. Distinct'
  BY <1>1, <1>2, ExposedStays DEF SendInv, Distinct, Encrypted
<1>7. AloneInv'
  BY <1>1, <1>2, UnderWayKeeps, AloneKeeps DEF SendInv
<1>8. AlonePut'
  BY <1>1, <1>2, PutDoneAlonePut
<1>9. QED
  BY <1>3, <1>4, <1>5, <1>6, <1>7, <1>8 DEF SendInv

\* The position that c's first save has made room for is the one c uses, unless
\* another call was there.
LEMMA AloneRoom ==
    ASSUME Base, SendInv, NEW c \in Call, PutDone(c), pc[c] = "presave", c \notin overlapped
    PROVE  committing'.val = chain[entry] + 1
<1>0. committing' = [call |-> c, step |-> pc[c], val |-> Head(txq).val]
  BY PutDoneOperands
<1>1. txq # <<>> /\ Head(txq).call = c /\ committing'.val = Head(txq).val
  BY <1>0, PutDoneOperands
<1>2. Head(txq) = txq[1] /\ 1 \in 1..Len(txq)
  BY <1>1, PopQueue DEF Base
<1>3. QED
  BY <1>1, <1>2 DEF SendInv, AlonePut

LEMMA SendEncrypt ==
    ASSUME Base, SendInv, NEW c \in Call, Encrypt(c)
    PROVE  SendInv'
<1>1. /\ PutDone(c) /\ pc[c] = "presave" /\ Goto(c, "save") /\ pc' = [pc EXCEPT ![c] = "save"]
      /\ counter' = [counter EXCEPT ![c] = chain[held[c]]]
      /\ chain' = [chain EXCEPT ![held[c]] = chain[held[c]] + 1]
      /\ target' = [target EXCEPT ![c] = entry]
      /\ UNCHANGED <<entry, record, held, snap, released, lost, overlapped>>
  BY DEF Encrypt, Goto, PutDone, history
<1>2. held[c] = entry /\ entry \in Call /\ chain[entry] \in Nat /\ entry # None
  BY <1>1 DEF SendInv, OneSession, Base, TypeOK, Saving
<1>3. chain'[entry'] = chain[entry] + 1 /\ counter'[c] = chain[entry] /\ pc'[c] = "save"
  BY <1>1, <1>2 DEF Base, TypeOK
<1>4. \A d \in Call \ {c} : counter'[d] = counter[d] /\ pc'[d] = pc[d]
  BY <1>1 DEF Base, TypeOK
<1>5. c \notin released /\ c \in UnderWay
  BY <1>1 DEF Base, QueueInv, UnderWay, Terminal
<1>6. OneSession'
  BY <1>1, <1>2, SessionAssumption DEF SendInv, OneSession, Base, TypeOK, Saving
<1>7. ReleasedCovered'
  <2> SUFFICES ASSUME NEW d \in released, ~Exposed(d)'
               PROVE  (Beyond(counter[d]) /\ Recorded(counter[d]))'
    BY <1>1 DEF ReleasedCovered
  <2>1. counter'[d] = counter[d] /\ counter[d] \in Nat
    BY <1>4, <1>5 DEF Base, TypeOK, QueueInv
  <2>2. /\ record' \in Nat /\ counter[d] < record' /\ counter[d] < committing'.val
        /\ \A i \in 1..Len(txq') : txq'[i].val # None => counter[d] < txq'[i].val
        /\ counter[d] < chain[entry]
    BY <1>1, <1>2, PutDoneReleased
  <2>3. counter[d] < chain'[entry']
    BY <1>2, <1>3, <2>1, <2>2
  <2>4. QED
    BY <2>1, <2>2, <2>3 DEF Beyond, QueuedBeyond, Recorded
<1>8. SavingCovered'
  <2> SUFFICES ASSUME NEW d \in Call, pc'[d] = "save"
               PROVE  (counter[d] < chain[entry] /\ BehindBeyond(d, counter[d]) /\ Aided(d))'
    BY DEF SavingCovered
  <2>1. CASE d = c
    <3>1. \A i \in 1..Len(txq') : txq'[i].call # c
      BY <1>1, <1>4, PutDoneAlonePut
    <3>2. Aided(c)'
      <4>1. CASE c \in overlapped
        BY <1>1, <4>1 DEF Aided, Unaided
      <4>2. CASE c \notin overlapped
        <5>1. committing'.val = chain[entry] + 1
          BY <1>1, <4>2, AloneRoom
        <5>2. committing' \in Commits /\ committing'.call = c /\ committing'.step = "presave"
          BY <1>1, PutDoneOperands
        <5>3. committing' # None
          <6>1. committing' = [call |-> c, step |-> pc[c], val |-> Head(txq).val]
            BY <1>1, PutDoneOperands
          <6>2. QED
            BY <5>2, <6>1, NoCommit
        <5>4. QED
          BY <1>2, <1>3, <5>1, <5>2, <5>3 DEF Aided, Committing
      <4>3. QED
        BY <4>1, <4>2
    <3>3. QED
      BY <1>2, <1>3, <2>1, <3>1, <3>2 DEF BehindBeyond
  <2>2. CASE d # c
    <3>1. counter'[d] = counter[d] /\ pc[d] = "save"
      BY <1>4, <2>2
    <3>2. /\ counter[d] \in Nat /\ counter[d] < chain[entry] /\ Unaided(d)'
          /\ \A i \in 1..Len(txq') : txq'[i].call = d =>
                \A j \in i..Len(txq') : txq'[j].val # None => counter[d] < txq'[j].val
      BY <1>1, <2>2, <3>1, PutDoneSaving
    <3>3. counter'[d] < chain'[entry']
      BY <1>2, <1>3, <3>1, <3>2
    <3>4. QED
      BY <3>1, <3>2, <3>3 DEF BehindBeyond, Aided
  <2>3. QED
    BY <2>1, <2>2
<1>9. Distinct'
  <2>1. ASSUME NEW d \in Call \ {c}, Encrypted(d)'
        PROVE  Encrypted(d) /\ counter'[d] = counter[d] /\ counter[d] < chain[entry]
    <3>1. counter'[d] = counter[d] /\ pc'[d] = pc[d]
      BY <1>4
    <3>2. CASE pc[d] = "save"
      BY <3>1, <3>2 DEF Encrypted, SendInv, SavingCovered
    <3>3. CASE pc[d] # "save"
      <4>1. d \in released /\ ~Exposed(d)'
        BY <1>1, <2>1, <3>1, <3>3 DEF Encrypted
      <4>2. ~Exposed(d)
        BY <1>1, <4>1, ExposedStays
      <4>3. counter[d] < chain[entry]
        BY <1>2, <4>1, <4>2 DEF SendInv, ReleasedCovered, Beyond
      <4>4. QED
        BY <3>1, <4>1, <4>2, <4>3 DEF Encrypted
    <3>4. QED
      BY <3>2, <3>3
  <2>2. \A d \in Call \ {c} : Encrypted(d)' => counter'[d] # counter'[c]
    BY <1>2, <1>3, <2>1
  <2>3. ASSUME NEW d \in Call, NEW e \in Call, d # e, Encrypted(d)', Encrypted(e)'
        PROVE  counter'[d] # counter'[e]
    <3>1. CASE d = c
      BY <2>2, <2>3, <3>1
    <3>2. CASE e = c
      BY <2>2, <2>3, <3>2
    <3>3. CASE d # c /\ e # c
      BY <2>1, <2>3, <3>3 DEF SendInv, Distinct
    <3>4. QED
      BY <3>1, <3>2, <3>3
  <2>4. QED
    BY <2>3 DEF Distinct
<1>10. AloneInv'
  BY <1>1, <1>5, UnderWayKeeps, AloneKeeps DEF SendInv
<1>11. AlonePut'
  BY <1>1, <1>4, PutDoneAlonePut
<1>12. QED
  BY <1>6, <1>7, <1>8, <1>9, <1>10, <1>11 DEF SendInv

LEMMA SendReturn ==
    ASSUME Base, SendInv, NEW c \in Call, Return(c)
    PROVE  SendInv'
<1>1. /\ PutDone(c) /\ pc[c] = "save" /\ Goto(c, "done") /\ pc' = [pc EXCEPT ![c] = "done"]
      /\ released' = released \cup {c}
      /\ UNCHANGED <<entry, chain, record, held, target, snap, counter, lost, overlapped>>
  BY DEF Return, Goto, PutDone
<1>2. /\ \A d \in Call : pc'[d] = "save" => pc[d] = "save" /\ d # c
      /\ \A d \in Call \ {c} : pc'[d] = pc[d]
      /\ c \in UnderWay
  BY <1>1 DEF Base, TypeOK, UnderWay, Terminal
<1>3. OneSession'
  BY <1>1 DEF SendInv, OneSession, Base, TypeOK, Saving
<1>4. /\ counter[c] \in Nat /\ counter[c] < chain[entry] /\ QueuedBeyond(counter[c])
      /\ Unaided(c) \/ Recorded(counter[c])
  <2>1. txq # <<>> /\ txq[1].call = c /\ 1 \in 1..Len(txq) /\ committing = None
    BY <1>1, PutDoneOperands, PopQueue DEF Base
  <2>2. counter[c] \in Nat /\ counter[c] < chain[entry] /\ BehindBeyond(c, counter[c]) /\ Aided(c)
    BY <1>1 DEF SendInv, SavingCovered, Base, QueueInv
  <2>3. QED
    BY <2>1, <2>2 DEF BehindBeyond, QueuedBeyond, Aided, Committing
<1>5. ReleasedCovered'
  <2> SUFFICES ASSUME NEW d \in released \cup {c}, ~Exposed(d)'
               PROVE  /\ Beyond(counter[d])'
                      /\ (Recorded(counter[d]) \/ (Unaided(d) /\ Committing(d, "save")))'
    BY <1>1 DEF ReleasedCovered
  <2>1. CASE d \in released
    BY <1>1, <2>1, PutDoneReleased DEF Beyond, QueuedBeyond, Recorded
  <2>2. CASE d = c
    <3>1. /\ counter[c] < committing'.val
          /\ \A i \in 1..Len(txq') : txq'[i].val # None => counter[c] < txq'[i].val
      BY <1>1, <1>4, PutDoneBeyond
    <3>2. committing' # None /\ committing'.call = c /\ committing'.step = "save"
      <4>1. /\ committing' = [call |-> c, step |-> pc[c], val |-> Head(txq).val]
            /\ committing' \in Commits
        BY <1>1, PutDoneOperands
      <4>2. QED
        BY <1>1, <4>1, NoCommit
    <3>3. Beyond(counter[c])'
      BY <1>1, <1>4, <3>1 DEF Beyond, QueuedBeyond
    <3>4. (Recorded(counter[c]) \/ (Unaided(c) /\ Committing(c, "save")))'
      BY <1>1, <1>4, <3>2 DEF Recorded, Unaided, Committing
    <3>5. QED
      BY <2>2, <3>3, <3>4
  <2>3. QED
    BY <2>1, <2>2
<1>6. SavingCovered'
  <2> SUFFICES ASSUME NEW d \in Call, pc'[d] = "save"
               PROVE  (counter[d] < chain[entry] /\ BehindBeyond(d, counter[d]) /\ Unaided(d))'
    BY DEF SavingCovered, Aided
  <2>1. QED
    BY <1>1, <1>2, PutDoneSaving DEF BehindBeyond
<1>7. Distinct'
  <2>1. \A d \in Call : Encrypted(d)' => Encrypted(d)
    BY <1>1, <1>2, ExposedStays DEF Encrypted
  <2>2. QED
    BY <1>1, <2>1 DEF SendInv, Distinct
<1>8. AloneInv'
  BY <1>1, <1>2, UnderWayKeeps, AloneKeeps DEF SendInv
<1>9. AlonePut'
  BY <1>1, <1>2, PutDoneAlonePut
<1>10. QED
  BY <1>3, <1>5, <1>6, <1>7, <1>8, <1>9 DEF SendInv

LEMMA SendCommit ==
    ASSUME Base, SendInv, Commit
    PROVE  SendInv'
<1>1. /\ committing # None /\ record' = committing.val /\ committing' = None
      /\ UNCHANGED <<entry, chain, txq, pc, held, target, snap, counter, released, lost, overlapped>>
  BY DEF Commit, history
<1>2. committing.val \in Nat /\ entry # None
  BY <1>1 DEF Base, TypeOK, Commits, QueueInv
<1>3. OneSession'
  BY <1>1, <1>2 DEF SendInv, OneSession
<1>4. ReleasedCovered'
  <2> SUFFICES ASSUME NEW d \in released, ~Exposed(d)
               PROVE  (Beyond(counter[d]) /\ Recorded(counter[d]))'
    BY <1>1 DEF ReleasedCovered, Exposed
  <2>1. Beyond(counter[d])
    BY DEF SendInv, ReleasedCovered
  <2>2. QED
    BY <1>1, <1>2, <2>1 DEF Beyond, QueuedBeyond, Recorded
<1>5. SavingCovered'
  <2> SUFFICES ASSUME NEW d \in Call, pc[d] = "save"
               PROVE  (counter[d] < chain[entry] /\ BehindBeyond(d, counter[d]) /\ Aided(d))'
    BY <1>1 DEF SavingCovered
  <2>1. counter[d] < chain[entry] /\ BehindBeyond(d, counter[d]) /\ Aided(d)
    BY DEF SendInv, SavingCovered
  <2>2. Aided(d)'
    BY <1>1, <1>2, <2>1 DEF Aided, Unaided, Recorded
  <2>3. QED
    BY <1>1, <2>1, <2>2 DEF BehindBeyond
<1>6. QED
  BY <1>1, <1>3, <1>4, <1>5
     DEF SendInv, Distinct, Encrypted, Exposed, AloneInv, AlonePut, UnderWay

\* A commit that fails: whoever rested on it alone is exposed now.
LEMMA ReleasedAfterLoss ==
    ASSUME Base, SendInv, lost' = lost \cup Uncommitted, committing' = None,
           UNCHANGED <<record, overlapped>>, NEW d \in released, ~Exposed(d)'
    PROVE  ~Exposed(d) /\ Beyond(counter[d]) /\ Recorded(counter[d])
<1>1. ~Exposed(d)
  BY ExposedStays
<1>2. Beyond(counter[d]) /\ (Recorded(counter[d]) \/ (Unaided(d) /\ Committing(d, "save")))
  BY <1>1 DEF SendInv, ReleasedCovered
<1>3. ASSUME Unaided(d), Committing(d, "save") PROVE FALSE
  <2>1. <<d, "save">> \in lost'
    BY <1>3 DEF Committing, Uncommitted
  <2>2. Unaided(d)'
    BY <1>3, ExposedStays
  <2>3. QED
    BY <2>1, <2>2 DEF Exposed, Unaided
<1>4. QED
  BY <1>1, <1>2, <1>3

LEMMA SendCommitFails ==
    ASSUME Base, SendInv, CommitFails
    PROVE  SendInv'
<1>1. /\ committing # None /\ committing' = None /\ lost' = lost \cup Uncommitted
      /\ UNCHANGED <<entry, chain, record, txq, pc, held, target, snap, counter, released, overlapped>>
  BY DEF CommitFails, history
<1>2. OneSession'
  BY <1>1 DEF SendInv, OneSession
<1>3. ReleasedCovered'
  <2> SUFFICES ASSUME NEW d \in released, ~Exposed(d)'
               PROVE  (Beyond(counter[d]) /\ Recorded(counter[d]))'
    BY <1>1 DEF ReleasedCovered
  <2>1. Beyond(counter[d]) /\ Recorded(counter[d])
    BY <1>1, ReleasedAfterLoss
  <2>2. QED
    BY <1>1, <2>1 DEF Beyond, QueuedBeyond, Recorded
<1>4. SavingCovered'
  <2> SUFFICES ASSUME NEW d \in Call, pc[d] = "save"
               PROVE  (counter[d] < chain[entry] /\ BehindBeyond(d, counter[d]) /\ Aided(d))'
    BY <1>1 DEF SavingCovered
  <2>1. counter[d] < chain[entry] /\ BehindBeyond(d, counter[d]) /\ Aided(d)
    BY DEF SendInv, SavingCovered
  <2>2. Unaided(d)'
    BY <1>1, <2>1 DEF Aided, Unaided, Committing, Uncommitted
  <2>3. QED
    BY <1>1, <2>1, <2>2 DEF BehindBeyond, Aided
<1>5. Distinct'
  <2>1. \A d \in Call : Encrypted(d)' => Encrypted(d)
    BY <1>1, ExposedStays DEF Encrypted
  <2>2. QED
    BY <1>1, <2>1 DEF SendInv, Distinct
<1>6. QED
  BY <1>1, <1>2, <1>3, <1>4, <1>5 DEF SendInv, AloneInv, AlonePut, UnderWay

\* After a reload nobody is under way, and what is not exposed is in the record.
LEMMA SendReload ==
    ASSUME Base, SendInv, Reload
    PROVE  SendInv'
<1>1. /\ committing' = None /\ lost' = lost \cup Uncommitted /\ txq' = <<>> /\ entry' = None
      /\ UNCHANGED <<chain, record, counter, released, overlapped>>
  BY DEF Reload
<1>2. \A d \in Call : pc'[d] \in {"idle"} \cup Terminal
  BY DEF Reload, Base, TypeOK, Terminal
<1>3. OneSession' /\ SavingCovered' /\ AloneInv' /\ AlonePut'
  BY <1>1, <1>2 DEF OneSession, SavingCovered, AloneInv, AlonePut, UnderWay, Saving, Terminal
<1>4. ReleasedCovered'
  <2> SUFFICES ASSUME NEW d \in released, ~Exposed(d)'
               PROVE  (Beyond(counter[d]) /\ Recorded(counter[d]))'
    BY <1>1 DEF ReleasedCovered
  <2>1. Recorded(counter[d])
    BY <1>1, ReleasedAfterLoss
  <2>2. QED
    BY <1>1, <2>1 DEF Beyond, QueuedBeyond, Recorded
<1>5. Distinct'
  <2>1. \A d \in Call : Encrypted(d)' => Encrypted(d)
    BY <1>1, <1>2, ExposedStays DEF Encrypted, Terminal
  <2>2. QED
    BY <1>1, <2>1 DEF SendInv, Distinct
<1>6. QED
  BY <1>3, <1>4, <1>5 DEF SendInv

\* A session object is set up in an empty map, at a position n beyond what has
\* been released.
LEMMA SendInstall ==
    ASSUME Base, SendInv, NEW c \in Call, NEW n \in Nat, Install(c, n), entry = None,
           UNCHANGED <<disk, txq, counter, released, overlapped>>,
           NEW label \in {"presave", "initSave"}, Goto(c, label), pc[c] \in {"restoring", "fetchKey"},
           \A d \in released : ~Exposed(d) => counter[d] < n
    PROVE  SendInv'
<1>1. entry' = c /\ c # None /\ chain'[c] = n /\ held'[c] = c /\ target'[c] = c
  BY SessionAssumption DEF Install, Base, TypeOK
<1>2. /\ pc' = [pc EXCEPT ![c] = label] /\ pc'[c] = label /\ c \in UnderWay
      /\ UNCHANGED <<record, committing, lost>>
  BY DEF Goto, Base, TypeOK, disk, UnderWay, Terminal
<1>3. \A d \in Call : pc[d] \notin Saving
  BY DEF SendInv, OneSession
<1>4. OneSession'
  BY <1>1, <1>2, <1>3 DEF OneSession, Base, TypeOK, Saving
<1>5. \A d \in Call : pc'[d] # "save" /\ pc[d] # "save"
  BY <1>2, <1>3 DEF Base, TypeOK, Saving
<1>6. ReleasedCovered'
  <2> SUFFICES ASSUME NEW d \in released, ~Exposed(d)
               PROVE  /\ Beyond(counter[d])'
                      /\ (Recorded(counter[d]) \/ (Unaided(d) /\ Committing(d, "save")))'
    BY <1>2 DEF ReleasedCovered, Exposed
  <2>1. Beyond(counter[d]) /\ (Recorded(counter[d]) \/ (Unaided(d) /\ Committing(d, "save")))
    BY DEF SendInv, ReleasedCovered
  <2>2. counter[d] < n
    OBVIOUS
  <2>3. QED
    BY <1>1, <1>2, <2>1, <2>2 DEF Beyond, QueuedBeyond, Recorded, Unaided, Committing
<1>7. SavingCovered'
  BY <1>5 DEF SavingCovered
<1>8. Distinct'
  BY <1>2, <1>5 DEF SendInv, Distinct, Encrypted, Exposed
<1>9. AloneInv'
  BY <1>2, UnderWayKeeps, AloneKeeps DEF SendInv
<1>10. AlonePut'
  <2> SUFFICES ASSUME NEW i \in 1..Len(txq) PROVE pc'[txq[i].call] # "presave"
    BY DEF AlonePut
  <2>1. pc[txq[i].call] = "loading"
    BY <1>3, QueueType DEF Base, QueueInv
  <2>2. QED
    BY <1>2, <2>1, QueueType DEF Base, TypeOK
<1>11. QED
  BY <1>4, <1>6, <1>7, <1>8, <1>9, <1>10 DEF SendInv

LEMMA SendNext == Base /\ (forked \/ SendInv) /\ [Next]_vars => (forked \/ SendInv)'
<1> SUFFICES ASSUME Base, SendInv, [Next]_vars, ~forked' PROVE SendInv'
  BY ForkStays
<1>0. lost \subseteq lost' /\ overlapped \subseteq overlapped'
  BY HistoryGrows
<1>1. ASSUME NEW c \in Call, BeginWarm(c) PROVE SendInv'
  <2>1. /\ Begins(c) /\ Goto(c, "presave") /\ pc[c] = "idle" /\ pc' = [pc EXCEPT ![c] = "presave"]
        /\ UNCHANGED <<entry, chain, record, committing, txq, counter, released>>
    BY <1>1 DEF BeginWarm, Begins, Goto, disk
  <2>2. OneSession'
    BY <1>1, <2>1 DEF BeginWarm, SendInv, OneSession, Base, TypeOK, Saving
  <2>3. \A d \in Call : pc'[d] = "save" => pc[d] = "save"
    BY <2>1 DEF Base, TypeOK
  <2>4. AloneInv'
    BY <2>1, AloneBegins DEF SendInv
  <2>5. Shifted(0)
    BY <2>1, StaysOrPops
  <2>6. \A i \in 1..Len(txq') : pc'[txq'[i].call] = "presave" => pc[txq'[i].call] = "presave"
    BY <2>1, QueueType DEF Base, TypeOK, QueueInv, Saving
  <2>7. QED
    BY <1>0, <2>1, <2>2, <2>3, <2>4, <2>5, <2>6, SendKeeps
<1>2. ASSUME NEW c \in Call, BeginCold(c) PROVE SendInv'
  <2>1. /\ Begins(c) /\ Goto(c, "loading") /\ pc[c] = "idle" /\ pc' = [pc EXCEPT ![c] = "loading"]
        /\ txq' = Append(txq, [call |-> c, val |-> None])
        /\ UNCHANGED <<entry, chain, record, committing, counter, released, lost, held, target, snap>>
    BY <1>2 DEF BeginCold, Begins, Goto, disk
  <2>2. /\ OneSession' /\ pc'[c] = "loading" /\ \A d \in Call \ {c} : pc'[d] = pc[d]
        /\ \A d \in Call : pc'[d] = "save" => pc[d] = "save"
    BY <2>1 DEF SendInv, OneSession, Base, TypeOK, Saving
  <2>3. ~Queued(c)
    BY <2>1 DEF Queued, Base, QueueInv, Saving
  <2>4. AloneInv'
    BY <2>1, AloneBegins DEF SendInv
  <2>5. QED
    BY <1>0, <2>1, <2>2, <2>3, <2>4, SendPush
<1>3. ASSUME NEW c \in Call, LoadRead(c) PROVE SendInv'
  <2>1. /\ txq # <<>> /\ txq' = Tail(txq) /\ pc[c] = "loading" /\ committing = None
        /\ UNCHANGED <<entry, chain, record, committing, counter, released>>
    BY <1>3 DEF LoadRead, Runs, disk, history
  <2>2. PICK label \in {"fetchKey", "restoring"} : Goto(c, label) /\ pc' = [pc EXCEPT ![c] = label]
    BY <1>3 DEF LoadRead, Goto
  <2>3. OneSession' /\ \A d \in Call : pc'[d] = "save" => pc[d] = "save"
    BY <1>3, <2>1 DEF LoadRead, Goto, SendInv, OneSession, Base, TypeOK, Saving
  <2>4. AloneInv'
    <3>1. c \in UnderWay
      BY <2>1 DEF UnderWay, Terminal
    <3>2. QED
      BY <1>0, <2>2, <3>1, UnderWayKeeps, AloneKeeps DEF SendInv
  <2>5. Shifted(1)
    BY <2>1, StaysOrPops
  <2>6. \A i \in 1..Len(txq') : pc'[txq'[i].call] = "presave" => pc[txq'[i].call] = "presave"
    <3>1. \A i \in 1..Len(txq') : txq'[i].call \in Call
      BY <2>5, QueueType DEF Shifted, Base
    <3>2. QED
      BY <2>2, <3>1 DEF Base, TypeOK
  <2>7. QED
    BY <1>0, <2>1, <2>3, <2>4, <2>5, <2>6, SendKeeps
<1>4. ASSUME NEW c \in Call, Restore(c) PROVE SendInv'
  <2>1. /\ entry = None /\ pc[c] = "restoring" /\ Install(c, snap[c]) /\ Goto(c, "presave")
        /\ UNCHANGED <<disk, txq, counter, released, overlapped>>
    BY <1>4 DEF Restore, Install
  <2>2. snap[c] = record /\ record \in Nat /\ committing = None
    BY <2>1 DEF SendInv, OneSession, Base, QueueInv
  <2>3. \A d \in released : ~Exposed(d) => counter[d] < snap[c]
    BY <2>2 DEF SendInv, ReleasedCovered, Recorded, Committing
  <2>4. QED
    BY <2>1, <2>2, <2>3, SendInstall
<1>5. ASSUME NEW c \in Call, RestoreFails(c) PROVE SendInv'
  BY <1>5 DEF RestoreFails
<1>6. ASSUME NEW c \in Call, Create(c) PROVE SendInv'
  <2>1. /\ entry = None /\ pc[c] = "fetchKey" /\ Install(c, 0) /\ Goto(c, "initSave")
        /\ UNCHANGED <<disk, txq, counter, released, overlapped>>
    BY <1>6 DEF Create, Install
  <2>2. record = None /\ committing = None
    BY <2>1 DEF SendInv, OneSession, Base, QueueInv
  <2>3. \A d \in released : ~Exposed(d) => counter[d] < 0
    BY <2>2, SessionAssumption DEF SendInv, ReleasedCovered, Recorded, Committing
  <2>4. QED
    BY <2>1, <2>3, SendInstall
<1>7. ASSUME NEW c \in Call, Put(c) PROVE SendInv'
  <2>1. target[c] = entry /\ entry # None /\ chain[entry] \in Nat /\ ~Queued(c)
    BY <1>7 DEF Put, SendInv, OneSession, Base, TypeOK
  <2>2. PICK v \in Nat : /\ txq' = Append(txq, [call |-> c, val |-> v]) /\ v >= chain[entry]
                         /\ pc[c] = "presave" => v = chain[entry] + 1
    <3> DEFINE v == chain[entry] + IF pc[c] = "presave" THEN 1 ELSE 0
    <3>1. v \in Nat /\ v >= chain[entry] /\ (pc[c] = "presave" => v = chain[entry] + 1)
      BY <2>1
    <3>2. txq' = Append(txq, [call |-> c, val |-> v])
      BY <1>7, <2>1 DEF Put
    <3>3. QED
      BY <3>1, <3>2
  <2>3. UNCHANGED <<entry, chain, record, committing, counter, released, lost, overlapped, pc, held, target, snap>>
    BY <1>7 DEF Put, disk, history
  <2>4. OneSession' /\ AloneInv' /\ \A d \in Call : pc'[d] = "save" => pc[d] = "save"
    BY <2>3 DEF SendInv, OneSession, AloneInv, UnderWay
  <2>5. QED
    BY <2>1, <2>2, <2>3, <2>4, SendPush
<1>8. ASSUME NEW c \in Call, Created(c) PROVE SendInv'
  BY <1>8, SendCreated
<1>9. ASSUME NEW c \in Call, Encrypt(c) PROVE SendInv'
  BY <1>9, SendEncrypt
<1>10. ASSUME NEW c \in Call, Return(c) PROVE SendInv'
  BY <1>10, SendReturn
<1>11. ASSUME NEW c \in Call, TxFails(c) PROVE SendInv'
  <2>1. /\ txq # <<>> /\ txq' = Tail(txq) /\ Head(txq).call = c /\ Goto(c, "failed")
        /\ pc' = [pc EXCEPT ![c] = "failed"]
        /\ UNCHANGED <<entry, chain, record, committing, counter, released, held, target, snap>>
    BY <1>11 DEF TxFails, Runs, Goto, disk, history
  <2>2. OneSession' /\ \A d \in Call : pc'[d] = "save" => pc[d] = "save"
    BY <2>1 DEF SendInv, OneSession, Base, TypeOK, Saving
  <2>3. AloneInv'
    <3>1. pc[c] \in {"loading"} \cup Saving
      BY <2>1, PopQueue DEF Base, QueueInv
    <3>2. c \in UnderWay
      BY <3>1 DEF UnderWay, Saving, Terminal
    <3>3. QED
      BY <1>0, <2>1, <3>2, UnderWayKeeps, AloneKeeps DEF SendInv
  <2>4. Shifted(1)
    BY <2>1, StaysOrPops
  <2>5. \A i \in 1..Len(txq') : pc'[txq'[i].call] = "presave" => pc[txq'[i].call] = "presave"
    <3>1. \A i \in 1..Len(txq') : txq'[i].call \in Call
      BY <2>4, QueueType DEF Shifted, Base
    <3>2. QED
      BY <2>1, <3>1 DEF Base, TypeOK
  <2>6. QED
    BY <1>0, <2>1, <2>2, <2>3, <2>4, <2>5, SendKeeps
<1>12. ASSUME NEW c \in Call, CallFails(c) PROVE SendInv'
  <2>1. /\ pc[c] \in {"fetchKey"} \cup Saving /\ Goto(c, "failed") /\ pc' = [pc EXCEPT ![c] = "failed"]
        /\ UNCHANGED <<entry, chain, record, committing, txq, counter, released, held, target, snap>>
    BY <1>12 DEF CallFails, Goto, disk, history
  <2>2. OneSession' /\ \A d \in Call : pc'[d] = "save" => pc[d] = "save"
    BY <2>1 DEF SendInv, OneSession, Base, TypeOK, Saving
  <2>3. AloneInv'
    <3>1. c \in UnderWay
      BY <2>1 DEF UnderWay, Saving, Terminal
    <3>2. QED
      BY <1>0, <2>1, <3>1, UnderWayKeeps, AloneKeeps DEF SendInv
  <2>4. Shifted(0)
    BY <2>1, StaysOrPops
  <2>5. \A i \in 1..Len(txq') : pc'[txq'[i].call] = "presave" => pc[txq'[i].call] = "presave"
    BY <2>1, QueueType DEF Base, TypeOK
  <2>6. QED
    BY <1>0, <2>1, <2>2, <2>3, <2>4, <2>5, SendKeeps
<1>13. CASE Reload
  BY <1>13, SendReload
<1>14. CASE Commit
  BY <1>14, SendCommit
<1>15. CASE CommitFails
  BY <1>15, SendCommitFails
<1>16. CASE UNCHANGED vars
  <2>1. /\ OneSession' /\ AloneInv' /\ \A d \in Call : pc'[d] = "save" => pc[d] = "save"
        /\ UNCHANGED <<entry, chain, record, committing, txq, counter, released, pc>>
    BY <1>16 DEF vars, SendInv, OneSession, AloneInv, UnderWay
  <2>2. Shifted(0)
    BY <2>1, StaysOrPops
  <2>3. QED
    BY <1>0, <2>1, <2>2, SendKeeps
<1>17. QED
  BY <1>1, <1>2, <1>3, <1>4, <1>5, <1>6, <1>7, <1>8, <1>9, <1>10, <1>11, <1>12, <1>13, <1>14, <1>15,
     <1>16 DEF Next, Step

LEMMA InvInductive == Spec => []IInv
<1>1. Init => IInv
  BY BaseInit, SendInit DEF IInv, Base
<1>2. IInv /\ [Next]_vars => IInv'
  BY BaseNext, SendNext DEF IInv, Base
<1>3. QED
  BY <1>1, <1>2, PTL DEF Spec

\* For any number of calls and reloads, in any interleaving: two ciphertexts
\* that encryptMessage hands out never share a chain position, unless getSession
\* installed a second session object or gave up a stored one, or one of the two
\* was handed out before its saves were durable and they were lost.
THEOREM CounterReuseNeedsFork == Spec => []ReuseNeedsFork
<1>1. IInv => ReuseNeedsFork
  BY DEF IInv, QueueInv, ReuseNeedsFork, SendInv, Distinct, Encrypted, TypeOK
<1>2. QED
  BY <1>1, InvInductive, PTL

\* What is stored or being committed, and every write still queued, stays beyond
\* the counter of every ciphertext handed out, so that the next page life starts
\* past it, unless both saves of the ciphertext were lost, or one of them was and
\* another call had come in between.
THEOREM StoredCounterStaysAhead == Spec => []StoredCounterCoversReleased
<1>1. IInv => StoredCounterCoversReleased
  <2> SUFFICES ASSUME Base, SendInv, NEW c \in released, ~Exposed(c)
               PROVE  /\ \/ record # None /\ record > counter[c]
                         \/ committing # None /\ committing.call = c /\ committing.step = "save"
                      /\ committing # None => committing.val > counter[c]
                      /\ \A i \in 1..Len(txq) : txq[i].val # None => txq[i].val > counter[c]
    BY DEF StoredCounterCoversReleased, IInv, Base
  <2>1. /\ Beyond(counter[c]) /\ (Recorded(counter[c]) \/ (Unaided(c) /\ Committing(c, "save")))
        /\ counter[c] \in Nat
    BY DEF SendInv, ReleasedCovered, Base, QueueInv, TypeOK
  <2>2. /\ \/ record # None /\ record > counter[c]
           \/ committing # None /\ committing.call = c /\ committing.step = "save"
    BY <2>1, SessionAssumption DEF Recorded, Committing
  <2>3. committing # None => committing.val > counter[c]
    BY <2>1 DEF Beyond, Base, TypeOK, Commits
  <2>4. \A i \in 1..Len(txq) : txq[i].val # None => txq[i].val > counter[c]
    BY <2>1, QueueType DEF Beyond, QueuedBeyond, Base
  <2>5. QED
    BY <2>2, <2>3, <2>4
<1>2. QED
  BY <1>1, InvInductive, PTL

-----------------------------------------------------------------------------
(* Holes                                                                   *)
(*                                                                         *)
(* While no call has failed or died, every position below the chain has    *)
(* its ciphertext, and a queued write is at most one beyond the chain: the *)
(* one whose ciphertext its call goes on to make.                          *)

Casualty == \E d \in Call : pc[d] \in {"failed", "lost"}

\* Every position below n has its ciphertext.
Filled(n) == \A k \in 0..(n - 1) : \E d \in Call : counter[d] = k

HoleInv ==
    /\ \A d \in Call : counter[d] # None => pc[d] \in {"save"} \cup Terminal
    /\ \A d \in Call : counter[d] # None => Filled(counter[d])
    /\ record # None => Filled(record)
    /\ committing # None => Filled(committing.val)
    /\ entry # None => Filled(chain[entry])
    /\ \A i \in 1..Len(txq) : txq[i].val # None =>
          /\ pc[txq[i].call] \in Saving
          /\ \/ txq[i].val <= chain[entry]
             \/ pc[txq[i].call] = "presave" /\ txq[i].val <= chain[entry] + 1

LEMMA FilledBelow ==
    ASSUME NEW m \in Nat, NEW n \in Nat, m <= n, Filled(n)
    PROVE  Filled(m)
<1>1. 0..(m - 1) \subseteq 0..(n - 1)
  OBVIOUS
<1>2. QED
  BY <1>1 DEF Filled

\* A step that makes no ciphertext and moves no chain leaves the invariant to
\* what it writes and queues.
LEMMA HolesQuiet ==
    ASSUME HoleInv, UNCHANGED <<entry, chain, record, committing, txq, counter>>,
           \A d \in Call : pc'[d] = pc[d] \/ (pc[d] \notin Saving \cup Terminal),
           \A i \in 1..Len(txq) : txq[i].call \in Call
    PROVE  HoleInv'
BY DEF HoleInv, Filled, Saving, Terminal

\* Nothing is popped but the head: what stays queued is as it was.
LEMMA HolesPop ==
    ASSUME Base, HoleInv, txq # <<>>, txq' = Tail(txq), UNCHANGED entry,
           NEW c \in Call, Head(txq).call = c,
           \A d \in Call \ {c} : pc'[d] = pc[d],
           entry \in Call => chain[entry] \in Nat /\ chain'[entry] \in Nat /\ chain[entry] <= chain'[entry],
           entry = None => \A d \in Call : pc[d] \notin Saving
    PROVE  \A i \in 1..Len(txq') : txq'[i].val # None =>
              /\ pc'[txq'[i].call] \in Saving
              /\ \/ txq'[i].val <= chain'[entry']
                 \/ pc'[txq'[i].call] = "presave" /\ txq'[i].val <= chain'[entry'] + 1
<1>1. SUFFICES ASSUME NEW i \in 1..Len(Tail(txq)), Tail(txq)[i].val # None
               PROVE  /\ pc'[Tail(txq)[i].call] \in Saving
                      /\ \/ Tail(txq)[i].val <= chain'[entry]
                         \/ pc'[Tail(txq)[i].call] = "presave" /\ Tail(txq)[i].val <= chain'[entry] + 1
  OBVIOUS
<1> DEFINE t == txq[i + 1]
<1>2. Tail(txq)[i] = t /\ i + 1 \in 1..Len(txq) /\ 1 \in 1..Len(txq) /\ i + 1 # 1 /\ Head(txq) = txq[1]
  BY PopQueue DEF Base
<1>3. t.call \in Call /\ t.val \in Nat /\ t.call # c
  BY <1>1, <1>2, QueueType DEF Base, QueueInv
<1>4. /\ pc[t.call] \in Saving
      /\ \/ t.val <= chain[entry]
         \/ pc[t.call] = "presave" /\ t.val <= chain[entry] + 1
  BY <1>1, <1>2 DEF HoleInv
<1>5. entry \in Call
  BY <1>3, <1>4 DEF Base, TypeOK
<1> HIDE DEF t
<1>6. pc'[t.call] = pc[t.call]
  BY <1>3
<1>7. chain[entry] \in Nat /\ chain'[entry] \in Nat /\ chain[entry] <= chain'[entry]
  BY <1>5
<1>8. t.val <= chain'[entry] \/ (pc[t.call] = "presave" /\ t.val <= chain'[entry] + 1)
  BY <1>3, <1>4, <1>7
<1>9. QED
  BY <1>2, <1>4, <1>6, <1>8

LEMMA HolesInit == Init => HoleInv
BY SessionAssumption DEF Init, HoleInv

LEMMA CasualtyStays == Base /\ [Next]_vars /\ Casualty => Casualty'
<1> SUFFICES ASSUME Base, [Next]_vars, NEW d \in Call, pc[d] \in {"failed", "lost"}
             PROVE  pc'[d] \in {"failed", "lost"}
  BY DEF Casualty
<1>1. ASSUME NEW c \in Call, Step(c) PROVE pc'[d] \in {"failed", "lost"}
  <2>1. ASSUME NEW label, Goto(c, label), pc[c] \notin {"failed", "lost"} \/ label = "failed"
        PROVE  pc'[d] \in {"failed", "lost"}
    BY <2>1 DEF Goto, Base, TypeOK
  <2>2. CASE BeginWarm(c)
    BY <2>1, <2>2 DEF BeginWarm, Begins
  <2>3. CASE BeginCold(c)
    BY <2>1, <2>3 DEF BeginCold, Begins
  <2>4. CASE LoadRead(c)
    BY <2>1, <2>4 DEF LoadRead
  <2>5. CASE Restore(c)
    BY <2>1, <2>5 DEF Restore
  <2>6. CASE RestoreFails(c)
    BY <2>1, <2>6 DEF RestoreFails
  <2>7. CASE Create(c)
    BY <2>1, <2>7 DEF Create
  <2>8. CASE Put(c)
    BY <2>8 DEF Put
  <2>9. CASE Created(c)
    BY <2>1, <2>9 DEF Created
  <2>10. CASE Encrypt(c)
    BY <2>1, <2>10 DEF Encrypt
  <2>11. CASE Return(c)
    BY <2>1, <2>11 DEF Return
  <2>12. CASE TxFails(c)
    BY <2>1, <2>12 DEF TxFails
  <2>13. CASE CallFails(c)
    BY <2>1, <2>13 DEF CallFails
  <2>14. QED
    BY <1>1, <2>2, <2>3, <2>4, <2>5, <2>6, <2>7, <2>8, <2>9, <2>10, <2>11, <2>12, <2>13 DEF Step
<1>2. CASE Reload
  BY <1>2 DEF Reload, Base, TypeOK, Terminal
<1>3. CASE Commit \/ CommitFails \/ UNCHANGED vars
  BY <1>3 DEF Commit, CommitFails, vars
<1>4. QED
  BY <1>1, <1>2, <1>3 DEF Next

LEMMA HolesPut ==
    ASSUME Base, SendInv, HoleInv, NEW c \in Call, Put(c)
    PROVE  HoleInv'
<1> DEFINE v == chain[target[c]] + IF pc[c] = "presave" THEN 1 ELSE 0
<1>1. pc[c] \in Saving /\ target[c] = entry /\ entry \in Call /\ chain[entry] \in Nat
  BY DEF Put, SendInv, OneSession, Base, TypeOK
<1>2. v \in Nat /\ txq' = Append(txq, [call |-> c, val |-> v])
      /\ (v <= chain[entry] \/ (pc[c] = "presave" /\ v <= chain[entry] + 1))
  BY <1>1 DEF Put
<1>3. UNCHANGED <<entry, chain, record, committing, pc, counter>>
  BY DEF Put, disk, history
<1>4. [call |-> c, val |-> v] \in Tx
  BY <1>2 DEF Tx
<1> HIDE DEF v
<1>5. /\ Len(txq) \in Nat /\ Len(txq') = Len(txq) + 1
      /\ txq'[Len(txq) + 1] = [call |-> c, val |-> v]
      /\ \A i \in 1..Len(txq) : txq'[i] = txq[i]
  BY <1>2, <1>4, PushQueue DEF Base
<1>6. ASSUME NEW i \in 1..Len(txq'), txq'[i].val # None
      PROVE  /\ pc[txq'[i].call] \in Saving
             /\ \/ txq'[i].val <= chain[entry]
                \/ pc[txq'[i].call] = "presave" /\ txq'[i].val <= chain[entry] + 1
  <2>1. CASE i \in 1..Len(txq)
    BY <2>1, <1>5, <1>6 DEF HoleInv
  <2>2. CASE i = Len(txq) + 1
    BY <2>2, <1>1, <1>2, <1>5
  <2>3. QED
    BY <1>5, <2>1, <2>2
<1>7. QED
  BY <1>3, <1>6 DEF HoleInv, Filled

LEMMA HolesInstall ==
    ASSUME Base, SendInv, HoleInv, entry = None, NEW c \in Call, NEW n \in Nat,
           Install(c, n), Filled(n), UNCHANGED <<record, committing, txq, counter>>,
           \A d \in Call : pc'[d] = pc[d] \/ (pc[d] \notin Saving \cup Terminal)
    PROVE  HoleInv'
<1>1. entry' = c /\ c # None /\ chain'[c] = n
  BY SessionAssumption DEF Install, Base, TypeOK
<1>2. \A i \in 1..Len(txq) : txq[i].val = None
  BY QueueType DEF SendInv, OneSession, HoleInv, Base
<1>3. Filled(n)'
  BY DEF Filled
<1>4. QED
  BY <1>1, <1>2, <1>3 DEF HoleInv, Filled, Saving, Terminal

\* The head of the queue is being written: it reaches no further than the chain
\* does by the end of the step.
LEMMA HolesPutDone ==
    ASSUME Base, SendInv, HoleInv, NEW c \in Call, Created(c) \/ Encrypt(c) \/ Return(c)
    PROVE  HoleInv'
<1> DEFINE v == Head(txq).val
<1>1. PutDone(c) /\ pc[c] \in Saving /\ UNCHANGED entry
  BY DEF Created, Encrypt, Return, PutDone, history
<1>2. /\ txq # <<>> /\ Head(txq).call = c /\ txq' = Tail(txq) /\ UNCHANGED record
      /\ committing' = [call |-> c, step |-> pc[c], val |-> v] /\ committing' \in Commits
      /\ entry \in Call
  BY <1>1, PutDoneOperands
<1>3. held[c] = entry /\ entry # None /\ chain[entry] \in Nat
  BY <1>1, <1>2 DEF SendInv, OneSession, Base, TypeOK
<1>4. committing'.val = v /\ v \in Nat
  <2>1. committing'.val = v
    BY <1>2
  <2>2. committing'.val \in Nat
    BY <1>2 DEF Commits
  <2>3. QED
    BY <2>1, <2>2
<1>5. v <= chain[entry] \/ (pc[c] = "presave" /\ v <= chain[entry] + 1)
  <2>1. Head(txq) = txq[1] /\ 1 \in 1..Len(txq) /\ v # None
    BY <1>2, <1>4, PopQueue, SessionAssumption DEF Base
  <2>2. QED
    BY <1>2, <2>1 DEF HoleInv
<1> HIDE DEF v
<1>6. \A d \in Call \ {c} : pc'[d] = pc[d]
  BY DEF Created, Encrypt, Return, Goto, Base, TypeOK
<1>7. pc'[c] = IF pc[c] = "initSave" THEN "presave" ELSE IF pc[c] = "presave" THEN "save" ELSE "done"
  BY DEF Created, Encrypt, Return, Goto, Base, TypeOK
<1>8. \A d \in Call : counter[d] # None => pc[d] \in {"save"} \cup Terminal /\ Filled(counter[d])
  BY DEF HoleInv
<1>9. CASE Created(c) \/ Return(c)
  <2>1. UNCHANGED <<chain, counter>> /\ v <= chain[entry]
    BY <1>5, <1>9 DEF Created, Return, history
  <2>2. Filled(v)
    BY <1>2, <1>3, <1>4, <2>1, FilledBelow DEF HoleInv
  <2>3. \A d \in Call : counter'[d] # None => pc'[d] \in {"save"} \cup Terminal
    BY <1>6, <1>7, <1>8, <1>9, <2>1 DEF Terminal, Created
  <2>4. \A i \in 1..Len(txq') : txq'[i].val # None =>
              /\ pc'[txq'[i].call] \in Saving
              /\ \/ txq'[i].val <= chain'[entry']
                 \/ pc'[txq'[i].call] = "presave" /\ txq'[i].val <= chain'[entry'] + 1
    BY <1>1, <1>2, <1>3, <1>6, <2>1, HolesPop
  <2>5. /\ (record # None => Filled(record))' /\ (entry # None => Filled(chain[entry]))'
        /\ (committing # None => Filled(committing.val))'
        /\ \A d \in Call : (counter[d] # None => Filled(counter[d]))'
    BY <1>1, <1>2, <1>4, <1>8, <2>1, <2>2 DEF HoleInv, Filled
  <2>6. QED
    BY <2>3, <2>4, <2>5 DEF HoleInv
<1>10. CASE Encrypt(c)
  <2>1. /\ chain' = [chain EXCEPT ![entry] = chain[entry] + 1]
        /\ counter' = [counter EXCEPT ![c] = chain[entry]]
        /\ pc[c] = "presave" /\ pc'[c] = "save"
    BY <1>3, <1>7, <1>10 DEF Encrypt
  <2>2. chain'[entry] = chain[entry] + 1
    BY <1>2, <2>1 DEF Base, TypeOK
  <2>3. counter[c] = None /\ counter'[c] = chain[entry]
        /\ \A d \in Call \ {c} : counter'[d] = counter[d]
    BY <2>1, <1>8 DEF Base, TypeOK, Terminal
  <2>4. \A k \in 0..chain[entry] : \E d \in Call : counter'[d] = k
    <3>1. SUFFICES ASSUME NEW k \in 0..chain[entry] PROVE \E d \in Call : counter'[d] = k
      OBVIOUS
    <3>2. CASE k = chain[entry]
      BY <3>2, <2>3
    <3>3. CASE k \in 0..(chain[entry] - 1)
      <4>1. PICK d \in Call : counter[d] = k
        BY <1>3, <3>3 DEF HoleInv, Filled
      <4>2. d # c
        BY <4>1, <2>3, SessionAssumption
      <4>3. QED
        BY <4>1, <4>2, <2>3
    <3>4. QED
      BY <1>3, <3>2, <3>3
  <2>5. ASSUME NEW n \in Nat, n <= chain[entry] + 1
        PROVE  \A k \in 0..(n - 1) : \E d \in Call : counter'[d] = k
    <3>1. 0..(n - 1) \subseteq 0..chain[entry]
      BY <1>3, <2>5
    <3>2. QED
      BY <3>1, <2>4
  <2>6. ASSUME NEW n, Filled(n)
        PROVE  \A k \in 0..(n - 1) : \E d \in Call : counter'[d] = k
    <3>1. SUFFICES ASSUME NEW k \in 0..(n - 1) PROVE \E d \in Call : counter'[d] = k
      OBVIOUS
    <3>2. PICK d \in Call : counter[d] = k
      BY <2>6 DEF Filled
    <3>3. d # c
      BY <3>2, <2>3, SessionAssumption
    <3>4. QED
      BY <3>2, <3>3, <2>3
  <2>7. (record # None => Filled(record))'
    <3>1. record # None => Filled(record)
      BY DEF HoleInv
    <3>2. QED
      BY <1>2, <2>6, <3>1 DEF Filled
  <2>8. (committing # None => Filled(committing.val))'
    BY <1>4, <1>5, <1>3, <2>5 DEF Filled
  <2>9. (entry # None => Filled(chain[entry]))'
    BY <1>1, <1>3, <2>2, <2>5 DEF Filled
  <2>10. \A d \in Call : (counter[d] # None => Filled(counter[d]))'
    <3>1. SUFFICES ASSUME NEW d \in Call, counter'[d] # None
                   PROVE  \A k \in 0..(counter'[d] - 1) : \E e \in Call : counter'[e] = k
      BY DEF Filled
    <3>2. CASE d = c
      BY <1>3, <2>3, <2>5, <3>2
    <3>3. CASE d # c
      BY <1>8, <2>3, <2>6, <3>1, <3>3
    <3>4. QED
      BY <3>2, <3>3
  <2>11. \A i \in 1..Len(txq') : txq'[i].val # None =>
              /\ pc'[txq'[i].call] \in Saving
              /\ \/ txq'[i].val <= chain'[entry']
                 \/ pc'[txq'[i].call] = "presave" /\ txq'[i].val <= chain'[entry'] + 1
    BY <1>1, <1>2, <1>3, <1>6, <2>2, HolesPop
  <2>12. \A d \in Call : counter'[d] # None => pc'[d] \in {"save"} \cup Terminal
    BY <1>6, <1>8, <2>1, <2>3
  <2>13. QED
    BY <2>7, <2>8, <2>9, <2>10, <2>11, <2>12 DEF HoleInv
<1>11. QED
  BY <1>9, <1>10

LEMMA HolesNext ==
    IInv /\ (forked \/ Casualty \/ HoleInv) /\ [Next]_vars => (forked \/ Casualty \/ HoleInv)'
<1> SUFFICES ASSUME Base, SendInv, HoleInv, ~Casualty, [Next]_vars, ~forked', ~Casualty'
             PROVE  HoleInv'
  BY ForkStays, CasualtyStays DEF IInv, Base
<1>1. \A i \in 1..Len(txq) : txq[i].call \in Call
  BY QueueType DEF Base
<1>2. ASSUME NEW c \in Call, BeginWarm(c) PROVE HoleInv'
  <2>1. \A d \in Call : pc'[d] = pc[d] \/ (pc[d] \notin Saving \cup Terminal)
    BY <1>2 DEF BeginWarm, Begins, Goto, Base, TypeOK, Saving, Terminal
  <2>2. QED
    BY <1>1, <1>2, <2>1, HolesQuiet DEF BeginWarm, disk
<1>3. ASSUME NEW c \in Call, BeginCold(c) PROVE HoleInv'
  <2>1. \A d \in Call : pc'[d] = pc[d] \/ (pc[d] \notin Saving \cup Terminal)
    BY <1>3 DEF BeginCold, Begins, Goto, Base, TypeOK, Saving, Terminal
  <2>2. [call |-> c, val |-> None] \in Tx
    BY DEF Tx
  <2>3. /\ Len(txq) \in Nat /\ Len(txq') = Len(txq) + 1
        /\ txq'[Len(txq) + 1].val = None
        /\ \A i \in 1..Len(txq) : txq'[i] = txq[i]
    BY <1>3, <2>2, PushQueue DEF BeginCold, Base
  <2>4. \A i \in 1..Len(txq') : txq'[i].val # None => i \in 1..Len(txq)
    BY <2>3
  <2>5. UNCHANGED <<entry, chain, record, committing, counter>>
    BY <1>3 DEF BeginCold, disk
  <2>6. QED
    BY <1>1, <2>1, <2>3, <2>4, <2>5 DEF HoleInv, Filled, Saving, Terminal
<1>4. ASSUME NEW c \in Call, LoadRead(c) PROVE HoleInv'
  <2>1. /\ pc[c] = "loading" /\ txq # <<>> /\ Head(txq).call = c /\ txq' = Tail(txq)
        /\ UNCHANGED <<entry, chain, record, committing, counter>>
        /\ \A d \in Call \ {c} : pc'[d] = pc[d]
    BY <1>4 DEF LoadRead, Runs, Goto, Base, TypeOK, disk, history
  <2>2. \A i \in 1..Len(txq') : txq'[i].val # None =>
              /\ pc'[txq'[i].call] \in Saving
              /\ \/ txq'[i].val <= chain'[entry']
                 \/ pc'[txq'[i].call] = "presave" /\ txq'[i].val <= chain'[entry'] + 1
    <3>1. /\ entry \in Call => chain[entry] \in Nat /\ chain'[entry] \in Nat /\ chain[entry] <= chain'[entry]
          /\ entry = None => \A d \in Call : pc[d] \notin Saving
      BY <2>1 DEF Base, TypeOK, SendInv, OneSession
    <3>2. QED
      BY <2>1, <3>1, HolesPop
  <2>3. QED
    BY <2>1, <2>2 DEF HoleInv, Filled, Terminal
<1>5. ASSUME NEW c \in Call, Restore(c) PROVE HoleInv'
  <2>1. entry = None /\ pc[c] = "restoring" /\ Install(c, snap[c])
        /\ UNCHANGED <<record, committing, txq, counter>>
    BY <1>5 DEF Restore, Install, disk
  <2>2. snap[c] = record /\ record \in Nat
    BY <2>1 DEF SendInv, OneSession, Base, QueueInv
  <2>3. \A d \in Call : pc'[d] = pc[d] \/ (pc[d] \notin Saving \cup Terminal)
    BY <1>5 DEF Restore, Goto, Base, TypeOK, Saving, Terminal
  <2>4. Filled(snap[c])
    BY <2>2, SessionAssumption DEF HoleInv
  <2>5. QED
    BY <2>1, <2>2, <2>3, <2>4, HolesInstall
<1>6. ASSUME NEW c \in Call, RestoreFails(c) PROVE HoleInv'
  BY <1>6 DEF RestoreFails
<1>7. ASSUME NEW c \in Call, Create(c) PROVE HoleInv'
  <2>1. entry = None /\ Install(c, 0) /\ UNCHANGED <<record, committing, txq, counter>>
    BY <1>7 DEF Create, Install, disk
  <2>2. \A d \in Call : pc'[d] = pc[d] \/ (pc[d] \notin Saving \cup Terminal)
    BY <1>7 DEF Create, Goto, Base, TypeOK, Saving, Terminal
  <2>3. Filled(0)
    BY DEF Filled
  <2>4. QED
    BY <2>1, <2>2, <2>3, HolesInstall
<1>8. ASSUME NEW c \in Call, Put(c) PROVE HoleInv'
  BY <1>8, HolesPut
<1>9. ASSUME NEW c \in Call, Created(c) \/ Encrypt(c) \/ Return(c) PROVE HoleInv'
  BY <1>9, HolesPutDone
<1>10. ASSUME NEW c \in Call, TxFails(c) \/ CallFails(c) PROVE HoleInv'
  BY <1>10 DEF TxFails, CallFails, Goto, Casualty, Base, TypeOK
<1>11. CASE Reload
  <2>1. \A d \in Call : pc'[d] = pc[d]
    BY <1>11 DEF Reload, Casualty, Base, TypeOK
  <2>2. entry' = None /\ txq' = <<>> /\ committing' = None /\ UNCHANGED <<record, counter>>
    BY <1>11 DEF Reload
  <2>3. QED
    BY <2>1, <2>2 DEF HoleInv, Filled
<1>12. CASE UNCHANGED vars
  BY <1>1, <1>12, HolesQuiet DEF vars
<1>13. CASE Commit \/ CommitFails
  <2>1. /\ UNCHANGED <<entry, chain, txq, pc, counter>> /\ committing' = None
        /\ record' = record \/ (committing # None /\ record' = committing.val)
    BY <1>13 DEF Commit, CommitFails
  <2>2. QED
    BY <2>1 DEF HoleInv, Filled
<1>14. QED
  BY <1>2, <1>3, <1>4, <1>5, <1>6, <1>7, <1>8, <1>9, <1>10, <1>11, <1>12, <1>13 DEF Next, Step

\* For any number of calls and reloads: below a ciphertext that was handed out
\* every position has its own ciphertext, unless a call failed or died under way
\* or the session was forked.
THEOREM HolesOnlyBehindCasualties == Spec => []HolesNeedACasualty
<1>1. Init => (forked \/ Casualty \/ HoleInv)
  BY HolesInit
<1>2. IInv /\ (forked \/ Casualty \/ HoleInv) => HolesNeedACasualty
  <2> SUFFICES ASSUME Base, ~forked, SendInv, HoleInv, NEW c \in released,
                      NEW k \in 0..(counter[c] - 1)
               PROVE  \E d \in Call : counter[d] = k
    BY DEF HolesNeedACasualty, IInv, Base, Casualty
  <2>1. c \in Call /\ counter[c] \in Nat /\ counter[c] # None
    BY SessionAssumption DEF Base, TypeOK, QueueInv
  <2>2. QED
    BY <2>1 DEF HoleInv, Filled
<1>3. QED
  BY <1>1, <1>2, HolesNext, InvInductive, PTL DEF Spec

-----------------------------------------------------------------------------
(* What carries the sessions' messages: the client of the SMP servers, the *)
(* same for SmpClient, for any list of servers and any number of sockets,  *)
(* messages and faults.  Smp is that module.                               *)
(*                                                                         *)
(* The argument: until the shutdown a server's entries are told by its one *)
(* live socket, after it nothing comes back that did not survive it, and a *)
(* server that is closed has left no more timers than sockets.  As to the  *)
(* queue, there is one SUB: it is not sent yet, on its way up, or with the *)
(* server, whose subscriber then stays, and what comes down goes to the    *)
(* subscriber only.                                                        *)

CONSTANTS Servers, Mine, Theirs, MaxSockets, MaxFaults, Fault
VARIABLES sock, conn, state, global, timers, calls, subscribed, phase, registered, shown,
          invitation, outcome, accepted, handled, home, subscriber, box,
          heard, dropped, since, told, posted, stopped, survivors, faults

Smp == INSTANCE SmpClient

\* What SmpClient assumes of its constants.
SmpBounds ==
    /\ Servers \in Seq(Range(Servers)) /\ IsInjective(Servers) /\ Servers # <<>>
    /\ Mine \cup Theirs \subseteq Nat \ {0} /\ Mine \cap Theirs = {}
    /\ MaxSockets \in Nat /\ MaxSockets >= Len(Servers)
    /\ MaxFaults \in Nat
    /\ Fault \subseteq {"cut", "close", "dial", "throw", "refuse", "late"}

-----------------------------------------------------------------------------
(* The inductive invariant of the client                                   *)

\* Before the first connect() there is nothing.
OffInv ==
    phase = "off" =>
        /\ \A k \in Smp!Socket : sock[k] = Smp!Unused
        /\ conn = [s \in Smp!Server |-> Smp!None] /\ state = [s \in Smp!Server |-> "none"]
        /\ timers = [s \in Smp!Server |-> 0]
        /\ global = "disconnected" /\ ~registered /\ ~stopped

\* Until the shutdown, a server's entries follow its one live socket.
LiveInv ==
    ~stopped =>
        /\ \A k \in Smp!Socket : sock[k].st # "closing"
        /\ \A s \in Smp!Server :
            /\ \A j, k \in Smp!Live(s) : j = k
            /\ state[s] = "connecting" <=> \E k \in Smp!Live(s) : sock[k].st = "dialing"
            /\ state[s] = "connected" <=> \E k \in Smp!Live(s) : sock[k].st = "open"
            /\ \A k \in Smp!Live(s) : sock[k].st = "open" <=> conn[s] = k
            /\ conn[s] # Smp!None => conn[s] \in Smp!Live(s)

\* What the client tells of its state follows from the states of the servers.
GlobalInv ==
    /\ global = "connected" <=> \E s \in Smp!Server : state[s] = "connected"
    /\ registered => shown = global

\* The sockets of s that are closed: each has left one timer at most.
ClosedOf(s) == {k \in Smp!Socket : sock[k].st = "closed" /\ sock[k].server = s}
TimerInv == \A s \in Smp!Server : timers[s] <= Cardinality(ClosedOf(s))

\* After the shutdown, what may come back is what survived it.
SurvivorInv ==
    stopped =>
        /\ \A s \in Smp!Server : timers[s] > 0 \/ state[s] = "connected" => s \in survivors
        /\ \A k \in Smp!Socket : sock[k].st \in {"dialing", "open"} => sock[k].server \in survivors

ConnInv ==
    /\ \A k \in Smp!Socket : sock[k].st # "unused" => sock[k].server \in Smp!Server
    /\ OffInv /\ LiveInv /\ GlobalInv /\ TimerInv /\ SurvivorInv /\ Smp!LostServerHasATimer

\* Where the one SUB is: not yet sent, on its way up, or with the server, whose
\* subscriber then stays.
NewCall == [cmd |-> "NEW", msg |-> Smp!None]
SubAt(k, i) == i \in 1..Len(sock[k].up) /\ sock[k].up[i].cmd = "SUB"
SubInv ==
    /\ \A j, k \in Smp!Socket : \A a, b \in Nat : SubAt(j, a) /\ SubAt(k, b) => j = k /\ a = b
    /\ (subscriber # Smp!None \/ NewCall \in calls \/ invitation = "none") =>
            \A k \in Smp!Socket : \A a \in Nat : ~SubAt(k, a)
    /\ NewCall \in calls \/ invitation = "none" => subscriber = Smp!None
    /\ calls # {} => invitation # "none"

\* Pushes and the answer to SUB come to the subscriber only.
DownInv ==
    \A k \in Smp!Socket : \A i \in 1..Len(sock[k].down) :
        LET f == sock[k].down[i]
        IN  /\ f.cmd = "MSG" => f.of.cmd = "SEND"
            /\ f.cmd = "MSG" \/ f.of.cmd = "SUB" => k = subscriber

HeardInv ==
    /\ since # Smp!None => since = subscriber
    /\ subscribed => since # Smp!None
    /\ \A h \in heard : h.via = since /\ since # Smp!None
    /\ invitation # "none" => home \in Smp!Server
    /\ subscribed \/ handled # {} => invitation # "none"

SmpQueueInv == SubInv /\ DownInv /\ HeardInv

SmpIInv == Smp!TypeOK /\ ConnInv /\ SmpQueueInv

SockRec == [server : Smp!Server \cup {Smp!None}, st : {"unused", "dialing", "open", "closing", "closed"},
            up : Seq(Smp!Call), down : Seq(Smp!Frame)]
ShownState == {"connecting", "connected", "error", "disconnected"}

LEMMA SmpConstants ==
  ASSUME SmpBounds
  PROVE
    /\ Smp!None \notin Smp!Socket /\ Smp!Socket \subseteq Nat /\ IsFiniteSet(Smp!Socket)
    /\ \A k \in 1..Len(Servers) : k \in Smp!Socket /\ Servers[k] \in Smp!Server
    /\ \A j, k \in 1..Len(Servers) : Servers[j] = Servers[k] => j = k
    /\ \A s \in Smp!Server : \E k \in 1..Len(Servers) : Servers[k] = s
    /\ \E s : s \in Smp!Server
    /\ MaxFaults \in Nat /\ MaxSockets \in Nat
    /\ Smp!Message \subseteq Nat \ {Smp!None}
<1>1. Servers \in Seq(Smp!Server) /\ Servers # <<>> /\ MaxSockets \in Nat /\ MaxSockets >= Len(Servers)
  BY DEF SmpBounds, Smp!Server, Range, Smp!Range
<1>2. Len(Servers) \in Nat /\ Len(Servers) # 0 /\ DOMAIN Servers = 1..Len(Servers)
  BY <1>1
<1>3. \A k \in 1..Len(Servers) : k \in Smp!Socket /\ Servers[k] \in Smp!Server
  BY <1>1, <1>2 DEF Smp!Socket
<1>4. \A j, k \in 1..Len(Servers) : Servers[j] = Servers[k] => j = k
  BY <1>2 DEF SmpBounds, IsInjective
<1>5. \A s \in Smp!Server : \E k \in 1..Len(Servers) : Servers[k] = s
  BY <1>2 DEF Smp!Server, Range, Smp!Range
<1>6. \E s : s \in Smp!Server
  <2>1. 1 \in 1..Len(Servers)
    BY <1>2
  <2>2. QED
    BY <1>3, <2>1
<1>7. Smp!None \notin Smp!Socket /\ Smp!Socket \subseteq Nat
  BY <1>1 DEF Smp!Socket, Smp!None
<1>8. IsFiniteSet(Smp!Socket)
  BY <1>1, FS_Interval DEF Smp!Socket
<1>9. QED
  BY <1>1, <1>3, <1>4, <1>5, <1>6, <1>7, <1>8 DEF SmpBounds, Smp!Message, Smp!None

LEMMA SmpTypes ==
    ASSUME Smp!TypeOK
    PROVE  /\ sock \in [Smp!Socket -> SockRec]
           /\ conn \in [Smp!Server -> Smp!Socket \cup {Smp!None}]
           /\ state \in [Smp!Server -> {"none", "connecting", "connected", "error", "disconnected"}]
           /\ timers \in [Smp!Server -> 0..MaxSockets]
           /\ global \in ShownState /\ shown \in ShownState
           /\ \A k \in Smp!Socket : /\ sock[k].up \in Seq(Smp!Call) /\ sock[k].down \in Seq(Smp!Frame)
                                    /\ sock[k].st \in {"unused", "dialing", "open", "closing", "closed"}
           /\ subscriber \in Smp!Socket \cup {Smp!None} /\ since \in Smp!Socket \cup {Smp!None}
<1>1. sock \in [Smp!Socket -> SockRec]
  BY DEF Smp!TypeOK, SockRec
<1>2. \A k \in Smp!Socket : sock[k] \in SockRec
  BY <1>1
<1>3. \A k \in Smp!Socket : /\ sock[k].up \in Seq(Smp!Call) /\ sock[k].down \in Seq(Smp!Frame)
                            /\ sock[k].st \in {"unused", "dialing", "open", "closing", "closed"}
  BY <1>2 DEF SockRec
<1>4. QED
  BY <1>1, <1>3 DEF Smp!TypeOK, ShownState

LEMMA SilentIsSock ==
    ASSUME NEW s \in Smp!Server \cup {Smp!None}, NEW st \in {"unused", "dialing", "open", "closing", "closed"}
    PROVE  \E q \in SockRec : /\ q = Smp!Silent(s, st)
                              /\ q.st = st /\ q.server = s /\ q.up = <<>> /\ q.down = <<>>
<1>1. <<>> \in Seq(Smp!Call) /\ <<>> \in Seq(Smp!Frame)
  OBVIOUS
<1>2. Smp!Silent(s, st) \in SockRec
  BY <1>1 DEF SockRec, Smp!Silent
<1>3. QED
  BY <1>2 DEF Smp!Silent

LEMMA UnusedIsSock ==
    Smp!Unused \in SockRec /\ Smp!Unused.st = "unused" /\ Smp!Unused.up = <<>> /\ Smp!Unused.down = <<>>
BY SilentIsSock DEF Smp!Unused

LEMMA GlobalStates ==
    ASSUME NEW st \in [Smp!Server -> {"none", "connecting", "connected", "error", "disconnected"}]
    PROVE  /\ Smp!GlobalState(st) \in ShownState
           /\ Smp!GlobalState(st) = "connected" <=> \E s \in Smp!Server : st[s] = "connected"
<1> DEFINE states == {st[s] : s \in {x \in Smp!Server : st[x] # "none"}}
<1>1. "connected" \in states <=> \E s \in Smp!Server : st[s] = "connected"
  OBVIOUS
<1>2. Smp!GlobalState(st) = IF "connected" \in states THEN "connected"
                            ELSE IF states \subseteq {"error"} THEN "error"
                            ELSE IF "connecting" \in states THEN "connecting" ELSE "disconnected"
  BY DEF Smp!GlobalState
<1> HIDE DEF states
<1>3. QED
  BY <1>1, <1>2 DEF ShownState

LEMMA Counts ==
    ASSUME SmpBounds, NEW S \in SUBSET Smp!Socket
    PROVE  IsFiniteSet(S) /\ Cardinality(S) \in Nat /\ Cardinality(S) <= MaxSockets
<1>1. IsFiniteSet(Smp!Socket) /\ Cardinality(Smp!Socket) = MaxSockets
  BY SmpConstants, FS_Interval DEF Smp!Socket
<1>2. IsFiniteSet(S) /\ Cardinality(S) <= Cardinality(Smp!Socket)
  BY <1>1, FS_Subset
<1>3. QED
  BY <1>1, <1>2, FS_CardinalityType

\* What is sent and received on the sockets disturbs no connection.
LEMMA Traffic ==
    ASSUME Smp!TypeOK, ConnInv,
           \A k \in Smp!Socket : sock'[k].st = sock[k].st /\ sock'[k].server = sock[k].server,
           phase = "off" => sock' = sock,
           UNCHANGED <<Smp!client, Smp!bridge, told, stopped, survivors>>
    PROVE  ConnInv'
<1>1. \A s : Smp!Live(s)' = Smp!Live(s) /\ ClosedOf(s)' = ClosedOf(s)
  BY DEF Smp!Live, ClosedOf
<1>2. \A s : \A k \in Smp!Live(s) : sock'[k].st = sock[k].st
  BY DEF Smp!Live
<1>3. UNCHANGED <<conn, state, global, timers, shown, phase, registered, told, stopped, survivors>>
  BY DEF Smp!client, Smp!bridge
<1>4. (\A k \in Smp!Socket : sock[k].st # "unused" => sock[k].server \in Smp!Server)'
  BY DEF ConnInv
<1>5. OffInv'
  BY <1>3 DEF ConnInv, OffInv
<1>6. LiveInv'
  BY <1>1, <1>2, <1>3 DEF ConnInv, LiveInv
<1>7. GlobalInv' /\ SurvivorInv'
  BY <1>3 DEF ConnInv, GlobalInv, SurvivorInv
<1>8. TimerInv' /\ Smp!LostServerHasATimer'
  BY <1>1, <1>3 DEF ConnInv, TimerInv, Smp!LostServerHasATimer
<1>9. QED
  BY <1>4, <1>5, <1>6, <1>7, <1>8 DEF ConnInv

\* What opens and closes, empties sockets at the most.
LEMMA Quiet ==
    ASSUME Smp!TypeOK, SmpQueueInv,
           \A k \in Smp!Socket : sock'[k].up \in {sock[k].up, <<>>} /\ sock'[k].down \in {sock[k].down, <<>>},
           UNCHANGED <<calls, subscribed, invitation, handled, home, subscriber, heard, since>>
    PROVE  SmpQueueInv'
<1>1. \A k \in Smp!Socket : \A i : SubAt(k, i)' => SubAt(k, i)
  BY DEF SubAt
<1>2. SubInv'
  BY <1>1 DEF SmpQueueInv, SubInv
<1>3. \A k \in Smp!Socket : \A i \in 1..Len(sock'[k].down) :
        i \in 1..Len(sock[k].down) /\ sock'[k].down[i] = sock[k].down[i]
  OBVIOUS
<1>4. DownInv'
  BY <1>3 DEF SmpQueueInv, DownInv
<1>5. HeardInv'
  BY DEF SmpQueueInv, HeardInv
<1>6. QED
  BY <1>2, <1>4, <1>5 DEF SmpQueueInv

\* A change of a server's state is announced.
LEMMA Announced ==
    ASSUME Smp!TypeOK, NEW s \in Smp!Server,
           NEW to \in {"none", "connecting", "connected", "error", "disconnected"},
           Smp!SetState(s, to), registered => shown = global, UNCHANGED registered
    PROVE  /\ state' = [state EXCEPT ![s] = to]
           /\ state' \in [Smp!Server -> {"none", "connecting", "connected", "error", "disconnected"}]
           /\ global' \in ShownState /\ shown' \in ShownState
           /\ GlobalInv'
<1>1. state' = [state EXCEPT ![s] = to]
  BY DEF Smp!SetState
<1>2. state' \in [Smp!Server -> {"none", "connecting", "connected", "error", "disconnected"}]
  BY <1>1, SmpTypes
<1>3. global' = Smp!GlobalState(state') /\ shown' = IF registered THEN Smp!GlobalState(state') ELSE shown
  BY DEF Smp!SetState, Smp!Announce
<1>4. PICK st \in [Smp!Server -> {"none", "connecting", "connected", "error", "disconnected"}] : st = state'
  BY <1>2
<1>5. Smp!GlobalState(st) \in ShownState /\ (Smp!GlobalState(st) = "connected" <=> \E x \in Smp!Server : st[x] = "connected")
  BY GlobalStates
<1>6. Smp!GlobalState(state') = Smp!GlobalState(st)
  BY <1>4
<1>7. QED
  BY <1>1, <1>2, <1>3, <1>4, <1>5, <1>6, SmpTypes DEF GlobalInv

LEMMA CloseConn ==
    ASSUME SmpBounds, Smp!TypeOK, ConnInv, NEW k \in Smp!Socket, NEW code \in {1000, 1006},
           sock[k].st \in {"dialing", "open", "closing"},
           Smp!OnClose(k, code), UNCHANGED <<Smp!bridge, stopped>>,
           told \subseteq told', survivors \subseteq survivors',
           code = 1000 => sock[k].server \in told' \/ sock[k].st = "closing",
           code # 1000 /\ sock[k].st = "closing" => sock[k].server \in survivors'
    PROVE  /\ ConnInv'
           /\ sock' \in [Smp!Socket -> SockRec]
           /\ \A j \in Smp!Socket : /\ sock'[j].up \in {sock[j].up, <<>>}
                                    /\ sock'[j].down \in {sock[j].down, <<>>}
           /\ conn' \in [Smp!Server -> Smp!Socket \cup {Smp!None}]
           /\ state' \in [Smp!Server -> {"none", "connecting", "connected", "error", "disconnected"}]
           /\ global' \in ShownState /\ shown' \in ShownState
           /\ timers' \in [Smp!Server -> 0..MaxSockets]
<1> DEFINE s == sock[k].server
<1>1. s \in Smp!Server /\ phase # "off"
  <2>1. sock[k].st # "unused"
    OBVIOUS
  <2>2. QED
    BY <2>1 DEF ConnInv, OffInv, Smp!Unused, Smp!Silent
<1>2. PICK v \in Smp!Server : v = sock[k].server
  BY <1>1
<1>3. /\ sock' = [sock EXCEPT ![k] = Smp!Silent(v, "closed")]
      /\ conn' = [conn EXCEPT ![v] = Smp!None]
      /\ Smp!SetState(v, "disconnected")
      /\ timers' = IF code # 1000 THEN [timers EXCEPT ![v] = @ + 1] ELSE timers
      /\ UNCHANGED <<phase, registered>>
  BY <1>2 DEF Smp!OnClose, Smp!bridge
<1> HIDE DEF s
<1>4. /\ state' = [state EXCEPT ![v] = "disconnected"]
      /\ state' \in [Smp!Server -> {"none", "connecting", "connected", "error", "disconnected"}]
      /\ global' \in ShownState /\ shown' \in ShownState /\ GlobalInv'
  BY <1>3, Announced DEF ConnInv, GlobalInv
<1>5. /\ sock' \in [Smp!Socket -> SockRec]
      /\ sock'[k].st = "closed" /\ sock'[k].server = v /\ sock'[k].up = <<>> /\ sock'[k].down = <<>>
      /\ \A j \in Smp!Socket \ {k} : sock'[j] = sock[j]
  <2>1. sock \in [Smp!Socket -> SockRec]
    BY SmpTypes
  <2>2. PICK q \in SockRec : /\ q = Smp!Silent(v, "closed")
                             /\ q.st = "closed" /\ q.server = v /\ q.up = <<>> /\ q.down = <<>>
    BY SilentIsSock
  <2>3. sock' = [sock EXCEPT ![k] = q]
    BY <1>3, <2>2
  <2>4. QED
    BY <2>1, <2>2, <2>3
<1>6. /\ conn' \in [Smp!Server -> Smp!Socket \cup {Smp!None}] /\ conn'[v] = Smp!None
      /\ \A t \in Smp!Server \ {v} : conn'[t] = conn[t]
  BY <1>3, SmpTypes
<1>7. /\ ClosedOf(v)' = ClosedOf(v) \cup {k} /\ k \notin ClosedOf(v)
      /\ \A t \in Smp!Server \ {v} : ClosedOf(t)' = ClosedOf(t)
  BY <1>2, <1>5 DEF ClosedOf
<1>8. /\ Smp!Live(v)' = Smp!Live(v) \ {k}
      /\ \A t \in Smp!Server \ {v} : Smp!Live(t)' = Smp!Live(t) /\ k \notin Smp!Live(t)
  BY <1>2, <1>5 DEF Smp!Live
<1>9. \A t : Smp!Live(t) \subseteq Smp!Socket
  BY DEF Smp!Live
<1>10. (\A j \in Smp!Socket : sock[j].st # "unused" => sock[j].server \in Smp!Server)'
  BY <1>5 DEF ConnInv
<1>11. OffInv'
  BY <1>1, <1>3 DEF OffInv
<1>12. ~stopped => Smp!Live(v) = {k}
  <2>1. ~stopped => k \in Smp!Live(v)
    BY <1>2 DEF ConnInv, LiveInv, Smp!Live
  <2>2. QED
    BY <2>1 DEF ConnInv, LiveInv
<1>13. LiveInv'
  <2> SUFFICES ASSUME ~stopped PROVE LiveInv'
    BY DEF LiveInv
  <2>1. (\A j \in Smp!Socket : sock[j].st # "closing")'
    BY <1>5 DEF ConnInv, LiveInv
  <2>2. Smp!Live(v)' = {} /\ state'[v] = "disconnected" /\ conn'[v] = Smp!None
    BY <1>4, <1>6, <1>8, <1>12, SmpTypes
  <2>3. \A t \in Smp!Server \ {v} : /\ Smp!Live(t)' = Smp!Live(t) /\ state'[t] = state[t] /\ conn'[t] = conn[t]
                                    /\ \A j \in Smp!Live(t) : sock'[j].st = sock[j].st
    BY <1>4, <1>5, <1>6, <1>8, <1>9, SmpTypes
  <2>4. \A t \in Smp!Server \ {v} :
            /\ \A i, j \in Smp!Live(t)' : i = j
            /\ state'[t] = "connecting" <=> \E j \in Smp!Live(t)' : sock'[j].st = "dialing"
            /\ state'[t] = "connected" <=> \E j \in Smp!Live(t)' : sock'[j].st = "open"
            /\ \A j \in Smp!Live(t)' : sock'[j].st = "open" <=> conn'[t] = j
            /\ conn'[t] # Smp!None => conn'[t] \in Smp!Live(t)'
    BY <2>3 DEF ConnInv, LiveInv
  <2>5. QED
    BY <2>1, <2>2, <2>4 DEF LiveInv
<1>14. TimerInv' /\ timers' \in [Smp!Server -> 0..MaxSockets]
  <2>1. timers \in [Smp!Server -> Nat] /\ \A t \in Smp!Server : timers[t] <= Cardinality(ClosedOf(t))
    BY SmpTypes, SmpConstants DEF ConnInv, TimerInv
  <2>2. timers' \in [Smp!Server -> Nat]
    BY <1>3, <2>1
  <2>3. \A t : ClosedOf(t) \in SUBSET Smp!Socket /\ ClosedOf(t)' \in SUBSET Smp!Socket
    BY DEF ClosedOf
  <2>4. Cardinality(ClosedOf(v)') = Cardinality(ClosedOf(v)) + 1 /\ Cardinality(ClosedOf(v)) \in Nat
    BY <1>7, <2>3, Counts, FS_AddElement
  <2>5. timers'[v] <= Cardinality(ClosedOf(v)')
    BY <1>3, <2>1, <2>4
  <2>6. \A t \in Smp!Server \ {v} : timers'[t] <= Cardinality(ClosedOf(t)')
    BY <1>3, <1>7, <2>1
  <2>7. \A t \in Smp!Server : timers'[t] <= Cardinality(ClosedOf(t)')
    BY <2>5, <2>6
  <2>8. \A t \in Smp!Server : Cardinality(ClosedOf(t)') \in Nat /\ Cardinality(ClosedOf(t)') <= MaxSockets
    BY <2>3, Counts
  <2>9. \A t \in Smp!Server : timers'[t] \in 0..MaxSockets
    BY <2>2, <2>7, <2>8, SmpConstants
  <2>10. QED
    BY <2>2, <2>7, <2>9 DEF TimerInv
<1>15. SurvivorInv'
  <2> SUFFICES ASSUME stopped PROVE SurvivorInv'
    BY DEF SurvivorInv
  <2>1. /\ \A t \in Smp!Server : timers[t] > 0 \/ state[t] = "connected" => t \in survivors
        /\ \A j \in Smp!Socket : sock[j].st \in {"dialing", "open"} => sock[j].server \in survivors
    BY DEF ConnInv, SurvivorInv
  <2>2. timers'[v] > 0 \/ state'[v] = "connected" => v \in survivors'
    <3>1. state'[v] # "connected"
      BY <1>4, SmpTypes
    <3>2. CASE code = 1000
      BY <1>3, <2>1, <3>1, <3>2
    <3>3. CASE code # 1000
      BY <1>2, <2>1, <3>3
    <3>4. QED
      BY <3>2, <3>3
  <2>3. \A t \in Smp!Server \ {v} : timers'[t] > 0 \/ state'[t] = "connected" => t \in survivors'
    BY <1>3, <1>4, <2>1, SmpTypes
  <2>4. \A j \in Smp!Socket : sock'[j].st \in {"dialing", "open"} => sock'[j].server \in survivors'
    BY <1>5, <2>1
  <2>5. QED
    BY <2>2, <2>3, <2>4 DEF SurvivorInv
<1>16. Smp!LostServerHasATimer'
  <2> SUFFICES ASSUME ~stopped PROVE Smp!LostServerHasATimer'
    BY DEF Smp!LostServerHasATimer
  <2>1. v \in told' \/ timers'[v] > 0
    <3>1. sock[k].st # "closing"
      BY DEF ConnInv, LiveInv
    <3>2. CASE code = 1000
      BY <1>2, <3>1, <3>2
    <3>3. CASE code # 1000
      <4>1. timers[v] \in Nat /\ timers'[v] = timers[v] + 1
        BY <1>3, <3>3, SmpTypes, SmpConstants
      <4>2. QED
        BY <4>1
    <3>4. QED
      BY <3>2, <3>3
  <2>2. \A t \in Smp!Server \ {v} : t \in told' \/ timers'[t] > 0 \/ Smp!Live(t)' # {}
    BY <1>1, <1>3, <1>8, SmpTypes DEF ConnInv, Smp!LostServerHasATimer
  <2>3. QED
    BY <2>1, <2>2 DEF Smp!LostServerHasATimer
<1>17. \A j \in Smp!Socket : sock'[j].up \in {sock[j].up, <<>>} /\ sock'[j].down \in {sock[j].down, <<>>}
  BY <1>5
<1>18. QED
  BY <1>4, <1>5, <1>6, <1>10, <1>11, <1>13, <1>14, <1>15, <1>16, <1>17, ZenonT(60) DEF ConnInv

\* What a step leaves the types of the connections.
ConnTypes ==
    /\ sock \in [Smp!Socket -> SockRec]
    /\ conn \in [Smp!Server -> Smp!Socket \cup {Smp!None}]
    /\ state \in [Smp!Server -> {"none", "connecting", "connected", "error", "disconnected"}]
    /\ global \in ShownState /\ shown \in ShownState
    /\ timers \in [Smp!Server -> 0..MaxSockets]
    /\ phase \in {"off", "starting", "done"}
    /\ registered \in BOOLEAN /\ stopped \in BOOLEAN

\* What opens and closes connections, with all that it leaves alone.
Connects ==
    /\ ConnTypes' /\ ConnInv'
    /\ \A j \in Smp!Socket : sock'[j].up \in {sock[j].up, <<>>} /\ sock'[j].down \in {sock[j].down, <<>>}

LEMMA OffTypes ==
    ASSUME Smp!TypeOK
    PROVE  ConnTypes
BY SmpTypes DEF Smp!TypeOK, ConnTypes

\* A dial: of a server that has a timer, or of one that an invitation names.
LEMMA DialConn ==
    ASSUME SmpBounds, Smp!TypeOK, ConnInv, NEW s \in Smp!Server,
           phase # "off", stopped => s \in survivors',
           Smp!Dial(s), UNCHANGED <<conn, Smp!bridge, stopped>>, survivors \subseteq survivors',
           timers' \in [Smp!Server -> Nat], \A t \in Smp!Server : timers'[t] <= timers[t],
           \A t \in Smp!Server \ {s} : timers'[t] = timers[t]
    PROVE  Connects
<1> DEFINE T == [Smp!Server -> {"none", "connecting", "connected", "error", "disconnected"}]
<1>1. /\ sock \in [Smp!Socket -> SockRec] /\ conn \in [Smp!Server -> Smp!Socket \cup {Smp!None}] /\ state \in T
      /\ timers \in [Smp!Server -> 0..MaxSockets] /\ MaxSockets \in Nat
      /\ global \in ShownState /\ shown \in ShownState
      /\ phase \in {"off", "starting", "done"} /\ registered \in BOOLEAN /\ stopped \in BOOLEAN
  BY OffTypes, SmpConstants DEF ConnTypes
<1> HIDE DEF T
<1>2. UNCHANGED <<conn, phase, registered, stopped>>
  BY DEF Smp!bridge
<1>3. timers' \in [Smp!Server -> 0..MaxSockets]
  <2>1. \A t \in Smp!Server : timers'[t] \in 0..MaxSockets
    BY <1>1
  <2>2. QED
    BY <2>1
<1>4. OffInv'
  BY <1>2 DEF OffInv
<1>5. \A t \in Smp!Server : timers[t] <= Cardinality(ClosedOf(t)) /\ Cardinality(ClosedOf(t)) \in Nat
  <2>1. \A t : ClosedOf(t) \in SUBSET Smp!Socket
    BY DEF ClosedOf
  <2>2. QED
    BY <2>1, Counts DEF ConnInv, TimerInv
<1>6. \A t \in Smp!Server : timers'[t] <= Cardinality(ClosedOf(t))
  BY <1>1, <1>5
<1>7. ~Smp!Busy(s) /\ ~stopped => Smp!Live(s) = {} /\ conn[s] = Smp!None
  BY DEF ConnInv, LiveInv, Smp!Busy, Smp!Live
<1>8. CASE Smp!Busy(s) /\ UNCHANGED <<sock, state, global, shown, told, faults>>
  <2>1. \A t : Smp!Live(t)' = Smp!Live(t) /\ ClosedOf(t)' = ClosedOf(t)
    BY <1>8 DEF Smp!Live, ClosedOf
  <2>2. /\ (\A j \in Smp!Socket : sock[j].st # "unused" => sock[j].server \in Smp!Server)'
        /\ LiveInv' /\ GlobalInv'
    <3>1. (\A j \in Smp!Socket : sock[j].st # "unused" => sock[j].server \in Smp!Server)'
      BY <1>8 DEF ConnInv
    <3>2. LiveInv'
      BY <1>2, <1>8, <2>1 DEF ConnInv, LiveInv
    <3>3. GlobalInv'
      BY <1>2, <1>8 DEF ConnInv, GlobalInv
    <3>4. QED
      BY <3>1, <3>2, <3>3
  <2>3. TimerInv'
    BY <1>6, <2>1 DEF TimerInv
  <2>4. SurvivorInv'
    <3> SUFFICES ASSUME stopped PROVE SurvivorInv'
      BY <1>2 DEF SurvivorInv
    <3>1. \A t \in Smp!Server : timers'[t] > 0 \/ state'[t] = "connected" => t \in survivors'
      <4> SUFFICES ASSUME NEW t \in Smp!Server PROVE timers'[t] > 0 \/ state'[t] = "connected" => t \in survivors'
        OBVIOUS
      <4>1. timers'[t] > 0 => timers[t] > 0
        BY <1>1
      <4>2. QED
        BY <1>8, <4>1 DEF ConnInv, SurvivorInv
    <3>2. QED
      BY <1>8, <3>1 DEF ConnInv, SurvivorInv
  <2>5. Smp!LostServerHasATimer'
    <3> SUFFICES ASSUME ~stopped PROVE Smp!LostServerHasATimer'
      BY <1>2 DEF Smp!LostServerHasATimer
    <3>1. Smp!Live(s) # {}
      BY <1>8 DEF ConnInv, LiveInv, Smp!Busy
    <3>2. \A t \in Smp!Server : t \in told' \/ timers'[t] > 0 \/ Smp!Live(t)' # {}
      BY <1>8, <2>1, <3>1 DEF ConnInv, Smp!LostServerHasATimer
    <3>3. QED
      BY <3>2 DEF Smp!LostServerHasATimer
  <2>6. ConnTypes'
    BY <1>1, <1>2, <1>3, <1>8 DEF ConnTypes, T
  <2>7. QED
    BY <1>4, <1>8, <2>2, <2>3, <2>4, <2>5, <2>6 DEF Connects, ConnInv
<1>9. CASE /\ ~Smp!Busy(s) /\ Smp!Fresh # {}
           /\ sock' = [sock EXCEPT ![Smp!Next1] = Smp!Silent(s, "dialing")]
           /\ Smp!SetState(s, "connecting")
           /\ UNCHANGED <<told, faults>>
  <2>1. PICK k \in Smp!Socket : k = Smp!Next1 /\ sock[k].st = "unused"
    BY <1>9 DEF Smp!Next1, Smp!Fresh
  <2>2. PICK q \in SockRec : /\ q = Smp!Silent(s, "dialing")
                             /\ q.st = "dialing" /\ q.server = s /\ q.up = <<>> /\ q.down = <<>>
    BY SilentIsSock
  <2>3. /\ sock' \in [Smp!Socket -> SockRec]
        /\ sock'[k].st = "dialing" /\ sock'[k].server = s /\ sock'[k].up = <<>> /\ sock'[k].down = <<>>
        /\ \A j \in Smp!Socket \ {k} : sock'[j] = sock[j]
    <3>1. sock' = [sock EXCEPT ![k] = q]
      BY <1>9, <2>1, <2>2
    <3>2. QED
      BY <1>1, <2>2, <3>1
  <2>4. /\ state' = [state EXCEPT ![s] = "connecting"]
        /\ state' \in T /\ global' \in ShownState /\ shown' \in ShownState /\ GlobalInv'
    BY <1>2, <1>9, Announced DEF ConnInv, GlobalInv, T
  <2>5. /\ Smp!Live(s)' = Smp!Live(s) \cup {k}
        /\ \A t \in Smp!Server \ {s} : Smp!Live(t)' = Smp!Live(t) /\ k \notin Smp!Live(t)
        /\ \A t \in Smp!Server : ClosedOf(t)' = ClosedOf(t)
    BY <2>1, <2>3 DEF Smp!Live, ClosedOf
  <2>6. (\A j \in Smp!Socket : sock[j].st # "unused" => sock[j].server \in Smp!Server)'
    BY <2>3 DEF ConnInv
  <2>7. LiveInv'
    <3> SUFFICES ASSUME ~stopped PROVE LiveInv'
      BY <1>2 DEF LiveInv
    <3>1. (\A j \in Smp!Socket : sock[j].st # "closing")'
      BY <2>3 DEF ConnInv, LiveInv
    <3>2. Smp!Live(s)' = {k} /\ state'[s] = "connecting" /\ conn'[s] = Smp!None /\ k # Smp!None
      BY <1>1, <1>2, <1>7, <1>9, <2>4, <2>5, SmpConstants DEF T
    <3>3. \A t \in Smp!Server \ {s} :
              /\ Smp!Live(t)' = Smp!Live(t) /\ state'[t] = state[t] /\ conn'[t] = conn[t]
              /\ \A j \in Smp!Live(t) : sock'[j].st = sock[j].st
      BY <1>1, <1>2, <2>3, <2>4, <2>5 DEF T, Smp!Live
    <3>4. \A t \in Smp!Server \ {s} :
            /\ \A i, j \in Smp!Live(t)' : i = j
            /\ state'[t] = "connecting" <=> \E j \in Smp!Live(t)' : sock'[j].st = "dialing"
            /\ state'[t] = "connected" <=> \E j \in Smp!Live(t)' : sock'[j].st = "open"
            /\ \A j \in Smp!Live(t)' : sock'[j].st = "open" <=> conn'[t] = j
            /\ conn'[t] # Smp!None => conn'[t] \in Smp!Live(t)'
      BY <3>3 DEF ConnInv, LiveInv
    <3>5. QED
      BY <2>3, <3>1, <3>2, <3>4 DEF LiveInv
  <2>8. TimerInv'
    BY <1>6, <2>5 DEF TimerInv
  <2>9. SurvivorInv'
    <3> SUFFICES ASSUME stopped PROVE SurvivorInv'
      BY <1>2 DEF SurvivorInv
    <3>1. \A t \in Smp!Server : timers'[t] > 0 \/ state'[t] = "connected" => t \in survivors'
      <4> SUFFICES ASSUME NEW t \in Smp!Server \ {s} PROVE timers'[t] > 0 \/ state'[t] = "connected" => t \in survivors'
        BY <1>2
      <4>1. timers'[t] > 0 => timers[t] > 0
        BY <1>1
      <4>2. state'[t] = state[t]
        BY <1>1, <2>4 DEF T
      <4>3. QED
        BY <4>1, <4>2 DEF ConnInv, SurvivorInv
    <3>2. \A j \in Smp!Socket : sock'[j].st \in {"dialing", "open"} => sock'[j].server \in survivors'
      BY <1>2, <2>3 DEF ConnInv, SurvivorInv
    <3>3. QED
      BY <3>1, <3>2 DEF SurvivorInv
  <2>10. Smp!LostServerHasATimer'
    BY <1>2, <1>9, <2>5 DEF ConnInv, Smp!LostServerHasATimer
  <2>11. ConnTypes'
    BY <1>1, <1>2, <1>3, <2>3, <2>4 DEF ConnTypes, T
  <2>12. QED
    BY <1>4, <2>3, <2>4, <2>6, <2>7, <2>8, <2>9, <2>10, <2>11 DEF Connects, ConnInv
<1>10. CASE ~Smp!Busy(s) /\ Smp!Fails("throw") /\ Smp!SetState(s, "error") /\ told' = told \cup {s} /\ UNCHANGED sock
  <2>1. \A t : Smp!Live(t)' = Smp!Live(t) /\ ClosedOf(t)' = ClosedOf(t)
    BY <1>10 DEF Smp!Live, ClosedOf
  <2>2. /\ state' = [state EXCEPT ![s] = "error"]
        /\ state' \in T /\ global' \in ShownState /\ shown' \in ShownState /\ GlobalInv'
    BY <1>2, <1>10, Announced DEF ConnInv, GlobalInv, T
  <2>3. state'[s] = "error" /\ \A t \in Smp!Server \ {s} : state'[t] = state[t]
    BY <1>1, <2>2 DEF T
  <2>4. (\A j \in Smp!Socket : sock[j].st # "unused" => sock[j].server \in Smp!Server)'
    BY <1>10 DEF ConnInv
  <2>5. LiveInv'
    <3> SUFFICES ASSUME ~stopped PROVE LiveInv'
      BY <1>2 DEF LiveInv
    <3>1. Smp!Live(s) = {} /\ conn[s] = Smp!None
      BY <1>7, <1>10
    <3>2. QED
      BY <1>2, <1>10, <2>1, <2>3, <3>1 DEF ConnInv, LiveInv
  <2>6. TimerInv'
    BY <1>6, <2>1 DEF TimerInv
  <2>7. SurvivorInv'
    <3> SUFFICES ASSUME stopped PROVE SurvivorInv'
      BY <1>2 DEF SurvivorInv
    <3>1. \A t \in Smp!Server : timers'[t] > 0 \/ state'[t] = "connected" => t \in survivors'
      <4> SUFFICES ASSUME NEW t \in Smp!Server \ {s} PROVE timers'[t] > 0 \/ state'[t] = "connected" => t \in survivors'
        BY <1>2
      <4>1. timers'[t] > 0 => timers[t] > 0
        BY <1>1
      <4>2. QED
        BY <2>3, <4>1 DEF ConnInv, SurvivorInv
    <3>2. QED
      BY <1>10, <3>1 DEF ConnInv, SurvivorInv
  <2>8. Smp!LostServerHasATimer'
    BY <1>2, <1>10, <2>1 DEF ConnInv, Smp!LostServerHasATimer
  <2>9. ConnTypes'
    BY <1>1, <1>2, <1>3, <1>10, <2>2 DEF ConnTypes, T
  <2>10. QED
    BY <1>4, <1>10, <2>2, <2>4, <2>5, <2>6, <2>7, <2>8, <2>9 DEF Connects, ConnInv
<1>11. QED
  BY <1>8, <1>9, <1>10 DEF Smp!Dial

\* The first dials.
LEMMA StartConn ==
    ASSUME SmpBounds, Smp!TypeOK, ConnInv, Smp!Start
    PROVE  Connects
<1> DEFINE T == [Smp!Server -> {"none", "connecting", "connected", "error", "disconnected"}]
           N == Len(Servers)
<1>1. /\ conn \in [Smp!Server -> Smp!Socket \cup {Smp!None}] /\ timers \in [Smp!Server -> 0..MaxSockets]
      /\ phase \in {"off", "starting", "done"} /\ registered \in BOOLEAN /\ stopped \in BOOLEAN
  BY OffTypes DEF ConnTypes
<1>2. /\ phase' = "starting" /\ state' = [s \in Smp!Server |-> "connecting"]
      /\ global' = "connecting" /\ shown' = "connecting"
      /\ UNCHANGED <<conn, timers, registered, stopped, survivors, told>>
      /\ sock' = [k \in Smp!Socket |-> IF k <= N THEN Smp!Silent(Servers[k], "dialing") ELSE Smp!Unused]
  BY DEF Smp!Start
<1>3. /\ \A k \in Smp!Socket : sock[k] = Smp!Unused
      /\ conn = [s \in Smp!Server |-> Smp!None]
      /\ \A s \in Smp!Server : timers[s] = 0
      /\ ~registered /\ ~stopped
  BY DEF Smp!Start, ConnInv, OffInv
<1>4. /\ \A k \in 1..N : k \in Smp!Socket /\ Servers[k] \in Smp!Server
      /\ \A j, k \in 1..N : Servers[j] = Servers[k] => j = k
      /\ \A s \in Smp!Server : \E k \in 1..N : Servers[k] = s
      /\ Smp!None \notin Smp!Socket
  BY SmpConstants
<1>5. \A k \in Smp!Socket : k <= N <=> k \in 1..N
  <2>1. N \in Nat /\ MaxSockets \in Nat
    BY DEF SmpBounds
  <2>2. QED
    BY <2>1 DEF Smp!Socket
<1> HIDE DEF T, N
<1>6. \A k \in Smp!Socket :
        /\ sock'[k] \in SockRec /\ sock'[k].up = <<>> /\ sock'[k].down = <<>>
        /\ k \in 1..N => sock'[k].st = "dialing" /\ sock'[k].server = Servers[k]
        /\ k \notin 1..N => sock'[k].st = "unused"
  <2> SUFFICES ASSUME NEW k \in Smp!Socket
               PROVE  /\ sock'[k] \in SockRec /\ sock'[k].up = <<>> /\ sock'[k].down = <<>>
                      /\ k \in 1..N => sock'[k].st = "dialing" /\ sock'[k].server = Servers[k]
                      /\ k \notin 1..N => sock'[k].st = "unused"
    OBVIOUS
  <2>1. CASE k \in 1..N
    <3>1. sock'[k] = Smp!Silent(Servers[k], "dialing")
      BY <1>2, <1>5, <2>1
    <3>2. PICK q \in SockRec : /\ q = Smp!Silent(Servers[k], "dialing") /\ q.st = "dialing"
                               /\ q.server = Servers[k] /\ q.up = <<>> /\ q.down = <<>>
      BY <1>4, <2>1, SilentIsSock
    <3>3. QED
      BY <2>1, <3>1, <3>2
  <2>2. CASE k \notin 1..N
    BY <1>2, <1>5, <2>2, UnusedIsSock
  <2>3. QED
    BY <2>1, <2>2
<1>7. sock' \in [Smp!Socket -> SockRec]
  BY <1>2, <1>6
<1>8. \A s \in Smp!Server : \E k \in Smp!Socket : Smp!Live(s)' = {k} /\ sock'[k].st = "dialing"
  <2> SUFFICES ASSUME NEW s \in Smp!Server PROVE \E k \in Smp!Socket : Smp!Live(s)' = {k} /\ sock'[k].st = "dialing"
    OBVIOUS
  <2>1. PICK k \in 1..N : Servers[k] = s
    BY <1>4
  <2>2. k \in Smp!Live(s)' /\ sock'[k].st = "dialing" /\ k \in Smp!Socket
    BY <1>4, <1>6, <2>1 DEF Smp!Live
  <2>3. \A j \in Smp!Live(s)' : j = k
    BY <1>4, <1>6, <2>1 DEF Smp!Live
  <2>4. QED
    BY <2>2, <2>3
<1>9. (\A k \in Smp!Socket : sock[k].st # "unused" => sock[k].server \in Smp!Server)'
  BY <1>4, <1>6
<1>10. OffInv' /\ SurvivorInv'
  BY <1>2, <1>3 DEF OffInv, SurvivorInv
<1>11. LiveInv'
  <2>1. (\A k \in Smp!Socket : sock[k].st # "closing")'
    BY <1>6
  <2>2. \A s \in Smp!Server : state'[s] = "connecting" /\ conn'[s] = Smp!None
    BY <1>2, <1>3
  <2>3. QED
    BY <1>4, <1>8, <2>1, <2>2 DEF LiveInv
<1>12. GlobalInv'
  BY <1>2, <1>3 DEF GlobalInv
<1>13. TimerInv'
  <2>1. \A s : ClosedOf(s)' \in SUBSET Smp!Socket
    BY DEF ClosedOf
  <2>2. \A s \in Smp!Server : Cardinality(ClosedOf(s)') \in Nat
    BY <2>1, Counts
  <2>3. \A s \in Smp!Server : timers'[s] = 0
    BY <1>2, <1>3
  <2>4. \A s \in Smp!Server : timers'[s] <= Cardinality(ClosedOf(s)')
    BY <2>2, <2>3
  <2>5. QED
    BY <2>4 DEF TimerInv
<1>14. Smp!LostServerHasATimer'
  BY <1>8 DEF Smp!LostServerHasATimer
<1>15. \A j \in Smp!Socket : sock'[j].up \in {sock[j].up, <<>>} /\ sock'[j].down \in {sock[j].down, <<>>}
  BY <1>6
<1>16. ConnTypes'
  <2>1. state' \in T
    BY <1>2 DEF T
  <2>2. global' \in ShownState /\ shown' \in ShownState
    BY <1>2 DEF ShownState
  <2>3. QED
    BY <1>1, <1>2, <1>7, <2>1, <2>2 DEF ConnTypes, T
<1>17. QED
  BY <1>9, <1>10, <1>11, <1>12, <1>13, <1>14, <1>15, <1>16 DEF Connects, ConnInv

\* The callbacks are registered.
LEMMA InitializedConn ==
    ASSUME Smp!TypeOK, ConnInv, Smp!Initialized
    PROVE  Connects
<1>1. /\ phase = "starting" /\ phase' = "done" /\ registered' = TRUE /\ shown' = global
      /\ UNCHANGED <<sock, conn, state, global, timers, told, stopped, survivors>>
  BY DEF Smp!Initialized
<1>2. \A s : Smp!Live(s)' = Smp!Live(s) /\ ClosedOf(s)' = ClosedOf(s)
  BY <1>1 DEF Smp!Live, ClosedOf
<1>3. (\A k \in Smp!Socket : sock[k].st # "unused" => sock[k].server \in Smp!Server)' /\ OffInv'
  BY <1>1 DEF ConnInv, OffInv
<1>4. LiveInv'
  BY <1>1, <1>2 DEF ConnInv, LiveInv
<1>5. GlobalInv' /\ SurvivorInv'
  BY <1>1 DEF ConnInv, GlobalInv, SurvivorInv
<1>6. TimerInv' /\ Smp!LostServerHasATimer'
  BY <1>1, <1>2 DEF ConnInv, TimerInv, Smp!LostServerHasATimer
<1>7. ConnTypes'
  <2>1. ConnTypes
    BY OffTypes
  <2>2. QED
    BY <1>1, <2>1 DEF ConnTypes
<1>8. QED
  BY <1>1, <1>3, <1>4, <1>5, <1>6, <1>7 DEF Connects, ConnInv

\* The sockets that have opened close; dials and timers go on.
LEMMA ShutdownConn ==
    ASSUME SmpBounds, Smp!TypeOK, ConnInv, Smp!Shutdown
    PROVE  Connects
<1>1. /\ sock \in [Smp!Socket -> SockRec] /\ conn \in [Smp!Server -> Smp!Socket \cup {Smp!None}]
      /\ timers \in [Smp!Server -> 0..MaxSockets] /\ shown \in ShownState
      /\ phase \in {"off", "starting", "done"}
  BY OffTypes DEF ConnTypes
<1>2. /\ phase # "off" /\ ~stopped /\ stopped' = TRUE
      /\ survivors' = {s \in Smp!Server : timers[s] > 0
                          \/ \E k \in Smp!Socket : sock[k].server = s /\ sock[k].st = "dialing"}
      /\ registered' = FALSE
      /\ sock' = [k \in Smp!Socket |-> IF \E s \in Smp!Server : conn[s] = k
                                     THEN [sock[k] EXCEPT !.st = "closing"] ELSE sock[k]]
      /\ conn' = [s \in Smp!Server |-> Smp!None]
      /\ state' = [s \in Smp!Server |-> "none"]
      /\ global' = "disconnected"
      /\ UNCHANGED <<timers, shown, phase>>
  BY DEF Smp!Shutdown
<1>3. \A k \in Smp!Socket : (\E s \in Smp!Server : conn[s] = k) <=> sock[k].st = "open"
  <2>1. ASSUME NEW k \in Smp!Socket, NEW s \in Smp!Server, conn[s] = k PROVE sock[k].st = "open"
    BY <1>2, <2>1, SmpConstants DEF ConnInv, LiveInv
  <2>2. ASSUME NEW k \in Smp!Socket, sock[k].st = "open" PROVE \E s \in Smp!Server : conn[s] = k
    <3>1. sock[k].server \in Smp!Server
      BY <2>2 DEF ConnInv
    <3>2. k \in Smp!Live(sock[k].server)
      BY <2>2 DEF Smp!Live
    <3>3. conn[sock[k].server] = k
      BY <1>2, <2>2, <3>1, <3>2 DEF ConnInv, LiveInv
    <3>4. QED
      BY <3>1, <3>3
  <2>3. QED
    BY <2>1, <2>2
<1>4. \A k \in Smp!Socket :
        /\ sock'[k] \in SockRec /\ sock'[k].server = sock[k].server
        /\ sock'[k].up = sock[k].up /\ sock'[k].down = sock[k].down
        /\ sock'[k].st = IF sock[k].st = "open" THEN "closing" ELSE sock[k].st
  <2> SUFFICES ASSUME NEW k \in Smp!Socket
               PROVE  /\ sock'[k] \in SockRec /\ sock'[k].server = sock[k].server
                      /\ sock'[k].up = sock[k].up /\ sock'[k].down = sock[k].down
                      /\ sock'[k].st = IF sock[k].st = "open" THEN "closing" ELSE sock[k].st
    OBVIOUS
  <2>1. sock[k] \in SockRec
    BY <1>1
  <2>2. sock'[k] = IF sock[k].st = "open" THEN [sock[k] EXCEPT !.st = "closing"] ELSE sock[k]
    BY <1>2, <1>3
  <2>3. PICK r \in SockRec : r = sock[k]
    BY <2>1
  <2>4. LET q == [r EXCEPT !.st = "closing"]
        IN  q \in SockRec /\ q.server = r.server /\ q.up = r.up /\ q.down = r.down /\ q.st = "closing"
    BY DEF SockRec
  <2>5. QED
    BY <2>2, <2>3, <2>4
<1>5. sock' \in [Smp!Socket -> SockRec]
  BY <1>2, <1>4
<1>6. \A s : ClosedOf(s)' = ClosedOf(s)
  BY <1>4 DEF ClosedOf
<1>7. (\A k \in Smp!Socket : sock[k].st # "unused" => sock[k].server \in Smp!Server)'
  BY <1>4 DEF ConnInv
<1>8. OffInv' /\ LiveInv' /\ Smp!LostServerHasATimer'
  BY <1>2 DEF OffInv, LiveInv, Smp!LostServerHasATimer
<1>9. GlobalInv'
  BY <1>2 DEF GlobalInv
<1>10. TimerInv'
  BY <1>2, <1>6 DEF ConnInv, TimerInv
<1>11. SurvivorInv'
  <2>1. \A s \in Smp!Server : timers'[s] > 0 \/ state'[s] = "connected" => s \in survivors'
    BY <1>2
  <2>2. ASSUME NEW k \in Smp!Socket, sock'[k].st \in {"dialing", "open"}
        PROVE  sock'[k].server \in survivors'
    <3>1. sock[k].st = "dialing" /\ sock'[k].server = sock[k].server
      BY <1>4, <2>2
    <3>2. sock[k].server \in Smp!Server
      BY <3>1 DEF ConnInv
    <3>3. QED
      BY <1>2, <3>1, <3>2
  <2>3. QED
    BY <2>1, <2>2 DEF SurvivorInv
<1>12. ConnTypes'
  BY <1>1, <1>2, <1>5 DEF ConnTypes, ShownState
<1>13. QED
  BY <1>4, <1>7, <1>8, <1>9, <1>10, <1>11, <1>12 DEF Connects, ConnInv

\* A dial succeeds; a queue that is listed is not subscribed again.
LEMMA OpensConn ==
    ASSUME Smp!TypeOK, ConnInv, NEW k \in Smp!Socket, Smp!Opens(k)
    PROVE  Connects /\ UNCHANGED calls
<1> DEFINE T == [Smp!Server -> {"none", "connecting", "connected", "error", "disconnected"}]
<1>1. /\ sock \in [Smp!Socket -> SockRec] /\ conn \in [Smp!Server -> Smp!Socket \cup {Smp!None}] /\ state \in T
      /\ timers \in [Smp!Server -> 0..MaxSockets]
      /\ phase \in {"off", "starting", "done"} /\ registered \in BOOLEAN /\ stopped \in BOOLEAN
  BY OffTypes DEF ConnTypes
<1>2. sock[k].st = "dialing"
  BY DEF Smp!Opens
<1>3. PICK v \in Smp!Server : v = sock[k].server
  BY <1>2 DEF ConnInv
<1>4. /\ Smp!SetState(v, "connected") /\ conn' = [conn EXCEPT ![v] = k]
      /\ sock' = [sock EXCEPT ![k].st = "open"] /\ UNCHANGED calls
      /\ UNCHANGED <<timers, Smp!bridge, told, stopped, survivors>>
  BY <1>3 DEF Smp!Opens, Smp!Listed
<1>5. /\ UNCHANGED <<timers, phase, registered, told, stopped, survivors>> /\ phase # "off"
  BY <1>2, <1>4 DEF Smp!bridge, ConnInv, OffInv, Smp!Unused, Smp!Silent
<1>6. /\ sock' \in [Smp!Socket -> SockRec]
      /\ sock'[k].st = "open" /\ sock'[k].server = v
      /\ sock'[k].up = sock[k].up /\ sock'[k].down = sock[k].down
      /\ \A j \in Smp!Socket \ {k} : sock'[j] = sock[j]
  <2>1. PICK r \in SockRec : r = sock[k]
    BY <1>1
  <2>2. PICK q : q = [r EXCEPT !.st = "open"]
    OBVIOUS
  <2>3. q \in SockRec /\ q.server = r.server /\ q.up = r.up /\ q.down = r.down /\ q.st = "open"
    BY <2>2 DEF SockRec
  <2>4. sock' = [sock EXCEPT ![k] = q]
    BY <1>4, <2>1, <2>2
  <2>5. QED
    BY <1>1, <1>3, <2>1, <2>3, <2>4
<1> HIDE DEF T
<1>7. /\ state' = [state EXCEPT ![v] = "connected"]
      /\ state' \in T /\ global' \in ShownState /\ shown' \in ShownState /\ GlobalInv'
  BY <1>4, <1>5, Announced DEF ConnInv, GlobalInv, T
<1>8. /\ conn' \in [Smp!Server -> Smp!Socket \cup {Smp!None}] /\ conn'[v] = k /\ state'[v] = "connected"
      /\ \A t \in Smp!Server \ {v} : conn'[t] = conn[t] /\ state'[t] = state[t]
  BY <1>1, <1>4, <1>7 DEF T
<1>9. \A t : ClosedOf(t)' = ClosedOf(t) /\ Smp!Live(t)' = Smp!Live(t)
  BY <1>2, <1>3, <1>6 DEF ClosedOf, Smp!Live
<1>10. k \in Smp!Live(v) /\ (\A t \in Smp!Server \ {v} : k \notin Smp!Live(t)) /\ \A t : Smp!Live(t) \subseteq Smp!Socket
  BY <1>2, <1>3 DEF Smp!Live
<1>11. (\A j \in Smp!Socket : sock[j].st # "unused" => sock[j].server \in Smp!Server)'
  BY <1>6 DEF ConnInv
<1>12. OffInv'
  BY <1>5 DEF OffInv
<1>13. LiveInv'
  <2> SUFFICES ASSUME ~stopped PROVE LiveInv'
    BY <1>5 DEF LiveInv
  <2>1. (\A j \in Smp!Socket : sock[j].st # "closing")'
    BY <1>6 DEF ConnInv, LiveInv
  <2>2. Smp!Live(v)' = {k}
    BY <1>9, <1>10 DEF ConnInv, LiveInv
  <2>3. \A t \in Smp!Server \ {v} : \A j \in Smp!Live(t) : sock'[j].st = sock[j].st
    BY <1>6, <1>10
  <2>4. \A t \in Smp!Server \ {v} :
          /\ \A i, j \in Smp!Live(t)' : i = j
          /\ state'[t] = "connecting" <=> \E j \in Smp!Live(t)' : sock'[j].st = "dialing"
          /\ state'[t] = "connected" <=> \E j \in Smp!Live(t)' : sock'[j].st = "open"
          /\ \A j \in Smp!Live(t)' : sock'[j].st = "open" <=> conn'[t] = j
          /\ conn'[t] # Smp!None => conn'[t] \in Smp!Live(t)'
    BY <1>8, <1>9, <2>3 DEF ConnInv, LiveInv
  <2>5. QED
    BY <1>6, <1>8, <2>1, <2>2, <2>4 DEF LiveInv
<1>14. TimerInv'
  BY <1>5, <1>9 DEF ConnInv, TimerInv
<1>15. SurvivorInv'
  <2> SUFFICES ASSUME stopped PROVE SurvivorInv'
    BY <1>5 DEF SurvivorInv
  <2>1. v \in survivors
    BY <1>2, <1>3 DEF ConnInv, SurvivorInv
  <2>2. \A t \in Smp!Server : timers'[t] > 0 \/ state'[t] = "connected" => t \in survivors'
    BY <1>5, <1>8, <2>1 DEF ConnInv, SurvivorInv
  <2>3. \A j \in Smp!Socket : sock'[j].st \in {"dialing", "open"} => sock'[j].server \in survivors'
    BY <1>5, <1>6, <2>1 DEF ConnInv, SurvivorInv
  <2>4. QED
    BY <2>2, <2>3 DEF SurvivorInv
<1>16. Smp!LostServerHasATimer'
  BY <1>5, <1>9 DEF ConnInv, Smp!LostServerHasATimer
<1>17. ConnTypes'
  BY <1>1, <1>5, <1>6, <1>7, <1>8 DEF ConnTypes, T
<1>18. \A j \in Smp!Socket : sock'[j].up \in {sock[j].up, <<>>} /\ sock'[j].down \in {sock[j].down, <<>>}
  BY <1>6
<1>19. QED
  BY <1>4, <1>7, <1>11, <1>12, <1>13, <1>14, <1>15, <1>16, <1>17, <1>18 DEF Connects, ConnInv

UserTypes ==
    /\ calls \subseteq Smp!Call /\ subscribed \in BOOLEAN /\ accepted \in BOOLEAN
    /\ invitation \in {"none", "new", "sub", "made", "failed"}
    /\ outcome \in [Mine -> {"none", "sending", "sent", "failed"}]
    /\ handled \subseteq Smp!Message /\ box \in Seq(Smp!Message)
    /\ home \in Smp!Server \cup {Smp!None}
    /\ subscriber \in Smp!Socket \cup {Smp!None} /\ since \in Smp!Socket \cup {Smp!None}
    /\ heard \subseteq [msg : Smp!Message, via : Smp!Socket]

LEMMA TypeParts ==
    Smp!TypeOK <=> ConnTypes /\ UserTypes
<1>1. Smp!TypeOK => ConnTypes
  BY OffTypes
<1>2. Smp!TypeOK => UserTypes
  BY DEF Smp!TypeOK, UserTypes
<1>3. ASSUME ConnTypes, UserTypes PROVE Smp!TypeOK
  <2>1. sock \in [Smp!Socket -> [server : Smp!Server \cup {Smp!None},
                            st : {"unused", "dialing", "open", "closing", "closed"},
                            up : Seq(Smp!Call), down : Seq(Smp!Frame)]]
    BY <1>3 DEF ConnTypes, SockRec
  <2>2. {global, shown} \subseteq {"connecting", "connected", "error", "disconnected"}
    BY <1>3 DEF ConnTypes, ShownState
  <2>3. {subscribed, registered, accepted, stopped} \subseteq BOOLEAN
    BY <1>3 DEF ConnTypes, UserTypes
  <2>4. {subscriber, since} \subseteq Smp!Socket \cup {Smp!None}
    BY <1>3 DEF UserTypes
  <2>5. QED
    BY <1>3, <2>1, <2>2, <2>3, <2>4 DEF ConnTypes, UserTypes, Smp!TypeOK
<1>4. QED
  BY <1>1, <1>2, <1>3

LEMMA TypePartsNext ==
    (Smp!TypeOK <=> ConnTypes /\ UserTypes)'
BY TypeParts, PTL

\* What opens and closes leaves the queue alone.
LEMMA ConnectsKeeps ==
    ASSUME SmpIInv, Connects,
           UNCHANGED <<calls, subscribed, invitation, outcome, handled, home, subscriber, box,
                       heard, since>>,
           accepted' \in BOOLEAN
    PROVE  SmpIInv'
<1>1. UserTypes'
  BY TypeParts DEF SmpIInv, UserTypes
<1>2. Smp!TypeOK'
  BY <1>1, TypePartsNext DEF Connects
<1>3. SmpQueueInv'
  BY Quiet DEF SmpIInv, Connects
<1>4. QED
  BY <1>2, <1>3 DEF SmpIInv, Connects

\* Connections open and close, timers fire, the bridge starts and stops.
LEMMA ConnectionMoves ==
    ASSUME SmpBounds, SmpIInv,
           \/ Smp!Start \/ Smp!Initialized \/ Smp!Shutdown
           \/ \E s \in Smp!Server : Smp!TimerFires(s) \/ Smp!Accept(s)
           \/ \E k \in Smp!Socket : Smp!Opens(k) \/ Smp!DialFails(k) \/ Smp!Cut(k) \/ Smp!ServerCloses(k) \/ Smp!Closed(k)
    PROVE  /\ Connects /\ accepted' \in BOOLEAN
           /\ UNCHANGED <<calls, subscribed, invitation, outcome, handled, home, subscriber, box,
                          heard, since>>
<1> DEFINE Rest == UNCHANGED <<calls, subscribed, invitation, outcome, handled, home, subscriber,
    box,
                              heard, since>>
<1>1. Smp!TypeOK /\ ConnInv /\ accepted \in BOOLEAN
  BY TypeParts DEF SmpIInv, UserTypes
<1>2. CASE Smp!Start
  BY <1>1, <1>2, StartConn DEF Smp!Start, Smp!users, Smp!server, Smp!past
<1>3. CASE Smp!Initialized
  BY <1>1, <1>3, InitializedConn DEF Smp!Initialized, Smp!users, Smp!server, Smp!past
<1>4. CASE Smp!Shutdown
  BY <1>1, <1>4, ShutdownConn DEF Smp!Shutdown, Smp!users, Smp!server, Smp!past
<1>5. ASSUME NEW s \in Smp!Server, Smp!TimerFires(s) PROVE Connects /\ accepted' \in BOOLEAN /\ Rest
  <2>1. /\ timers[s] > 0 /\ timers' = [timers EXCEPT ![s] = @ - 1] /\ Smp!Dial(s)
        /\ UNCHANGED <<conn, Smp!bridge, stopped, survivors, accepted>> /\ Rest
    BY <1>5 DEF Smp!TimerFires, Smp!users, Smp!server, Smp!past
  <2>2. timers \in [Smp!Server -> Nat]
    BY <1>1, SmpTypes, SmpConstants
  <2>3. /\ timers' \in [Smp!Server -> Nat] /\ \A t \in Smp!Server : timers'[t] <= timers[t]
        /\ \A t \in Smp!Server \ {s} : timers'[t] = timers[t]
    BY <2>1, <2>2
  <2>4. phase # "off" /\ (stopped => s \in survivors')
    BY <1>1, <2>1, <2>2 DEF ConnInv, OffInv, SurvivorInv
  <2>5. Connects
    BY <1>1, <2>1, <2>3, <2>4, DialConn
  <2>6. QED
    BY <1>1, <2>1, <2>5
<1>6. ASSUME NEW s \in Smp!Server, Smp!Accept(s) PROVE Connects /\ accepted' \in BOOLEAN /\ Rest
  <2>1. /\ phase # "off" /\ Smp!Dial(s) /\ accepted' = TRUE
        /\ survivors' = IF stopped THEN survivors \cup {s} ELSE survivors
        /\ UNCHANGED <<conn, timers, Smp!bridge, stopped>> /\ Rest
    BY <1>6 DEF Smp!Accept, Smp!server, Smp!past
  <2>2. timers \in [Smp!Server -> Nat]
    BY <1>1, SmpTypes, SmpConstants
  <2>3. /\ timers' \in [Smp!Server -> Nat] /\ \A t \in Smp!Server : timers'[t] <= timers[t]
        /\ \A t \in Smp!Server \ {s} : timers'[t] = timers[t]
    BY <2>1, <2>2
  <2>4. Connects
    BY <1>1, <2>1, <2>3, DialConn
  <2>5. QED
    BY <1>1, <2>1, <2>4
<1>7. ASSUME NEW k \in Smp!Socket, Smp!Opens(k) PROVE Connects /\ accepted' \in BOOLEAN /\ Rest
  <2>1. Connects /\ UNCHANGED calls
    BY <1>1, <1>7, OpensConn
  <2>2. Rest /\ UNCHANGED accepted
    BY <1>7, <2>1 DEF Smp!Opens, Smp!server, Smp!past
  <2>3. QED
    BY <1>1, <2>1, <2>2
<1>8. ASSUME NEW k \in Smp!Socket,
             Smp!DialFails(k) \/ Smp!Cut(k) \/ Smp!ServerCloses(k) \/ Smp!Closed(k) PROVE Connects /\ accepted' \in BOOLEAN /\ Rest
  <2>1. PICK code \in {1000, 1006} :
          /\ sock[k].st \in {"dialing", "open", "closing"} /\ Smp!OnClose(k, code)
          /\ UNCHANGED <<Smp!bridge, stopped, accepted>> /\ Rest
          /\ told \subseteq told' /\ survivors \subseteq survivors'
          /\ code = 1000 => sock[k].server \in told' \/ sock[k].st = "closing"
          /\ code # 1000 /\ sock[k].st = "closing" => sock[k].server \in survivors'
    <3>1. CASE Smp!DialFails(k)
      BY <3>1 DEF Smp!DialFails, Smp!users, Smp!server, Smp!past
    <3>2. CASE Smp!Cut(k)
      BY <3>2 DEF Smp!Cut, Smp!users, Smp!server, Smp!past
    <3>3. CASE Smp!ServerCloses(k)
      BY <3>3 DEF Smp!ServerCloses, Smp!users, Smp!server, Smp!past
    <3>4. CASE Smp!Closed(k)
      BY <3>4 DEF Smp!Closed, Smp!users, Smp!server, Smp!past
    <3>5. QED
      BY <1>8, <3>1, <3>2, <3>3, <3>4
  <2>2. /\ ConnInv' /\ sock' \in [Smp!Socket -> SockRec]
        /\ \A j \in Smp!Socket : sock'[j].up \in {sock[j].up, <<>>} /\ sock'[j].down \in {sock[j].down, <<>>}
        /\ conn' \in [Smp!Server -> Smp!Socket \cup {Smp!None}]
        /\ state' \in [Smp!Server -> {"none", "connecting", "connected", "error", "disconnected"}]
        /\ global' \in ShownState /\ shown' \in ShownState
        /\ timers' \in [Smp!Server -> 0..MaxSockets]
    BY <1>1, <2>1, CloseConn
  <2>3. Connects
    BY <1>1, <2>1, <2>2, OffTypes DEF Connects, ConnTypes, Smp!bridge
  <2>4. QED
    BY <1>1, <2>1, <2>3
<1>9. QED
  BY <1>2, <1>3, <1>4, <1>5, <1>6, <1>7, <1>8

LEMMA ConnectionSteps ==
    ASSUME SmpBounds, SmpIInv,
           \/ Smp!Start \/ Smp!Initialized \/ Smp!Shutdown
           \/ \E s \in Smp!Server : Smp!TimerFires(s) \/ Smp!Accept(s)
           \/ \E k \in Smp!Socket : Smp!Opens(k) \/ Smp!DialFails(k) \/ Smp!Cut(k) \/ Smp!ServerCloses(k) \/ Smp!Closed(k)
    PROVE  SmpIInv'
BY ConnectionMoves, ConnectsKeeps

\* Frames and calls are made of their parts.
LEMMA SmpCalls ==
    /\ NewCall \in Smp!Call
    /\ [cmd |-> "SUB", msg |-> Smp!None] \in Smp!Call
    /\ \A m \in Smp!Message : [cmd |-> "SEND", msg |-> m] \in Smp!Call /\ [cmd |-> "ACK", msg |-> m] \in Smp!Call
BY DEF Smp!Call, NewCall

LEMMA CallParts ==
    ASSUME NEW c \in Smp!Call
    PROVE  /\ c.cmd \in {"NEW", "SUB", "SEND", "ACK"}
           /\ c.cmd = "NEW" => c = NewCall
           /\ c.cmd \in {"SEND", "ACK"} => c.msg \in Smp!Message
BY DEF Smp!Call, NewCall

LEMMA SmpFrames ==
    /\ \A m \in Smp!Message : Smp!PushOf(m) \in Smp!Frame
    /\ \A c \in Smp!Call : Smp!Reply("OK", c) \in Smp!Frame /\ Smp!Reply("ERR", c) \in Smp!Frame
<1>1. \A m \in Smp!Message : Smp!PushOf(m) \in Smp!Frame
  BY SmpCalls DEF Smp!PushOf, Smp!Frame
<1>2. \A c \in Smp!Call : Smp!Reply("OK", c) \in Smp!Frame /\ Smp!Reply("ERR", c) \in Smp!Frame
  BY DEF Smp!Reply, Smp!Frame
<1>3. QED
  BY <1>1, <1>2

LEMMA FrameParts ==
    ASSUME NEW f \in Smp!Frame
    PROVE  f.cmd \in {"OK", "ERR", "MSG"} /\ f.of \in Smp!Call
BY DEF Smp!Frame

\* The same sockets in the same states.
SameSockets(sk, tk) ==
    /\ tk \in [Smp!Socket -> SockRec]
    /\ \A j \in Smp!Socket : tk[j].st = sk[j].st /\ tk[j].server = sk[j].server

\* A command is written on one socket.
LEMMA Requests ==
    ASSUME NEW sk \in [Smp!Socket -> SockRec], NEW k \in Smp!Socket, NEW cmd, NEW msg,
           [cmd |-> cmd, msg |-> msg] \in Smp!Call
    PROVE  /\ SameSockets(sk, Smp!Request(sk, k, cmd, msg))
           /\ \A j \in Smp!Socket : Smp!Request(sk, k, cmd, msg)[j].down = sk[j].down
           /\ \A j \in Smp!Socket \ {k} : Smp!Request(sk, k, cmd, msg)[j].up = sk[j].up
           /\ Smp!Request(sk, k, cmd, msg)[k].up = Append(sk[k].up, [cmd |-> cmd, msg |-> msg])
<1>1. PICK c \in Smp!Call : c = [cmd |-> cmd, msg |-> msg]
  OBVIOUS
<1>2. PICK tk : tk = Smp!Request(sk, k, cmd, msg)
  OBVIOUS
<1>3. tk = [sk EXCEPT ![k].up = Append(@, c)]
  BY <1>1, <1>2 DEF Smp!Request
<1>4. PICK r \in SockRec : r = sk[k]
  OBVIOUS
<1>5. Append(r.up, c) \in Seq(Smp!Call)
  BY DEF SockRec
<1>6. PICK u \in Seq(Smp!Call) : u = Append(r.up, c)
  BY <1>5
<1>7. PICK q : q = [r EXCEPT !.up = u]
  OBVIOUS
<1>8. q \in SockRec /\ q.server = r.server /\ q.st = r.st /\ q.down = r.down /\ q.up = u
  BY <1>7 DEF SockRec
<1>9. tk = [sk EXCEPT ![k] = q]
  BY <1>3, <1>4, <1>6, <1>7
<1>10. /\ tk \in [Smp!Socket -> SockRec] /\ tk[k] = q
       /\ \A j \in Smp!Socket \ {k} : tk[j] = sk[j]
  BY <1>8, <1>9
<1>11. SameSockets(sk, tk)
  BY <1>4, <1>8, <1>10 DEF SameSockets
<1>12. /\ \A j \in Smp!Socket : tk[j].down = sk[j].down
       /\ \A j \in Smp!Socket \ {k} : tk[j].up = sk[j].up
       /\ tk[k].up = Append(sk[k].up, c)
  BY <1>4, <1>6, <1>8, <1>10
<1>13. QED
  BY <1>1, <1>2, <1>11, <1>12

\* A frame is taken off a socket.
LEMMA Taken ==
    ASSUME NEW sk \in [Smp!Socket -> SockRec], NEW k \in Smp!Socket
    PROVE  /\ sk[k].down # <<>> =>
                /\ SameSockets(sk, [sk EXCEPT ![k].down = Tail(@)])
                /\ \A j \in Smp!Socket : [sk EXCEPT ![k].down = Tail(@)][j].up = sk[j].up
                /\ \A j \in Smp!Socket \ {k} : [sk EXCEPT ![k].down = Tail(@)][j].down = sk[j].down
                /\ [sk EXCEPT ![k].down = Tail(@)][k].down = Tail(sk[k].down)
           /\ sk[k].up # <<>> =>
                /\ SameSockets(sk, [sk EXCEPT ![k].up = Tail(@)])
                /\ \A j \in Smp!Socket : [sk EXCEPT ![k].up = Tail(@)][j].down = sk[j].down
                /\ \A j \in Smp!Socket \ {k} : [sk EXCEPT ![k].up = Tail(@)][j].up = sk[j].up
                /\ [sk EXCEPT ![k].up = Tail(@)][k].up = Tail(sk[k].up)
<1>1. PICK r \in SockRec : r = sk[k]
  OBVIOUS
<1>2. r.up \in Seq(Smp!Call) /\ r.down \in Seq(Smp!Frame)
  BY DEF SockRec
<1>3. ASSUME sk[k].down # <<>>
      PROVE  /\ SameSockets(sk, [sk EXCEPT ![k].down = Tail(@)])
             /\ \A j \in Smp!Socket : [sk EXCEPT ![k].down = Tail(@)][j].up = sk[j].up
             /\ \A j \in Smp!Socket \ {k} : [sk EXCEPT ![k].down = Tail(@)][j].down = sk[j].down
             /\ [sk EXCEPT ![k].down = Tail(@)][k].down = Tail(sk[k].down)
  <2>1. PICK tk : tk = [sk EXCEPT ![k].down = Tail(@)]
    OBVIOUS
  <2>2. PICK u \in Seq(Smp!Frame) : u = Tail(r.down)
    BY <1>1, <1>2, <1>3, HeadTailProperties
  <2>3. PICK q : q = [r EXCEPT !.down = u]
    OBVIOUS
  <2>4. q \in SockRec /\ q.server = r.server /\ q.st = r.st /\ q.up = r.up /\ q.down = u
    BY <2>3 DEF SockRec
  <2>5. tk = [sk EXCEPT ![k] = q]
    BY <1>1, <2>1, <2>2, <2>3
  <2>6. tk \in [Smp!Socket -> SockRec] /\ tk[k] = q /\ \A j \in Smp!Socket \ {k} : tk[j] = sk[j]
    BY <2>4, <2>5
  <2>7. SameSockets(sk, tk)
    BY <1>1, <2>4, <2>6 DEF SameSockets
  <2>8. /\ \A j \in Smp!Socket : tk[j].up = sk[j].up
        /\ \A j \in Smp!Socket \ {k} : tk[j].down = sk[j].down
        /\ tk[k].down = Tail(sk[k].down)
    BY <1>1, <2>2, <2>4, <2>6
  <2>9. QED
    BY <2>1, <2>7, <2>8
<1>4. ASSUME sk[k].up # <<>>
      PROVE  /\ SameSockets(sk, [sk EXCEPT ![k].up = Tail(@)])
             /\ \A j \in Smp!Socket : [sk EXCEPT ![k].up = Tail(@)][j].down = sk[j].down
             /\ \A j \in Smp!Socket \ {k} : [sk EXCEPT ![k].up = Tail(@)][j].up = sk[j].up
             /\ [sk EXCEPT ![k].up = Tail(@)][k].up = Tail(sk[k].up)
  <2>1. PICK tk : tk = [sk EXCEPT ![k].up = Tail(@)]
    OBVIOUS
  <2>2. PICK u \in Seq(Smp!Call) : u = Tail(r.up)
    BY <1>1, <1>2, <1>4, HeadTailProperties
  <2>3. PICK q : q = [r EXCEPT !.up = u]
    OBVIOUS
  <2>4. q \in SockRec /\ q.server = r.server /\ q.st = r.st /\ q.up = u /\ q.down = r.down
    BY <2>3 DEF SockRec
  <2>5. tk = [sk EXCEPT ![k] = q]
    BY <1>1, <2>1, <2>2, <2>3
  <2>6. tk \in [Smp!Socket -> SockRec] /\ tk[k] = q /\ \A j \in Smp!Socket \ {k} : tk[j] = sk[j]
    BY <2>4, <2>5
  <2>7. SameSockets(sk, tk)
    BY <1>1, <2>4, <2>6 DEF SameSockets
  <2>8. /\ \A j \in Smp!Socket : tk[j].down = sk[j].down
        /\ \A j \in Smp!Socket \ {k} : tk[j].up = sk[j].up
        /\ tk[k].up = Tail(sk[k].up)
    BY <1>1, <2>2, <2>4, <2>6
  <2>9. QED
    BY <2>1, <2>7, <2>8
<1>5. QED
  BY <1>3, <1>4

\* Frames reach one socket at the most, behind those that are there.
Delivered(sk, k, frames, tk) ==
    /\ SameSockets(sk, tk)
    /\ \A j \in Smp!Socket : tk[j].up = sk[j].up
    /\ \A j \in Smp!Socket : tk[j].down = sk[j].down \/ (j = k /\ tk[j].down = sk[j].down \o frames)
    /\ (\A j \in Smp!Socket : sk[j].st # "open") => tk = sk

LEMMA Delivers ==
    ASSUME NEW sk \in [Smp!Socket -> SockRec], NEW k \in Smp!Socket \cup {Smp!None},
           NEW frames \in Seq(Smp!Frame),
           NEW tk, tk = Smp!Deliver(sk, k, frames)
    PROVE  Delivered(sk, k, frames, tk)
<1>1. CASE ~(k # Smp!None /\ sk[k].st = "open")
  <2>1. tk = sk
    BY <1>1 DEF Smp!Deliver
  <2>2. QED
    BY <2>1 DEF SameSockets, Delivered
<1>2. CASE k # Smp!None /\ sk[k].st = "open"
  <2>1. k \in Smp!Socket
    BY <1>2
  <2>2. tk = [sk EXCEPT ![k].down = @ \o frames]
    BY <1>2 DEF Smp!Deliver
  <2>3. PICK r \in SockRec : r = sk[k]
    BY <2>1
  <2>4. r.down \o frames \in Seq(Smp!Frame)
    BY ConcatProperties DEF SockRec
  <2>5. PICK u \in Seq(Smp!Frame) : u = r.down \o frames
    BY <2>4
  <2>6. PICK q : q = [r EXCEPT !.down = u]
    OBVIOUS
  <2>7. q \in SockRec /\ q.server = r.server /\ q.st = r.st /\ q.up = r.up /\ q.down = u
    BY <2>6 DEF SockRec
  <2>8. tk = [sk EXCEPT ![k] = q]
    BY <2>2, <2>3, <2>5, <2>6
  <2>9. tk \in [Smp!Socket -> SockRec] /\ tk[k] = q /\ \A j \in Smp!Socket \ {k} : tk[j] = sk[j]
    BY <2>1, <2>7, <2>8
  <2>10. SameSockets(sk, tk)
    BY <2>3, <2>7, <2>9 DEF SameSockets
  <2>11. /\ \A j \in Smp!Socket : tk[j].up = sk[j].up
         /\ \A j \in Smp!Socket : tk[j].down = sk[j].down \/ (j = k /\ tk[j].down = sk[j].down \o frames)
    BY <2>3, <2>5, <2>7, <2>9
  <2>12. QED
    BY <1>2, <2>1, <2>10, <2>11 DEF Delivered
<1>3. QED
  BY <1>1, <1>2

\* Where the parts of a sequence come from.
LEMMA SequenceParts ==
    ASSUME NEW S, NEW q \in Seq(S)
    PROVE  /\ Len(q) \in Nat
           /\ \A i \in 1..Len(q) : q[i] \in S
           /\ q # <<>> => /\ Head(q) = q[1] /\ 1 \in 1..Len(q)
                          /\ \A i \in Nat : i \in 1..Len(Tail(q)) =>
                                i + 1 \in 1..Len(q) /\ Tail(q)[i] = q[i + 1]
           /\ \A e \in S : \A i \in Nat : i \in 1..Len(Append(q, e)) =>
                \/ i \in 1..Len(q) /\ Append(q, e)[i] = q[i]
                \/ i = Len(q) + 1 /\ Append(q, e)[i] = e
           /\ \A p \in Seq(S) : \A i \in Nat : i \in 1..Len(q \o p) =>
                \/ i \in 1..Len(q) /\ (q \o p)[i] = q[i]
                \/ \E j \in 1..Len(p) : (q \o p)[i] = p[j]
<1>1. Len(q) \in Nat /\ \A i \in 1..Len(q) : q[i] \in S
  BY LenProperties
<1>2. ASSUME q # <<>>
      PROVE  /\ Head(q) = q[1] /\ 1 \in 1..Len(q)
             /\ \A i \in Nat : i \in 1..Len(Tail(q)) => i + 1 \in 1..Len(q) /\ Tail(q)[i] = q[i + 1]
  <2>1. Len(Tail(q)) = Len(q) - 1 /\ \A i \in 1..Len(Tail(q)) : Tail(q)[i] = q[i + 1]
    BY <1>2, HeadTailProperties
  <2>2. Head(q) = q[1]
    BY <1>2
  <2>3. Len(q) # 0
    BY <1>2, EmptySeq
  <2>4. QED
    BY <1>1, <2>1, <2>2, <2>3
<1>3. ASSUME NEW e \in S, NEW i \in Nat, i \in 1..Len(Append(q, e))
      PROVE  \/ i \in 1..Len(q) /\ Append(q, e)[i] = q[i]
             \/ i = Len(q) + 1 /\ Append(q, e)[i] = e
  <2>1. /\ Len(Append(q, e)) = Len(q) + 1 /\ \A j \in 1..Len(q) : Append(q, e)[j] = q[j]
        /\ Append(q, e)[Len(q) + 1] = e
    BY AppendProperties
  <2>2. i \in 1..Len(q) \/ i = Len(q) + 1
    BY <1>1, <1>3, <2>1
  <2>3. QED
    BY <2>1, <2>2
<1>4. ASSUME NEW p \in Seq(S), NEW i \in Nat, i \in 1..Len(q \o p)
      PROVE  \/ i \in 1..Len(q) /\ (q \o p)[i] = q[i]
             \/ \E j \in 1..Len(p) : (q \o p)[i] = p[j]
  <2>1. /\ Len(q \o p) = Len(q) + Len(p)
        /\ \A j \in 1..Len(q) + Len(p) : (q \o p)[j] = IF j <= Len(q) THEN q[j] ELSE p[j - Len(q)]
    BY ConcatProperties
  <2>2. Len(p) \in Nat
    BY LenProperties
  <2>3. CASE i <= Len(q)
    BY <1>1, <1>4, <2>1, <2>2, <2>3
  <2>4. CASE ~(i <= Len(q))
    <3>1. i - Len(q) \in 1..Len(p) /\ (q \o p)[i] = p[i - Len(q)]
      BY <1>1, <1>4, <2>1, <2>2, <2>4
    <3>2. QED
      BY <3>1
  <2>5. QED
    BY <2>3, <2>4
<1>5. QED
  BY <1>1, <1>2, <1>3, <1>4

LEMMA WithoutIsSeq ==
    ASSUME NEW b \in Seq(Smp!Message), NEW m
    PROVE  Smp!Without(b, m) \in Seq(Smp!Message)
<1>1. CASE m \notin Smp!Range(b)
  BY <1>1 DEF Smp!Without
<1>2. CASE m \in Smp!Range(b)
  <2>1. Len(b) \in Nat /\ DOMAIN b = 1..Len(b) /\ \A j \in 1..Len(b) : b[j] \in Smp!Message
    BY LenProperties
  <2>2. \E i \in DOMAIN b : b[i] = m
    BY <1>2 DEF Smp!Range
  <2>3. PICK i \in 1..Len(b) : i = CHOOSE j \in DOMAIN b : b[j] = m
    BY <2>1, <2>2
  <2>4. Smp!Without(b, m) = SubSeq(b, 1, i - 1) \o SubSeq(b, i + 1, Len(b))
    BY <1>2, <2>3 DEF Smp!Without, Smp!RemoveAt
  <2>5. /\ i - 1 \in Int /\ i + 1 \in Int /\ 1 \in Int /\ Len(b) \in Int
        /\ \A j \in 1..i - 1 : b[j] \in Smp!Message
        /\ \A j \in i + 1..Len(b) : b[j] \in Smp!Message
    BY <2>1
  <2>6. SubSeq(b, 1, i - 1) \in Seq(Smp!Message)
    BY <2>5, SubSeqProperties
  <2>7. SubSeq(b, i + 1, Len(b)) \in Seq(Smp!Message)
    BY <2>5, SubSeqProperties
  <2>8. QED
    BY <2>4, <2>6, <2>7, ConcatProperties
<1>3. QED
  BY <1>1, <1>2

\* A step of the queue's, on sockets that stay as they are.
LEMMA QueueStep ==
    ASSUME SmpIInv, SameSockets(sock, sock'), phase = "off" => sock' = sock,
           UNCHANGED <<Smp!client, Smp!bridge, told, stopped, survivors>>,
           UserTypes', SmpQueueInv'
    PROVE  SmpIInv'
<1>1. Smp!TypeOK /\ ConnInv
  BY DEF SmpIInv
<1>2. ConnInv'
  BY <1>1, Traffic DEF SameSockets
<1>3. ConnTypes'
  BY <1>1, OffTypes DEF ConnTypes, SameSockets, Smp!client, Smp!bridge
<1>4. Smp!TypeOK'
  BY <1>3, TypePartsNext
<1>5. QED
  BY <1>2, <1>4 DEF SmpIInv

\* Before the first connect() no socket and no entry is there.
LEMMA OffIsEmpty ==
    ASSUME SmpIInv, phase = "off"
    PROVE  (\A k \in Smp!Socket : sock[k].st = "unused") /\ \A s \in Smp!Server : conn[s] = Smp!None
BY DEF SmpIInv, ConnInv, OffInv, Smp!Unused, Smp!Silent

\* No SUB is sent, and the subscriber stays.
LEMMA SubKeeps ==
    ASSUME SmpIInv, NEW d \in [Smp!Socket -> {0, 1}],
           \A j \in Smp!Socket : \A a \in Nat : SubAt(j, a)' => SubAt(j, a + d[j]),
           subscriber' = subscriber,
           NewCall \in calls' => NewCall \in calls \/ invitation = "none",
           invitation' = "none" => invitation = "none",
           calls' # {} => invitation' # "none"
    PROVE  SubInv'
<1>1. /\ \A j, k \in Smp!Socket : \A a, b \in Nat : SubAt(j, a) /\ SubAt(k, b) => j = k /\ a = b
      /\ (subscriber # Smp!None \/ NewCall \in calls \/ invitation = "none") =>
              \A k \in Smp!Socket : \A a \in Nat : ~SubAt(k, a)
      /\ NewCall \in calls \/ invitation = "none" => subscriber = Smp!None
  BY DEF SmpIInv, SmpQueueInv, SubInv
<1>2. \A j \in Smp!Socket : \A a \in Nat : a + d[j] \in Nat
  OBVIOUS
<1>3. ASSUME NEW j \in Smp!Socket, NEW k \in Smp!Socket, NEW a \in Nat, NEW b \in Nat, SubAt(j, a)', SubAt(k, b)'
      PROVE  j = k /\ a = b
  <2>1. SubAt(j, a + d[j]) /\ SubAt(k, b + d[k])
    BY <1>3
  <2>2. j = k /\ a + d[j] = b + d[k]
    BY <1>1, <1>2, <2>1
  <2>3. d[j] \in {0, 1}
    OBVIOUS
  <2>4. QED
    BY <2>2, <2>3
<1>4. ASSUME subscriber' # Smp!None \/ NewCall \in calls' \/ invitation' = "none",
             NEW k \in Smp!Socket, NEW a \in Nat
      PROVE  ~SubAt(k, a)'
  BY <1>1, <1>2, <1>4
<1>5. NewCall \in calls' \/ invitation' = "none" => subscriber' = Smp!None
  BY <1>1
<1>6. NewCall' = NewCall
  BY DEF NewCall
<1>7. QED
  BY <1>3, <1>4, <1>5, <1>6 DEF SubInv

\* A frame that may reach socket k.
Fits(k, f) ==
    /\ f.cmd = "MSG" => f.of.cmd = "SEND"
    /\ f.cmd = "MSG" \/ f.of.cmd = "SUB" => k = subscriber

\* What reaches a socket was there, or fits it.
LEMMA DownKeeps ==
    ASSUME SmpIInv, subscriber' = subscriber,
           \A k \in Smp!Socket : \A i \in Nat : i \in 1..Len(sock'[k].down) =>
              \/ \E j \in 1..Len(sock[k].down) : sock'[k].down[i] = sock[k].down[j]
              \/ Fits(k, sock'[k].down[i])
    PROVE  DownInv'
<1>1. \A k \in Smp!Socket : \A j \in 1..Len(sock[k].down) : Fits(k, sock[k].down[j])
  BY DEF SmpIInv, SmpQueueInv, DownInv, Fits
<1>2. \A k \in Smp!Socket : \A i \in 1..Len(sock'[k].down) : Fits(k, sock'[k].down[i])
  BY <1>1
<1>3. QED
  BY <1>2 DEF DownInv, Fits

\* A command other than SUB is sent to a server that has a socket.
LEMMA Asks ==
    ASSUME SmpIInv, NEW s \in Smp!Server, conn[s] # Smp!None, NEW cmd \in {"NEW", "SEND", "ACK"},
           NEW msg,
           [cmd |-> cmd, msg |-> msg] \in Smp!Call,
           sock' = Smp!Request(sock, conn[s], cmd, msg),
           subscriber' = subscriber,
           NewCall \in calls' => NewCall \in calls \/ invitation = "none",
           invitation' = "none" => invitation = "none",
           calls' # {} => invitation' # "none"
    PROVE  SameSockets(sock, sock') /\ phase # "off" /\ SubInv' /\ DownInv'
<1>1. sock \in [Smp!Socket -> SockRec] /\ conn \in [Smp!Server -> Smp!Socket \cup {Smp!None}]
      /\ \A j \in Smp!Socket : sock[j].up \in Seq(Smp!Call)
  BY SmpTypes DEF SmpIInv
<1>2. PICK k \in Smp!Socket : k = conn[s]
  BY <1>1
<1>3. PICK c \in Smp!Call : c = [cmd |-> cmd, msg |-> msg]
  OBVIOUS
<1>4. /\ SameSockets(sock, sock')
      /\ \A j \in Smp!Socket : sock'[j].down = sock[j].down
      /\ \A j \in Smp!Socket \ {k} : sock'[j].up = sock[j].up
      /\ sock'[k].up = Append(sock[k].up, c)
  BY <1>1, <1>2, <1>3, Requests
<1>5. phase # "off"
  BY OffIsEmpty
<1>6. PICK d \in [Smp!Socket -> {0, 1}] : \A j \in Smp!Socket : d[j] = 0
  <2>1. [j \in Smp!Socket |-> 0] \in [Smp!Socket -> {0, 1}]
    OBVIOUS
  <2>2. QED
    BY <2>1
<1>7. \A j \in Smp!Socket : \A a \in Nat : SubAt(j, a)' => SubAt(j, a + d[j])
  <2> SUFFICES ASSUME NEW j \in Smp!Socket, NEW a \in Nat, SubAt(j, a)' PROVE SubAt(j, a)
    BY <1>6
  <2>1. a \in 1..Len(sock'[j].up) /\ sock'[j].up[a].cmd = "SUB"
    BY DEF SubAt
  <2>2. CASE j # k
    BY <1>4, <2>1, <2>2 DEF SubAt
  <2>3. CASE j = k
    <3>1. PICK u \in Seq(Smp!Call) : u = sock[k].up
      BY <1>1
    <3>2. a \in 1..Len(Append(u, c)) /\ Append(u, c)[a].cmd = "SUB"
      BY <1>4, <2>1, <2>3, <3>1
    <3>3. c.cmd # "SUB"
      BY <1>3
    <3>4. a \in 1..Len(u) /\ u[a].cmd = "SUB"
      BY <3>2, <3>3, SequenceParts
    <3>5. QED
      BY <2>3, <3>1, <3>4 DEF SubAt
  <2>4. QED
    BY <2>2, <2>3
<1>8. SubInv'
  BY <1>7, SubKeeps
<1>9. DownInv'
  BY <1>4, DownKeeps
<1>10. QED
  BY <1>4, <1>5, <1>8, <1>9

\* The first frame of an open socket, and what is left without it.
LEMMA Tooks ==
    ASSUME SmpIInv, NEW k \in Smp!Socket, sock[k].st = "open", sock[k].down # <<>>
    PROVE  /\ SameSockets(sock, Smp!Took(k)) /\ phase # "off" /\ Smp!Took(k) \in [Smp!Socket -> SockRec]
           /\ \A j \in Smp!Socket : Smp!Took(k)[j].up = sock[j].up
           /\ \A j \in Smp!Socket : \A i \in Nat : i \in 1..Len(Smp!Took(k)[j].down) =>
                 \E h \in 1..Len(sock[j].down) : Smp!Took(k)[j].down[i] = sock[j].down[h]
           /\ Smp!Down(k) \in Smp!Frame /\ Smp!Down(k).of \in Smp!Call
           /\ Smp!Down(k).cmd = "MSG" => Smp!Down(k).of.cmd = "SEND"
           /\ Smp!Down(k).cmd = "MSG" \/ Smp!Down(k).of.cmd = "SUB" => k = subscriber
<1>1. sock \in [Smp!Socket -> SockRec] /\ \A j \in Smp!Socket : sock[j].down \in Seq(Smp!Frame)
  BY SmpTypes DEF SmpIInv
<1>2. PICK q \in Seq(Smp!Frame) : q = sock[k].down
  BY <1>1
<1>3. phase # "off"
  BY OffIsEmpty
<1>4. /\ SameSockets(sock, Smp!Took(k))
      /\ \A j \in Smp!Socket : Smp!Took(k)[j].up = sock[j].up
      /\ \A j \in Smp!Socket \ {k} : Smp!Took(k)[j].down = sock[j].down
      /\ Smp!Took(k)[k].down = Tail(sock[k].down)
  BY <1>1, Taken DEF Smp!Took
<1>5. \A j \in Smp!Socket : \A i \in Nat : i \in 1..Len(Smp!Took(k)[j].down) =>
         \E h \in 1..Len(sock[j].down) : Smp!Took(k)[j].down[i] = sock[j].down[h]
  <2> SUFFICES ASSUME NEW j \in Smp!Socket, NEW i \in Nat, i \in 1..Len(Smp!Took(k)[j].down)
               PROVE  \E h \in 1..Len(sock[j].down) : Smp!Took(k)[j].down[i] = sock[j].down[h]
    OBVIOUS
  <2>1. CASE j # k
    BY <1>4, <2>1
  <2>2. CASE j = k
    <3>1. q # <<>> /\ i \in 1..Len(Tail(q))
      BY <1>2, <1>4, <2>2
    <3>2. i + 1 \in 1..Len(q) /\ Tail(q)[i] = q[i + 1]
      BY <3>1, SequenceParts
    <3>3. QED
      BY <1>2, <1>4, <2>2, <3>2
  <2>3. QED
    BY <2>1, <2>2
<1>6. Smp!Down(k) = q[1] /\ 1 \in 1..Len(q) /\ Smp!Down(k) \in Smp!Frame
  BY <1>2, SequenceParts DEF Smp!Down
<1>7. /\ Smp!Down(k).cmd = "MSG" => Smp!Down(k).of.cmd = "SEND"
      /\ Smp!Down(k).cmd = "MSG" \/ Smp!Down(k).of.cmd = "SUB" => k = subscriber
  BY <1>2, <1>6 DEF SmpIInv, SmpQueueInv, DownInv
<1>8. Smp!Took(k) \in [Smp!Socket -> SockRec]
  BY <1>4 DEF SameSockets
<1>9. QED
  BY <1>3, <1>4, <1>5, <1>6, <1>7, <1>8, FrameParts

\* A frame is handled, and nothing is sent.
LEMMA TookKeeps ==
    ASSUME SmpIInv, NEW k \in Smp!Socket, sock[k].st = "open", sock[k].down # <<>>,
           sock' = Smp!Took(k),
           subscriber' = subscriber,
           NewCall \in calls' => NewCall \in calls \/ invitation = "none",
           invitation' = "none" => invitation = "none",
           calls' # {} => invitation' # "none"
    PROVE  SameSockets(sock, sock') /\ phase # "off" /\ SubInv' /\ DownInv'
<1>1. /\ SameSockets(sock, sock') /\ phase # "off"
      /\ \A j \in Smp!Socket : sock'[j].up = sock[j].up
      /\ \A j \in Smp!Socket : \A i \in Nat : i \in 1..Len(sock'[j].down) =>
            \E h \in 1..Len(sock[j].down) : sock'[j].down[i] = sock[j].down[h]
  BY Tooks
<1>2. PICK d \in [Smp!Socket -> {0, 1}] : \A j \in Smp!Socket : d[j] = 0
  <2>1. [j \in Smp!Socket |-> 0] \in [Smp!Socket -> {0, 1}]
    OBVIOUS
  <2>2. QED
    BY <2>1
<1>3. \A j \in Smp!Socket : \A a \in Nat : SubAt(j, a)' => SubAt(j, a + d[j])
  BY <1>1, <1>2 DEF SubAt
<1>4. SubInv'
  BY <1>3, SubKeeps
<1>5. DownInv'
  BY <1>1, DownKeeps
<1>6. QED
  BY <1>1, <1>4, <1>5

\* What the caller of a command learns.
LEMMA Rejections ==
    ASSUME SmpIInv, NEW c, Smp!Rejected(c), calls # {}
    PROVE  /\ invitation' \in {"none", "new", "sub", "made", "failed"}
           /\ invitation' # "none" /\ invitation # "none"
           /\ outcome' \in [Mine -> {"none", "sending", "sent", "failed"}]
<1>1. UserTypes
  BY TypeParts DEF SmpIInv
<1>2. invitation # "none"
  BY DEF SmpIInv, SmpQueueInv, SubInv
<1>3. invitation' \in {"none", "new", "sub", "made", "failed"} /\ invitation' # "none"
  BY <1>1, <1>2 DEF Smp!Rejected, UserTypes
<1>4. outcome' \in [Mine -> {"none", "sending", "sent", "failed"}]
  <2>1. \A m \in Mine : outcome[m] \in {"none", "sending", "sent", "failed"}
    BY <1>1 DEF UserTypes
  <2>2. outcome' = [m \in Mine |-> IF c.cmd = "SEND" /\ c.msg = m THEN "failed" ELSE outcome[m]]
    BY DEF Smp!Rejected
  <2>3. QED
    BY <2>1, <2>2
<1>5. QED
  BY <1>2, <1>3, <1>4

LEMMA CreateStep ==
    ASSUME SmpIInv, Smp!Create
    PROVE  SmpIInv'
<1>1. PICK s \in Smp!Server : conn[s] # Smp!None /\ home' = s /\ sock' = Smp!Request(sock, conn[s], "NEW", Smp!None)
  BY DEF Smp!Create, Smp!Selected
<1>2. /\ invitation = "none" /\ invitation' = "new" /\ calls' = calls \cup {NewCall}
      /\ UNCHANGED <<Smp!client, Smp!bridge, told, stopped, survivors>>
      /\ UNCHANGED <<subscribed, outcome, accepted, handled, subscriber, box, heard, since>>
  BY DEF Smp!Create, Smp!Waiting, NewCall, Smp!past
<1>3. SameSockets(sock, sock') /\ phase # "off" /\ SubInv' /\ DownInv'
  BY <1>1, <1>2, Asks, SmpCalls DEF NewCall
<1>4. UserTypes'
  BY <1>1, <1>2, SmpCalls, TypeParts DEF SmpIInv, UserTypes
<1>5. HeardInv'
  BY <1>1, <1>2 DEF SmpIInv, SmpQueueInv, HeardInv
<1>6. QED
  BY <1>2, <1>3, <1>4, <1>5, QueueStep DEF SmpQueueInv

LEMMA SendStep ==
    ASSUME SmpIInv, NEW m \in Mine, Smp!Send(m)
    PROVE  SmpIInv'
<1>1. /\ invitation = "made" /\ home \in Smp!Server
      /\ UNCHANGED <<Smp!client, Smp!bridge, told, stopped, survivors>>
      /\ UNCHANGED <<subscribed, invitation, accepted, handled, home, subscriber, box, heard,
                     since>>
  BY DEF Smp!Send, Smp!server, Smp!past, SmpIInv, SmpQueueInv, HeardInv
<1>2. UserTypes
  BY TypeParts DEF SmpIInv
<1>3. PICK s \in Smp!Server : s = home
  BY <1>1
<1>4. m \in Smp!Message
  BY DEF Smp!Message
<1>5. PICK c \in Smp!Call : c = [cmd |-> "SEND", msg |-> m]
  BY <1>4, SmpCalls
<1>6. c # NewCall
  BY <1>5 DEF NewCall
<1>7. HeardInv'
  BY <1>1 DEF SmpIInv, SmpQueueInv, HeardInv
<1>8. CASE conn[home] = Smp!None
  <2>1. UNCHANGED <<sock, calls>> /\ outcome' = [outcome EXCEPT ![m] = "failed"]
    BY <1>8 DEF Smp!Send
  <2>2. UserTypes'
    BY <1>1, <1>2, <2>1 DEF UserTypes
  <2>3. SubInv' /\ DownInv'
    BY <1>1, <2>1 DEF SmpIInv, SmpQueueInv, SubInv, SubAt, DownInv, NewCall
  <2>4. SameSockets(sock, sock')
    BY <2>1, SmpTypes DEF SmpIInv, SameSockets
  <2>5. QED
    BY <1>1, <1>7, <2>1, <2>2, <2>3, <2>4, QueueStep DEF SmpQueueInv
<1>9. CASE conn[home] # Smp!None
  <2>1. /\ outcome' = [outcome EXCEPT ![m] = "sending"]
        /\ sock' = Smp!Request(sock, conn[s], "SEND", m) /\ conn[s] # Smp!None
        /\ calls' = calls \cup {c}
    BY <1>3, <1>5, <1>9 DEF Smp!Send, Smp!Waiting
  <2>2. SameSockets(sock, sock') /\ phase # "off" /\ SubInv' /\ DownInv'
    BY <1>1, <1>5, <1>6, <2>1, Asks
  <2>3. UserTypes'
    BY <1>1, <1>2, <2>1 DEF UserTypes
  <2>4. QED
    BY <1>1, <1>7, <2>2, <2>3, QueueStep DEF SmpQueueInv
<1>10. QED
  BY <1>8, <1>9

LEMMA AcknowledgeStep ==
    ASSUME SmpIInv, NEW m \in handled, Smp!Acknowledge(m)
    PROVE  SmpIInv'
<1>1. /\ invitation # "none" /\ home \in Smp!Server /\ handled' = handled \ {m}
      /\ UNCHANGED <<Smp!client, Smp!bridge, told, stopped, survivors>>
      /\ UNCHANGED <<subscribed, invitation, outcome, accepted, home, subscriber, box, heard,
                     since>>
  BY DEF Smp!Acknowledge, Smp!server, Smp!past, SmpIInv, SmpQueueInv, HeardInv
<1>2. UserTypes
  BY TypeParts DEF SmpIInv
<1>3. PICK s \in Smp!Server : s = home
  BY <1>1
<1>4. m \in Smp!Message
  BY <1>2 DEF UserTypes
<1>5. PICK c \in Smp!Call : c = [cmd |-> "ACK", msg |-> m]
  BY <1>4, SmpCalls
<1>6. c # NewCall
  BY <1>5 DEF NewCall
<1>7. HeardInv'
  BY <1>1 DEF SmpIInv, SmpQueueInv, HeardInv
<1>8. CASE conn[home] = Smp!None
  <2>1. UNCHANGED <<sock, calls>>
    BY <1>8 DEF Smp!Acknowledge
  <2>2. UserTypes'
    BY <1>1, <1>2, <2>1 DEF UserTypes
  <2>3. SubInv' /\ DownInv'
    BY <1>1, <2>1 DEF SmpIInv, SmpQueueInv, SubInv, SubAt, DownInv, NewCall
  <2>4. SameSockets(sock, sock')
    BY <2>1, SmpTypes DEF SmpIInv, SameSockets
  <2>5. QED
    BY <1>1, <1>7, <2>1, <2>2, <2>3, <2>4, QueueStep DEF SmpQueueInv
<1>9. CASE conn[home] # Smp!None
  <2>1. /\ sock' = Smp!Request(sock, conn[s], "ACK", m) /\ conn[s] # Smp!None
        /\ calls' = calls \cup {c}
    BY <1>3, <1>5, <1>9 DEF Smp!Acknowledge, Smp!Waiting
  <2>2. SameSockets(sock, sock') /\ phase # "off" /\ SubInv' /\ DownInv'
    BY <1>1, <1>5, <1>6, <2>1, Asks
  <2>3. UserTypes'
    BY <1>1, <1>2, <2>1 DEF UserTypes
  <2>4. QED
    BY <1>1, <1>7, <2>2, <2>3, QueueStep DEF SmpQueueInv
<1>10. QED
  BY <1>8, <1>9

LEMMA TimesOutStep ==
    ASSUME SmpIInv, NEW c \in calls, Smp!TimesOut(c)
    PROVE  SmpIInv'
<1>1. /\ calls' = calls \ {c} /\ Smp!Rejected(c)
      /\ UNCHANGED sock /\ UNCHANGED <<Smp!client, Smp!bridge, told, stopped, survivors>>
      /\ UNCHANGED <<subscribed, accepted, handled, home, subscriber, box, heard, since>>
  BY DEF Smp!TimesOut, Smp!server
<1>2. UserTypes
  BY TypeParts DEF SmpIInv
<1>3. /\ invitation' \in {"none", "new", "sub", "made", "failed"}
      /\ invitation' # "none" /\ invitation # "none"
      /\ outcome' \in [Mine -> {"none", "sending", "sent", "failed"}]
  BY <1>1, Rejections
<1>4. UserTypes'
  BY <1>1, <1>2, <1>3 DEF UserTypes
<1>5. HeardInv'
  BY <1>1, <1>3 DEF SmpIInv, SmpQueueInv, HeardInv
<1>6. SubInv'
  BY <1>1, <1>3 DEF SmpIInv, SmpQueueInv, SubInv, SubAt, NewCall
<1>7. DownInv'
  BY <1>1 DEF SmpIInv, SmpQueueInv, DownInv
<1>8. SameSockets(sock, sock')
  BY <1>1, SmpTypes DEF SmpIInv, SameSockets
<1>9. QED
  BY <1>1, <1>4, <1>5, <1>6, <1>7, <1>8, QueueStep DEF SmpQueueInv

\* NEW's OK: the one SUB is sent, on a queue that nobody is subscribed to.
LEMMA CreatedStep ==
    ASSUME SmpIInv, NEW k \in Smp!Socket, sock[k].st = "open", sock[k].down # <<>>, Smp!Created(k),
           UNCHANGED <<told, stopped, survivors>>
    PROVE  SmpIInv'
<1>1. UserTypes
  BY TypeParts DEF SmpIInv
<1>2. /\ SameSockets(sock, Smp!Took(k)) /\ phase # "off" /\ Smp!Took(k) \in [Smp!Socket -> SockRec]
      /\ \A j \in Smp!Socket : Smp!Took(k)[j].up = sock[j].up
      /\ \A j \in Smp!Socket : \A i \in Nat : i \in 1..Len(Smp!Took(k)[j].down) =>
            \E h \in 1..Len(sock[j].down) : Smp!Took(k)[j].down[i] = sock[j].down[h]
      /\ Smp!Down(k).of \in Smp!Call
  BY Tooks
<1>3. Smp!Down(k).of = NewCall /\ NewCall \in calls
  BY <1>2, CallParts DEF Smp!Created
<1>4. /\ \A j \in Smp!Socket : \A a \in Nat : ~SubAt(j, a)
      /\ subscriber = Smp!None /\ invitation # "none" /\ home \in Smp!Server
  BY <1>3 DEF SmpIInv, SmpQueueInv, SubInv, HeardInv
<1>5. /\ UNCHANGED <<Smp!client, Smp!bridge, told, stopped, survivors>>
      /\ UNCHANGED <<subscribed, outcome, accepted, handled, home, subscriber, box, heard, since>>
  BY DEF Smp!Created, Smp!server, Smp!past
<1>6. CASE conn[home] = Smp!None
  <2>1. invitation' = "failed" /\ sock' = Smp!Took(k) /\ calls' = calls \ {NewCall}
    BY <1>3, <1>6 DEF Smp!Created
  <2>2. SameSockets(sock, sock') /\ SubInv' /\ DownInv'
    BY <1>4, <1>5, <2>1, TookKeeps
  <2>3. UserTypes'
    BY <1>1, <1>5, <2>1 DEF UserTypes
  <2>4. HeardInv'
    BY <1>4, <1>5, <2>1 DEF SmpIInv, SmpQueueInv, HeardInv
  <2>5. QED
    BY <1>2, <1>5, <2>2, <2>3, <2>4, QueueStep DEF SmpQueueInv
<1>7. CASE conn[home] # Smp!None
  <2>1. PICK c \in Smp!Call : c = [cmd |-> "SUB", msg |-> Smp!None]
    BY SmpCalls
  <2>2. PICK n \in Smp!Socket : n = conn[home]
    BY <1>4, <1>7, SmpTypes DEF SmpIInv
  <2>3. invitation' = "sub" /\ sock' = Smp!Request(Smp!Took(k), n, "SUB", Smp!None) /\ calls' = (calls \ {NewCall}) \cup {c}
    BY <1>3, <1>7, <2>1, <2>2 DEF Smp!Created
  <2>4. /\ SameSockets(Smp!Took(k), sock')
        /\ \A j \in Smp!Socket : sock'[j].down = Smp!Took(k)[j].down
        /\ \A j \in Smp!Socket \ {n} : sock'[j].up = Smp!Took(k)[j].up
        /\ sock'[n].up = Append(Smp!Took(k)[n].up, c)
    BY <1>2, <2>1, <2>3, Requests
  <2>5. SameSockets(sock, sock')
    BY <1>2, <2>4 DEF SameSockets
  <2>6. c # NewCall /\ c.cmd = "SUB"
    BY <2>1 DEF NewCall
  <2>7. \A j \in Smp!Socket : \A a \in Nat : SubAt(j, a)' => j = n /\ a = Len(sock[n].up) + 1
    <3> SUFFICES ASSUME NEW j \in Smp!Socket, NEW a \in Nat, SubAt(j, a)'
                 PROVE  j = n /\ a = Len(sock[n].up) + 1
      OBVIOUS
    <3>1. a \in 1..Len(sock'[j].up) /\ sock'[j].up[a].cmd = "SUB"
      BY DEF SubAt
    <3>2. ~SubAt(j, a)
      BY <1>4
    <3>3. CASE j # n
      BY <1>2, <2>4, <3>1, <3>2, <3>3 DEF SubAt
    <3>4. CASE j = n
      <4>1. PICK u \in Seq(Smp!Call) : u = sock[n].up
        BY SmpTypes DEF SmpIInv
      <4>2. a \in 1..Len(Append(u, c)) /\ Append(u, c)[a].cmd = "SUB"
        BY <1>2, <2>4, <3>1, <3>4, <4>1
      <4>3. ~(a \in 1..Len(u) /\ u[a].cmd = "SUB")
        BY <3>2, <3>4, <4>1 DEF SubAt
      <4>4. a = Len(u) + 1
        BY <4>2, <4>3, SequenceParts
      <4>5. QED
        BY <3>4, <4>1, <4>4
    <3>5. QED
      BY <3>3, <3>4
  <2>8. SubInv'
    <3>1. NewCall' = NewCall /\ NewCall \notin calls' /\ invitation' # "none" /\ subscriber' = Smp!None
      BY <1>4, <1>5, <2>3, <2>6 DEF NewCall
    <3>2. QED
      BY <2>7, <3>1 DEF SubInv
  <2>9. DownInv'
    BY <1>2, <1>5, <2>4, DownKeeps
  <2>10. UserTypes'
    BY <1>1, <1>5, <2>3 DEF UserTypes
  <2>11. HeardInv'
    BY <1>4, <1>5, <2>3 DEF SmpIInv, SmpQueueInv, HeardInv
  <2>12. QED
    BY <1>2, <1>5, <2>5, <2>8, <2>9, <2>10, <2>11, QueueStep DEF SmpQueueInv
<1>8. QED
  BY <1>6, <1>7

\* SUB's OK comes on the socket of the subscription.
LEMMA SubscribedStep ==
    ASSUME SmpBounds, SmpIInv, NEW k \in Smp!Socket, sock[k].st = "open", sock[k].down # <<>>,
           Smp!Subscribed(k),
           UNCHANGED <<told, stopped, survivors>>
    PROVE  SmpIInv'
<1>1. UserTypes
  BY TypeParts DEF SmpIInv
<1>2. k = subscriber /\ phase # "off"
  BY Tooks DEF Smp!Subscribed
<1>3. invitation # "none" /\ home \in Smp!Server
  BY DEF Smp!Subscribed, SmpIInv, SmpQueueInv, SubInv, HeardInv
<1>4. /\ calls' = calls \ {Smp!Down(k).of} /\ subscribed' = TRUE /\ invitation' = "made"
      /\ since' = (IF since = Smp!None THEN k ELSE since) /\ sock' = Smp!Took(k)
      /\ UNCHANGED <<Smp!client, Smp!bridge, told, stopped, survivors>>
      /\ UNCHANGED <<outcome, accepted, handled, home, subscriber, box, heard>>
  BY DEF Smp!Subscribed, Smp!server
<1>5. SameSockets(sock, sock') /\ SubInv' /\ DownInv'
  BY <1>3, <1>4, TookKeeps
<1>6. UserTypes'
  BY <1>1, <1>4 DEF UserTypes
<1>7. HeardInv'
  BY <1>2, <1>3, <1>4, SmpConstants DEF SmpIInv, SmpQueueInv, HeardInv
<1>8. QED
  BY <1>2, <1>4, <1>5, <1>6, <1>7, QueueStep DEF SmpQueueInv

\* A push comes on the socket of the subscription.
LEMMA PushedStep ==
    ASSUME SmpIInv, NEW k \in Smp!Socket, sock[k].st = "open", sock[k].down # <<>>, Smp!Pushed(k),
           UNCHANGED <<told, stopped, survivors>>
    PROVE  SmpIInv'
<1>1. UserTypes
  BY TypeParts DEF SmpIInv
<1>2. k = subscriber /\ phase # "off" /\ Smp!Down(k).of \in Smp!Call /\ Smp!Down(k).of.cmd = "SEND"
  BY Tooks DEF Smp!Pushed
<1>3. PICK m \in Smp!Message : m = Smp!Down(k).of.msg
  BY <1>2, CallParts
<1>4. /\ sock' = Smp!Took(k)
      /\ UNCHANGED <<Smp!client, Smp!bridge, told, stopped, survivors>>
      /\ UNCHANGED <<calls, subscribed, invitation, outcome, accepted, home, subscriber, box,
                     since>>
      /\ \/ subscribed /\ heard' = heard \cup {[msg |-> m, via |-> k]} /\ handled' = handled \cup {m}
         \/ UNCHANGED <<heard, handled>>
  BY <1>3 DEF Smp!Pushed, Smp!server
<1>5. calls # {} => invitation # "none"
  BY DEF SmpIInv, SmpQueueInv, SubInv
<1>6. SameSockets(sock, sock') /\ SubInv' /\ DownInv'
  BY <1>4, <1>5, TookKeeps
<1>7. UserTypes'
  BY <1>1, <1>4 DEF UserTypes
<1>8. HeardInv'
  <2>1. CASE subscribed /\ heard' = heard \cup {[msg |-> m, via |-> k]} /\ handled' = handled \cup {m}
    <3>1. since = k /\ since # Smp!None
      BY <1>2, <2>1 DEF SmpIInv, SmpQueueInv, HeardInv
    <3>2. \A h \in heard' : h.via = since /\ since # Smp!None
      BY <2>1, <3>1 DEF SmpIInv, SmpQueueInv, HeardInv
    <3>3. invitation # "none" /\ home \in Smp!Server
      BY <2>1 DEF SmpIInv, SmpQueueInv, HeardInv
    <3>4. QED
      BY <1>2, <1>4, <3>1, <3>2, <3>3 DEF HeardInv
  <2>2. CASE UNCHANGED <<heard, handled>>
    BY <1>4, <2>2 DEF SmpIInv, SmpQueueInv, HeardInv
  <2>3. QED
    BY <1>4, <2>1, <2>2
<1>9. QED
  BY <1>2, <1>4, <1>6, <1>7, <1>8, QueueStep DEF SmpQueueInv

\* A frame of any kind is handled.
LEMMA ReceiveStep ==
    ASSUME SmpBounds, SmpIInv, NEW k \in Smp!Socket, Smp!Receive(k)
    PROVE  SmpIInv'
<1>1. sock[k].st = "open" /\ sock[k].down # <<>> /\ UNCHANGED <<told, stopped, survivors>>
  BY DEF Smp!Receive
<1>2. UserTypes
  BY TypeParts DEF SmpIInv
<1>3. phase # "off"
  BY <1>1, Tooks
<1>4. calls # {} => invitation # "none"
  BY DEF SmpIInv, SmpQueueInv, SubInv
<1>5. CASE Smp!LateAnswer(k)
  <2>1. /\ sock' = Smp!Took(k) /\ UNCHANGED <<Smp!client, Smp!bridge>>
        /\ UNCHANGED <<calls, subscribed, invitation, outcome, accepted, handled, home,
            subscriber, box,
                       heard, since>>
    BY <1>5 DEF Smp!LateAnswer, Smp!users, Smp!server, Smp!past
  <2>2. SameSockets(sock, sock') /\ SubInv' /\ DownInv'
    BY <1>1, <1>4, <2>1, TookKeeps
  <2>3. UserTypes' /\ HeardInv'
    BY <1>2, <2>1 DEF UserTypes, SmpIInv, SmpQueueInv, HeardInv
  <2>4. QED
    BY <1>1, <1>3, <2>1, <2>2, <2>3, QueueStep DEF SmpQueueInv
<1>6. CASE Smp!Created(k)
  BY <1>1, <1>6, CreatedStep
<1>7. CASE Smp!Subscribed(k)
  BY <1>1, <1>7, SubscribedStep
<1>8. CASE Smp!Sent(k)
  <2>1. /\ sock' = Smp!Took(k) /\ UNCHANGED <<Smp!client, Smp!bridge>>
        /\ calls' = calls \ {Smp!Down(k).of} /\ calls # {}
        /\ outcome' = [m \in Mine |-> IF Smp!Down(k).of.cmd = "SEND" /\ Smp!Down(k).of.msg = m
                                         THEN "sent" ELSE outcome[m]]
        /\ UNCHANGED <<subscribed, invitation, accepted, handled, home, subscriber, box, heard,
                       since>>
    BY <1>8 DEF Smp!Sent, Smp!server, Smp!past
  <2>2. SameSockets(sock, sock') /\ SubInv' /\ DownInv'
    BY <1>1, <1>4, <2>1, TookKeeps
  <2>3. outcome' \in [Mine -> {"none", "sending", "sent", "failed"}]
    <3>1. \A m \in Mine : outcome[m] \in {"none", "sending", "sent", "failed"}
      BY <1>2 DEF UserTypes
    <3>2. QED
      BY <2>1, <3>1
  <2>4. UserTypes' /\ HeardInv'
    BY <1>2, <2>1, <2>3 DEF UserTypes, SmpIInv, SmpQueueInv, HeardInv
  <2>5. QED
    BY <1>1, <1>3, <2>1, <2>2, <2>4, QueueStep DEF SmpQueueInv
<1>9. CASE Smp!Refused(k)
  <2>1. /\ sock' = Smp!Took(k) /\ UNCHANGED <<Smp!client, Smp!bridge>>
        /\ calls' = calls \ {Smp!Down(k).of} /\ calls # {} /\ Smp!Rejected(Smp!Down(k).of)
        /\ UNCHANGED <<subscribed, accepted, handled, home, subscriber, box, heard, since>>
    BY <1>9 DEF Smp!Refused, Smp!server
  <2>2. /\ invitation' \in {"none", "new", "sub", "made", "failed"}
        /\ invitation' # "none" /\ invitation # "none"
        /\ outcome' \in [Mine -> {"none", "sending", "sent", "failed"}]
    BY <2>1, Rejections
  <2>3. SameSockets(sock, sock') /\ SubInv' /\ DownInv'
    BY <1>1, <2>1, <2>2, TookKeeps
  <2>4. UserTypes' /\ HeardInv'
    BY <1>2, <2>1, <2>2 DEF UserTypes, SmpIInv, SmpQueueInv, HeardInv
  <2>5. QED
    BY <1>1, <1>3, <2>1, <2>3, <2>4, QueueStep DEF SmpQueueInv
<1>10. CASE Smp!Pushed(k)
  BY <1>1, <1>10, PushedStep
<1>11. QED
  BY <1>5, <1>6, <1>7, <1>8, <1>9, <1>10 DEF Smp!Receive

\* Frames that fit the socket they are delivered to.
LEMMA Fitting ==
    ASSUME NEW sk \in [Smp!Socket -> SockRec], NEW tk, NEW k \in Smp!Socket \cup {Smp!None},
           NEW frames \in Seq(Smp!Frame),
           tk = Smp!Deliver(sk, k, frames),
           \A i \in 1..Len(frames) : Fits(k, frames[i])
    PROVE  \A j \in Smp!Socket : \A i \in Nat : i \in 1..Len(tk[j].down) =>
              \/ \E h \in 1..Len(sk[j].down) : tk[j].down[i] = sk[j].down[h]
              \/ Fits(j, tk[j].down[i])
<1> SUFFICES ASSUME NEW j \in Smp!Socket, NEW i \in Nat, i \in 1..Len(tk[j].down)
             PROVE  \/ \E h \in 1..Len(sk[j].down) : tk[j].down[i] = sk[j].down[h]
                    \/ Fits(j, tk[j].down[i])
  OBVIOUS
<1>1. tk[j].down = sk[j].down \/ (j = k /\ tk[j].down = sk[j].down \o frames)
  <2>1. Delivered(sk, k, frames, tk)
    BY Delivers
  <2>2. QED
    BY <2>1 DEF Delivered
<1>2. CASE tk[j].down = sk[j].down
  BY <1>2
<1>3. CASE j = k /\ tk[j].down = sk[j].down \o frames
  <2>1. sk[j] \in SockRec
    OBVIOUS
  <2>2. PICK q \in Seq(Smp!Frame) : q = sk[j].down
    BY <2>1 DEF SockRec
  <2>3. i \in 1..Len(q \o frames)
    BY <1>3, <2>2
  <2>4. \/ i \in 1..Len(q) /\ (q \o frames)[i] = q[i]
        \/ \E h \in 1..Len(frames) : (q \o frames)[i] = frames[h]
    BY <2>3, SequenceParts
  <2>5. QED
    BY <1>3, <2>2, <2>4
<1>4. QED
  BY <1>1, <1>2, <1>3

LEMMA OneFrame ==
    ASSUME NEW f \in Smp!Frame
    PROVE  <<f>> \in Seq(Smp!Frame) /\ \A i \in 1..Len(<<f>>) : <<f>>[i] = f
OBVIOUS

\* An answer to anything but SUB fits every socket; a push, the subscriber's.
LEMMA AnswersFit ==
    ASSUME SmpIInv
    PROVE  /\ \A c \in Smp!Call : \A k \in Smp!Socket \cup {Smp!None} :
                c.cmd # "SUB" => Fits(k, Smp!Reply("OK", c)) /\ Fits(k, Smp!Reply("ERR", c))
           /\ \A m \in Smp!Message : Fits(subscriber, Smp!PushOf(m))
BY DEF Fits, Smp!Reply, Smp!PushOf

LEMMA ServerTakesStep ==
    ASSUME SmpBounds, SmpIInv, NEW k \in Smp!Socket, Smp!ServerTakes(k)
    PROVE  SmpIInv'
<1> DEFINE taken == [sock EXCEPT ![k].up = Tail(@)]
<1>1. UserTypes
  BY TypeParts DEF SmpIInv
<1>2. PICK c : c = Head(sock[k].up)
  OBVIOUS
<1>3. /\ sock[k].st \in {"open", "closing"} /\ sock[k].up # <<>>
      /\ UNCHANGED <<Smp!client, Smp!bridge, told, stopped, survivors>>
      /\ UNCHANGED <<calls, subscribed, invitation, outcome, accepted, handled, home, heard, since>>
  BY DEF Smp!ServerTakes, Smp!users, Smp!past
<1>4. \/ /\ c.cmd \in {"NEW", "SEND"} /\ sock' = Smp!Deliver(taken, k, <<Smp!Reply("ERR", c)>>)
         /\ UNCHANGED <<subscriber, box>>
      \/ /\ c.cmd = "NEW" /\ sock' = Smp!Deliver(taken, k, <<Smp!Reply("OK", c)>>)
         /\ UNCHANGED <<subscriber, box>>
      \/ /\ c.cmd = "SUB" /\ subscriber' = k /\ UNCHANGED box
         /\ sock' = Smp!Deliver(taken, k, <<Smp!Reply("OK", c)>> \o [i \in DOMAIN box |-> Smp!PushOf(box[i])])
      \/ /\ c.cmd = "SEND" /\ box' = Append(box, c.msg) /\ UNCHANGED subscriber
         /\ sock' = Smp!Deliver(Smp!Deliver(taken, k, <<Smp!Reply("OK", c)>>), subscriber, <<Smp!PushOf(c.msg)>>)
      \/ /\ c.cmd = "ACK" /\ box' = Smp!Without(box, c.msg) /\ UNCHANGED subscriber
         /\ sock' = Smp!Deliver(taken, k, <<Smp!Reply("OK", c)>>)
  BY <1>2 DEF Smp!ServerTakes
<1>5. sock \in [Smp!Socket -> SockRec] /\ \A j \in Smp!Socket : sock[j].up \in Seq(Smp!Call)
  BY SmpTypes DEF SmpIInv
<1>6. PICK tk : tk = taken
  OBVIOUS
<1>7. /\ SameSockets(sock, tk) /\ tk \in [Smp!Socket -> SockRec]
      /\ \A j \in Smp!Socket : tk[j].down = sock[j].down
      /\ \A j \in Smp!Socket \ {k} : tk[j].up = sock[j].up
      /\ tk[k].up = Tail(sock[k].up)
  <2>1. /\ SameSockets(sock, taken) /\ \A j \in Smp!Socket : taken[j].down = sock[j].down
        /\ \A j \in Smp!Socket \ {k} : taken[j].up = sock[j].up
        /\ taken[k].up = Tail(sock[k].up)
    BY <1>3, <1>5, Taken, ZenonT(60)
  <2>2. taken \in [Smp!Socket -> SockRec]
    BY <2>1 DEF SameSockets
  <2>3. QED
    BY <1>6, <2>1, <2>2
<1>8. PICK u \in Seq(Smp!Call) : u = sock[k].up
  BY <1>5
<1>9. c = u[1] /\ 1 \in 1..Len(u) /\ c \in Smp!Call
  BY <1>2, <1>3, <1>8, SequenceParts
<1> HIDE DEF taken
<1>10. phase # "off"
  BY <1>3, OffIsEmpty
<1>11. \A j \in Smp!Socket : \A a \in Nat :
          a \in 1..Len(tk[j].up) /\ tk[j].up[a].cmd = "SUB" => SubAt(j, a + (IF j = k THEN 1 ELSE 0))
  <2> SUFFICES ASSUME NEW j \in Smp!Socket, NEW a \in Nat, a \in 1..Len(tk[j].up),
                      tk[j].up[a].cmd = "SUB"
               PROVE  SubAt(j, a + (IF j = k THEN 1 ELSE 0))
    OBVIOUS
  <2>1. CASE j # k
    <3>1. a + 0 = a
      OBVIOUS
    <3>2. QED
      BY <1>7, <2>1, <3>1 DEF SubAt
  <2>2. CASE j = k
    <3>1. u # <<>> /\ a \in 1..Len(Tail(u)) /\ Tail(u)[a].cmd = "SUB"
      BY <1>3, <1>7, <1>8, <2>2
    <3>2. a + 1 \in 1..Len(u) /\ Tail(u)[a] = u[a + 1]
      BY <3>1, SequenceParts
    <3>3. QED
      BY <1>8, <2>2, <3>1, <3>2 DEF SubAt
  <2>3. QED
    BY <2>1, <2>2
<1>12. PICK d \in [Smp!Socket -> {0, 1}] : \A j \in Smp!Socket : d[j] = IF j = k THEN 1 ELSE 0
  <2>1. [j \in Smp!Socket |-> IF j = k THEN 1 ELSE 0] \in [Smp!Socket -> {0, 1}]
    OBVIOUS
  <2>2. QED
    BY <2>1
<1>13. calls # {} => invitation # "none"
  BY DEF SmpIInv, SmpQueueInv, SubInv
<1>14. ASSUME SameSockets(tk, sock'), \A j \in Smp!Socket : sock'[j].up = tk[j].up
       PROVE  /\ SameSockets(sock, sock')
              /\ \A j \in Smp!Socket : \A a \in Nat : SubAt(j, a)' => SubAt(j, a + d[j])
  <2>1. SameSockets(sock, sock')
    BY <1>7, <1>14 DEF SameSockets
  <2>2. ASSUME NEW j \in Smp!Socket, NEW a \in Nat, SubAt(j, a)'
        PROVE  SubAt(j, a + d[j])
    <3>1. a \in 1..Len(tk[j].up) /\ tk[j].up[a].cmd = "SUB"
      BY <1>14, <2>2 DEF SubAt
    <3>2. SubAt(j, a + (IF j = k THEN 1 ELSE 0))
      BY <1>11, <3>1
    <3>3. QED
      BY <1>12, <3>2
  <2>3. QED
    BY <2>1, <2>2
<1>15. HeardInv' <=> (since # Smp!None => since = subscriber')
  BY <1>3 DEF SmpIInv, SmpQueueInv, HeardInv
<1>16. ASSUME c.cmd # "SUB", NEW cmd \in {"OK", "ERR"}, UNCHANGED subscriber,
              NEW sk, sk = Smp!Deliver(tk, k, <<Smp!Reply(cmd, c)>>),
              sock' = sk \/ \E m \in Smp!Message : sock' = Smp!Deliver(sk, subscriber, <<Smp!PushOf(m)>>),
              box' \in Seq(Smp!Message)
       PROVE  SmpIInv'
  <2>1. PICK f \in Smp!Frame : f = Smp!Reply(cmd, c)
    BY <1>9, SmpFrames
  <2>2. Fits(k, f) /\ <<f>> \in Seq(Smp!Frame) /\ \A i \in 1..Len(<<f>>) : Fits(k, <<f>>[i])
    BY <1>9, <1>16, <2>1, OneFrame, AnswersFit
  <2>3. sk = Smp!Deliver(tk, k, <<f>>)
    BY <1>16, <2>1
  <2>4. SameSockets(tk, sk) /\ sk \in [Smp!Socket -> SockRec] /\ \A j \in Smp!Socket : sk[j].up = tk[j].up
    <3>1. Delivered(tk, k, <<f>>, sk)
      BY <1>7, <2>2, <2>3, Delivers
    <3>2. QED
      BY <1>7, <3>1 DEF Delivered, SameSockets
  <2>5. \A j \in Smp!Socket : \A i \in Nat : i \in 1..Len(sk[j].down) =>
           \/ \E h \in 1..Len(sock[j].down) : sk[j].down[i] = sock[j].down[h]
           \/ Fits(j, sk[j].down[i])
    <3>1. \A j \in Smp!Socket : \A i \in Nat : i \in 1..Len(sk[j].down) =>
             \/ \E h \in 1..Len(tk[j].down) : sk[j].down[i] = tk[j].down[h]
             \/ Fits(j, sk[j].down[i])
      BY <1>7, <2>2, <2>3, Fitting
    <3>2. QED
      BY <1>7, <3>1
  <2>6. /\ SameSockets(tk, sock') /\ \A j \in Smp!Socket : sock'[j].up = tk[j].up
        /\ \A j \in Smp!Socket : \A i \in Nat : i \in 1..Len(sock'[j].down) =>
              \/ \E h \in 1..Len(sock[j].down) : sock'[j].down[i] = sock[j].down[h]
              \/ Fits(j, sock'[j].down[i])
    <3>1. CASE sock' = sk
      BY <2>4, <2>5, <3>1
    <3>2. ASSUME NEW m \in Smp!Message, sock' = Smp!Deliver(sk, subscriber, <<Smp!PushOf(m)>>)
          PROVE  /\ SameSockets(tk, sock') /\ \A j \in Smp!Socket : sock'[j].up = tk[j].up
                 /\ \A j \in Smp!Socket : \A i \in Nat : i \in 1..Len(sock'[j].down) =>
                       \/ \E h \in 1..Len(sock[j].down) : sock'[j].down[i] = sock[j].down[h]
                       \/ Fits(j, sock'[j].down[i])
      <4>1. PICK g \in Smp!Frame : g = Smp!PushOf(m)
        BY SmpFrames
      <4>2. PICK r \in Smp!Socket \cup {Smp!None} : r = subscriber
        BY <1>1 DEF UserTypes
      <4>3. <<g>> \in Seq(Smp!Frame) /\ \A i \in 1..Len(<<g>>) : Fits(r, <<g>>[i])
        BY <4>1, <4>2, OneFrame, AnswersFit
      <4>4. PICK wk : wk = sock'
        OBVIOUS
      <4>5. wk = Smp!Deliver(sk, r, <<g>>)
        BY <3>2, <4>1, <4>2, <4>4
      <4>6. SameSockets(sk, wk) /\ \A j \in Smp!Socket : wk[j].up = sk[j].up
        <5>1. Delivered(sk, r, <<g>>, wk)
          BY <2>4, <4>3, <4>5, Delivers
        <5>2. QED
          BY <5>1 DEF Delivered
      <4>7. \A j \in Smp!Socket : \A i \in Nat : i \in 1..Len(wk[j].down) =>
               \/ \E h \in 1..Len(sk[j].down) : wk[j].down[i] = sk[j].down[h]
               \/ Fits(j, wk[j].down[i])
        BY <2>4, <4>3, <4>5, Fitting
      <4>8. \A j \in Smp!Socket : Len(sk[j].down) \in Nat
        <5>1. \A j \in Smp!Socket : sk[j] \in SockRec
          BY <2>4
        <5>2. \A j \in Smp!Socket : sk[j].down \in Seq(Smp!Frame)
          BY <5>1 DEF SockRec
        <5>3. QED
          BY <5>2
      <4>9. \A j \in Smp!Socket : \A i \in Nat : i \in 1..Len(wk[j].down) =>
               \/ \E h \in 1..Len(sock[j].down) : wk[j].down[i] = sock[j].down[h]
               \/ Fits(j, wk[j].down[i])
        <5> SUFFICES ASSUME NEW j \in Smp!Socket, NEW i \in Nat, i \in 1..Len(wk[j].down),
                            ~Fits(j, wk[j].down[i])
                     PROVE  \E h \in 1..Len(sock[j].down) : wk[j].down[i] = sock[j].down[h]
          OBVIOUS
        <5>1. PICK h \in 1..Len(sk[j].down) : wk[j].down[i] = sk[j].down[h]
          BY <4>7
        <5>2. h \in Nat /\ ~Fits(j, sk[j].down[h])
          BY <4>8, <5>1
        <5>3. QED
          BY <2>5, <5>1, <5>2
      <4>10. SameSockets(tk, wk) /\ \A j \in Smp!Socket : wk[j].up = tk[j].up
        BY <2>4, <4>6 DEF SameSockets
      <4>11. QED
        BY <4>4, <4>9, <4>10
    <3>3. QED
      BY <1>16, <3>1, <3>2
  <2>7. SameSockets(sock, sock') /\ SubInv'
    <3>1. SameSockets(sock, sock') /\ \A j \in Smp!Socket : \A a \in Nat : SubAt(j, a)' => SubAt(j, a + d[j])
      BY <1>14, <2>6
    <3>2. SubInv'
      BY <1>3, <1>13, <1>16, <3>1, SubKeeps
    <3>3. QED
      BY <3>1, <3>2
  <2>8. DownInv'
    BY <1>16, <2>6, DownKeeps
  <2>9. UserTypes'
    BY <1>1, <1>3, <1>16 DEF UserTypes
  <2>10. HeardInv'
    BY <1>15, <1>16 DEF SmpIInv, SmpQueueInv, HeardInv
  <2>11. QED
    BY <1>3, <1>10, <2>7, <2>8, <2>9, <2>10, QueueStep DEF SmpQueueInv
<1>17. CASE c.cmd = "SUB"
  <2>1. subscriber' = k /\ UNCHANGED box
        /\ sock' = Smp!Deliver(tk, k, <<Smp!Reply("OK", c)>> \o [i \in DOMAIN box |-> Smp!PushOf(box[i])])
    BY <1>4, <1>6, <1>17
  <2>2. SubAt(k, 1)
    BY <1>8, <1>9, <1>17 DEF SubAt
  <2>3. subscriber = Smp!None /\ NewCall \notin calls /\ invitation # "none"
    BY <2>2 DEF SmpIInv, SmpQueueInv, SubInv
  <2>4. PICK pushes \in Seq(Smp!Frame) : /\ pushes = [i \in DOMAIN box |-> Smp!PushOf(box[i])]
                                        /\ \A i \in 1..Len(pushes) : \E m \in Smp!Message : pushes[i] = Smp!PushOf(m)
    <3>1. box \in Seq(Smp!Message) /\ DOMAIN box = 1..Len(box) /\ Len(box) \in Nat
          /\ \A i \in 1..Len(box) : box[i] \in Smp!Message
      BY <1>1, LenProperties DEF UserTypes
    <3>2. PICK p : p = [i \in 1..Len(box) |-> Smp!PushOf(box[i])]
      OBVIOUS
    <3>3. p \in [1..Len(box) -> Smp!Frame]
      BY <3>1, <3>2, SmpFrames
    <3>4. p \in Seq(Smp!Frame) /\ Len(p) = Len(box)
      BY <3>1, <3>3
    <3>5. \A i \in 1..Len(p) : \E m \in Smp!Message : p[i] = Smp!PushOf(m)
      BY <3>1, <3>2, <3>4
    <3>6. QED
      BY <3>1, <3>2, <3>4, <3>5
  <2>5. PICK f \in Smp!Frame : f = Smp!Reply("OK", c)
    BY <1>9, SmpFrames
  <2>6. PICK frames \in Seq(Smp!Frame) : frames = <<f>> \o pushes
    BY OneFrame, ConcatProperties
  <2>7. \A i \in 1..Len(frames) : frames[i].cmd = "MSG" => frames[i].of.cmd = "SEND"
    <3> SUFFICES ASSUME NEW i \in 1..Len(frames),
                        frames[i].cmd = "MSG" PROVE frames[i].of.cmd = "SEND"
      OBVIOUS
    <3>1. <<f>> \in Seq(Smp!Frame) /\ i \in Nat /\ i \in 1..Len(<<f>> \o pushes)
      BY <2>6, OneFrame
    <3>2. \/ i \in 1..Len(<<f>>) /\ (<<f>> \o pushes)[i] = <<f>>[i]
          \/ \E h \in 1..Len(pushes) : (<<f>> \o pushes)[i] = pushes[h]
      BY <3>1, SequenceParts
    <3>3. frames[i] = f \/ \E m \in Smp!Message : frames[i] = Smp!PushOf(m)
      BY <2>4, <2>6, <3>2, OneFrame, ZenonT(60)
    <3>4. f.cmd # "MSG"
      BY <2>5 DEF Smp!Reply
    <3>5. \A m \in Smp!Message : Smp!PushOf(m).of.cmd = "SEND"
      BY DEF Smp!PushOf
    <3>6. QED
      BY <3>3, <3>4, <3>5
  <2>8. PICK wk : wk = sock' /\ wk = Smp!Deliver(tk, k, frames)
    BY <2>1, <2>4, <2>5, <2>6
  <2>9. /\ SameSockets(tk, wk) /\ \A j \in Smp!Socket : wk[j].up = tk[j].up
        /\ \A j \in Smp!Socket : wk[j].down = tk[j].down \/ (j = k /\ wk[j].down = tk[j].down \o frames)
    <3>1. Delivered(tk, k, frames, wk)
      BY <1>7, <2>8, Delivers
    <3>2. QED
      BY <3>1 DEF Delivered
  <2>10. SameSockets(sock, sock') /\ \A j \in Smp!Socket : \A a \in Nat : SubAt(j, a)' => SubAt(j, a + d[j])
    BY <1>14, <2>8, <2>9
  <2>11. SubInv'
    <3>1. \A j \in Smp!Socket : \A a \in Nat : ~SubAt(j, a)'
      <4> SUFFICES ASSUME NEW j \in Smp!Socket, NEW a \in Nat, SubAt(j, a)' PROVE FALSE
        OBVIOUS
      <4>1. SubAt(j, a + d[j]) /\ a + d[j] \in Nat /\ d[j] \in {0, 1}
        BY <2>10
      <4>2. j = k /\ a + d[j] = 1
        BY <2>2, <4>1 DEF SmpIInv, SmpQueueInv, SubInv
      <4>3. a = 0
        BY <1>12, <4>2
      <4>4. QED
        BY <4>3 DEF SubAt
    <3>2. NewCall' = NewCall
      BY DEF NewCall
    <3>3. QED
      BY <1>3, <2>3, <3>1, <3>2 DEF SubInv
  <2>12. DownInv'
    <3>1. \A j \in Smp!Socket : \A i \in 1..Len(sock[j].down) :
             sock[j].down[i].cmd # "MSG" /\ sock[j].down[i].of.cmd # "SUB"
      BY <2>3, SmpConstants DEF SmpIInv, SmpQueueInv, DownInv
    <3>2. ASSUME NEW j \in Smp!Socket, NEW i \in 1..Len(wk[j].down)
          PROVE  /\ wk[j].down[i].cmd = "MSG" => wk[j].down[i].of.cmd = "SEND"
                 /\ wk[j].down[i].cmd = "MSG" \/ wk[j].down[i].of.cmd = "SUB" => j = k
      <4>1. CASE wk[j].down = tk[j].down
        BY <1>7, <3>1, <3>2, <4>1
      <4>2. CASE j = k /\ wk[j].down = tk[j].down \o frames
        <5>1. PICK q \in Seq(Smp!Frame) : q = sock[j].down
          BY SmpTypes DEF SmpIInv
        <5>2. i \in Nat /\ i \in 1..Len(q \o frames) /\ wk[j].down = q \o frames
          <6>1. wk[j].down = q \o frames
            BY <1>7, <4>2, <5>1
          <6>2. Len(q \o frames) \in Nat
            BY ConcatProperties, LenProperties
          <6>3. i \in 1..Len(q \o frames)
            BY <6>1
          <6>4. QED
            BY <6>1, <6>2, <6>3
        <5>3. \/ i \in 1..Len(q) /\ (q \o frames)[i] = q[i]
              \/ \E h \in 1..Len(frames) : (q \o frames)[i] = frames[h]
          BY <5>2, SequenceParts
        <5>4. QED
          BY <2>7, <3>1, <4>2, <5>1, <5>2, <5>3
      <4>3. QED
        BY <2>9, <4>1, <4>2
    <3>3. QED
      BY <2>1, <2>8, <3>2 DEF DownInv
  <2>13. UserTypes'
    BY <1>1, <1>3, <2>1 DEF UserTypes
  <2>14. HeardInv'
    BY <1>15, <2>3 DEF SmpIInv, SmpQueueInv, HeardInv
  <2>15. QED
    BY <1>3, <1>10, <2>10, <2>11, <2>12, <2>13, <2>14, QueueStep DEF SmpQueueInv
<1>18. CASE c.cmd # "SUB"
  <2>1. box \in Seq(Smp!Message)
    BY <1>1 DEF UserTypes
  <2>2. CASE c.cmd \in {"NEW", "SEND"} /\ sock' = Smp!Deliver(taken, k, <<Smp!Reply("ERR", c)>>)
             /\ UNCHANGED <<subscriber, box>>
    BY <1>6, <1>16, <1>18, <2>1, <2>2
  <2>3. CASE c.cmd = "NEW" /\ sock' = Smp!Deliver(taken, k, <<Smp!Reply("OK", c)>>) /\ UNCHANGED <<subscriber, box>>
    BY <1>6, <1>16, <1>18, <2>1, <2>3
  <2>4. CASE c.cmd = "SEND" /\ box' = Append(box, c.msg) /\ UNCHANGED subscriber
             /\ sock' = Smp!Deliver(Smp!Deliver(taken, k, <<Smp!Reply("OK", c)>>), subscriber, <<Smp!PushOf(c.msg)>>)
    <3>1. PICK m \in Smp!Message : m = c.msg
      BY <1>9, <2>4, CallParts
    <3>2. box' \in Seq(Smp!Message)
      BY <2>1, <2>4, <3>1
    <3>3. QED
      BY <1>6, <1>16, <1>18, <2>4, <3>1, <3>2
  <2>5. CASE c.cmd = "ACK" /\ box' = Smp!Without(box, c.msg) /\ UNCHANGED subscriber
             /\ sock' = Smp!Deliver(taken, k, <<Smp!Reply("OK", c)>>)
    BY <1>6, <1>16, <1>18, <2>1, <2>5, WithoutIsSeq
  <2>6. QED
    BY <1>4, <1>18, <2>2, <2>3, <2>4, <2>5
<1>19. QED
  BY <1>17, <1>18

LEMMA TheirSendStep ==
    ASSUME SmpIInv, NEW m \in Theirs, Smp!TheirSend(m)
    PROVE  SmpIInv'
<1>1. m \in Smp!Message
  BY DEF Smp!Message
<1>2. /\ box' = Append(box, m) /\ sock' = Smp!Deliver(sock, subscriber, <<Smp!PushOf(m)>>)
      /\ UNCHANGED <<Smp!client, Smp!bridge, told, stopped, survivors>>
      /\ UNCHANGED <<calls, subscribed, invitation, outcome, accepted, handled, home, subscriber,
          heard,
                     since>>
  BY DEF Smp!TheirSend, Smp!users, Smp!past
<1>3. UserTypes
  BY TypeParts DEF SmpIInv
<1>4. PICK f \in Smp!Frame : f = Smp!PushOf(m)
  BY <1>1, SmpFrames
<1>5. PICK r \in Smp!Socket \cup {Smp!None} : r = subscriber
  BY <1>3 DEF UserTypes
<1>6. <<f>> \in Seq(Smp!Frame) /\ \A i \in 1..Len(<<f>>) : Fits(r, <<f>>[i])
  BY <1>1, <1>4, <1>5, OneFrame, AnswersFit
<1>7. sock \in [Smp!Socket -> SockRec]
  BY SmpTypes DEF SmpIInv
<1>8. PICK wk : wk = sock' /\ wk = Smp!Deliver(sock, r, <<f>>)
  BY <1>2, <1>4, <1>5
<1>9. /\ SameSockets(sock, wk) /\ \A j \in Smp!Socket : wk[j].up = sock[j].up
      /\ (\A j \in Smp!Socket : sock[j].st # "open") => wk = sock
  <2>1. Delivered(sock, r, <<f>>, wk)
    BY <1>6, <1>7, <1>8, Delivers
  <2>2. QED
    BY <2>1 DEF Delivered
<1>10. \A j \in Smp!Socket : \A i \in Nat : i \in 1..Len(wk[j].down) =>
          \/ \E h \in 1..Len(sock[j].down) : wk[j].down[i] = sock[j].down[h]
          \/ Fits(j, wk[j].down[i])
  BY <1>6, <1>7, <1>8, Fitting
<1>11. DownInv'
  BY <1>2, <1>8, <1>10, DownKeeps
<1>12. PICK d \in [Smp!Socket -> {0, 1}] : \A j \in Smp!Socket : d[j] = 0
  <2>1. [j \in Smp!Socket |-> 0] \in [Smp!Socket -> {0, 1}]
    OBVIOUS
  <2>2. QED
    BY <2>1
<1>13. \A j \in Smp!Socket : \A a \in Nat : SubAt(j, a)' => SubAt(j, a + d[j])
  BY <1>8, <1>9, <1>12 DEF SubAt
<1>14. calls # {} => invitation # "none"
  BY DEF SmpIInv, SmpQueueInv, SubInv
<1>15. SubInv'
  BY <1>2, <1>13, <1>14, SubKeeps
<1>16. UserTypes'
  <2>1. box' \in Seq(Smp!Message)
    BY <1>1, <1>2, <1>3 DEF UserTypes
  <2>2. QED
    BY <1>2, <1>3, <2>1 DEF UserTypes
<1>17. HeardInv'
  BY <1>2 DEF SmpIInv, SmpQueueInv, HeardInv
<1>18. phase = "off" => sock' = sock
  BY <1>8, <1>9, OffIsEmpty
<1>19. QED
  BY <1>2, <1>8, <1>9, <1>11, <1>15, <1>16, <1>17, <1>18, QueueStep DEF SmpQueueInv

LEMMA SmpInit ==
    ASSUME SmpBounds, Smp!Init
    PROVE  SmpIInv
<1>1. /\ sock = [k \in Smp!Socket |-> Smp!Unused]
      /\ conn = [s \in Smp!Server |-> Smp!None]
      /\ state = [s \in Smp!Server |-> "none"]
      /\ global = "disconnected" /\ shown = "disconnected"
      /\ timers = [s \in Smp!Server |-> 0]
      /\ calls = {} /\ subscribed = FALSE
      /\ phase = "off" /\ registered = FALSE
      /\ invitation = "none"
      /\ outcome = [m \in Mine |-> "none"]
      /\ accepted = FALSE /\ handled = {}
      /\ home = Smp!None /\ subscriber = Smp!None /\ box = <<>> /\ posted = {}
      /\ heard = {} /\ since = Smp!None /\ stopped = FALSE
  BY DEF Smp!Init
<1>2. \A k \in Smp!Socket : /\ sock[k] = Smp!Unused /\ sock[k].st = "unused"
                            /\ sock[k].up = <<>> /\ sock[k].down = <<>>
  BY <1>1, UnusedIsSock
<1>3. Smp!TypeOK
  <2>1. sock \in [Smp!Socket -> SockRec]
    BY <1>1, UnusedIsSock
  <2>2. timers \in [Smp!Server -> 0..MaxSockets]
    BY <1>1, SmpConstants
  <2>3. state \in [Smp!Server -> {"none", "connecting", "connected", "error", "disconnected"}]
    BY <1>1
  <2>4. ConnTypes
    BY <1>1, <2>1, <2>2, <2>3 DEF ConnTypes, ShownState
  <2>5. UserTypes
    <3>1. outcome \in [Mine -> {"none", "sending", "sent", "failed"}]
      BY <1>1
    <3>2. box \in Seq(Smp!Message) /\ calls \subseteq Smp!Call /\ handled \subseteq Smp!Message
      BY <1>1
    <3>3. QED
      BY <1>1, <3>1, <3>2 DEF UserTypes
  <2>6. QED
    BY <2>4, <2>5, TypeParts
<1>4. ConnInv
  <2>1. \A s : Smp!Live(s) = {}
    BY <1>2 DEF Smp!Live
  <2>2. OffInv
    BY <1>1, <1>2 DEF OffInv
  <2>3. LiveInv
    BY <1>1, <1>2, <2>1 DEF LiveInv
  <2>4. GlobalInv
    BY <1>1 DEF GlobalInv
  <2>5. TimerInv
    <3>1. \A s : ClosedOf(s) \in SUBSET Smp!Socket
      BY DEF ClosedOf
    <3>2. \A s \in Smp!Server : Cardinality(ClosedOf(s)) \in Nat /\ timers[s] = 0
      BY <1>1, <3>1, Counts
    <3>3. QED
      BY <3>2 DEF TimerInv
  <2>6. SurvivorInv /\ Smp!LostServerHasATimer
    BY <1>1 DEF SurvivorInv, Smp!LostServerHasATimer
  <2>7. QED
    BY <1>2, <2>2, <2>3, <2>4, <2>5, <2>6 DEF ConnInv
<1>5. SmpQueueInv
  <2>1. \A k \in Smp!Socket : \A a \in Nat : ~SubAt(k, a)
    BY <1>2 DEF SubAt
  <2>2. SubInv
    BY <1>1, <2>1 DEF SubInv
  <2>3. DownInv
    BY <1>2 DEF DownInv
  <2>4. HeardInv
    BY <1>1 DEF HeardInv
  <2>5. QED
    BY <2>2, <2>3, <2>4 DEF SmpQueueInv
<1>6. QED
  BY <1>3, <1>4, <1>5 DEF SmpIInv

LEMMA SmpStutter ==
    ASSUME SmpIInv, UNCHANGED Smp!vars
    PROVE  SmpIInv'
<1>1. /\ UNCHANGED <<Smp!client, Smp!bridge, told, stopped, survivors, sock>>
      /\ UNCHANGED <<calls, subscribed, invitation, outcome, accepted, handled, home, subscriber,
          box,
                     heard, since>>
  BY DEF Smp!vars, Smp!users, Smp!server, Smp!past
<1>2. UserTypes'
  BY <1>1, TypeParts DEF SmpIInv, UserTypes
<1>3. SmpQueueInv'
  <2>1. SubInv'
    BY <1>1 DEF SmpIInv, SmpQueueInv, SubInv, SubAt, NewCall
  <2>2. DownInv' /\ HeardInv'
    BY <1>1 DEF SmpIInv, SmpQueueInv, DownInv, HeardInv
  <2>3. QED
    BY <2>1, <2>2 DEF SmpQueueInv
<1>4. SameSockets(sock, sock')
  BY <1>1, SmpTypes DEF SmpIInv, SameSockets
<1>5. QED
  BY <1>1, <1>2, <1>3, <1>4, QueueStep

LEMMA SmpNext ==
    ASSUME SmpBounds, SmpIInv, [Smp!Next]_(Smp!vars)
    PROVE  SmpIInv'
<1>1. CASE \/ Smp!Start \/ Smp!Initialized \/ Smp!Shutdown
           \/ \E s \in Smp!Server : Smp!TimerFires(s) \/ Smp!Accept(s)
           \/ \E k \in Smp!Socket : Smp!Opens(k) \/ Smp!DialFails(k) \/ Smp!Cut(k) \/ Smp!ServerCloses(k) \/ Smp!Closed(k)
  BY <1>1, ConnectionSteps
<1>2. CASE Smp!Create
  BY <1>2, CreateStep
<1>3. CASE \E k \in Smp!Socket : Smp!Receive(k) \/ Smp!ServerTakes(k)
  BY <1>3, ReceiveStep, ServerTakesStep
<1>4. CASE \E m \in Mine : Smp!Send(m)
  BY <1>4, SendStep
<1>5. CASE \E m \in Theirs : Smp!TheirSend(m)
  BY <1>5, TheirSendStep
<1>6. CASE \E m \in handled : Smp!Acknowledge(m)
  BY <1>6, AcknowledgeStep
<1>7. CASE Smp!SomeCall
  BY <1>7, TimesOutStep DEF Smp!SomeCall
<1>8. CASE UNCHANGED Smp!vars
  BY <1>8, SmpStutter
<1>9. QED
  BY <1>1, <1>2, <1>3, <1>4, <1>5, <1>6, <1>7, <1>8 DEF Smp!Next

\* The module that is an instance counts as this one does.
LEMMA CardinalityOfSmp == \A S : Smp!Cardinality(S) = Cardinality(S)
BY DEF Cardinality, Smp!Cardinality

LEMMA OneLive ==
    ASSUME SmpBounds, SmpIInv
    PROVE  Smp!OneLiveSocketPerServer
<1> SUFFICES ASSUME ~stopped, NEW s \in Smp!Server
             PROVE  /\ Cardinality(Smp!Live(s)) <= 1
                    /\ conn[s] # Smp!None <=> \E k \in Smp!Live(s) : sock[k].st = "open" /\ conn[s] = k
                    /\ state[s] = "connected" <=> conn[s] # Smp!None
  BY CardinalityOfSmp DEF Smp!OneLiveSocketPerServer
<1>1. /\ \A j, k \in Smp!Live(s) : j = k
      /\ state[s] = "connected" <=> \E k \in Smp!Live(s) : sock[k].st = "open"
      /\ \A k \in Smp!Live(s) : sock[k].st = "open" <=> conn[s] = k
      /\ conn[s] # Smp!None => conn[s] \in Smp!Live(s)
  BY DEF SmpIInv, ConnInv, LiveInv
<1>2. Cardinality(Smp!Live(s)) <= 1
  <2>1. CASE Smp!Live(s) = {}
    BY <2>1, FS_EmptySet
  <2>2. CASE Smp!Live(s) # {}
    <3>1. PICK k : Smp!Live(s) = {k}
      BY <1>1, <2>2
    <3>2. Cardinality({k}) = 1
      BY FS_Singleton
    <3>3. QED
      BY <3>1, <3>2
  <2>3. QED
    BY <2>1, <2>2
<1>3. Smp!None \notin Smp!Live(s)
  BY SmpConstants DEF Smp!Live
<1>4. QED
  BY <1>1, <1>2, <1>3

\* For any servers, sockets, messages and faults: the types hold, a server has at most
\* one live socket, the interface shows what is so, and a lost server is dialled again.
THEOREM ClientHolds == ASSUME SmpBounds PROVE Smp!Spec => []Smp!SmpInv
<1>1. Smp!Init => SmpIInv
  BY SmpInit
<1>2. SmpIInv /\ [Smp!Next]_(Smp!vars) => SmpIInv'
  BY SmpNext
<1>3. SmpIInv => Smp!SmpInv
  <2> SUFFICES ASSUME SmpIInv PROVE Smp!SmpInv
    OBVIOUS
  <2>1. Smp!TypeOK /\ Smp!LostServerHasATimer
    BY DEF SmpIInv, ConnInv
  <2>2. Smp!OneLiveSocketPerServer
    BY OneLive
  <2>3. Smp!ShownIsTrue
    BY <2>2 DEF SmpIInv, ConnInv, GlobalInv, Smp!OneLiveSocketPerServer, Smp!ShownIsTrue
  <2>4. QED
    BY <2>1, <2>2, <2>3 DEF Smp!SmpInv
<1>4. QED
  BY <1>1, <1>2, <1>3, PTL DEF Smp!Spec

\* For any servers and faults: after a shutdown no server is connected again but those
\* whose dial, timer or half-closed socket the shutdown left behind, or that an
\* invitation names.
THEOREM ComebacksAreSurvivors == ASSUME SmpBounds PROVE Smp!Spec => []Smp!ConnectedAgainNeedsASurvivor
<1>1. Smp!Init => SmpIInv
  BY SmpInit
<1>2. SmpIInv /\ [Smp!Next]_(Smp!vars) => SmpIInv'
  BY SmpNext
<1>3. SmpIInv => Smp!ConnectedAgainNeedsASurvivor
  BY DEF SmpIInv, ConnInv, SurvivorInv, Smp!ConnectedAgainNeedsASurvivor
<1>4. QED
  BY <1>1, <1>2, <1>3, PTL DEF Smp!Spec
-----------------------------------------------------------------------------
(* No push is thrown away once initialize has returned: before the queue   *)
(* is listed nothing is sent to it, so nothing can be pushed.              *)

\* On no socket is a SEND on its way up or a push on its way down.
Calm(sk) ==
    \A j \in Smp!Socket :
        /\ \A i \in 1..Len(sk[j].up) : sk[j].up[i].cmd # "SEND"
        /\ \A i \in 1..Len(sk[j].down) : sk[j].down[i].cmd # "MSG"

ListedInv ==
    /\ invitation = "made" => subscribed
    /\ ~subscribed => Calm(sock) /\ box = <<>>
RegisteredInv == phase = "done" /\ ~stopped => registered
PushInv == ListedInv /\ RegisteredInv

LEMMA CalmRequest ==
    ASSUME NEW sk \in [Smp!Socket -> SockRec], Calm(sk), NEW k \in Smp!Socket, NEW cmd, NEW msg,
           cmd # "SEND", [cmd |-> cmd, msg |-> msg] \in Smp!Call
    PROVE  Calm(Smp!Request(sk, k, cmd, msg))
<1>1. PICK tk : tk = Smp!Request(sk, k, cmd, msg)
  OBVIOUS
<1>2. PICK c \in Smp!Call : c = [cmd |-> cmd, msg |-> msg] /\ c.cmd # "SEND"
  OBVIOUS
<1>3. /\ \A j \in Smp!Socket : tk[j].down = sk[j].down
      /\ \A j \in Smp!Socket \ {k} : tk[j].up = sk[j].up
      /\ tk[k].up = Append(sk[k].up, c)
  BY <1>1, <1>2, Requests
<1>4. sk[k] \in SockRec
  OBVIOUS
<1>5. PICK u \in Seq(Smp!Call) : u = sk[k].up
  BY <1>4 DEF SockRec
<1>6. \A i \in 1..Len(Append(u, c)) : Append(u, c)[i].cmd # "SEND"
  <2> SUFFICES ASSUME NEW i \in 1..Len(Append(u, c)) PROVE Append(u, c)[i].cmd # "SEND"
    OBVIOUS
  <2>1. i \in Nat
    OBVIOUS
  <2>2. \/ i \in 1..Len(u) /\ Append(u, c)[i] = u[i]
        \/ i = Len(u) + 1 /\ Append(u, c)[i] = c
    BY <2>1, SequenceParts
  <2>3. \A h \in 1..Len(u) : u[h].cmd # "SEND"
    BY <1>5 DEF Calm
  <2>4. QED
    BY <1>2, <2>2, <2>3
<1>7. \A i \in 1..Len(tk[k].up) : tk[k].up[i].cmd # "SEND"
  BY <1>3, <1>5, <1>6
<1>8. Calm(tk)
  BY <1>3, <1>7 DEF Calm
<1>9. QED
  BY <1>1, <1>8

LEMMA CalmDeliver ==
    ASSUME NEW sk \in [Smp!Socket -> SockRec], Calm(sk), NEW k \in Smp!Socket \cup {Smp!None},
           NEW frames \in Seq(Smp!Frame), \A i \in 1..Len(frames) : frames[i].cmd # "MSG"
    PROVE  Calm(Smp!Deliver(sk, k, frames))
<1>1. PICK tk : tk = Smp!Deliver(sk, k, frames)
  OBVIOUS
<1>2. Delivered(sk, k, frames, tk)
  BY <1>1, Delivers
<1>3. ASSUME NEW j \in Smp!Socket, NEW i \in 1..Len(tk[j].down)
      PROVE  tk[j].down[i].cmd # "MSG"
  <2>1. sk[j] \in SockRec
    OBVIOUS
  <2>2. PICK q \in Seq(Smp!Frame) : q = sk[j].down
    BY <2>1 DEF SockRec
  <2>3. \A h \in 1..Len(q) : q[h].cmd # "MSG"
    BY <2>2 DEF Calm
  <2>4. CASE tk[j].down = q
    BY <1>3, <2>3, <2>4
  <2>5. CASE tk[j].down = q \o frames
    <3>1. Len(q \o frames) \in Nat
      BY ConcatProperties, LenProperties
    <3>2. i \in Nat /\ i \in 1..Len(q \o frames)
      BY <2>5, <3>1
    <3>3. \/ i \in 1..Len(q) /\ (q \o frames)[i] = q[i]
          \/ \E h \in 1..Len(frames) : (q \o frames)[i] = frames[h]
      BY <3>2, SequenceParts
    <3>4. QED
      BY <2>3, <2>5, <3>3
  <2>6. QED
    BY <1>2, <2>2, <2>4, <2>5 DEF Delivered
<1>4. Calm(tk)
  BY <1>2, <1>3 DEF Calm, Delivered
<1>5. QED
  BY <1>1, <1>4

\* A frame is taken off a socket.
LEMMA CalmTook ==
    ASSUME SmpIInv, Calm(sock), NEW k \in Smp!Socket, sock[k].st = "open", sock[k].down # <<>>
    PROVE  Calm(Smp!Took(k)) /\ Smp!Down(k).cmd # "MSG" /\ Smp!Took(k) \in [Smp!Socket -> SockRec]
<1>1. PICK tk : tk = Smp!Took(k)
  OBVIOUS
<1>2. /\ tk \in [Smp!Socket -> SockRec] /\ \A j \in Smp!Socket : tk[j].up = sock[j].up
      /\ \A j \in Smp!Socket : \A i \in Nat : i \in 1..Len(tk[j].down) =>
            \E h \in 1..Len(sock[j].down) : tk[j].down[i] = sock[j].down[h]
  BY <1>1, Tooks
<1>3. \A j \in Smp!Socket : Len(tk[j].down) \in Nat
  <2>1. \A j \in Smp!Socket : tk[j] \in SockRec
    BY <1>2
  <2>2. \A j \in Smp!Socket : tk[j].down \in Seq(Smp!Frame)
    BY <2>1 DEF SockRec
  <2>3. QED
    BY <2>2
<1>4. Calm(tk)
  <2>1. ASSUME NEW j \in Smp!Socket, NEW i \in 1..Len(tk[j].down)
        PROVE  tk[j].down[i].cmd # "MSG"
    <3>1. i \in Nat
      BY <1>3
    <3>2. PICK h \in 1..Len(sock[j].down) : tk[j].down[i] = sock[j].down[h]
      BY <1>2, <3>1
    <3>3. sock[j].down[h].cmd # "MSG"
      BY DEF Calm
    <3>4. QED
      BY <3>2, <3>3
  <2>2. \A j \in Smp!Socket : \A i \in 1..Len(tk[j].up) : tk[j].up[i].cmd # "SEND"
    BY <1>2 DEF Calm
  <2>3. QED
    BY <2>1, <2>2 DEF Calm
<1>5. PICK q \in Seq(Smp!Frame) : q = sock[k].down
  BY SmpTypes DEF SmpIInv
<1>6. Smp!Down(k) = q[1] /\ 1 \in 1..Len(q)
  BY <1>5, SequenceParts DEF Smp!Down
<1>7. Smp!Down(k).cmd # "MSG"
  BY <1>5, <1>6 DEF Calm
<1>8. QED
  BY <1>1, <1>2, <1>4, <1>7

\* What opens and closes, empties sockets at the most.
LEMMA ConnectionsListed ==
    ASSUME SmpBounds, SmpIInv, ListedInv,
           \/ Smp!Start \/ Smp!Initialized \/ Smp!Shutdown
           \/ \E s \in Smp!Server : Smp!TimerFires(s) \/ Smp!Accept(s)
           \/ \E k \in Smp!Socket : Smp!Opens(k) \/ Smp!DialFails(k) \/ Smp!Cut(k) \/ Smp!ServerCloses(k) \/ Smp!Closed(k)
    PROVE  ListedInv'
<1>1. Connects /\ UNCHANGED <<subscribed, invitation, box>>
  BY ConnectionMoves
<1>2. \A j \in Smp!Socket : sock'[j].up \in {sock[j].up, <<>>} /\ sock'[j].down \in {sock[j].down, <<>>}
  BY <1>1 DEF Connects
<1>3. Calm(sock) => Calm(sock')
  BY <1>2 DEF Calm
<1>4. QED
  BY <1>1, <1>3 DEF ListedInv

\* What the page asks and reads leaves the box of an unlisted queue empty.
LEMMA PageListed ==
    ASSUME SmpBounds, SmpIInv, ListedInv,
           \/ Smp!Create \/ Smp!SomeCall
           \/ \E m \in Mine : Smp!Send(m)
           \/ \E m \in handled : Smp!Acknowledge(m)
           \/ \E k \in Smp!Socket : Smp!Receive(k)
    PROVE  ListedInv'
<1>1. sock \in [Smp!Socket -> SockRec] /\ conn \in [Smp!Server -> Smp!Socket \cup {Smp!None}]
  BY SmpTypes DEF SmpIInv
<1>2. invitation # "none" => home \in Smp!Server
  BY DEF SmpIInv, SmpQueueInv, HeardInv
<1>3. UserTypes
  BY TypeParts DEF SmpIInv
<1>4. CASE Smp!Create
  <2>1. PICK s \in Smp!Server : conn[s] # Smp!None /\ sock' = Smp!Request(sock, conn[s], "NEW", Smp!None)
    BY <1>4 DEF Smp!Create, Smp!Selected
  <2>2. PICK k \in Smp!Socket : k = conn[s]
    BY <1>1, <2>1
  <2>3. Calm(sock) => Calm(sock')
    BY <1>1, <2>1, <2>2, CalmRequest, SmpCalls DEF NewCall
  <2>4. invitation' = "new" /\ UNCHANGED <<subscribed, box>>
    BY <1>4 DEF Smp!Create
  <2>5. QED
    BY <2>3, <2>4 DEF ListedInv
<1>5. CASE Smp!SomeCall
  <2>1. PICK c \in calls : Smp!TimesOut(c)
    BY <1>5 DEF Smp!SomeCall
  <2>2. invitation' \in {invitation, "failed"} /\ UNCHANGED <<sock, subscribed, box>>
    BY <2>1 DEF Smp!TimesOut, Smp!Rejected, Smp!server
  <2>3. QED
    BY <2>2 DEF ListedInv
<1>6. ASSUME NEW m \in Mine, Smp!Send(m) PROVE ListedInv'
  BY <1>6 DEF Smp!Send, ListedInv
<1>7. ASSUME NEW m \in handled, Smp!Acknowledge(m) PROVE ListedInv'
  <2>1. UNCHANGED <<invitation, subscribed, box>>
    BY <1>7 DEF Smp!Acknowledge, Smp!server
  <2>2. CASE conn[home] = Smp!None
    BY <1>7, <2>1, <2>2 DEF Smp!Acknowledge, ListedInv
  <2>3. CASE conn[home] # Smp!None
    <3>1. home \in Smp!Server
      BY <1>2 DEF SmpIInv, SmpQueueInv, HeardInv
    <3>2. PICK k \in Smp!Socket : k = conn[home]
      BY <1>1, <2>3, <3>1
    <3>3. sock' = Smp!Request(sock, k, "ACK", m) /\ m \in Smp!Message
      BY <1>3, <1>7, <2>3, <3>2 DEF Smp!Acknowledge, UserTypes
    <3>4. Calm(sock) => Calm(sock')
      BY <1>1, <3>3, CalmRequest, SmpCalls
    <3>5. QED
      BY <2>1, <3>4 DEF ListedInv
  <2>4. QED
    BY <2>2, <2>3
<1>8. ASSUME NEW k \in Smp!Socket, Smp!Receive(k) PROVE ListedInv'
  <2> SUFFICES ASSUME ~subscribed' PROVE invitation' # "made" /\ Calm(sock') /\ box' = <<>>
    BY DEF ListedInv
  <2>1. sock[k].st = "open" /\ sock[k].down # <<>>
    BY <1>8 DEF Smp!Receive
  <2>2. /\ ~subscribed /\ UNCHANGED box
        /\ \/ sock' = Smp!Took(k) /\ invitation' \in {invitation, "failed"}
           \/ Smp!Created(k) \/ Smp!Pushed(k)
    BY <1>8 DEF Smp!Receive, Smp!LateAnswer, Smp!Created, Smp!Subscribed, Smp!Sent, Smp!Refused,
                Smp!Pushed, Smp!Rejected, Smp!users, Smp!server
  <2>3. invitation # "made" /\ Calm(sock) /\ box' = <<>>
    BY <2>2 DEF ListedInv
  <2>4. Calm(Smp!Took(k)) /\ Smp!Down(k).cmd # "MSG" /\ Smp!Took(k) \in [Smp!Socket -> SockRec]
    BY <2>1, <2>3, CalmTook
  <2>5. CASE sock' = Smp!Took(k) /\ invitation' \in {invitation, "failed"}
    BY <2>3, <2>4, <2>5
  <2>6. CASE Smp!Created(k)
    <3>1. CASE conn[home] = Smp!None
      BY <2>3, <2>4, <2>6, <3>1 DEF Smp!Created
    <3>2. CASE conn[home] # Smp!None
      <4>1. invitation # "none"
        BY <2>6 DEF Smp!Created, SmpIInv, SmpQueueInv, SubInv
      <4>2. PICK n \in Smp!Socket : n = conn[home]
        BY <1>1, <1>2, <3>2, <4>1
      <4>3. sock' = Smp!Request(Smp!Took(k), n, "SUB", Smp!None) /\ invitation' = "sub"
        BY <2>6, <3>2, <4>2 DEF Smp!Created
      <4>4. QED
        BY <2>3, <2>4, <4>3, CalmRequest, SmpCalls
    <3>3. QED
      BY <3>1, <3>2
  <2>7. CASE Smp!Pushed(k)
    BY <2>4, <2>7 DEF Smp!Pushed
  <2>8. QED
    BY <2>2, <2>5, <2>6, <2>7
<1>9. QED
  BY <1>4, <1>5, <1>6, <1>7, <1>8

\* The other party sends to a queue that was made; the server has nothing to push before.
LEMMA OutsideListed ==
    ASSUME SmpBounds, SmpIInv, ListedInv,
           \/ \E k \in Smp!Socket : Smp!ServerTakes(k)
           \/ \E m \in Theirs : Smp!TheirSend(m)
    PROVE  ListedInv'
<1> SUFFICES ASSUME ~subscribed'
             PROVE  invitation' # "made" /\ Calm(sock') /\ box' = <<>>
  BY DEF ListedInv
<1>1. UNCHANGED <<subscribed, invitation>>
  BY DEF Smp!ServerTakes, Smp!TheirSend, Smp!users
<1>2. invitation # "made" /\ Calm(sock) /\ box = <<>>
  BY <1>1 DEF ListedInv
<1>3. PICK k \in Smp!Socket : Smp!ServerTakes(k)
  BY <1>2 DEF Smp!TheirSend
<1>4. sock \in [Smp!Socket -> SockRec]
  BY SmpTypes DEF SmpIInv
<1>5. PICK u \in Seq(Smp!Call) : u = sock[k].up
  BY SmpTypes DEF SmpIInv
<1>6. PICK c \in Smp!Call : c = Head(u) /\ c = u[1] /\ 1 \in 1..Len(u) /\ u # <<>>
  <2>1. u # <<>>
    BY <1>3, <1>5 DEF Smp!ServerTakes
  <2>2. Head(u) = u[1] /\ 1 \in 1..Len(u) /\ u[1] \in Smp!Call
    BY <1>5, <2>1, SequenceParts
  <2>3. QED
    BY <2>1, <2>2
<1>7. c.cmd # "SEND"
  BY <1>2, <1>5, <1>6 DEF Calm
<1>8. PICK tk : tk = [sock EXCEPT ![k].up = Tail(@)]
  OBVIOUS
<1>9. tk \in [Smp!Socket -> SockRec] /\ Calm(tk)
  <2>1. /\ tk \in [Smp!Socket -> SockRec] /\ \A j \in Smp!Socket : tk[j].down = sock[j].down
        /\ \A j \in Smp!Socket \ {k} : tk[j].up = sock[j].up
        /\ tk[k].up = Tail(sock[k].up)
    <3>1. sock[k].up # <<>>
      BY <1>5, <1>6
    <3>2. QED
      BY <1>4, <1>8, <3>1, Taken, ZenonT(60) DEF SameSockets
  <2>2. \A i \in 1..Len(Tail(u)) : Tail(u)[i].cmd # "SEND"
    <3> SUFFICES ASSUME NEW i \in 1..Len(Tail(u)) PROVE Tail(u)[i].cmd # "SEND"
      OBVIOUS
    <3>1. i \in Nat /\ i + 1 \in 1..Len(u) /\ Tail(u)[i] = u[i + 1]
      BY <1>6, SequenceParts
    <3>2. QED
      BY <1>2, <1>5, <3>1 DEF Calm
  <2>3. QED
    BY <1>2, <1>5, <2>1, <2>2 DEF Calm
<1>10. /\ \/ \E cmd \in {"OK", "ERR"} : sock' = Smp!Deliver(tk, k, <<Smp!Reply(cmd, c)>>)
          \/ sock' = Smp!Deliver(tk, k, <<Smp!Reply("OK", c)>> \o [i \in DOMAIN box |-> Smp!PushOf(box[i])])
       /\ box' = box \/ box' = Smp!Without(box, c.msg)
  BY <1>3, <1>5, <1>6, <1>7, <1>8 DEF Smp!ServerTakes
<1>11. box' = <<>>
  <2>1. \A m : m \notin Smp!Range(<<>>)
    BY DEF Smp!Range
  <2>2. \A m : Smp!Without(<<>>, m) = <<>>
    BY <2>1 DEF Smp!Without
  <2>3. QED
    BY <1>2, <1>10, <2>2
<1>12. [i \in DOMAIN box |-> Smp!PushOf(box[i])] = <<>>
  BY <1>2
<1>13. \E cmd \in {"OK", "ERR"} : sock' = Smp!Deliver(tk, k, <<Smp!Reply(cmd, c)>>)
  <2>1. PICK f \in Smp!Frame : f = Smp!Reply("OK", c)
    BY SmpFrames
  <2>2. <<f>> \in Seq(Smp!Frame) /\ <<f>> \o <<>> = <<f>>
    OBVIOUS
  <2>3. QED
    BY <1>10, <1>12, <2>1, <2>2
<1>14. Calm(sock')
  <2>1. PICK cmd \in {"OK", "ERR"} : sock' = Smp!Deliver(tk, k, <<Smp!Reply(cmd, c)>>)
    BY <1>13
  <2>2. PICK f \in Smp!Frame : f = Smp!Reply(cmd, c) /\ f.cmd # "MSG"
    BY SmpFrames DEF Smp!Reply
  <2>3. QED
    BY <1>9, <2>1, <2>2, OneFrame, CalmDeliver
<1>15. QED
  BY <1>1, <1>2, <1>11, <1>14

LEMMA RegisteredStep ==
    ASSUME RegisteredInv, [Smp!Next]_(Smp!vars)
    PROVE  RegisteredInv'
<1> USE DEF RegisteredInv, Smp!bridge
<1>1. CASE Smp!Start \/ Smp!Initialized \/ Smp!Shutdown \/ Smp!Create \/ Smp!SomeCall
  BY <1>1 DEF Smp!Start, Smp!Initialized, Smp!Shutdown, Smp!Create, Smp!SomeCall, Smp!TimesOut
<1>2. ASSUME NEW s \in Smp!Server, Smp!TimerFires(s) \/ Smp!Accept(s) PROVE RegisteredInv'
  BY <1>2 DEF Smp!TimerFires, Smp!Accept
<1>3. ASSUME NEW k \in Smp!Socket, Smp!Opens(k) \/ Smp!DialFails(k) \/ Smp!Cut(k) \/ Smp!ServerCloses(k)
                                   \/ Smp!Closed(k) PROVE RegisteredInv'
  BY <1>3 DEF Smp!Opens, Smp!DialFails, Smp!Cut, Smp!ServerCloses, Smp!Closed
<1>4. ASSUME NEW k \in Smp!Socket, Smp!Receive(k) \/ Smp!ServerTakes(k) PROVE RegisteredInv'
  BY <1>4 DEF Smp!Receive, Smp!LateAnswer, Smp!Created, Smp!Subscribed, Smp!Sent, Smp!Refused,
              Smp!Pushed, Smp!ServerTakes
<1>5. ASSUME NEW m, Smp!Send(m) \/ Smp!TheirSend(m) \/ Smp!Acknowledge(m) PROVE RegisteredInv'
  BY <1>5 DEF Smp!Send, Smp!TheirSend, Smp!Acknowledge
<1>6. CASE UNCHANGED Smp!vars
  BY <1>6 DEF Smp!vars
<1>7. QED
  BY <1>1, <1>2, <1>3, <1>4, <1>5, <1>6 DEF Smp!Next

LEMMA PushNext ==
    ASSUME SmpBounds, SmpIInv, PushInv, [Smp!Next]_(Smp!vars)
    PROVE  PushInv'
<1>1. RegisteredInv'
  BY RegisteredStep DEF PushInv
<1>2. ListedInv'
  <2>1. ListedInv
    BY DEF PushInv
  <2>2. CASE UNCHANGED Smp!vars
    BY <2>1, <2>2 DEF Smp!vars, Smp!users, Smp!server, ListedInv, Calm
  <2>3. QED
    BY <2>1, <2>2, ConnectionsListed, PageListed, OutsideListed DEF Smp!Next
<1>3. QED
  BY <1>1, <1>2 DEF PushInv

LEMMA PushInit ==
    ASSUME SmpBounds, Smp!Init
    PROVE  PushInv
<1>1. /\ sock = [k \in Smp!Socket |-> Smp!Unused] /\ box = <<>> /\ invitation = "none" /\ phase = "off"
  BY DEF Smp!Init
<1>2. \A k \in Smp!Socket : sock[k].up = <<>> /\ sock[k].down = <<>>
  BY <1>1, UnusedIsSock
<1>3. Calm(sock)
  BY <1>2 DEF Calm
<1>4. QED
  BY <1>1, <1>3 DEF PushInv, ListedInv, RegisteredInv

\* Only a push that finds the queue unlisted or the bridge unregistered is thrown away.
LEMMA DroppedByPush ==
    ASSUME [Smp!Next]_(Smp!vars), dropped' # dropped
    PROVE  \E k \in Smp!Socket : /\ Smp!Pushed(k) /\ ~(subscribed /\ registered)
                                 /\ sock[k].st = "open" /\ sock[k].down # <<>>
<1> USE DEF Smp!past
<1>1. CASE Smp!Start \/ Smp!Initialized \/ Smp!Shutdown \/ Smp!Create \/ Smp!SomeCall
  BY <1>1 DEF Smp!Start, Smp!Initialized, Smp!Shutdown, Smp!Create, Smp!SomeCall, Smp!TimesOut
<1>2. ASSUME NEW s \in Smp!Server, Smp!TimerFires(s) \/ Smp!Accept(s) PROVE FALSE
  BY <1>2 DEF Smp!TimerFires, Smp!Accept
<1>3. ASSUME NEW k \in Smp!Socket, Smp!Opens(k) \/ Smp!DialFails(k) \/ Smp!Cut(k) \/ Smp!ServerCloses(k)
                                   \/ Smp!Closed(k) PROVE FALSE
  BY <1>3 DEF Smp!Opens, Smp!DialFails, Smp!Cut, Smp!ServerCloses, Smp!Closed
<1>4. ASSUME NEW k \in Smp!Socket, Smp!ServerTakes(k) PROVE FALSE
  BY <1>4 DEF Smp!ServerTakes
<1>5. ASSUME NEW k \in Smp!Socket, Smp!Receive(k)
      PROVE  Smp!Pushed(k) /\ ~(subscribed /\ registered) /\ sock[k].st = "open" /\ sock[k].down # <<>>
  BY <1>5 DEF Smp!Receive, Smp!LateAnswer, Smp!Created, Smp!Subscribed, Smp!Sent, Smp!Refused,
              Smp!Pushed
<1>6. ASSUME NEW m, Smp!Send(m) \/ Smp!TheirSend(m) \/ Smp!Acknowledge(m) PROVE FALSE
  BY <1>6 DEF Smp!Send, Smp!TheirSend, Smp!Acknowledge
<1>7. CASE UNCHANGED Smp!vars
  BY <1>7 DEF Smp!vars
<1>8. QED
  BY <1>1, <1>2, <1>3, <1>4, <1>5, <1>6, <1>7 DEF Smp!Next

LEMMA DroppedEarly ==
    ASSUME SmpIInv, PushInv, [Smp!Next]_(Smp!vars), dropped' # dropped
    PROVE  phase = "starting" \/ stopped
<1>1. PICK k \in Smp!Socket : /\ Smp!Pushed(k) /\ ~(subscribed /\ registered)
                              /\ sock[k].st = "open" /\ sock[k].down # <<>>
  BY DroppedByPush
<1>2. phase # "off" /\ Smp!Down(k).cmd = "MSG"
  BY <1>1, Tooks DEF Smp!Pushed
<1>3. subscribed
  BY <1>1, <1>2, CalmTook DEF PushInv, ListedInv
<1>4. phase \in {"off", "starting", "done"}
  BY OffTypes DEF SmpIInv, ConnTypes
<1>5. QED
  BY <1>1, <1>2, <1>3, <1>4 DEF PushInv, RegisteredInv

\* For any servers, messages and faults: a push is thrown away only while initialize is
\* under way or after a shutdown.  A SUB that timed out leaves a queue that is pushed but
\* not listed; nobody can send to it then, since its invitation failed.
THEOREM PushesAreKept == ASSUME SmpBounds PROVE Smp!Spec => Smp!NoPushIsDropped
<1>1. Smp!Init => SmpIInv /\ PushInv
  BY SmpInit, PushInit
<1>2. SmpIInv /\ PushInv /\ [Smp!Next]_(Smp!vars) => (SmpIInv /\ PushInv)'
  BY SmpNext, PushNext
<1>3. SmpIInv /\ PushInv /\ [Smp!Next]_(Smp!vars)
      => [dropped' # dropped => phase = "starting" \/ stopped]_(Smp!vars)
  BY DroppedEarly
<1>4. QED
  BY <1>1, <1>2, <1>3, PTL DEF Smp!Spec, Smp!NoPushIsDropped
=============================================================================
