------------------------ MODULE EncryptedStoreProofs ------------------------
(***************************************************************************)
(* Proofs about EncryptedStore, for any updates and any bounds: a stored   *)
(* blob always opens, and what localStorage has held it keeps, unless one  *)
(* of the three named causes occurred.                                     *)
(*                                                                         *)
(* The argument: the key of a page is the one in IndexedDB from the moment *)
(* anybody can use it.  The captured states under way form a chain between *)
(* what is stored and what is in memory, each including the one before, so *)
(* that a write that overtakes no other loses nothing; and a page that was *)
(* hydrated with what is stored starts such a chain.                       *)
(*                                                                         *)
(* The second half is about Assistant, an instance of which is Bot.        *)
(***************************************************************************)
EXTENDS EncryptedStore, FiniteSets, FiniteSetTheorems, SequenceTheorems, TLAPS

-----------------------------------------------------------------------------
(* The inductive invariant                                                 *)

\* The key that is used is the stored one, and nothing is written without it.
KeyInv ==
    /\ BlobOpens
    /\ keyPromise = "resolved" => key = dbKey /\ key \in Nat
    /\ keyPromise = "storing" => dbKey = None /\ key \in Nat
    /\ keyPromise = "none" => writes = <<>> /\ page # "hydrating"
    /\ page = "closed" => keyPromise = "none"
    /\ page = "hydrating" => raw # None

\* While a page is hydrated, nothing changes what it has read.
HydrationInv ==
    page = "hydrating" => raw = blob /\ blob # None /\ blob.key # Clear /\ writes = <<>>

\* Stored, captured in the order of the calls, in memory: each includes the
\* one before.
ChainInv ==
    /\ durable \subseteq Saved
    /\ page = "ready" => Saved \subseteq mem
    /\ \A i \in 1..Len(writes) : Saved \subseteq writes[i] /\ writes[i] \subseteq mem
    /\ \A i, j \in 1..Len(writes) : i < j => writes[i] \subseteq writes[j]

\* The last write under way, or else what is stored, is what the page shows.
Newest == IF writes = <<>> THEN Saved ELSE writes[Len(writes)]

SettledInv ==
    /\ blinded => faults > 0
    /\ page = "ready" /\ faults = 0 => mem = Newest

IInv ==
    /\ TypeOK
    /\ KeyInv
    /\ early \/ overtaken \/ blinded \/ (HydrationInv /\ ChainInv)
    /\ early \/ overtaken \/ SettledInv

-----------------------------------------------------------------------------
(* Sequences                                                               *)

\* Removing an element shifts those behind it by one.
LEMMA RemoveShifts ==
    ASSUME NEW S, NEW s \in Seq(S), NEW i \in 1..Len(s)
    PROVE  /\ RemoveAt(s, i) \in Seq(S)
           /\ Len(RemoveAt(s, i)) = Len(s) - 1
           /\ \A j \in 1..Len(s) - 1 :
                 RemoveAt(s, i)[j] = IF j < i THEN s[j] ELSE s[j + 1]
<1> DEFINE a == SubSeq(s, 1, i - 1)
           b == SubSeq(s, i + 1, Len(s))
<1>1. Len(s) \in Nat /\ i \in Nat /\ i >= 1 /\ i <= Len(s)
  OBVIOUS
<1>2. a \in Seq(S) /\ Len(a) = i - 1 /\ \A j \in 1..i - 1 : a[j] = s[j]
  BY <1>1
<1>3. b \in Seq(S) /\ Len(b) = Len(s) - i /\ \A j \in 1..Len(s) - i : b[j] = s[i + j]
  BY <1>1
<1>4. RemoveAt(s, i) = a \o b
  BY DEF RemoveAt
<1> HIDE DEF a, b
<1>5. a \o b \in Seq(S) /\ Len(a \o b) = Len(s) - 1
  <2>1. a \o b \in Seq(S) /\ Len(a \o b) = Len(a) + Len(b)
    BY <1>2, <1>3, ConcatProperties
  <2>2. QED
    BY <1>1, <1>2, <1>3, <2>1
<1>6. ASSUME NEW j \in 1..Len(s) - 1
      PROVE  (a \o b)[j] = IF j < i THEN s[j] ELSE s[j + 1]
  <2>1. CASE j < i
    BY <1>1, <1>2, <1>3, <2>1
  <2>2. CASE ~ (j < i)
    <3>1. (a \o b)[j] = b[j - (i - 1)]
      BY <1>1, <1>2, <1>3, <2>2
    <3>2. j - (i - 1) \in 1..Len(s) - i /\ i + (j - (i - 1)) = j + 1
      BY <1>1, <2>2
    <3>3. b[j - (i - 1)] = s[i + (j - (i - 1))]
      BY <1>3, <3>2
    <3>4. QED
      BY <2>2, <3>1, <3>2, <3>3
  <2>3. QED
    BY <2>1, <2>2
<1>7. QED
  BY <1>4, <1>5, <1>6

\* What an appended element adds to a sequence.
LEMMA AppendAdds ==
    ASSUME NEW S, NEW s \in Seq(S), NEW e \in S
    PROVE  /\ Append(s, e) \in Seq(S) /\ Len(Append(s, e)) = Len(s) + 1
           /\ Append(s, e)[Len(s) + 1] = e /\ Append(s, e) # <<>>
           /\ \A j \in 1..Len(s) : Append(s, e)[j] = s[j]
OBVIOUS

-----------------------------------------------------------------------------
(* Type correctness and the key                                            *)

LEMMA InitIInv == Init => IInv
<1> SUFFICES ASSUME Init PROVE IInv
  OBVIOUS
<1>1. TypeOK
  <2>1. blob \in {None} \cup Blob
    BY StoreAssumption DEF Init, Blob
  <2>2. durable \subseteq Update
    BY StoreAssumption DEF Init
  <2>3. writes \in Seq(SUBSET Update) /\ Len(writes) <= MaxWrites
    BY StoreAssumption DEF Init
  <2>4. /\ keys \in 0..MaxKeys /\ loads \in 0..MaxLoads /\ faults \in 0..MaxFaults
        /\ {early, overtaken, blinded} \subseteq BOOLEAN
    <3>1. keys = 0 /\ loads = 0 /\ faults = 0
      BY DEF Init
    <3>2. keys \in 0..MaxKeys /\ loads \in 0..MaxLoads /\ faults \in 0..MaxFaults
      BY <3>1, StoreAssumption
    <3>3. {early, overtaken, blinded} \subseteq BOOLEAN
      BY Zenon DEF Init
    <3>4. QED
      BY <3>2, <3>3
  <2>5. /\ raw = None /\ dbKey = None /\ key = None /\ page = "closed"
        /\ keyPromise = "none" /\ mem = {}
    BY DEF Init
  <2>6. QED
    BY <2>1, <2>2, <2>3, <2>4, <2>5 DEF TypeOK
<1>2. KeyInv
  BY DEF Init, KeyInv, BlobOpens
<1>3. HydrationInv /\ ChainInv
  BY DEF Init, HydrationInv, ChainInv, Saved
<1>4. SettledInv
  BY DEF Init, SettledInv
<1>5. QED
  BY <1>1, <1>2, <1>3, <1>4 DEF IInv

\* The new types of the fields of a blob.
LEMMA BlobType ==
    ASSUME TypeOK, blob # None
    PROVE  blob.key \in {Clear} \cup Nat /\ blob.updates \subseteq Update
BY DEF TypeOK, Blob

\* A set() appends what is then in memory.
LEMMA SetAppends ==
    ASSUME TypeOK, NEW new \in SUBSET Update, Set(new)
    PROVE  /\ mem' = mem \cup new /\ mem' \subseteq Update
           /\ writes' = Append(writes, mem')
           /\ writes' \in Seq(SUBSET Update) /\ Len(writes') = Len(writes) + 1
           /\ Len(writes) < MaxWrites
           /\ writes' # <<>> /\ writes'[Len(writes')] = mem'
           /\ \A j \in 1..Len(writes) : writes'[j] = writes[j]
<1>1. writes \in Seq(SUBSET Update) /\ mem \subseteq Update
  BY DEF TypeOK
<1>2. mem' = mem \cup new /\ mem' \in SUBSET Update
  BY <1>1 DEF Set
<1>3. writes' = Append(writes, mem') /\ Len(writes) < MaxWrites
  BY DEF Set
<1>4. QED
  BY <1>1, <1>2, <1>3, AppendAdds

\* A write that ends, and one that fails, leave the queue without it.
LEMMA WriteLeaves ==
    ASSUME TypeOK, NEW i \in DOMAIN writes, writes' = RemoveAt(writes, i)
    PROVE  /\ i \in 1..Len(writes) /\ Len(writes) \in Nat
           /\ writes[i] \subseteq Update
           /\ writes' \in Seq(SUBSET Update) /\ Len(writes') = Len(writes) - 1
           /\ \A j \in 1..Len(writes') :
                 writes'[j] = IF j < i THEN writes[j] ELSE writes[j + 1]
<1>1. writes \in Seq(SUBSET Update) /\ i \in 1..Len(writes)
  BY DEF TypeOK
<1>2. /\ RemoveAt(writes, i) \in Seq(SUBSET Update)
      /\ Len(RemoveAt(writes, i)) = Len(writes) - 1
      /\ \A j \in 1..Len(writes) - 1 :
            RemoveAt(writes, i)[j] = IF j < i THEN writes[j] ELSE writes[j + 1]
  BY <1>1, RemoveShifts
<1>3. writes[i] \subseteq Update /\ Len(writes) \in Nat
  BY <1>1
<1>4. QED
  BY <1>1, <1>2, <1>3

LEMMA NextType == TypeOK /\ KeyInv /\ [Next]_vars => TypeOK'
<1> SUFFICES ASSUME TypeOK, KeyInv, [Next]_vars PROVE TypeOK'
  OBVIOUS
<1> USE StoreAssumption
<1>1. CASE Load
  BY <1>1, BlobType DEF Load, TypeOK, Blob, NeedKey, storage, causes
<1>2. ASSUME NEW new \in SUBSET Update, Set(new) PROVE TypeOK'
  <2>1. mem' \subseteq Update /\ writes' \in Seq(SUBSET Update) /\ Len(writes') <= MaxWrites
    <3>1. Len(writes) \in Nat /\ MaxWrites \in Nat
      BY DEF TypeOK
    <3>2. QED
      BY <1>2, <3>1, SetAppends
  <2>2. QED
    BY <1>2, <2>1 DEF Set, TypeOK, NeedKey, storage
<1>3. CASE Touch
  BY <1>2, <1>3 DEF Touch
<1>4. CASE \E u \in Update : Add(u)
  BY <1>2, <1>4 DEF Add
<1>5. CASE Close
  BY <1>5 DEF Close, TypeOK, storage, causes
<1>6. CASE Hydrate
  <2>1. mem' \subseteq Update
    BY <1>6 DEF Hydrate, TypeOK, KeyInv, Blob
  <2>2. QED
    BY <1>6, <2>1 DEF Hydrate, TypeOK, storage, causes
<1>7. CASE ReadKey
  BY <1>7 DEF ReadKey, TypeOK, storage, causes
<1>8. CASE KeyStored
  BY <1>8 DEF KeyStored, TypeOK, causes
<1>9. CASE KeyFails
  BY <1>9 DEF KeyFails, TypeOK, Faulty, storage
<1>10. ASSUME NEW i \in DOMAIN writes, WriteEnds(i) PROVE TypeOK'
  <2>1. writes' = RemoveAt(writes, i)
    BY <1>10 DEF WriteEnds
  <2>2. /\ writes[i] \subseteq Update
        /\ writes' \in Seq(SUBSET Update) /\ Len(writes') <= MaxWrites
    BY <2>1, WriteLeaves DEF TypeOK
  <2>3. key \in Nat
    BY <1>10 DEF WriteEnds, KeyInv
  <2>4. QED
    BY <1>10, <2>2, <2>3 DEF WriteEnds, TypeOK, Blob
<1>11. ASSUME NEW i \in DOMAIN writes, WriteFails(i) PROVE TypeOK'
  <2>1. writes' = RemoveAt(writes, i)
    BY <1>11 DEF WriteFails
  <2>2. writes' \in Seq(SUBSET Update) /\ Len(writes') <= MaxWrites
    BY <2>1, WriteLeaves DEF TypeOK
  <2>3. QED
    BY <1>11, <2>2 DEF WriteFails, TypeOK, Faulty, storage, causes
<1>12. CASE UNCHANGED vars
  BY <1>12 DEF vars, TypeOK
<1>13. QED
  BY <1>1, <1>3, <1>4, <1>5, <1>6, <1>7, <1>8, <1>9, <1>10, <1>11, <1>12 DEF Next

\* The key of a page is stored before it is used, by nobody else.
LEMMA NextKey == TypeOK /\ KeyInv /\ [Next]_vars => KeyInv'
<1> SUFFICES ASSUME TypeOK, KeyInv, [Next]_vars PROVE KeyInv'
  OBVIOUS
<1> USE StoreAssumption
<1>1. CASE Load
  BY <1>1 DEF Load, TypeOK, KeyInv, BlobOpens, NeedKey, storage, causes
<1>2. ASSUME NEW new, Set(new) PROVE KeyInv'
  <2>1. keyPromise' # "none" /\ page' = page /\ page # "closed"
    BY <1>2 DEF Set, NeedKey
  <2>2. keyPromise' \in {"resolved", "storing"} => keyPromise' = keyPromise
    BY <1>2 DEF Set, NeedKey
  <2>3. QED
    BY <1>2, <2>1, <2>2 DEF Set, KeyInv, BlobOpens, storage
<1>3. CASE Touch
  BY <1>2, <1>3 DEF Touch
<1>4. CASE \E u \in Update : Add(u)
  BY <1>2, <1>4 DEF Add
<1>5. CASE Close
  BY <1>5 DEF Close, KeyInv, BlobOpens, storage
<1>6. CASE Hydrate
  BY <1>6 DEF Hydrate, KeyInv, BlobOpens, storage
<1>7. CASE ReadKey
  BY <1>7 DEF ReadKey, TypeOK, KeyInv, BlobOpens, storage
<1>8. CASE KeyStored
  BY <1>8, BlobType DEF KeyStored, KeyInv, BlobOpens
<1>9. CASE KeyFails
  BY <1>9 DEF KeyFails, KeyInv, BlobOpens, storage
<1>10. ASSUME NEW i \in DOMAIN writes, WriteEnds(i) PROVE KeyInv'
  BY <1>10 DEF WriteEnds, KeyInv, BlobOpens
<1>11. ASSUME NEW i \in DOMAIN writes, WriteFails(i) PROVE KeyInv'
  BY <1>11 DEF WriteFails, KeyInv, BlobOpens, storage
<1>12. CASE UNCHANGED vars
  BY <1>12 DEF vars, KeyInv, BlobOpens
<1>13. QED
  BY <1>1, <1>3, <1>4, <1>5, <1>6, <1>7, <1>8, <1>9, <1>10, <1>11, <1>12 DEF Next

-----------------------------------------------------------------------------
(* Nothing stored is lost                                                  *)

Kept == early \/ overtaken \/ blinded \/ (HydrationInv /\ ChainInv)

\* A write that fails leaves a chain a chain.
LEMMA FailureKeepsChain ==
    ASSUME TypeOK, HydrationInv, ChainInv, NEW i \in DOMAIN writes, WriteFails(i)
    PROVE  HydrationInv' /\ ChainInv'
<1>1. writes' = RemoveAt(writes, i)
  BY DEF WriteFails
<1>2. /\ i \in 1..Len(writes) /\ Len(writes) \in Nat
      /\ writes' \in Seq(SUBSET Update) /\ Len(writes') = Len(writes) - 1
      /\ \A j \in 1..Len(writes') : writes'[j] = IF j < i THEN writes[j] ELSE writes[j + 1]
  BY <1>1, WriteLeaves
<1>3. page # "hydrating"
  BY <1>2 DEF HydrationInv
<1>4. UNCHANGED <<blob, durable, page, mem>>
  BY DEF WriteFails, storage
<1>5. Saved' = Saved
  BY <1>4 DEF Saved
<1>6. \A j \in 1..Len(writes') : Saved \subseteq writes'[j] /\ writes'[j] \subseteq mem
  BY <1>2 DEF ChainInv
<1>7. \A j, k \in 1..Len(writes') : j < k => writes'[j] \subseteq writes'[k]
  BY <1>2, SMTT(60) DEF ChainInv
<1>8. QED
  BY <1>3, <1>4, <1>5, <1>6, <1>7 DEF HydrationInv, ChainInv

\* The first write under way includes what is stored and is included in the
\* others, so that it may become what is stored.
LEMMA FirstKeepsChain ==
    ASSUME TypeOK, KeyInv, HydrationInv, ChainInv, 1 \in DOMAIN writes, WriteEnds(1)
    PROVE  HydrationInv' /\ ChainInv'
<1>1. writes' = RemoveAt(writes, 1)
  BY DEF WriteEnds
<1>2. /\ 1 \in 1..Len(writes) /\ Len(writes) \in Nat /\ writes[1] \subseteq Update
      /\ writes' \in Seq(SUBSET Update) /\ Len(writes') = Len(writes) - 1
      /\ \A j \in 1..Len(writes') : writes'[j] = IF j < 1 THEN writes[j] ELSE writes[j + 1]
  BY <1>1, WriteLeaves
<1>3. \A j \in 1..Len(writes') : j + 1 \in 1..Len(writes) /\ 1 < j + 1 /\ writes'[j] = writes[j + 1]
  BY <1>2
<1>4. page # "hydrating" /\ page # "closed"
  BY <1>2 DEF HydrationInv, KeyInv
<1>5. page' = page /\ mem' = mem /\ durable' = durable \cup writes[1]
  BY DEF WriteEnds
<1>6. Saved' = writes[1]
  <2>1. blob' = [key |-> key, updates |-> writes[1]] /\ key \in Nat
    BY DEF WriteEnds, KeyInv
  <2>2. blob' # None
    BY <1>2, <2>1, StoreAssumption DEF Blob
  <2>3. QED
    BY <2>1, <2>2 DEF Saved
<1>7. durable' \subseteq Saved' /\ Saved' \subseteq mem'
  BY <1>2, <1>5, <1>6 DEF ChainInv
<1>8. \A j \in 1..Len(writes') : Saved' \subseteq writes'[j] /\ writes'[j] \subseteq mem'
  BY <1>2, <1>3, <1>5, <1>6 DEF ChainInv
<1>9. \A j, k \in 1..Len(writes') : j < k => writes'[j] \subseteq writes'[k]
  <2>1. \A j, k \in 1..Len(writes') : j < k => j + 1 < k + 1
    BY <1>2
  <2>2. QED
    BY <1>3, <2>1 DEF ChainInv
<1>10. QED
  BY <1>4, <1>5, <1>7, <1>8, <1>9 DEF HydrationInv, ChainInv

\* A set() of a page that is hydrated extends the chain.
LEMMA SetKeepsChain ==
    ASSUME TypeOK, ChainInv, NEW new \in SUBSET Update, Set(new), page = "ready"
    PROVE  HydrationInv' /\ ChainInv'
<1>1. /\ mem' = mem \cup new
      /\ Len(writes) \in Nat /\ Len(writes') = Len(writes) + 1
      /\ writes'[Len(writes) + 1] = mem'
      /\ \A j \in 1..Len(writes) : writes'[j] = writes[j]
  BY SetAppends DEF TypeOK
<1>2. UNCHANGED <<blob, durable, page>>
  BY DEF Set, storage
<1>3. Saved' = Saved
  BY <1>2 DEF Saved
<1>4. \A j \in 1..Len(writes') : j \in 1..Len(writes) \/ j = Len(writes) + 1
  BY <1>1
<1>5. \A j \in 1..Len(writes') : Saved \subseteq writes'[j] /\ writes'[j] \subseteq mem'
  BY <1>1, <1>4 DEF ChainInv
<1>6. ASSUME NEW j \in 1..Len(writes'), NEW k \in 1..Len(writes'), j < k
      PROVE  writes'[j] \subseteq writes'[k]
  <2>1. j \in 1..Len(writes)
    BY <1>1, <1>6
  <2>2. CASE k \in 1..Len(writes)
    BY <1>1, <1>6, <2>1, <2>2 DEF ChainInv
  <2>3. CASE k = Len(writes) + 1
    BY <1>1, <1>5, <2>3
  <2>4. QED
    BY <1>4, <2>2, <2>3
<1>7. durable' \subseteq Saved' /\ Saved' \subseteq mem'
  BY <1>1, <1>2, <1>3 DEF ChainInv
<1>8. QED
  BY <1>2, <1>3, <1>5, <1>6, <1>7 DEF HydrationInv, ChainInv

LEMMA NextKept == TypeOK /\ KeyInv /\ Kept /\ [Next]_vars => Kept'
<1> SUFFICES ASSUME TypeOK, KeyInv, Kept, [Next]_vars PROVE Kept'
  OBVIOUS
<1> DEFINE Flagged == early \/ overtaken \/ blinded
<1>1. ASSUME Flagged PROVE Kept'
  <2>1. Flagged'
    <3>1. ASSUME NEW new, Set(new) PROVE Flagged'
      <4>1. early' = (early \/ page = "hydrating") /\ overtaken' = overtaken /\ blinded' = blinded
        BY <3>1 DEF Set
      <4>2. QED
        BY <1>1, <4>1, Zenon
    <3>2. ASSUME NEW i \in DOMAIN writes, WriteEnds(i) PROVE Flagged'
      <4>1. overtaken' = (overtaken \/ i > 1) /\ early' = early /\ blinded' = blinded
        BY <3>2 DEF WriteEnds
      <4>2. QED
        BY <1>1, <4>1, Zenon
    <3>3. CASE KeyFails
      BY <1>1, <3>3 DEF KeyFails
    <3>4. CASE UNCHANGED causes
      BY <1>1, <3>4 DEF causes
    <3>5. QED
      BY <3>1, <3>2, <3>3, <3>4
      DEF Next, Touch, Add, Load, Close, Hydrate, ReadKey, KeyStored, WriteFails, vars, causes
  <2>2. QED
    BY <2>1 DEF Kept
<1>2. ASSUME HydrationInv, ChainInv, ~ Flagged PROVE Kept'
  <2>1. CASE Load
    <3>1. writes = <<>> /\ writes' = writes
      BY <2>1 DEF Load, KeyInv
    <3>2. UNCHANGED <<blob, durable>> /\ raw' = blob
      BY <2>1 DEF Load, storage
    <3>3. Saved' = Saved
      BY <3>2 DEF Saved
    <3>4. page' = "ready" => Saved \subseteq mem'
      BY <2>1 DEF Load, Saved
    <3>5. page' = "hydrating" => blob # None /\ blob.key # Clear
      BY <2>1 DEF Load
    <3>6. HydrationInv' /\ ChainInv'
      BY <1>2, <3>1, <3>2, <3>3, <3>4, <3>5 DEF HydrationInv, ChainInv
    <3>7. QED
      BY <3>6 DEF Kept
  <2>2. ASSUME NEW new \in SUBSET Update, Set(new) PROVE Kept'
    <3>1. CASE page = "ready"
      BY <1>2, <2>2, <3>1, SetKeepsChain DEF Kept
    <3>2. CASE page = "hydrating"
      BY <2>2, <3>2 DEF Set, Kept
    <3>3. QED
      BY <2>2, <3>1, <3>2 DEF Set, TypeOK
  <2>3. CASE Touch
    BY <2>2, <2>3 DEF Touch
  <2>4. CASE \E u \in Update : Add(u)
    BY <2>2, <2>4 DEF Add
  <2>5. CASE Close
    <3>1. UNCHANGED <<blob, durable>> /\ page' = "closed" /\ writes' = <<>>
      BY <2>5 DEF Close, storage
    <3>2. QED
      BY <1>2, <3>1 DEF Kept, HydrationInv, ChainInv, Saved
  <2>6. CASE Hydrate
    <3>1. raw = blob /\ blob # None /\ blob.key # Clear /\ writes = <<>>
      BY <1>2, <2>6 DEF Hydrate, HydrationInv
    <3>2. raw.key = key
      BY <2>6, <3>1 DEF Hydrate, KeyInv, BlobOpens
    <3>3. /\ UNCHANGED <<blob, durable, writes>> /\ page' = "ready"
          /\ mem' = blob.updates
      BY <2>6, <3>1, <3>2 DEF Hydrate, storage
    <3>4. QED
      BY <1>2, <3>1, <3>3 DEF Kept, HydrationInv, ChainInv, Saved
  <2>7. CASE ReadKey \/ KeyStored
    <3>1. UNCHANGED <<blob, durable, page, raw, mem, writes>>
      BY <2>7 DEF ReadKey, KeyStored, storage
    <3>2. QED
      BY <1>2, <3>1 DEF Kept, HydrationInv, ChainInv, Saved
  <2>8. CASE KeyFails
    <3>1. CASE page = "hydrating"
      BY <2>8, <3>1 DEF KeyFails, Kept
    <3>2. CASE page = "ready"
      <4>1. UNCHANGED <<blob, durable, mem>> /\ page' = "ready" /\ writes' = <<>>
        BY <2>8 DEF KeyFails, storage
      <4>2. QED
        BY <1>2, <3>2, <4>1 DEF Kept, HydrationInv, ChainInv, Saved
    <3>3. page # "closed"
      BY <2>8 DEF KeyFails, KeyInv
    <3>4. QED
      BY <3>1, <3>2, <3>3 DEF TypeOK
  <2>9. ASSUME NEW i \in DOMAIN writes, WriteEnds(i) PROVE Kept'
    <3>1. CASE i = 1
      BY <1>2, <2>9, <3>1, FirstKeepsChain DEF Kept
    <3>2. CASE i > 1
      BY <2>9, <3>2 DEF WriteEnds, Kept
    <3>3. i \in 1..Len(writes)
      BY DEF TypeOK
    <3>4. QED
      BY <3>1, <3>2, <3>3
  <2>10. ASSUME NEW i \in DOMAIN writes, WriteFails(i) PROVE Kept'
    BY <1>2, <2>10, FailureKeepsChain DEF Kept
  <2>11. CASE UNCHANGED vars
    BY <1>2, <2>11 DEF vars, Kept, HydrationInv, ChainInv, Saved
  <2>12. QED
    BY <2>1, <2>3, <2>4, <2>5, <2>6, <2>7, <2>8, <2>9, <2>10, <2>11 DEF Next
<1>3. QED
  BY <1>1, <1>2 DEF Kept

-----------------------------------------------------------------------------
(* What a page shows                                                       *)

Settled == early \/ overtaken \/ SettledInv

LEMMA NextSettled ==
    TypeOK /\ KeyInv /\ Kept /\ Settled /\ [Next]_vars => Settled'
<1> SUFFICES ASSUME TypeOK, KeyInv, Kept, Settled, [Next]_vars PROVE Settled'
  OBVIOUS
<1> DEFINE Flagged == early \/ overtaken
<1>1. ASSUME Flagged PROVE Settled'
  <2>1. Flagged'
    <3>1. ASSUME NEW new, Set(new) PROVE Flagged'
      <4>1. early' = (early \/ page = "hydrating") /\ overtaken' = overtaken
        BY <3>1 DEF Set
      <4>2. QED
        BY <1>1, <4>1, Zenon
    <3>2. ASSUME NEW i \in DOMAIN writes, WriteEnds(i) PROVE Flagged'
      <4>1. overtaken' = (overtaken \/ i > 1) /\ early' = early
        BY <3>2 DEF WriteEnds
      <4>2. QED
        BY <1>1, <4>1, Zenon
    <3>3. CASE UNCHANGED <<early, overtaken>>
      BY <1>1, <3>3
    <3>4. QED
      BY <3>1, <3>2, <3>3
      DEF Next, Touch, Add, Load, Close, Hydrate, ReadKey, KeyStored, KeyFails, WriteFails, vars, causes
  <2>2. QED
    BY <2>1 DEF Settled
<1>2. ASSUME SettledInv, ~ Flagged PROVE Settled'
  <2>1. CASE Load
    <3>1. writes = <<>> /\ writes' = writes /\ blob' = blob
      BY <2>1 DEF Load, KeyInv, storage
    <3>2. page' = "ready" => mem' = Saved
      BY <2>1 DEF Load, Saved
    <3>3. faults' = faults /\ blinded' = blinded
      BY <2>1 DEF Load, causes
    <3>4. QED
      BY <1>2, <3>1, <3>2, <3>3 DEF Settled, SettledInv, Newest, Saved
  <2>2. ASSUME NEW new \in SUBSET Update, Set(new) PROVE Settled'
    <3>1. writes' # <<>> /\ writes'[Len(writes')] = mem'
      BY <2>2, SetAppends
    <3>2. faults' = faults /\ blinded' = blinded
      BY <2>2 DEF Set
    <3>3. QED
      BY <1>2, <3>1, <3>2 DEF Settled, SettledInv, Newest
  <2>3. CASE Touch
    BY <2>2, <2>3 DEF Touch
  <2>4. CASE \E u \in Update : Add(u)
    BY <2>2, <2>4 DEF Add
  <2>5. CASE Close
    BY <1>2, <2>5 DEF Close, Settled, SettledInv, causes
  <2>6. CASE Hydrate
    <3>1. faults' = faults /\ blinded' = blinded
      BY <2>6 DEF Hydrate, causes
    <3>2. CASE faults # 0
      BY <1>2, <3>1, <3>2 DEF Settled, SettledInv
    <3>3. CASE faults = 0
      <4>1. HydrationInv
        BY <1>2, <3>3 DEF Kept, SettledInv
      <4>2. raw = blob /\ blob # None /\ blob.key # Clear /\ writes = <<>>
        BY <2>6, <4>1 DEF Hydrate, HydrationInv
      <4>3. mem' = blob.updates /\ blob' = blob /\ writes' = writes
        BY <2>6, <4>2 DEF Hydrate, KeyInv, BlobOpens, storage
      <4>4. QED
        BY <1>2, <3>1, <4>2, <4>3 DEF Settled, SettledInv, Newest, Saved
    <3>4. QED
      BY <3>2, <3>3
  <2>7. CASE ReadKey \/ KeyStored
    <3>1. UNCHANGED <<blob, page, mem, writes, faults, blinded>>
      BY <2>7 DEF ReadKey, KeyStored, storage, causes
    <3>2. QED
      BY <1>2, <3>1 DEF Settled, SettledInv, Newest, Saved
  <2>8. CASE KeyFails
    <3>1. faults' > 0
      BY <2>8 DEF KeyFails, Faulty, TypeOK
    <3>2. QED
      BY <3>1 DEF Settled, SettledInv
  <2>9. ASSUME NEW i \in DOMAIN writes, WriteEnds(i) PROVE Settled'
    <3>1. writes' = RemoveAt(writes, i)
      BY <2>9 DEF WriteEnds
    <3>2. /\ i \in 1..Len(writes) /\ Len(writes) \in Nat /\ writes[i] \subseteq Update
          /\ writes' \in Seq(SUBSET Update) /\ Len(writes') = Len(writes) - 1
          /\ \A j \in 1..Len(writes') :
                writes'[j] = IF j < i THEN writes[j] ELSE writes[j + 1]
      BY <3>1, WriteLeaves
    <3>3. UNCHANGED <<page, mem, faults, blinded>>
      BY <2>9 DEF WriteEnds
    <3>4. CASE i > 1
      BY <2>9, <3>4 DEF WriteEnds, Settled
    <3>5. CASE i = 1 /\ Len(writes) = 1
      <4>1. writes # <<>> /\ writes' = <<>>
        BY <3>2, <3>5
      <4>2. blob' = [key |-> key, updates |-> writes[1]] /\ key \in Nat
        BY <2>9, <3>5 DEF WriteEnds, KeyInv
      <4>3. blob' # None
        BY <3>2, <3>5, <4>2, StoreAssumption DEF Blob
      <4>4. Newest' = writes[1] /\ Newest = writes[1]
        BY <3>5, <4>1, <4>2, <4>3 DEF Newest, Saved
      <4>5. QED
        BY <1>2, <3>3, <4>4 DEF Settled, SettledInv
    <3>6. CASE i = 1 /\ Len(writes) > 1
      <4>1. writes # <<>> /\ writes' # <<>>
        BY <3>2, <3>6
      <4>2. Len(writes') \in 1..Len(writes') /\ Len(writes') + 1 = Len(writes)
        BY <3>2, <3>6
      <4>3. writes'[Len(writes')] = writes[Len(writes)]
        BY <3>2, <3>6, <4>2
      <4>4. Newest' = Newest
        BY <4>1, <4>3 DEF Newest
      <4>5. QED
        BY <1>2, <3>3, <4>4 DEF Settled, SettledInv
    <3>7. QED
      BY <3>2, <3>4, <3>5, <3>6
  <2>10. ASSUME NEW i \in DOMAIN writes, WriteFails(i) PROVE Settled'
    <3>1. faults' > 0
      BY <2>10 DEF WriteFails, Faulty, TypeOK
    <3>2. QED
      BY <3>1 DEF Settled, SettledInv
  <2>11. CASE UNCHANGED vars
    BY <1>2, <2>11 DEF vars, Settled, SettledInv, Newest, Saved
  <2>12. QED
    BY <2>1, <2>3, <2>4, <2>5, <2>6, <2>7, <2>8, <2>9, <2>10, <2>11 DEF Next
<1>3. QED
  BY <1>1, <1>2 DEF Settled

-----------------------------------------------------------------------------
(* The theorems                                                            *)

LEMMA Invariance == Spec => []IInv
<1>1. IInv /\ [Next]_vars => IInv'
  BY NextType, NextKey, NextKept, NextSettled DEF IInv, Kept, Settled
<1>2. QED
  BY InitIInv, <1>1, PTL DEF Spec

\* Every variable of the store, of the key and of the page keeps its type.
THEOREM TypeCorrect == Spec => []TypeOK
<1>1. IInv => TypeOK
  BY DEF IInv
<1>2. QED
  BY Invariance, <1>1, PTL

\* loadOrCreateKey stores a key before encryptAtRest uses it: after any crash,
\* what is in localStorage can be decrypted with what is in IndexedDB.
THEOREM BlobAlwaysOpens == Spec => []BlobOpens
<1>1. IInv => BlobOpens
  BY DEF IInv, KeyInv
<1>2. QED
  BY Invariance, <1>1, PTL

\* Nothing that setItem has stored is lost, but for an early set(), an
\* overtaken encryption, or a getItem that took a failure for an empty store.
THEOREM StoredIsKept == Spec => []StoredStaysStored
<1>1. IInv => StoredStaysStored
  BY DEF IInv, ChainInv, StoredStaysStored
<1>2. QED
  BY Invariance, <1>1, PTL

\* A hydrated page without a setItem under way shows what is stored, unless
\* something failed, or a set() was early, or an encryption was overtaken.
THEOREM SettledPageIsSaved == Spec => []SettledIsSaved
<1>1. IInv => SettledIsSaved
  BY DEF IInv, SettledInv, Newest, SettledIsSaved
<1>2. QED
  BY Invariance, <1>1, PTL
-----------------------------------------------------------------------------
(* The assistant: the same for Assistant, for any three people and any     *)
(* number of messages, commands, taps and failures.  Bot is that module;   *)
(* its bound on failures is BotFaults here.                                *)
(*                                                                         *)
(* The argument: an update is in one place, held by Telegram, waiting in   *)
(* the proxy or in the hands of one task, so that a task is known by its   *)
(* message.  A draft is then shown by the one task that made it, and only  *)
(* after that tapped on; and as long as its taps come one at a time, how   *)
(* far the task of a tap has got says what the draft's status may be and   *)
(* whether the client has it.                                              *)

CONSTANTS Owner, Client, Contact, Claims, MaxUpdates, MaxAtOnce, BotFaults
VARIABLES backend, process, user, drafts, document, updates, batch, proxy, tasks, buttons, budget,
          written, replied, answers, reported, hurt, ownerless, raced, crossed, stopped

Bot == INSTANCE Assistant WITH MaxFaults <- BotFaults

\* What Assistant assumes of its constants.
BotBounds ==
    /\ Cardinality({Owner, Client, Contact}) = 3
    /\ Claims \subseteq {Owner, Client, Contact} \X {"client", "employee"}
    /\ {MaxUpdates, MaxAtOnce, BotFaults} \subseteq Nat

-----------------------------------------------------------------------------
(* The inductive invariant                                                 *)

\* What Telegram holds: the batch being handled and what came after it.
Taken   == {updates[i] : i \in 1..batch}
Rest    == {updates[i] : i \in (batch + 1)..Len(updates)}
Held    == Range(updates)
Waiting == Range(proxy)

Used == MaxUpdates - budget.updates

\* An update as the people make it.
UpdateOK(u) ==
  /\ u \in Bot!Update /\ u.id <= Used /\ u.role # "owner"
  /\ IF Bot!Tap(u) THEN u.draft \in DOMAIN drafts ELSE u.draft = 0

\* Every update is in one place, but for the batch, whose updates the tasks handle.
LineInv ==
  /\ updates \in Seq(Bot!Update) /\ batch \in 0..Len(updates) /\ proxy \in Seq(Bot!Update)
  /\ budget \in [updates : 0..MaxUpdates, faults : 0..BotFaults]
  /\ \A u \in Held : UpdateOK(u) /\ ~Bot!OnSimplex(u)
  /\ \A u \in Waiting : UpdateOK(u) /\ Bot!OnSimplex(u)
  /\ \A u, v \in Held \cup Waiting : u.id = v.id => u = v
  /\ \A t \in tasks : UpdateOK(t.of)
  /\ \A t \in tasks : \A u \in Rest \cup Waiting : u.id # t.of.id
  /\ \A t \in tasks : IF Bot!OnSimplex(t.of) THEN \A u \in Held : u.id # t.of.id ELSE t.of \in Taken
  /\ \A t, s \in tasks : t.of.id = s.of.id => t = s
  /\ process = "down" => tasks = {} /\ batch = 0

\* How far a task gets with an update of its kind, and what it carries there.
TapPlace(t) == t.at \in {"lookup", "report"} \/ (t.at \in {"approve", "send", "sent"} /\ t.of.kind = "approve")
OtherPlace(t) ==
  \/ t.at \in {"lookup", "insert"}
  \/ t.at \in {"business", "attach"} /\ Bot!From(t.of) = Owner
  \/ t.at \in {"route", "reply", "ping"} /\ t.of.kind = "text"
  \/ t.at = "reply" /\ t.of.kind = "start"
  \/ t.at = "claim" /\ t.of.kind = "claim"
  \/ t.at \in {"ingest", "chunks"} /\ t.of.kind = "document"
Formed(t) ==
  /\ t \in Bot!Task
  /\ IF Bot!Tap(t.of) THEN TapPlace(t) /\ t.draft = t.of.draft ELSE OtherPlace(t)
  /\ ~Bot!Tap(t.of) /\ t.draft # 0 => t.at \in {"reply", "ping"} /\ t.of.kind = "text" /\ t.user.business
  /\ t.at = "ping" => t.draft # 0 /\ ~Bot!OnSimplex(t.of)
FormInv ==
  \A t \in tasks : Formed(t) /\ t.draft \in {0} \cup DOMAIN drafts /\ (t.at = "ping" => t.of.id \in replied)

StoreInv ==
  /\ backend \in {"sqlite", "supabase"} /\ process \in {"up", "ending", "down"}
  /\ user \in [Bot!Person -> Bot!Row]
  /\ drafts \in Seq([of : Bot!Id, client : Bot!Person, status : {"pending", "approved", "rejected", "sent"}])
  /\ document \in {"none", "row", "searchable"}
  /\ DOMAIN answers = DOMAIN drafts /\ answers \in Seq(Nat)
  /\ buttons \cup reported \cup ownerless \cup crossed \subseteq DOMAIN drafts
  /\ hurt \cup written \subseteq Bot!Update /\ replied \cup raced \cup stopped \subseteq Bot!Id

\* Whoever is known stays known, and nobody has a business before the owner has.
HurtOwner == \E u \in hurt : Bot!From(u) = Owner
UserInv ==
  /\ \A t \in tasks : t.user # Bot!NoRow \/ t.at \in {"business", "attach"} => user[Bot!From(t.of)] # Bot!NoRow
  /\ \A d \in DOMAIN drafts : user[drafts[d].client] # Bot!NoRow
  /\ (\E p \in Bot!Person : user[p].business) \/ (\E t \in tasks : t.user.business)
        => user[Owner].business \/ HurtOwner
  /\ ownerless # {} => HurtOwner \/ (user[Owner].business /\ user[Owner].role # "owner")
  /\ Bot!OwnerHasABusiness

TapsOn(d) == {u \in Held : Bot!Tap(u) /\ u.draft = d}
\* The text whose handler made draft d is still being handled.
Asking(d) == {t \in tasks : ~Bot!Tap(t.of) /\ t.draft = d}

\* A draft is shown once, and nobody taps on it before.
AskInv(d) ==
  /\ \A t \in Asking(d) : /\ drafts[d].of = t.of.id /\ drafts[d].client = t.of.who
                          /\ Bot!Status(d) = "pending" /\ answers[d] = 0 /\ d \notin buttons /\ TapsOn(d) = {}
  /\ Bot!Status(d) = "pending" =>
       \/ d \in buttons \/ Asking(d) # {}
       \/ drafts[d].client = Contact \/ Bot!Hurt(drafts[d].of) \/ d \in ownerless

\* What a tap has done to its draft when it has got that far.
TapInv(d) ==
  /\ \A t \in Bot!OnDraft(d) : t.at \in {"send", "sent", "report"} => Bot!Status(d) # "pending"
  /\ Bot!Status(d) = "approved" => Bot!HurtTap(d) \/ \E t \in Bot!OnDraft(d) : t.at \in {"send", "sent"}

\* As long as taps on d come one at a time.
SingleInv(d) ==
  /\ \A u, v \in TapsOn(d) : u = v
  /\ \A t \in Bot!OnDraft(d) : /\ t.at = "approve" => Bot!Status(d) = "pending"
                               /\ t.at = "send" => Bot!Status(d) = "approved" /\ answers[d] = 0
  /\ answers[d] <= 1 /\ (Bot!Status(d) = "pending" => answers[d] = 0)
  /\ answers[d] > 0 /\ ~Bot!HurtTap(d) =>
       /\ Bot!Status(d) # "rejected"
       /\ \A u \in TapsOn(d) : u.kind = "approve"
       /\ d \in buttons => \E t \in Bot!OnDraft(d) : t.at \in {"sent", "report"}

\* A message makes one draft, as long as it is handled once.
OnceInv(d) ==
  /\ drafts[d].of <= Used
  /\ drafts[d].of \notin stopped =>
       /\ \A u \in Rest \cup Waiting : u.id # drafts[d].of
       /\ \A t \in tasks : t.of.id = drafts[d].of => t.at \in {"reply", "ping"}
       /\ \A e \in DOMAIN drafts : drafts[e].of = drafts[d].of => e = d

DraftInv == \A d \in DOMAIN drafts : AskInv(d) /\ TapInv(d) /\ (d \in crossed \/ SingleInv(d)) /\ OnceInv(d)

ReplyInv == \A u \in written : u.kind = "text" /\
  \/ u.id \in replied \/ u \in hurt \/ u \in Rest \cup Waiting \/ \E t \in tasks : t.of = u
  \/ u.who = Contact /\ u.id \in raced

BotIInv == LineInv /\ FormInv /\ StoreInv /\ UserInv /\ DraftInv /\ ReplyInv /\ Bot!HalfStoredNeedsMishap

-----------------------------------------------------------------------------
(* Sequences and constants                                                 *)

LEMMA ConstantTypes ==
  ASSUME BotBounds
  PROVE
  /\ Owner \in Bot!Person /\ Client \in Bot!Person /\ Contact \in Bot!Person
  /\ Owner # Client /\ Owner # Contact /\ Client # Contact
  /\ Claims \subseteq Bot!Person \X {"client", "employee"}
  /\ MaxUpdates \in Nat /\ MaxAtOnce \in Nat /\ BotFaults \in Nat
<1>1. Cardinality(Bot!Person) = 3 /\ Owner \in Bot!Person /\ Client \in Bot!Person /\ Contact \in Bot!Person
  BY DEF BotBounds, Bot!Person
<1>2. ASSUME NEW a, NEW b, Bot!Person \subseteq {a, b} PROVE FALSE
  <2>1. IsFiniteSet({a, b}) /\ Cardinality({a, b}) <= 2
    <3>1. IsFiniteSet({b}) /\ Cardinality({b}) = 1
      BY FS_Singleton
    <3>2. /\ IsFiniteSet({b} \cup {a})
          /\ Cardinality({b} \cup {a}) = IF a \in {b} THEN Cardinality({b}) ELSE Cardinality({b}) + 1
      BY <3>1, FS_AddElement
    <3>3. {a, b} = {b} \cup {a}
      OBVIOUS
    <3>4. QED
      BY <3>1, <3>2, <3>3
  <2>2. Cardinality(Bot!Person) <= Cardinality({a, b})
    BY <1>2, <2>1, FS_Subset
  <2>3. Cardinality({a, b}) \in Nat
    BY <2>1, FS_CardinalityType
  <2>4. QED
    BY <1>1, <2>1, <2>2, <2>3
<1>3. Owner # Client
  <2>1. SUFFICES ASSUME Owner = Client PROVE FALSE
    OBVIOUS
  <2>2. Bot!Person \subseteq {Owner, Contact}
    BY <2>1 DEF Bot!Person
  <2>3. QED
    BY <1>2, <2>2
<1>4. Owner # Contact
  <2>1. SUFFICES ASSUME Owner = Contact PROVE FALSE
    OBVIOUS
  <2>2. Bot!Person \subseteq {Owner, Client}
    BY <2>1 DEF Bot!Person
  <2>3. QED
    BY <1>2, <2>2
<1>5. Client # Contact
  <2>1. SUFFICES ASSUME Client = Contact PROVE FALSE
    OBVIOUS
  <2>2. Bot!Person \subseteq {Owner, Contact}
    BY <2>1 DEF Bot!Person
  <2>3. QED
    BY <1>2, <2>2
<1>6. QED
  BY <1>1, <1>3, <1>4, <1>5 DEF BotBounds

LEMMA RangeOf ==
  ASSUME BotBounds, NEW S, NEW s \in Seq(S)
  PROVE  Range(s) = {s[i] : i \in 1..Len(s)} /\ Range(s) \subseteq S /\ Len(s) \in Nat /\ DOMAIN s = 1..Len(s)
BY RangeEquality, RangeOfSeq, LenProperties

LEMMA AppendRange ==
  ASSUME BotBounds, NEW S, NEW s \in Seq(S), NEW x \in S
  PROVE  /\ Append(s, x) \in Seq(S) /\ Len(Append(s, x)) = Len(s) + 1
         /\ Range(Append(s, x)) = Range(s) \cup {x}
         /\ \A i \in 1..Len(s) : Append(s, x)[i] = s[i]
         /\ Append(s, x)[Len(s) + 1] = x
         /\ DOMAIN Append(s, x) = 1..(Len(s) + 1)
<1> DEFINE r == Append(s, x)
<1>1. /\ r \in Seq(S) /\ Len(r) = Len(s) + 1
      /\ \A i \in 1..Len(s) : r[i] = s[i]
      /\ r[Len(s) + 1] = x
  BY AppendProperties
<1> HIDE DEF r
<1>2. /\ Range(r) = {r[i] : i \in 1..(Len(s) + 1)} /\ DOMAIN r = 1..(Len(s) + 1)
      /\ Range(s) = {s[i] : i \in 1..Len(s)} /\ Len(s) \in Nat
  BY <1>1, RangeOf
<1>3. 1..(Len(s) + 1) = 1..Len(s) \cup {Len(s) + 1}
  BY <1>2
<1>4. Range(r) = Range(s) \cup {x}
  BY <1>1, <1>2, <1>3
<1>5. QED
  BY <1>1, <1>2, <1>4 DEF r

LEMMA HeldOf ==
  ASSUME BotBounds, NEW S, updates \in Seq(S), batch \in 0..Len(updates)
  PROVE  /\ Held = Taken \cup Rest
         /\ batch = 0 => Taken = {} /\ Rest = Held
         /\ batch = Len(updates) => Rest = {} /\ Taken = Held
<1>1. Held = {updates[i] : i \in 1..Len(updates)} /\ Len(updates) \in Nat
  BY RangeOf DEF Held
<1>2. 1..Len(updates) = 1..batch \cup (batch + 1)..Len(updates)
  BY <1>1
<1>3. QED
  BY <1>1, <1>2 DEF Taken, Rest

\* The updates behind the batch, and those in it.
LEMMA PartsOf ==
  ASSUME BotBounds, NEW S, updates \in Seq(S), batch \in 0..Len(updates)
  PROVE  /\ SubSeq(updates, batch + 1, Len(updates)) \in Seq(S)
         /\ Range(SubSeq(updates, batch + 1, Len(updates))) = Rest
         /\ Bot!Unconfirmed = {u.id : u \in Taken}
<1> DEFINE n == Len(updates)
           b == batch + 1
           s == SubSeq(updates, b, n)
           r == SubSeq(updates, 1, batch)
<1>1. n \in Nat /\ batch \in 0..n /\ \A i \in 1..n : updates[i] \in S
  BY RangeOf DEF Range
<1>2. b \in Int /\ n \in Int /\ \A i \in b..n : updates[i] \in S
  BY <1>1
<1>3. /\ s \in Seq(S)
      /\ Len(s) = IF b <= n THEN n - b + 1 ELSE 0
      /\ \A i \in 1..(n - b + 1) : s[i] = updates[b + i - 1]
  <2> HIDE DEF n, b
  <2>1. QED
    BY <1>2, SubSeqProperties
<1>4. /\ r \in Seq(S)
      /\ Len(r) = IF 1 <= batch THEN batch - 1 + 1 ELSE 0
      /\ \A i \in 1..(batch - 1 + 1) : r[i] = updates[1 + i - 1]
  <2>1. 1 \in Int /\ batch \in Int /\ \A i \in 1..batch : updates[i] \in S
    BY <1>1
  <2>2. QED
    BY <2>1, SubSeqProperties
<1> HIDE DEF s, r, n
<1>5. Len(s) = n - batch /\ Len(r) = batch
  BY <1>1, <1>3, <1>4
<1>6. Range(s) = {s[i] : i \in 1..(n - batch)} /\ Range(r) = {r[i] : i \in 1..batch}
  BY <1>3, <1>4, <1>5, RangeOf
<1>7. \A i \in 1..(n - batch) : batch + i \in (batch + 1)..n /\ s[i] = updates[batch + i]
  BY <1>1, <1>3
<1>8. ASSUME NEW j \in (batch + 1)..n PROVE j - batch \in 1..(n - batch) /\ s[j - batch] = updates[j]
  <2>1. j \in Int /\ j >= batch + 1 /\ j <= n /\ batch \in Int /\ n \in Int
    BY <1>1
  <2>2. j - batch \in 1..(n - batch)
    BY <2>1
  <2>3. s[j - batch] = updates[b + (j - batch) - 1]
    <3>1. n - b + 1 = n - batch
      BY <2>1
    <3>2. j - batch \in 1..(n - b + 1)
      BY <2>2, <3>1
    <3> HIDE DEF b
    <3>3. QED
      BY <1>3, <3>2
  <2>4. b + (j - batch) - 1 = j
    BY <2>1
  <2>5. QED
    BY <2>2, <2>3, <2>4
<1>9. Range(s) = Rest
  <2>1. Rest = {updates[i] : i \in (batch + 1)..n}
    BY DEF Rest, n
  <2>2. QED
    BY <1>6, <1>7, <1>8, <2>1
<1>10. Range(r) = Taken
  <2>1. \A i \in 1..batch : r[i] = updates[i]
    BY <1>1, <1>4
  <2>2. QED
    BY <1>6, <2>1 DEF Taken
<1>11. QED
  BY <1>3, <1>9, <1>10 DEF s, r, n, Bot!Unconfirmed, Bot!Range, Range

-----------------------------------------------------------------------------
(* Where the updates are                                                   *)

SameLine ==
  /\ UNCHANGED <<updates, batch, proxy>>
  /\ budget' \in [updates : 0..MaxUpdates, faults : 0..BotFaults] /\ budget'.updates = budget.updates

\* t goes on as the one in N, or ends.
Goes(t, N) ==
  /\ t \in tasks /\ tasks' = (tasks \ {t}) \cup N
  /\ \A n \in N : n.of = t.of
  /\ \A m, n \in N : m = n

LEMMA SameParts ==
  ASSUME BotBounds, UNCHANGED <<updates, batch, proxy>>
  PROVE  Taken' = Taken /\ Rest' = Rest /\ Held' = Held /\ Waiting' = Waiting
BY DEF Taken, Rest, Held, Waiting

LEMMA SpendOf ==
  ASSUME BotBounds, LineInv, NEW what \in {"updates", "faults"}, Bot!Spend(what)
  PROVE  /\ budget' \in [updates : 0..MaxUpdates, faults : 0..BotFaults]
         /\ what = "faults" => budget'.updates = budget.updates
         /\ what = "updates" => Used' = Used + 1
<1>1. budget \in [updates : 0..MaxUpdates, faults : 0..BotFaults] /\ MaxUpdates \in Nat /\ BotFaults \in Nat
  BY ConstantTypes DEF LineInv
<1>2. CASE what = "faults"
  <2>1. budget' = [budget EXCEPT !.faults = @ - 1] /\ budget.faults > 0
    BY <1>1, <1>2 DEF Bot!Spend
  <2>2. QED
    BY <1>1, <1>2, <2>1
<1>3. CASE what = "updates"
  <2>1. budget' = [budget EXCEPT !.updates = @ - 1] /\ budget.updates > 0
    BY <1>1, <1>3 DEF Bot!Spend
  <2>2. QED
    BY <1>1, <1>3, <2>1 DEF Used
<1>4. QED
  BY <1>2, <1>3

LEMMA LineStep ==
  ASSUME BotBounds, LineInv, SameLine, NEW t, NEW N, Goes(t, N), DOMAIN drafts \subseteq DOMAIN drafts', process' # "down"
  PROVE  LineInv'
<1>1. /\ Taken' = Taken /\ Rest' = Rest /\ Held' = Held /\ Waiting' = Waiting
      /\ updates' = updates /\ batch' = batch /\ proxy' = proxy /\ Used' = Used
  BY SameParts DEF SameLine, Used
<1>2. \A u : UpdateOK(u) => UpdateOK(u)'
  BY <1>1 DEF UpdateOK
<1>3. \A s \in tasks' : s \in tasks \/ s.of = t.of
  BY DEF Goes
<1>4. \A s \in tasks' : \E r \in tasks : r.of = s.of
  BY DEF Goes
<1>5. \A s, r \in tasks' : s.of.id = r.of.id => s = r
  <2>1. \A s, r \in tasks : s.of.id = r.of.id => s = r
    BY DEF LineInv
  <2>2. QED
    BY <2>1 DEF Goes
<1>6. QED
  BY <1>1, <1>2, <1>4, <1>5 DEF LineInv, SameLine

\* A batch is taken up.
LEMMA BatchOf ==
  ASSUME BotBounds, LineInv, Bot!NextBatch
  PROVE  /\ LineInv' /\ Taken' = Rest /\ Rest' = {} /\ Held' = Rest /\ Waiting' = Waiting
         /\ tasks' = tasks \cup {Bot!NewTask(u, "lookup") : u \in Rest} /\ \A t \in tasks : Bot!OnSimplex(t.of)
<1>1. updates \in Seq(Bot!Update) /\ batch \in 0..Len(updates) /\ Rest \subseteq Held
  BY HeldOf DEF LineInv
<1>2. updates' \in Seq(Bot!Update) /\ Range(updates') = Rest
  BY <1>1, PartsOf DEF Bot!NextBatch
<1>3. tasks' = tasks \cup {Bot!NewTask(u, "lookup") : u \in Rest} /\ batch' = Len(updates')
  BY <1>2 DEF Bot!NextBatch, Bot!Range, Range
<1>4. batch' \in 0..Len(updates')
  BY <1>2, <1>3, RangeOf
<1>5. Rest' = {} /\ Taken' = Held'
  <2>1. Range(updates') = {updates'[i] : i \in 1..Len(updates')} /\ Len(updates') \in Nat
    BY <1>2, RangeOf
  <2>2. Rest' = {updates'[i] : i \in (Len(updates') + 1)..Len(updates')}
    BY <1>3 DEF Rest
  <2>3. Taken' = {updates'[i] : i \in 1..Len(updates')} /\ Held' = Range(updates')
    BY <1>3 DEF Taken, Held
  <2>4. QED
    BY <2>1, <2>2, <2>3
<1>6. Held' = Rest /\ Waiting' = Waiting /\ proxy' = proxy /\ Used' = Used
  BY <1>2 DEF Held, Waiting, Bot!NextBatch, Used
<1>7. \A u : UpdateOK(u) => UpdateOK(u)'
  BY <1>6 DEF UpdateOK, Bot!NextBatch, Bot!storage
<1>8. \A t \in tasks : Bot!OnSimplex(t.of)
  BY DEF Bot!NextBatch
<1>9. \A t \in tasks' : t \in tasks \/ \E u \in Rest : t = Bot!NewTask(u, "lookup")
  BY <1>3
<1>10. \A u : Bot!NewTask(u, "lookup").of = u
  BY DEF Bot!NewTask
<1>11. \A t \in tasks' : \A u \in Rest' \cup Waiting' : u.id # t.of.id
  BY <1>1, <1>5, <1>6, <1>9, <1>10 DEF LineInv
<1>12. \A t \in tasks' : IF Bot!OnSimplex(t.of) THEN \A u \in Held' : u.id # t.of.id ELSE t.of \in Taken'
  <2>1. ASSUME NEW t \in tasks PROVE IF Bot!OnSimplex(t.of) THEN \A u \in Held' : u.id # t.of.id ELSE t.of \in Taken'
    BY <1>1, <1>6, <1>8, <2>1 DEF LineInv
  <2>2. ASSUME NEW u \in Rest PROVE ~Bot!OnSimplex(u) /\ u \in Taken'
    BY <1>1, <1>5, <1>6 DEF LineInv
  <2>3. QED
    BY <1>9, <1>10, <2>1, <2>2
<1>13. \A t, s \in tasks' : t.of.id = s.of.id => t = s
  BY <1>1, <1>9, <1>10 DEF LineInv
<1>14. \A t \in tasks' : UpdateOK(t.of)'
  BY <1>1, <1>7, <1>9, <1>10 DEF LineInv
<1>15. process' # "down" /\ budget' = budget
  BY DEF Bot!NextBatch
<1>16. QED
  BY <1>1, <1>2, <1>3, <1>4, <1>5, <1>6, <1>7, <1>8, <1>11, <1>12, <1>13, <1>14, <1>15 DEF LineInv

LEMMA PollOf ==
  ASSUME BotBounds, LineInv, Bot!Poll
  PROVE  /\ LineInv' /\ Taken' = Taken /\ Rest' = Rest /\ Held' = Held /\ Waiting' = {}
         /\ tasks' = tasks \cup {Bot!NewTask(u, "lookup") : u \in Waiting}
<1>1. updates \in Seq(Bot!Update) /\ batch \in 0..Len(updates) /\ Held = Taken \cup Rest
  BY HeldOf DEF LineInv
<1>2. UNCHANGED <<updates, batch>> /\ proxy' = <<>> /\ Used' = Used /\ budget' = budget
      /\ tasks' = tasks \cup {Bot!NewTask(u, "lookup") : u \in Waiting}
  BY DEF Bot!Poll, Used, Waiting, Bot!Range, Range
<1>3. Taken' = Taken /\ Rest' = Rest /\ Held' = Held /\ Waiting' = {} /\ proxy' \in Seq(Bot!Update)
  <2>1. Taken' = Taken /\ Rest' = Rest /\ Held' = Held
    BY <1>2 DEF Taken, Rest, Held
  <2>2. proxy' \in Seq(Bot!Update) /\ Len(proxy') = 0
    BY <1>2, EmptySeq
  <2>3. Range(proxy') = {proxy'[i] : i \in 1..0}
    BY <2>2, RangeOf
  <2>4. QED
    BY <2>1, <2>2, <2>3 DEF Waiting
<1>4. \A u : UpdateOK(u) => UpdateOK(u)'
  BY <1>2 DEF UpdateOK, Bot!Poll, Bot!storage
<1>5. \A t \in tasks' : t \in tasks \/ \E u \in Waiting : t = Bot!NewTask(u, "lookup")
  BY <1>2
<1>6. \A u : Bot!NewTask(u, "lookup").of = u
  BY DEF Bot!NewTask
<1>7. \A t \in tasks' : \A u \in Rest' \cup Waiting' : u.id # t.of.id
  <2>1. \A t \in tasks : \A u \in Rest : u.id # t.of.id
    BY DEF LineInv
  <2>2. \A v \in Waiting : \A u \in Rest : u.id # v.id
    BY <1>1 DEF LineInv
  <2>3. QED
    BY <1>3, <1>5, <1>6, <2>1, <2>2
<1>8. \A t \in tasks' : IF Bot!OnSimplex(t.of) THEN \A u \in Held' : u.id # t.of.id ELSE t.of \in Taken'
  <2>1. \A v \in Waiting : Bot!OnSimplex(v) /\ \A u \in Held : u.id # v.id
    BY DEF LineInv
  <2>2. QED
    BY <1>3, <1>5, <1>6, <2>1 DEF LineInv
<1>9. \A t, s \in tasks' : t.of.id = s.of.id => t = s
  <2>1. \A u, v \in Waiting : u.id = v.id => u = v
    BY DEF LineInv
  <2>2. \A t \in tasks : \A u \in Waiting : u.id # t.of.id
    BY DEF LineInv
  <2>3. \A t, s \in tasks : t.of.id = s.of.id => t = s
    BY DEF LineInv
  <2>4. QED
    BY <1>5, <1>6, <2>1, <2>2, <2>3
<1>10. \A t \in tasks' : UpdateOK(t.of)'
  BY <1>4, <1>5, <1>6 DEF LineInv
<1>11. process' # "down"
  BY DEF Bot!Poll
<1>12. QED
  BY <1>1, <1>2, <1>3, <1>4, <1>7, <1>8, <1>9, <1>10, <1>11 DEF LineInv

LEMMA EndsOf ==
  ASSUME BotBounds, LineInv, NEW confirmed \in BOOLEAN, Bot!Ends(confirmed),
         budget' \in [updates : 0..MaxUpdates, faults : 0..BotFaults], budget'.updates = budget.updates
  PROVE  /\ LineInv' /\ Taken' = {} /\ Rest' = (IF confirmed THEN Rest ELSE Held) /\ Held' = Rest' /\ Waiting' = Waiting
         /\ tasks' = {} /\ hurt' = hurt \cup {t.of : t \in tasks}
         /\ stopped' = IF confirmed THEN stopped ELSE stopped \cup {u.id : u \in Taken}
<1>1. updates \in Seq(Bot!Update) /\ batch \in 0..Len(updates) /\ Held = Taken \cup Rest
  BY HeldOf DEF LineInv
<1>2. updates' \in Seq(Bot!Update) /\ Range(updates') = IF confirmed THEN Rest ELSE Held
  BY <1>1, PartsOf DEF Bot!Ends, Held
<1>3. batch' = 0 /\ tasks' = {} /\ process' = "down" /\ proxy' = proxy
      /\ hurt' = hurt \cup {t.of : t \in tasks}
  BY DEF Bot!Ends
<1>4. batch' \in 0..Len(updates')
  BY <1>2, <1>3, RangeOf
<1>5. Taken' = {} /\ Rest' = Held'
  <2>1. Range(updates') = {updates'[i] : i \in 1..Len(updates')}
    BY <1>2, RangeOf
  <2>2. Rest' = {updates'[i] : i \in 1..Len(updates')} /\ Taken' = {updates'[i] : i \in 1..0} /\ Held' = Range(updates')
    BY <1>3 DEF Rest, Taken, Held
  <2>3. QED
    BY <2>1, <2>2
<1>6. Held' = (IF confirmed THEN Rest ELSE Held) /\ Waiting' = Waiting /\ Used' = Used
  BY <1>2, <1>3 DEF Held, Waiting, Used
<1>7. \A u : UpdateOK(u) => UpdateOK(u)'
  BY <1>6 DEF UpdateOK, Bot!Ends, Bot!storage
<1>8. stopped' = IF confirmed THEN stopped ELSE stopped \cup {u.id : u \in Taken}
  BY <1>1, PartsOf DEF Bot!Ends
<1>9. Held' \subseteq Held
  BY <1>1, <1>6
<1>10. LineInv'
  BY <1>2, <1>3, <1>4, <1>6, <1>7, <1>9 DEF LineInv
<1>11. QED
  BY <1>3, <1>5, <1>6, <1>8, <1>10

\* Somebody writes, gives a command or taps.
LEMMA ArrivalOf ==
  ASSUME BotBounds, LineInv, Bot!WithinBounds, NEW u \in Bot!Update, u.id = Bot!NextId, u.role # "owner",
         IF Bot!Tap(u) THEN u.draft \in DOMAIN drafts ELSE u.draft = 0,
         IF Bot!OnSimplex(u) THEN proxy' = Append(proxy, u) /\ UNCHANGED updates ELSE Bot!Arrives(u),
         UNCHANGED <<batch, tasks, process, drafts>>
  PROVE  /\ LineInv' /\ Used' = Used + 1 /\ u.id = Used + 1 /\ Taken' = Taken
         /\ Rest' = (IF Bot!OnSimplex(u) THEN Rest ELSE Rest \cup {u})
         /\ Held' = (IF Bot!OnSimplex(u) THEN Held ELSE Held \cup {u})
         /\ Waiting' = (IF Bot!OnSimplex(u) THEN Waiting \cup {u} ELSE Waiting)
<1>1. /\ updates \in Seq(Bot!Update) /\ batch \in 0..Len(updates) /\ Held = Taken \cup Rest /\ proxy \in Seq(Bot!Update)
      /\ budget \in [updates : 0..MaxUpdates, faults : 0..BotFaults] /\ MaxUpdates \in Nat
  BY ConstantTypes, HeldOf DEF LineInv
<1>2. Used' = Used + 1 /\ Used \in Nat /\ u.id = Used + 1
      /\ budget' \in [updates : 0..MaxUpdates, faults : 0..BotFaults]
  <2>1. Bot!Spend("updates") /\ Bot!NextId = Used + 1
    BY <1>1 DEF Bot!WithinBounds, Bot!NextId, Used
  <2>2. QED
    BY <1>1, <2>1, SpendOf DEF Used
<1>3. \A v : UpdateOK(v) => UpdateOK(v)' /\ v.id # u.id
  BY <1>2 DEF UpdateOK, Bot!Update, Bot!Id
<1>4. UpdateOK(u)'
  BY <1>2 DEF UpdateOK
<1>5. /\ Taken' = Taken /\ updates' \in Seq(Bot!Update) /\ proxy' \in Seq(Bot!Update) /\ batch' \in 0..Len(updates')
      /\ Rest' = (IF Bot!OnSimplex(u) THEN Rest ELSE Rest \cup {u})
      /\ Held' = (IF Bot!OnSimplex(u) THEN Held ELSE Held \cup {u})
      /\ Waiting' = (IF Bot!OnSimplex(u) THEN Waiting \cup {u} ELSE Waiting)
  <2>1. CASE Bot!OnSimplex(u)
    <3>1. UNCHANGED <<updates, batch>> /\ proxy' = Append(proxy, u)
      BY <2>1
    <3>2. QED
      BY <1>1, <2>1, <3>1, AppendRange DEF Taken, Rest, Held, Waiting
  <2>2. CASE ~Bot!OnSimplex(u)
    <3> DEFINE r == Append(updates, u)  n == Len(updates)
    <3>1. proxy' = proxy /\ batch' = batch /\ updates' = r
      BY <2>2 DEF Bot!Arrives
    <3>2. /\ r \in Seq(Bot!Update) /\ Len(r) = n + 1 /\ Range(r) = Held \cup {u}
          /\ \A i \in 1..n : r[i] = updates[i]
          /\ r[n + 1] = u
      BY <1>1, AppendRange DEF Held
    <3> HIDE DEF r
    <3>3. n \in Nat /\ batch \in 0..n
      BY <1>1, RangeOf
    <3>4. Taken' = Taken
      BY <3>1, <3>2, <3>3 DEF Taken
    <3>5. Rest' = Rest \cup {u}
      <4>1. Rest' = {r[i] : i \in (batch + 1)..(n + 1)}
        BY <3>1, <3>2 DEF Rest
      <4>2. (batch + 1)..(n + 1) = ((batch + 1)..n) \cup {n + 1}
        BY <3>3
      <4>3. \A i \in (batch + 1)..n : r[i] = updates[i]
        BY <3>2, <3>3
      <4>4. Rest = {updates[i] : i \in (batch + 1)..n}
        BY DEF Rest
      <4> HIDE DEF n
      <4>5. QED
        BY <3>2, <4>1, <4>2, <4>3, <4>4
    <3>6. Held' = Held \cup {u} /\ Waiting' = Waiting /\ batch' \in 0..Len(updates')
      BY <3>1, <3>2, <3>3 DEF Held, Waiting
    <3>7. QED
      BY <1>1, <2>2, <3>1, <3>2, <3>4, <3>5, <3>6
  <2>3. QED
    BY <2>1, <2>2
<1>6. \A v, w \in Held' \cup Waiting' : v.id = w.id => v = w
  <2>1. \A v, w \in Held \cup Waiting : v.id = w.id => v = w
    BY DEF LineInv
  <2>2. \A v \in Held \cup Waiting : v.id # u.id
    BY <1>3 DEF LineInv
  <2>3. QED
    BY <1>5, <2>1, <2>2
<1>7. \A t \in tasks : t.of.id # u.id
  BY <1>3 DEF LineInv
<1>8. \A v \in Held' : UpdateOK(v)' /\ ~Bot!OnSimplex(v)
  BY <1>3, <1>4, <1>5 DEF LineInv
<1>9. \A v \in Waiting' : UpdateOK(v)' /\ Bot!OnSimplex(v)
  BY <1>3, <1>4, <1>5 DEF LineInv
<1>10. \A t \in tasks : \A v \in Rest' \cup Waiting' : v.id # t.of.id
  BY <1>5, <1>7 DEF LineInv
<1>11. \A t \in tasks : IF Bot!OnSimplex(t.of) THEN \A v \in Held' : v.id # t.of.id ELSE t.of \in Taken'
  BY <1>5, <1>7 DEF LineInv
<1>12. process' = "down" => tasks' = {} /\ batch' = 0
  BY DEF LineInv
<1>13. \A t \in tasks : UpdateOK(t.of)'
  BY <1>3 DEF LineInv
<1>14. QED
  BY <1>2, <1>5, <1>6, <1>8, <1>9, <1>10, <1>11, <1>12, <1>13 DEF LineInv

-----------------------------------------------------------------------------
(* What a step of one task leaves alone                                    *)

LEMMA FormStep ==
  ASSUME BotBounds, FormInv, NEW t, NEW N, Goes(t, N), replied \subseteq replied', DOMAIN drafts \subseteq DOMAIN drafts',
         \A n \in N : Formed(n) /\ n.draft \in {0} \cup DOMAIN drafts' /\ (n.at = "ping" => n.of.id \in replied')
  PROVE  FormInv'
<1>1. \A s \in tasks' : s \in tasks \/ s \in N
  BY DEF Goes
<1>2. QED
  BY <1>1 DEF FormInv

LEMMA ReplyStep ==
  ASSUME BotBounds, ReplyInv, SameLine, NEW t, NEW N, Goes(t, N), written' = written,
         replied \subseteq replied', hurt \subseteq hurt', raced \subseteq raced',
         N # {} \/ t.of.kind # "text" \/ t.of.id \in replied' \/ t.of \in hurt'
           \/ (t.of.who = Contact /\ t.of.id \in raced')
  PROVE  ReplyInv'
<1>1. Rest' = Rest /\ Waiting' = Waiting
  BY SameParts DEF SameLine
<1>2. \A s \in tasks : s # t => s \in tasks'
  BY DEF Goes
<1>3. N # {} => \E s \in tasks' : s.of = t.of
  BY DEF Goes
<1>4. SUFFICES ASSUME NEW u \in written
               PROVE  u.kind = "text" /\
                        \/ u.id \in replied' \/ u \in hurt' \/ u \in Rest' \cup Waiting' \/ \E s \in tasks' : s.of = u
                        \/ u.who = Contact /\ u.id \in raced'
  BY DEF ReplyInv
<1>5. CASE u # t.of
  BY <1>1, <1>2, <1>5 DEF ReplyInv
<1>6. CASE u = t.of
  BY <1>3, <1>6 DEF ReplyInv
<1>7. QED
  BY <1>5, <1>6

LEMMA DocumentStep ==
  ASSUME BotBounds, Bot!HalfStoredNeedsMishap, NEW t, NEW N, Goes(t, N), hurt \subseteq hurt', document' = document,
         t.at = "chunks" => t.of \in hurt' /\ t.of.kind = "document"
  PROVE  Bot!HalfStoredNeedsMishap'
BY DEF Bot!HalfStoredNeedsMishap, Goes

LEMMA FromTyped == ASSUME BotBounds, LineInv PROVE \A s \in tasks : Bot!From(s.of) \in Bot!Person
BY ConstantTypes DEF LineInv, UpdateOK, Bot!Update, Bot!From

\* A step of a task and the rows of people: who is known stays known, and so does who has
\* a business.
LEMMA UserGrows ==
  ASSUME BotBounds, UserInv, NEW t, NEW N, Goes(t, N), hurt \subseteq hurt',
         \A p \in Bot!Person : user[p] # Bot!NoRow => user'[p] # Bot!NoRow,
         \A d \in DOMAIN drafts' : user'[drafts'[d].client] # Bot!NoRow,
         \A n \in N : n.user # Bot!NoRow \/ n.at \in {"business", "attach"} => user'[Bot!From(t.of)] # Bot!NoRow,
         \A s \in tasks : Bot!From(s.of) \in Bot!Person,
         user[Owner].business => user'[Owner].business,
         (\E p \in Bot!Person : user'[p].business) \/ (\E n \in N : n.user.business) =>
           \/ user'[Owner].business \/ HurtOwner'
           \/ (\E p \in Bot!Person : user[p].business) \/ t.user.business,
         ownerless' # {} => \/ ownerless # {} /\ (user[Owner].business => user'[Owner].role = user[Owner].role)
                            \/ HurtOwner' \/ (user'[Owner].business /\ user'[Owner].role # "owner"),
         user'[Owner] = [role |-> "owner", business |-> FALSE] =>
           \/ \E u \in hurt' : Bot!From(u) = Owner
           \/ \E n \in N : n.at \in {"business", "attach"}
           \/ user'[Owner] = user[Owner] /\ t.at \notin {"business", "attach"}
  PROVE  UserInv'
<1>1. \A s \in tasks' : s \in tasks \/ s \in N
  BY DEF Goes
<1>2. \A s \in tasks : s = t \/ s \in tasks'
  BY DEF Goes
<1>3. (HurtOwner => HurtOwner') /\ t \in tasks
  BY DEF HurtOwner, Goes
<1>4. \A s \in tasks' : s.user # Bot!NoRow \/ s.at \in {"business", "attach"} => user'[Bot!From(s.of)] # Bot!NoRow
  <2>1. ASSUME NEW s \in tasks, s.user # Bot!NoRow \/ s.at \in {"business", "attach"} PROVE user'[Bot!From(s.of)] # Bot!NoRow
    BY <2>1 DEF UserInv
  <2>2. ASSUME NEW n \in N, n.user # Bot!NoRow \/ n.at \in {"business", "attach"} PROVE user'[Bot!From(n.of)] # Bot!NoRow
    BY <2>2 DEF Goes
  <2>3. QED
    BY <1>1, <2>1, <2>2
<1>5. (\E p \in Bot!Person : user'[p].business) \/ (\E s \in tasks' : s.user.business)
        => user'[Owner].business \/ HurtOwner'
  <2>1. (\E p \in Bot!Person : user[p].business) \/ (\E s \in tasks : s.user.business) => user'[Owner].business \/ HurtOwner'
    BY <1>3 DEF UserInv
  <2>2. QED
    BY <1>1, <1>3, <2>1
<1>6. Bot!OwnerHasABusiness'
  <2>1. SUFFICES ASSUME user'[Owner] = [role |-> "owner", business |-> FALSE], ~\E u \in hurt' : Bot!From(u) = Owner
                 PROVE  \E s \in tasks' : s.at \in {"business", "attach"}
    BY DEF Bot!OwnerHasABusiness
  <2>2. CASE \E n \in N : n.at \in {"business", "attach"}
    BY <2>2 DEF Goes
  <2>3. CASE user'[Owner] = user[Owner] /\ t.at \notin {"business", "attach"}
    BY <1>2, <2>1, <2>3 DEF UserInv, Bot!OwnerHasABusiness
  <2>4. QED
    BY <2>1, <2>2, <2>3
<1>7. ownerless' # {} => HurtOwner' \/ (user'[Owner].business /\ user'[Owner].role # "owner")
  BY <1>3 DEF UserInv
<1>8. QED
  BY <1>4, <1>5, <1>6, <1>7 DEF UserInv

\* The same, when no row changes.
LEMMA UserKept ==
  ASSUME BotBounds, UserInv, NEW t, NEW N, Goes(t, N), user' = user, hurt \subseteq hurt', ownerless' = ownerless,
         DOMAIN drafts' = DOMAIN drafts, \A d \in DOMAIN drafts : drafts'[d].client = drafts[d].client,
         \A n \in N : n.user \in {t.user, user[Bot!From(t.of)], Bot!NoRow} /\ (n.at \in {"business", "attach"} => t.at \in {"business", "attach"}),
         \A s \in tasks : Bot!From(s.of) \in Bot!Person,
         t.at \in {"business", "attach"} =>
           (t.of \in hurt' /\ Bot!From(t.of) = Owner) \/ \E n \in N : n.at \in {"business", "attach"}
  PROVE  UserInv'
<1>1. t \in tasks /\ Bot!From(t.of) \in Bot!Person /\ Bot!NoRow.business = FALSE
  BY DEF Goes, Bot!NoRow
<1>2. \A n \in N : n.user # Bot!NoRow \/ n.at \in {"business", "attach"} => user'[Bot!From(t.of)] # Bot!NoRow
  BY <1>1 DEF UserInv
<1>3. \A d \in DOMAIN drafts' : user'[drafts'[d].client] # Bot!NoRow
  BY DEF UserInv
<1>4. (\E n \in N : n.user.business) => (\E p \in Bot!Person : user[p].business) \/ t.user.business
  BY <1>1
<1>5. ownerless' # {} => ownerless # {} /\ (user[Owner].business => user'[Owner].role = user[Owner].role)
  OBVIOUS
<1>6. \/ \E u \in hurt' : Bot!From(u) = Owner
      \/ \E n \in N : n.at \in {"business", "attach"}
      \/ user'[Owner] = user[Owner] /\ t.at \notin {"business", "attach"}
  OBVIOUS
<1>7. QED
  BY <1>2, <1>3, <1>4, <1>5, <1>6, UserGrows

-----------------------------------------------------------------------------
(* Drafts                                                                  *)

LEMMA SameDraft ==
  ASSUME BotBounds, NEW d, AskInv(d), TapInv(d), d \in crossed \/ SingleInv(d),
         drafts'[d] = drafts[d], answers'[d] = answers[d], d \in buttons' <=> d \in buttons, TapsOn(d)' = TapsOn(d),
         \A s \in Asking(d)' : \E r \in Asking(d) : r.of = s.of, Asking(d) # {} => Asking(d)' # {},
         Bot!OnDraft(d)' = Bot!OnDraft(d), hurt \subseteq hurt', crossed \subseteq crossed', ownerless \subseteq ownerless'
  PROVE  AskInv(d)' /\ TapInv(d)' /\ (d \in crossed' \/ SingleInv(d)')
<1>1. Bot!Status(d)' = Bot!Status(d) /\ (Bot!HurtTap(d) => Bot!HurtTap(d)')
  BY DEF Bot!Status, Bot!HurtTap
<1>2. Bot!Hurt(drafts[d].of) => Bot!Hurt(drafts[d].of)'
  BY DEF Bot!Hurt
<1>3. AskInv(d)'
  BY <1>1, <1>2 DEF AskInv
<1>4. TapInv(d)'
  BY <1>1 DEF TapInv
<1>5. SingleInv(d) => SingleInv(d)'
  BY <1>1 DEF SingleInv
<1>6. QED
  BY <1>3, <1>4, <1>5

LEMMA OnceStep ==
  ASSUME BotBounds, SameLine, NEW t, NEW N, Goes(t, N), stopped' = stopped, NEW d \in DOMAIN drafts, OnceInv(d),
         DOMAIN drafts' = DOMAIN drafts, \A e \in DOMAIN drafts : drafts'[e].of = drafts[e].of,
         t.at \in {"reply", "ping"} => \A n \in N : n.at \in {"reply", "ping"}
  PROVE  OnceInv(d)'
<1>1. Rest' = Rest /\ Waiting' = Waiting /\ Used' = Used
  BY SameParts DEF SameLine, Used
<1>2. \A s \in tasks' : s \in tasks \/ (s \in N /\ s.of = t.of)
  BY DEF Goes
<1>3. QED
  BY <1>1, <1>2 DEF OnceInv, Goes

\* The updates of tasks are told apart by their ids.
LEMMA TapHeld ==
  ASSUME BotBounds, LineInv, FormInv, NEW t \in tasks, Bot!Tap(t.of)
  PROVE  /\ t.draft \in DOMAIN drafts /\ t.of \in TapsOn(t.draft) /\ t.draft = t.of.draft /\ t \in Bot!OnDraft(t.draft)
         /\ TapPlace(t) /\ t.of.kind # "text"
<1>1. t.draft = t.of.draft /\ TapPlace(t) /\ ~Bot!OnSimplex(t.of)
  BY DEF FormInv, Formed, Bot!Tap, Bot!OnSimplex
<1>2. t.of \in Held
  BY <1>1, HeldOf DEF LineInv
<1>3. t.draft \in DOMAIN drafts
  BY <1>1 DEF LineInv, UpdateOK
<1>4. QED
  BY <1>1, <1>2, <1>3 DEF TapsOn, Bot!OnDraft, Bot!Tap

LEMMA OneTap ==
  ASSUME BotBounds, LineInv, FormInv, NEW d, SingleInv(d), NEW t \in Bot!OnDraft(d), NEW s \in Bot!OnDraft(d)
  PROVE  s = t
<1>1. s \in tasks /\ t \in tasks /\ s.of \in TapsOn(d) /\ t.of \in TapsOn(d)
  BY TapHeld DEF Bot!OnDraft
<1>2. s.of = t.of
  BY <1>1 DEF SingleInv
<1>3. QED
  BY <1>1, <1>2 DEF LineInv

\* A step of a task that handles no tap.
LEMMA OtherStep ==
  ASSUME BotBounds, LineInv, FormInv, DraftInv, SameLine, NEW t, NEW N, Goes(t, N), ~Bot!Tap(t.of),
         UNCHANGED <<drafts, answers, stopped>>, DOMAIN drafts \subseteq Nat \ {0},
         hurt \subseteq hurt', ownerless \subseteq ownerless', crossed \subseteq crossed',
         \A n \in N : n.draft = t.draft /\ (t.at \in {"reply", "ping"} => n.at \in {"reply", "ping"}),
         buttons' = buttons \/ (N = {} /\ t.draft # 0 /\ buttons' = buttons \cup {t.draft}),
         t.draft # 0 => \/ N # {} \/ t.draft \in buttons' \/ t.of.who = Contact \/ t.of \in hurt'
                        \/ t.draft \in ownerless'
  PROVE  DraftInv'
<1>1. SUFFICES ASSUME NEW d \in DOMAIN drafts
               PROVE  AskInv(d)' /\ TapInv(d)' /\ (d \in crossed' \/ SingleInv(d)') /\ OnceInv(d)'
  BY DEF DraftInv
<1>2. /\ AskInv(d) /\ TapInv(d) /\ (d \in crossed \/ SingleInv(d)) /\ OnceInv(d) /\ d # 0
      /\ TapsOn(d)' = TapsOn(d) /\ Bot!Status(d)' = Bot!Status(d)
  BY SameParts DEF DraftInv, SameLine, TapsOn, Bot!Status
<1>3. OnceInv(d)'
  BY <1>2, OnceStep
<1>4. Bot!OnDraft(d)' = Bot!OnDraft(d)
  BY DEF Bot!OnDraft, Goes
<1>5. \A s \in Asking(d)' : \E r \in Asking(d) : r.of = s.of
  BY DEF Asking, Goes
<1>6. CASE t.draft # d
  <2>1. Asking(d) \subseteq Asking(d)'
    BY <1>6 DEF Asking, Goes
  <2>2. d \in buttons' <=> d \in buttons
    BY <1>6
  <2>3. QED
    BY <1>2, <1>3, <1>4, <1>5, <2>1, <2>2, SameDraft
<1>7. CASE t.draft = d
  <2>1. t \in Asking(d) /\ t \in tasks
    BY <1>7 DEF Asking, Goes
  <2>2. CASE N # {}
    <3>1. Asking(d)' # {} /\ buttons' = buttons
      BY <1>7, <2>2 DEF Asking, Goes
    <3>2. QED
      BY <1>2, <1>3, <1>4, <1>5, <3>1, SameDraft
  <2>3. CASE N = {}
    <3>1. /\ drafts[d].of = t.of.id /\ drafts[d].client = t.of.who /\ Bot!Status(d) = "pending" /\ answers[d] = 0
          /\ TapsOn(d) = {}
      BY <1>2, <2>1 DEF AskInv
    <3>2. Asking(d) = {t}
      <4>1. \A s \in Asking(d) : s \in tasks /\ s.of.id = t.of.id
        BY <1>2, <3>1 DEF AskInv, Asking
      <4>2. QED
        BY <2>1, <4>1 DEF LineInv
    <3>3. Asking(d)' = {}
      BY <2>3, <3>2 DEF Asking, Goes
    <3>4. t.of \in hurt' => Bot!Hurt(drafts[d].of)'
      BY <3>1 DEF Bot!Hurt
    <3>5. AskInv(d)'
      BY <1>2, <1>7, <2>3, <3>1, <3>3, <3>4 DEF AskInv
    <3>6. Bot!OnDraft(d) = {}
      BY <3>1, TapHeld DEF Bot!OnDraft
    <3>7. TapInv(d)'
      BY <1>2, <1>4, <3>1, <3>6 DEF TapInv
    <3>8. SingleInv(d)'
      BY <1>2, <1>4, <3>1, <3>6 DEF SingleInv
    <3>9. QED
      BY <1>3, <3>5, <3>7, <3>8
  <2>4. QED
    BY <2>2, <2>3
<1>8. QED
  BY <1>6, <1>7

\* A step of a task that handles a tap concerns the draft tapped only.
LEMMA TapStep ==
  ASSUME BotBounds, LineInv, FormInv, DraftInv, SameLine, NEW t, NEW N, Goes(t, N), Bot!Tap(t.of),
         DOMAIN drafts' = DOMAIN drafts, \A e \in DOMAIN drafts : drafts'[e].of = drafts[e].of,
         drafts'[t.draft].client = drafts[t.draft].client,
         \A e \in DOMAIN drafts : e # t.draft =>
           drafts'[e] = drafts[e] /\ answers'[e] = answers[e] /\ (e \in buttons' <=> e \in buttons),
         hurt \subseteq hurt', UNCHANGED <<ownerless, crossed, stopped>>, \A n \in N : n.draft = t.draft,
         Bot!Status(t.draft)' = "pending" =>
           Bot!Status(t.draft) = "pending" /\ (t.draft \in buttons => t.draft \in buttons'),
         TapInv(t.draft)', t.draft \in crossed \/ SingleInv(t.draft)'
  PROVE  DraftInv'
<1>1. SUFFICES ASSUME NEW d \in DOMAIN drafts
               PROVE  AskInv(d)' /\ TapInv(d)' /\ (d \in crossed' \/ SingleInv(d)') /\ OnceInv(d)'
  BY DEF DraftInv
<1>2. /\ AskInv(d) /\ TapInv(d) /\ (d \in crossed \/ SingleInv(d)) /\ OnceInv(d)
      /\ TapsOn(d)' = TapsOn(d)
  BY SameParts DEF DraftInv, SameLine, TapsOn
<1>3. t \in tasks /\ t.at \notin {"reply", "ping"}
  BY DEF Goes, FormInv, Formed, TapPlace
<1>4. OnceInv(d)'
  BY <1>2, <1>3, OnceStep
<1>5. Asking(d)' = Asking(d)
  BY DEF Asking, Goes
<1>6. CASE d # t.draft
  <2>1. Bot!OnDraft(d)' = Bot!OnDraft(d)
    <3>1. t.draft = t.of.draft
      BY <1>3, TapHeld
    <3>2. QED
      BY <1>6, <3>1 DEF Bot!OnDraft, Goes
  <2>2. QED
    BY <1>2, <1>4, <1>5, <1>6, <2>1, SameDraft
<1>7. CASE d = t.draft
  <2>1. TapsOn(d) # {}
    BY <1>3, <1>7, TapHeld
  <2>2. Asking(d) = {}
    BY <1>2, <2>1 DEF AskInv
  <2>3. Bot!Hurt(drafts[d].of) => Bot!Hurt(drafts[d].of)'
    BY <1>7 DEF Bot!Hurt
  <2>4. AskInv(d)'
    BY <1>2, <1>5, <1>7, <2>2, <2>3 DEF AskInv
  <2>5. QED
    BY <1>4, <1>7, <2>4
<1>8. QED
  BY <1>6, <1>7

-----------------------------------------------------------------------------
(* The handlers of a tap                                                   *)

LEMMA StatusOf ==
  ASSUME BotBounds, StoreInv, NEW d \in DOMAIN drafts, NEW status \in {"approved", "rejected", "sent"}, Bot!SetStatus(d, status)
  PROVE  /\ drafts' \in Seq([of : Bot!Id, client : Bot!Person, status : {"pending", "approved", "rejected", "sent"}])
         /\ DOMAIN drafts' = DOMAIN drafts /\ \A e \in DOMAIN drafts : e # d => drafts'[e] = drafts[e]
         /\ drafts'[d].of = drafts[d].of /\ drafts'[d].client = drafts[d].client
         /\ Bot!Status(d)' = status
<1> DEFINE D == [of : Bot!Id, client : Bot!Person, status : {"pending", "approved", "rejected", "sent"}]
<1>1. drafts \in Seq(D) /\ Len(drafts) \in Nat /\ drafts \in [1..Len(drafts) -> D] /\ DOMAIN drafts = 1..Len(drafts)
  BY LenProperties DEF StoreInv
<1>2. drafts' = [drafts EXCEPT ![d] = [drafts[d] EXCEPT !.status = status]]
  BY DEF Bot!SetStatus
<1>3. [drafts[d] EXCEPT !.status = status] \in D
  BY <1>1
<1>4. drafts' \in [1..Len(drafts) -> D]
  BY <1>1, <1>2, <1>3
<1>5. drafts' \in Seq(D)
  BY <1>1, <1>4
<1>6. drafts'[d] = [drafts[d] EXCEPT !.status = status] /\ drafts[d] \in D
  BY <1>1, <1>2
<1>7. QED
  BY <1>1, <1>2, <1>4, <1>5, <1>6 DEF Bot!Status

\* Everything but the draft of a tap: it changes no user, text or document.
TapFrame(t, N) ==
  /\ Goes(t, N) /\ Bot!Tap(t.of) /\ SameLine
  /\ UNCHANGED <<backend, user, document, written, replied, ownerless, raced, crossed, stopped>>
  /\ process' # "down" /\ process' \in {"up", "ending"}
  /\ hurt' = hurt \/ (hurt' = hurt \cup {t.of} /\ N = {})
  /\ \A n \in N : Formed(n) /\ n.user = t.user /\ n.draft = t.draft
  /\ drafts' \in Seq([of : Bot!Id, client : Bot!Person, status : {"pending", "approved", "rejected", "sent"}])
  /\ DOMAIN drafts' = DOMAIN drafts /\ \A e \in DOMAIN drafts : e # t.draft => drafts'[e] = drafts[e]
  /\ drafts'[t.draft].of = drafts[t.draft].of /\ drafts'[t.draft].client = drafts[t.draft].client
  /\ DOMAIN answers' = DOMAIN answers /\ answers' \in Seq(Nat)
  /\ \A e \in DOMAIN drafts : e # t.draft => answers'[e] = answers[e]
  /\ buttons' = buttons \/ buttons' = buttons \ {t.draft}
  /\ reported' = reported \/ reported' = reported \cup {t.draft}

LEMMA TapKeeps ==
  ASSUME BotBounds, BotIInv, NEW t, NEW N, TapFrame(t, N),
         Bot!Status(t.draft)' = "pending" =>
           Bot!Status(t.draft) = "pending" /\ (t.draft \in buttons => t.draft \in buttons'),
         TapInv(t.draft)', t.draft \in crossed \/ SingleInv(t.draft)'
  PROVE  BotIInv'
<1>1. t \in tasks /\ t.draft \in DOMAIN drafts /\ t.of.kind # "text" /\ t.of \in Bot!Update /\ Bot!From(t.of) \in Bot!Person
  <2>1. t \in tasks /\ Bot!Tap(t.of)
    BY DEF TapFrame, Goes
  <2>2. t.draft \in DOMAIN drafts /\ t.of.kind # "text" /\ t.of \in Bot!Update
    BY <2>1, TapHeld DEF BotIInv, LineInv, UpdateOK
  <2>3. QED
    BY <2>1, <2>2, ConstantTypes DEF Bot!From, Bot!Update
<1>2. LineInv'
  BY LineStep DEF BotIInv, TapFrame
<1>3. \A n \in N : n.at \notin {"ping", "business", "attach"}
  BY DEF TapFrame, Goes, Formed, TapPlace
<1>4. FormInv'
  BY <1>1, <1>3, FormStep DEF BotIInv, TapFrame
<1>5. hurt' \subseteq Bot!Update /\ hurt \subseteq hurt'
  BY <1>1 DEF TapFrame, BotIInv, StoreInv
<1>6. StoreInv'
  BY <1>1, <1>5 DEF TapFrame, BotIInv, StoreInv
<1>7. TapPlace(t)
  BY <1>1 DEF BotIInv, FormInv, Formed, TapFrame
<1>8. UserInv'
  <2>1. Goes(t, N) /\ UNCHANGED <<user, ownerless>> /\ t.at \notin {"business", "attach"} /\ UserInv
    BY <1>7 DEF BotIInv, TapFrame, TapPlace
  <2>2. DOMAIN drafts' = DOMAIN drafts /\ \A d \in DOMAIN drafts : drafts'[d].client = drafts[d].client
    BY DEF TapFrame
  <2>3. \A n \in N : n.user = t.user
    BY DEF TapFrame
  <2>4. \A s \in tasks : Bot!From(s.of) \in Bot!Person
    BY FromTyped DEF BotIInv
  <2>5. QED
    BY <1>3, <1>5, <2>1, <2>2, <2>3, <2>4, UserKept
<1>9. DraftInv'
  BY <1>1, <1>5, TapStep DEF BotIInv, TapFrame
<1>10. ReplyInv'
  BY <1>1, <1>5, ReplyStep DEF BotIInv, TapFrame
<1>11. Bot!HalfStoredNeedsMishap'
  BY <1>5, <1>7, DocumentStep DEF BotIInv, TapFrame, TapPlace
<1>12. QED
  BY <1>2, <1>4, <1>6, <1>8, <1>9, <1>10, <1>11 DEF BotIInv

LEMMA ToOf ==
  ASSUME BotBounds, NEW t \in tasks, NEW place, Bot!To(t, place)
  PROVE  LET n == [t EXCEPT !.at = place] IN Goes(t, {n})
BY DEF Bot!To, Bot!Put, Goes

LEMMA EndOf == ASSUME BotBounds, NEW t \in tasks, Bot!End(t) PROVE Goes(t, {})
BY DEF Bot!End, Goes

LEMMA PlacedOf ==
  ASSUME BotBounds, NEW t \in Bot!Task, NEW place \in Bot!Place
  PROVE  LET n == [t EXCEPT !.at = place] IN
         n \in Bot!Task /\ n.of = t.of /\ n.at = place /\ n.user = t.user /\ n.draft = t.draft
BY DEF Bot!Task

LEMMA SameBudget ==
  ASSUME BotBounds, LineInv, UNCHANGED <<updates, batch, proxy, budget>>
  PROVE  SameLine
BY DEF LineInv, SameLine

\* A task moves on with a tap.
LEMMA TapGoes ==
  ASSUME BotBounds, BotIInv, NEW t \in tasks, Bot!Tap(t.of), NEW place \in Bot!Place, Bot!To(t, place),
         place = "report" \/ (place \in {"approve", "send", "sent"} /\ t.of.kind = "approve")
  PROVE  LET n == [t EXCEPT !.at = place] IN
         Goes(t, {n}) /\ Formed(n) /\ n.user = t.user /\ n.draft = t.draft /\ n.at = place /\ n.of = t.of
<1> DEFINE n == [t EXCEPT !.at = place]
<1>1. Formed(t) /\ t \in Bot!Task
  BY DEF BotIInv, FormInv, Formed
<1>2. n \in Bot!Task /\ n.of = t.of /\ n.at = place /\ n.user = t.user /\ n.draft = t.draft
  BY <1>1, PlacedOf
<1>3. Goes(t, {n})
  BY ToOf
<1> HIDE DEF n
<1>4. Formed(n)
  BY <1>1, <1>2 DEF Formed, TapPlace
<1>5. QED
  BY <1>2, <1>3, <1>4 DEF n

LEMMA DraftsTyped ==
  ASSUME BotBounds, BotIInv
  PROVE  /\ drafts \in Seq([of : Bot!Id, client : Bot!Person, status : {"pending", "approved", "rejected", "sent"}])
         /\ answers \in Seq(Nat) /\ process \in {"up", "ending", "down"} /\ (tasks # {} => process # "down")
         /\ DOMAIN answers = DOMAIN drafts /\ DOMAIN drafts \subseteq Nat \ {0}
         /\ \A d \in DOMAIN drafts : answers[d] \in Nat
         /\ \A d \in DOMAIN drafts : drafts[d] \in [of : Bot!Id, client : Bot!Person, status : {"pending", "approved", "rejected", "sent"}]
<1>1. /\ drafts \in Seq([of : Bot!Id, client : Bot!Person, status : {"pending", "approved", "rejected", "sent"}])
      /\ answers \in Seq(Nat) /\ process \in {"up", "ending", "down"} /\ (tasks # {} => process # "down")
      /\ DOMAIN answers = DOMAIN drafts
  BY DEF BotIInv, StoreInv, LineInv
<1>2. DOMAIN drafts = 1..Len(drafts) /\ Len(drafts) \in Nat
      /\ \A d \in DOMAIN drafts : drafts[d] \in [of : Bot!Id, client : Bot!Person, status : {"pending", "approved", "rejected", "sent"}]
  <2> DEFINE D == [of : Bot!Id, client : Bot!Person, status : {"pending", "approved", "rejected", "sent"}]
  <2>1. drafts \in Seq(D)
    BY <1>1
  <2> HIDE DEF D
  <2>2. drafts \in [1..Len(drafts) -> D] /\ Len(drafts) \in Nat /\ DOMAIN drafts = 1..Len(drafts)
    BY <2>1, LenProperties
  <2>3. QED
    BY <2>2 DEF D
<1>3. \A d \in DOMAIN answers : answers[d] \in Nat
  <2>1. answers \in [1..Len(answers) -> Nat]
    BY <1>1, LenProperties
  <2>2. QED
    BY <2>1
<1>4. QED
  BY <1>1, <1>2, <1>3

\* What is known of the draft of a tap.
LEMMA TapKnown ==
  ASSUME BotBounds, BotIInv, NEW t \in tasks, Bot!Tap(t.of)
  PROVE  /\ t.draft \in DOMAIN drafts /\ t \in Bot!OnDraft(t.draft) /\ t.of \in TapsOn(t.draft) /\ Formed(t)
         /\ t.draft = t.of.draft /\ TapPlace(t) /\ TapInv(t.draft)
         /\ t.draft \in crossed \/ (SingleInv(t.draft) /\ Bot!OnDraft(t.draft) = {t})
         /\ TapsOn(t.draft)' = {u \in Held' : Bot!Tap(u) /\ u.draft = t.draft}
<1>1. t.draft \in DOMAIN drafts /\ t \in Bot!OnDraft(t.draft) /\ t.of \in TapsOn(t.draft) /\ Formed(t)
      /\ t.draft = t.of.draft /\ TapPlace(t)
  BY TapHeld DEF BotIInv, FormInv
<1>2. TapInv(t.draft) /\ (t.draft \in crossed \/ SingleInv(t.draft))
  BY <1>1 DEF BotIInv, DraftInv
<1>3. SingleInv(t.draft) => Bot!OnDraft(t.draft) = {t}
  BY <1>1, OneTap DEF BotIInv
<1>4. QED
  BY <1>1, <1>2, <1>3 DEF TapsOn

\* The tasks on the draft afterwards.
LEMMA TapAfter ==
  ASSUME BotBounds, NEW t, NEW N, TapFrame(t, N), t.draft = t.of.draft
  PROVE  /\ Bot!OnDraft(t.draft)' = (Bot!OnDraft(t.draft) \ {t}) \cup N
         /\ TapsOn(t.draft)' = TapsOn(t.draft)
         /\ Bot!HurtTap(t.draft) => Bot!HurtTap(t.draft)'
         /\ t.of \in hurt' => Bot!HurtTap(t.draft)'
<1>1. \A n \in N : Bot!Tap(n.of) /\ n.of.draft = t.draft
  BY DEF TapFrame, Goes
<1>2. Bot!OnDraft(t.draft)' = (Bot!OnDraft(t.draft) \ {t}) \cup N
  BY <1>1 DEF Bot!OnDraft, TapFrame, Goes
<1>3. TapsOn(t.draft)' = TapsOn(t.draft)
  BY SameParts DEF TapsOn, TapFrame, SameLine
<1>4. hurt \subseteq hurt'
  BY DEF TapFrame
<1>5. QED
  BY <1>2, <1>3, <1>4 DEF Bot!HurtTap, TapFrame

LEMMA CheckPendingKeeps == ASSUME BotBounds, BotIInv, NEW t \in tasks, Bot!CheckPending(t) PROVE BotIInv'
<1> DEFINE d == t.draft
           n == [t EXCEPT !.at = "approve"]
<1>1. Bot!Tap(t.of) /\ t.of.kind = "approve" /\ t.at = "lookup"
  BY DEF Bot!CheckPending, Bot!Tap
<1>2. /\ d \in DOMAIN drafts /\ t \in Bot!OnDraft(d) /\ d = t.of.draft /\ TapInv(d)
      /\ d \in crossed \/ (SingleInv(d) /\ Bot!OnDraft(d) = {t})
  BY <1>1, TapKnown
<1>3. /\ UNCHANGED <<backend, user, drafts, document, updates, batch, proxy, buttons, process, budget>>
      /\ UNCHANGED <<written, replied, answers, reported, hurt, ownerless, raced, crossed, stopped>>
  BY DEF Bot!CheckPending, Bot!storage, Bot!world, Bot!past
<1>4. SameLine /\ process # "down"
  BY <1>3, SameBudget DEF BotIInv, LineInv
<1>5. CASE ~Bot!Pending(d)
  <2>1. Goes(t, {})
    BY <1>5, EndOf DEF Bot!CheckPending
  <2>2. TapFrame(t, {})
    BY <1>1, <1>3, <1>4, <2>1, DraftsTyped DEF TapFrame
  <2>3. Bot!OnDraft(d)' = Bot!OnDraft(d) \ {t} /\ TapsOn(d)' = TapsOn(d) /\ Bot!HurtTap(d)' = Bot!HurtTap(d)
    BY <1>2, <1>3, <2>2, TapAfter DEF Bot!HurtTap
  <2>4. Bot!Status(d)' = Bot!Status(d)
    BY <1>3 DEF Bot!Status
  <2>5. TapInv(d)'
    BY <1>1, <1>2, <2>3, <2>4 DEF TapInv
  <2>6. SingleInv(d) => SingleInv(d)'
    BY <1>1, <1>3, <2>3, <2>4 DEF SingleInv
  <2>7. QED
    BY <1>2, <1>3, <2>2, <2>4, <2>5, <2>6, TapKeeps
<1>6. CASE Bot!Pending(d)
  <2>1. Goes(t, {n}) /\ Formed(n) /\ n.user = t.user /\ n.draft = t.draft /\ n.at = "approve"
    BY <1>1, <1>6, TapGoes DEF Bot!CheckPending, Bot!Place
  <2> HIDE DEF n
  <2>2. TapFrame(t, {n})
    BY <1>1, <1>3, <1>4, <2>1, DraftsTyped DEF TapFrame
  <2>3. Bot!OnDraft(d)' = (Bot!OnDraft(d) \ {t}) \cup {n} /\ TapsOn(d)' = TapsOn(d) /\ Bot!HurtTap(d)' = Bot!HurtTap(d)
    BY <1>2, <1>3, <2>2, TapAfter DEF Bot!HurtTap
  <2>4. Bot!Status(d)' = Bot!Status(d) /\ Bot!Status(d) = "pending"
    BY <1>3, <1>6 DEF Bot!Status, Bot!Pending
  <2>5. TapInv(d)'
    BY <1>1, <1>2, <2>1, <2>3, <2>4 DEF TapInv
  <2>6. SingleInv(d) => SingleInv(d)'
    BY <1>1, <1>3, <2>1, <2>3, <2>4 DEF SingleInv
  <2>7. QED
    BY <1>2, <1>3, <2>2, <2>4, <2>5, <2>6, TapKeeps
<1>7. QED
  BY <1>5, <1>6

LEMMA MarkApprovedKeeps == ASSUME BotBounds, BotIInv, NEW t \in tasks, Bot!Tap(t.of), Bot!MarkApproved(t) PROVE BotIInv'
<1> DEFINE d == t.draft
           n == [t EXCEPT !.at = "send"]
<1>1. t.at = "approve"
  BY DEF Bot!MarkApproved
<1>2. /\ d \in DOMAIN drafts /\ t \in Bot!OnDraft(d) /\ d = t.of.draft /\ TapInv(d) /\ t.of.kind = "approve"
      /\ d \in crossed \/ (SingleInv(d) /\ Bot!OnDraft(d) = {t})
  BY <1>1, TapKnown DEF TapPlace
<1>3. /\ UNCHANGED <<backend, user, document, updates, batch, proxy, buttons, process, budget>>
      /\ UNCHANGED <<written, replied, answers, reported, hurt, ownerless, raced, crossed, stopped>>
  BY DEF Bot!MarkApproved, Bot!storage, Bot!world, Bot!past
<1>4. SameLine /\ process # "down"
  BY <1>3, SameBudget DEF BotIInv, LineInv
<1>5. /\ drafts' \in Seq([of : Bot!Id, client : Bot!Person, status : {"pending", "approved", "rejected", "sent"}])
      /\ DOMAIN drafts' = DOMAIN drafts /\ \A e \in DOMAIN drafts : e # d => drafts'[e] = drafts[e]
      /\ drafts'[d].of = drafts[d].of /\ drafts'[d].client = drafts[d].client
      /\ Bot!Status(d)' = "approved"
  BY <1>2, StatusOf DEF BotIInv, Bot!MarkApproved
<1>6. Goes(t, {n}) /\ Formed(n) /\ n.user = t.user /\ n.draft = t.draft /\ n.at = "send"
  BY <1>2, TapGoes DEF Bot!MarkApproved, Bot!Place
<1> HIDE DEF n
<1>7. TapFrame(t, {n})
  BY <1>3, <1>4, <1>5, <1>6, DraftsTyped DEF TapFrame
<1>8. Bot!OnDraft(d)' = (Bot!OnDraft(d) \ {t}) \cup {n} /\ TapsOn(d)' = TapsOn(d) /\ Bot!HurtTap(d)' = Bot!HurtTap(d)
  <2>1. Bot!HurtTap(d)' = Bot!HurtTap(d)
    BY <1>3 DEF Bot!HurtTap
  <2>2. QED
    BY <1>2, <1>7, <2>1, TapAfter
<1>9. TapInv(d)'
  BY <1>2, <1>5, <1>6, <1>8 DEF TapInv
<1>10. ASSUME SingleInv(d), Bot!OnDraft(d) = {t} PROVE SingleInv(d)'
  <2>1. Bot!Status(d) = "pending" /\ answers[d] = 0
    <3>1. t \in Bot!OnDraft(d) /\ Bot!Status(d) = "pending"
      BY <1>1, <1>10 DEF SingleInv
    <3>2. QED
      BY <1>10, <3>1 DEF SingleInv
  <2>2. Bot!OnDraft(d)' = {n}
    BY <1>8, <1>10
  <2>3. QED
    BY <1>3, <1>5, <1>6, <1>8, <1>10, <2>1, <2>2 DEF SingleInv
<1>11. QED
  BY <1>2, <1>5, <1>7, <1>9, <1>10, TapKeeps

LEMMA SendAnswerKeeps == ASSUME BotBounds, BotIInv, NEW t \in tasks, Bot!Tap(t.of), Bot!SendAnswer(t) PROVE BotIInv'
<1> DEFINE d == t.draft
           n == [t EXCEPT !.at = "sent"]
<1>1. t.at = "send"
  BY DEF Bot!SendAnswer
<1>2. /\ d \in DOMAIN drafts /\ t \in Bot!OnDraft(d) /\ d = t.of.draft /\ TapInv(d) /\ t.of.kind = "approve"
      /\ (d \in crossed \/ (SingleInv(d) /\ Bot!OnDraft(d) = {t})) /\ t.of \in TapsOn(d)
  BY <1>1, TapKnown DEF TapPlace
<1>3. /\ UNCHANGED <<backend, user, drafts, document, updates, batch, proxy, buttons, process, budget>>
      /\ UNCHANGED <<written, replied, reported, hurt, ownerless, raced, crossed, stopped>>
  BY DEF Bot!SendAnswer, Bot!storage, Bot!world
<1>4. SameLine /\ process # "down"
  BY <1>3, SameBudget DEF BotIInv, LineInv
<1>5. Bot!HasTelegram(drafts[d].client)
  BY <1>2 DEF BotIInv, UserInv, Bot!HasTelegram
<1>6. answers' = [answers EXCEPT ![d] = @ + 1] /\ Bot!To(t, "sent")
  BY <1>5 DEF Bot!SendAnswer
<1>7. Goes(t, {n}) /\ Formed(n) /\ n.user = t.user /\ n.draft = t.draft /\ n.at = "sent"
  BY <1>2, <1>6, TapGoes DEF Bot!Place
<1> HIDE DEF n
<1>8. /\ DOMAIN answers' = DOMAIN answers /\ answers' \in Seq(Nat) /\ answers[d] \in Nat
      /\ \A e \in DOMAIN drafts : e # d => answers'[e] = answers[e]
      /\ answers'[d] = answers[d] + 1
  <2>1. answers \in Seq(Nat) /\ answers \in [1..Len(answers) -> Nat] /\ Len(answers) \in Nat
        /\ DOMAIN answers = 1..Len(answers) /\ DOMAIN answers = DOMAIN drafts /\ answers[d] \in Nat
    BY <1>2, DraftsTyped, LenProperties
  <2>2. answers' \in [1..Len(answers) -> Nat]
    <3>1. answers[d] + 1 \in Nat
      BY <2>1
    <3>2. QED
      BY <1>6, <2>1, <3>1
  <2>3. QED
    BY <1>2, <1>6, <2>1, <2>2
<1>9. TapFrame(t, {n})
  BY <1>3, <1>4, <1>7, <1>8, DraftsTyped DEF TapFrame
<1>10. Bot!OnDraft(d)' = (Bot!OnDraft(d) \ {t}) \cup {n} /\ TapsOn(d)' = TapsOn(d) /\ Bot!HurtTap(d)' = Bot!HurtTap(d)
  BY <1>2, <1>3, <1>9, TapAfter DEF Bot!HurtTap
<1>11. Bot!Status(d)' = Bot!Status(d)
  BY <1>3 DEF Bot!Status
<1>12. TapInv(d)'
  BY <1>1, <1>2, <1>7, <1>10, <1>11 DEF TapInv
<1>13. ASSUME SingleInv(d), Bot!OnDraft(d) = {t} PROVE SingleInv(d)'
  <2>1. Bot!Status(d) = "approved" /\ answers[d] = 0
    BY <1>1, <1>13 DEF SingleInv
  <2>2. Bot!OnDraft(d)' = {n}
    BY <1>10, <1>13
  <2>3. \A u \in TapsOn(d) : u.kind = "approve"
    BY <1>2, <1>13 DEF SingleInv
  <2>4. QED
    BY <1>3, <1>7, <1>8, <1>10, <1>11, <1>13, <2>1, <2>2, <2>3 DEF SingleInv
<1>14. QED
  BY <1>2, <1>3, <1>9, <1>11, <1>12, <1>13, TapKeeps

LEMMA MarkSentKeeps == ASSUME BotBounds, BotIInv, NEW t \in tasks, Bot!Tap(t.of), Bot!MarkSent(t) PROVE BotIInv'
<1> DEFINE d == t.draft
           n == [t EXCEPT !.at = "report"]
<1>1. t.at = "sent"
  BY DEF Bot!MarkSent
<1>2. /\ d \in DOMAIN drafts /\ t \in Bot!OnDraft(d) /\ d = t.of.draft /\ TapInv(d) /\ t.of.kind = "approve"
      /\ d \in crossed \/ (SingleInv(d) /\ Bot!OnDraft(d) = {t})
  BY <1>1, TapKnown DEF TapPlace
<1>3. /\ UNCHANGED <<backend, user, document, updates, batch, proxy, buttons, process, budget>>
      /\ UNCHANGED <<written, replied, answers, reported, hurt, ownerless, raced, crossed, stopped>>
  BY DEF Bot!MarkSent, Bot!storage, Bot!world, Bot!past
<1>4. SameLine /\ process # "down"
  BY <1>3, SameBudget DEF BotIInv, LineInv
<1>5. /\ drafts' \in Seq([of : Bot!Id, client : Bot!Person, status : {"pending", "approved", "rejected", "sent"}])
      /\ DOMAIN drafts' = DOMAIN drafts /\ \A e \in DOMAIN drafts : e # d => drafts'[e] = drafts[e]
      /\ drafts'[d].of = drafts[d].of /\ drafts'[d].client = drafts[d].client
      /\ Bot!Status(d)' = "sent"
  BY <1>2, StatusOf DEF BotIInv, Bot!MarkSent
<1>6. Goes(t, {n}) /\ Formed(n) /\ n.user = t.user /\ n.draft = t.draft /\ n.at = "report"
  BY <1>2, TapGoes DEF Bot!MarkSent, Bot!Place
<1> HIDE DEF n
<1>7. TapFrame(t, {n})
  BY <1>3, <1>4, <1>5, <1>6, DraftsTyped DEF TapFrame
<1>8. Bot!OnDraft(d)' = (Bot!OnDraft(d) \ {t}) \cup {n} /\ TapsOn(d)' = TapsOn(d) /\ Bot!HurtTap(d)' = Bot!HurtTap(d)
  <2>1. Bot!HurtTap(d)' = Bot!HurtTap(d)
    BY <1>3 DEF Bot!HurtTap
  <2>2. QED
    BY <1>2, <1>7, <2>1, TapAfter
<1>9. TapInv(d)'
  BY <1>2, <1>5, <1>6, <1>8 DEF TapInv
<1>10. ASSUME SingleInv(d), Bot!OnDraft(d) = {t} PROVE SingleInv(d)'
  <2>1. Bot!OnDraft(d)' = {n}
    BY <1>8, <1>10
  <2>2. QED
    BY <1>3, <1>5, <1>6, <1>8, <1>10, <2>1 DEF SingleInv
<1>11. QED
  BY <1>2, <1>5, <1>7, <1>9, <1>10, TapKeeps

LEMMA MarkRejectedKeeps == ASSUME BotBounds, BotIInv, NEW t \in tasks, Bot!MarkRejected(t) PROVE BotIInv'
<1> DEFINE d == t.draft
           n == [t EXCEPT !.at = "report"]
<1>1. t.at = "lookup" /\ t.of.kind = "reject" /\ Bot!Tap(t.of)
  BY DEF Bot!MarkRejected, Bot!Tap
<1>2. /\ d \in DOMAIN drafts /\ t \in Bot!OnDraft(d) /\ d = t.of.draft /\ TapInv(d) /\ t.of \in TapsOn(d)
      /\ d \in crossed \/ (SingleInv(d) /\ Bot!OnDraft(d) = {t})
  BY <1>1, TapKnown
<1>3. /\ UNCHANGED <<backend, user, document, updates, batch, proxy, buttons, process, budget>>
      /\ UNCHANGED <<written, replied, answers, reported, hurt, ownerless, raced, crossed, stopped>>
  BY DEF Bot!MarkRejected, Bot!storage, Bot!world, Bot!past
<1>4. SameLine /\ process # "down"
  BY <1>3, SameBudget DEF BotIInv, LineInv
<1>5. /\ drafts' \in Seq([of : Bot!Id, client : Bot!Person, status : {"pending", "approved", "rejected", "sent"}])
      /\ DOMAIN drafts' = DOMAIN drafts /\ \A e \in DOMAIN drafts : e # d => drafts'[e] = drafts[e]
      /\ drafts'[d].of = drafts[d].of /\ drafts'[d].client = drafts[d].client
      /\ Bot!Status(d)' = "rejected"
  BY <1>2, StatusOf DEF BotIInv, Bot!MarkRejected
<1>6. Goes(t, {n}) /\ Formed(n) /\ n.user = t.user /\ n.draft = t.draft /\ n.at = "report"
  BY <1>1, TapGoes DEF Bot!MarkRejected, Bot!Place
<1> HIDE DEF n
<1>7. TapFrame(t, {n})
  BY <1>1, <1>3, <1>4, <1>5, <1>6, DraftsTyped DEF TapFrame
<1>8. Bot!OnDraft(d)' = (Bot!OnDraft(d) \ {t}) \cup {n} /\ TapsOn(d)' = TapsOn(d) /\ Bot!HurtTap(d)' = Bot!HurtTap(d)
  <2>1. Bot!HurtTap(d)' = Bot!HurtTap(d)
    BY <1>3 DEF Bot!HurtTap
  <2>2. QED
    BY <1>2, <1>7, <2>1, TapAfter
<1>9. TapInv(d)'
  BY <1>2, <1>5, <1>6, <1>8 DEF TapInv
<1>10. ASSUME SingleInv(d), Bot!OnDraft(d) = {t} PROVE SingleInv(d)'
  <2>1. Bot!OnDraft(d)' = {n}
    BY <1>8, <1>10
  <2>2. answers[d] > 0 => Bot!HurtTap(d)
    BY <1>1, <1>2, <1>10 DEF SingleInv
  <2>3. QED
    BY <1>3, <1>5, <1>6, <1>8, <1>10, <2>1, <2>2 DEF SingleInv
<1>11. QED
  BY <1>2, <1>5, <1>7, <1>9, <1>10, TapKeeps

\* A tap that ends: it was reported, or failed and left a trace.
LEMMA TapEnds ==
  ASSUME BotBounds, BotIInv, NEW t \in tasks, Bot!Tap(t.of), TapFrame(t, {}), drafts' = drafts, buttons' \subseteq buttons,
         \/ t.at = "report" /\ t.draft \notin buttons'
         \/ buttons' = buttons /\ t.of \in hurt' /\ answers'[t.draft] \in {answers[t.draft], answers[t.draft] + 1}
              /\ (answers'[t.draft] # answers[t.draft] => t.at = "send"),
         t.at = "report" => answers' = answers
  PROVE  BotIInv'
<1> DEFINE d == t.draft
<1>1. /\ d \in DOMAIN drafts /\ t \in Bot!OnDraft(d) /\ d = t.of.draft /\ TapInv(d) /\ answers[d] \in Nat
      /\ d \in crossed \/ (SingleInv(d) /\ Bot!OnDraft(d) = {t})
  BY TapKnown, DraftsTyped
<1>2. /\ Bot!OnDraft(d)' = Bot!OnDraft(d) \ {t} /\ TapsOn(d)' = TapsOn(d) /\ (Bot!HurtTap(d) => Bot!HurtTap(d)')
      /\ t.of \in hurt' => Bot!HurtTap(d)'
  BY <1>1, TapAfter
<1>3. Bot!Status(d)' = Bot!Status(d)
  BY DEF Bot!Status
<1>4. TapInv(d)'
  BY <1>1, <1>2, <1>3 DEF TapInv
<1>5. ASSUME SingleInv(d), Bot!OnDraft(d) = {t} PROVE SingleInv(d)'
  <2>1. Bot!OnDraft(d)' = {}
    BY <1>2, <1>5
  <2>2. CASE answers'[d] = answers[d]
    BY <1>2, <1>3, <1>5, <2>1, <2>2 DEF SingleInv
  <2>3. CASE answers'[d] # answers[d]
    <3>1. Bot!Status(d) = "approved" /\ answers[d] = 0 /\ answers'[d] = 1 /\ t.of \in hurt'
      BY <1>1, <1>5, <2>3 DEF SingleInv
    <3>2. QED
      BY <1>2, <1>3, <1>5, <2>1, <3>1 DEF SingleInv
  <2>4. QED
    BY <2>2, <2>3
<1>6. Bot!Status(d)' = "pending" => Bot!Status(d) = "pending" /\ (d \in buttons => d \in buttons')
  BY <1>1, <1>3 DEF TapInv
<1>7. QED
  BY <1>1, <1>4, <1>5, <1>6, TapKeeps

LEMMA RaiseOf ==
  ASSUME BotBounds, BotIInv, NEW t \in tasks, Bot!Raise(t)
  PROVE  /\ process' # "down" /\ process' \in {"up", "ending"}
         /\ \/ Goes(t, {})
            \/ LET n == [t EXCEPT !.at = "reply", !.user = Bot!NoRow, !.draft = 0] IN
               t.of.kind = "text" /\ t.at \in {"lookup", "insert", "business", "route"} /\ Goes(t, {n})
<1>1. process \in {"up", "ending"}
  BY DraftsTyped
<1>2. CASE Goes(t, {})
  BY <1>1, <1>2 DEF Bot!Raise
<1>3. CASE ~Goes(t, {})
  <2>1. ~Bot!End(t)
    BY <1>3, EndOf
  <2>2. /\ t.of.kind = "text" /\ t.at \in {"lookup", "insert", "business", "route"} /\ process' = process
        /\ Bot!Put(t, [t EXCEPT !.at = "reply", !.user = Bot!NoRow, !.draft = 0])
    BY <2>1 DEF Bot!Raise, Bot!LookingUp
  <2>3. QED
    BY <1>1, <2>2 DEF Bot!Put, Goes
<1>4. QED
  BY <1>2, <1>3

LEMMA ReportKeeps == ASSUME BotBounds, BotIInv, NEW t \in tasks, Bot!Tap(t.of), Bot!Report(t) PROVE BotIInv'
<1>1. t.at = "report" /\ t.of.kind # "text"
  BY DEF Bot!Report, Bot!Tap
<1>2. /\ UNCHANGED <<backend, user, drafts, document, updates, batch, proxy, budget>>
      /\ UNCHANGED <<written, replied, answers, hurt, ownerless, raced, crossed, stopped>>
      /\ buttons' = buttons \ {t.draft} /\ reported' \in {reported, reported \cup {t.draft}}
  BY DEF Bot!Report, Bot!storage
<1>3. SameLine /\ process \in {"up", "ending"}
  BY <1>2, SameBudget, DraftsTyped DEF BotIInv
<1>4. Goes(t, {}) /\ process' \in {"up", "ending"}
  BY <1>1, <1>3, RaiseOf, EndOf DEF Bot!Report
<1>5. TapFrame(t, {})
  BY <1>2, <1>3, <1>4, DraftsTyped DEF TapFrame
<1>6. QED
  BY <1>1, <1>2, <1>5, TapEnds

-----------------------------------------------------------------------------
(* The other handlers                                                      *)

\* Everything but the rows of people and the document, in a step of a task that handles
\* no tap and makes no draft.
OtherFrame(t, N) ==
  /\ Goes(t, N) /\ ~Bot!Tap(t.of) /\ SameLine
  /\ UNCHANGED <<backend, drafts, answers, reported, written, crossed, stopped>>
  /\ process' # "down" /\ process' \in {"up", "ending"}
  /\ hurt' \in {hurt, hurt \cup {t.of}}
  /\ replied' \in {replied, replied \cup {t.of.id}}
  /\ raced' \in {raced, raced \cup {t.of.id}}
  /\ ownerless' = ownerless \/ (t.draft # 0 /\ ownerless' = ownerless \cup {t.draft})
  /\ buttons' = buttons \/ (N = {} /\ t.draft # 0 /\ buttons' = buttons \cup {t.draft})
  /\ \A n \in N : /\ Formed(n) /\ n.draft = t.draft
                  /\ n.at = "ping" => t.of.id \in replied'
                  /\ t.at \in {"reply", "ping"} => n.at \in {"reply", "ping"}
  /\ t.draft # 0 => \/ N # {} \/ t.draft \in buttons' \/ t.of.who = Contact \/ t.of \in hurt'
                    \/ t.draft \in ownerless'
  /\ N # {} \/ t.of.kind # "text" \/ t.of.id \in replied' \/ t.of \in hurt'
       \/ (t.of.who = Contact /\ t.of.id \in raced')

LEMMA OtherKeeps ==
  ASSUME BotBounds, BotIInv, NEW t, NEW N, OtherFrame(t, N),
         user' \in [Bot!Person -> Bot!Row], document' \in {"none", "row", "searchable"},
         UserInv', Bot!HalfStoredNeedsMishap'
  PROVE  BotIInv'
<1>1. t \in tasks /\ t.of \in Bot!Update /\ t.draft \in {0} \cup DOMAIN drafts /\ t.of.id \in Bot!Id
  BY DEF OtherFrame, Goes, BotIInv, LineInv, UpdateOK, FormInv, Bot!Update
<1>2. LineInv'
  BY LineStep DEF BotIInv, OtherFrame
<1>3. FormInv'
  <2>1. FormInv /\ Goes(t, N) /\ drafts' = drafts /\ replied \subseteq replied'
    BY DEF BotIInv, OtherFrame
  <2>2. \A n \in N : Formed(n) /\ n.draft \in {0} \cup DOMAIN drafts' /\ (n.at = "ping" => n.of.id \in replied')
    BY <1>1, <2>1 DEF OtherFrame, Goes
  <2>3. QED
    BY <2>1, <2>2, FormStep
<1>4. hurt \subseteq hurt' /\ hurt' \subseteq Bot!Update /\ ownerless \subseteq ownerless' /\ crossed \subseteq crossed'
  BY <1>1 DEF OtherFrame, BotIInv, StoreInv
<1>5. /\ replied' \subseteq Bot!Id /\ raced' \subseteq Bot!Id /\ replied \subseteq replied' /\ raced \subseteq raced'
      /\ ownerless' \subseteq DOMAIN drafts /\ buttons' \subseteq DOMAIN drafts
  BY <1>1 DEF OtherFrame, BotIInv, StoreInv
<1>6. StoreInv'
  BY <1>4, <1>5 DEF OtherFrame, BotIInv, StoreInv
<1>7. DraftInv'
  <2>1. DOMAIN drafts \subseteq Nat \ {0}
    BY DraftsTyped
  <2>2. LineInv /\ FormInv /\ DraftInv /\ SameLine /\ Goes(t, N) /\ ~Bot!Tap(t.of) /\ UNCHANGED <<drafts, answers, stopped>>
    BY DEF BotIInv, OtherFrame
  <2>3. \A n \in N : n.draft = t.draft /\ (t.at \in {"reply", "ping"} => n.at \in {"reply", "ping"})
    BY DEF OtherFrame
  <2>4. /\ buttons' = buttons \/ (N = {} /\ t.draft # 0 /\ buttons' = buttons \cup {t.draft})
        /\ t.draft # 0 => \/ N # {} \/ t.draft \in buttons' \/ t.of.who = Contact \/ t.of \in hurt'
                          \/ t.draft \in ownerless'
    BY DEF OtherFrame
  <2>5. QED
    BY <1>4, <2>1, <2>2, <2>3, <2>4, OtherStep
<1>8. ReplyInv'
  BY <1>4, <1>5, ReplyStep DEF BotIInv, OtherFrame
<1>9. QED
  BY <1>2, <1>3, <1>6, <1>7, <1>8 DEF BotIInv

LEMMA RowsOf ==
  ASSUME BotBounds
  PROVE
  /\ Bot!NoRow \in Bot!Row /\ Bot!NoRow.business = FALSE
  /\ \A p \in Bot!Person : Bot!FirstRow(p) \in Bot!Row /\ Bot!FirstRow(p) # Bot!NoRow /\ Bot!FirstRow(p).business = FALSE
  /\ \A r \in Bot!Row, b \in BOOLEAN : [r EXCEPT !.business = b] \in Bot!Row /\ [r EXCEPT !.business = b].business = b
                                   /\ [r EXCEPT !.business = b].role = r.role
  /\ \A r \in Bot!Row : r.business => r # Bot!NoRow
BY DEF Bot!Row, Bot!NoRow, Bot!FirstRow, Bot!Role

\* A task that handles no tap, and where it may be.
LEMMA OtherKnown ==
  ASSUME BotBounds, BotIInv, NEW t \in tasks, ~Bot!Tap(t.of)
  PROVE  /\ t \in Bot!Task /\ Formed(t) /\ OtherPlace(t) /\ t.of \in Bot!Update /\ Bot!From(t.of) \in Bot!Person
         /\ t.draft # 0 => t.at \in {"reply", "ping"} /\ t.of.kind = "text" /\ t.user.business
         /\ t.draft \in {0} \cup DOMAIN drafts /\ t.user \in Bot!Row /\ t.of.who \in Bot!Person
         /\ t.user # Bot!NoRow \/ t.at \in {"business", "attach"} => user[Bot!From(t.of)] # Bot!NoRow
         /\ user \in [Bot!Person -> Bot!Row] /\ process \in {"up", "ending"}
         /\ t.of.kind \in {"text", "start", "claim", "document"}
<1>1. Formed(t) /\ t.draft \in {0} \cup DOMAIN drafts /\ t \in Bot!Task
  BY DEF BotIInv, FormInv, Formed
<1>2. t.of \in Bot!Update /\ t.user \in Bot!Row
  BY <1>1 DEF Bot!Task
<1>3. Bot!From(t.of) \in Bot!Person
  BY FromTyped DEF BotIInv
<1>4. /\ t.user # Bot!NoRow \/ t.at \in {"business", "attach"} => user[Bot!From(t.of)] # Bot!NoRow
      /\ user \in [Bot!Person -> Bot!Row]
  BY DEF BotIInv, UserInv, StoreInv
<1>5. process \in {"up", "ending"}
  BY DraftsTyped
<1>6. QED
  BY <1>1, <1>2, <1>3, <1>4, <1>5 DEF Formed, Bot!Tap, Bot!Update, Bot!Kind

LEMMA OtherGoes ==
  ASSUME BotBounds, BotIInv, NEW t \in tasks, ~Bot!Tap(t.of), NEW place \in Bot!Place, Bot!To(t, place)
  PROVE  LET n == [t EXCEPT !.at = place] IN
         /\ Goes(t, {n}) /\ n \in Bot!Task /\ n.user = t.user /\ n.draft = t.draft /\ n.at = place /\ n.of = t.of
         /\ OtherPlace(n) /\ (t.draft # 0 => place \in {"reply", "ping"}) /\ (place = "ping" => t.draft # 0 /\ ~Bot!OnSimplex(t.of))
              => Formed(n)
<1> DEFINE n == [t EXCEPT !.at = place]
<1>1. t \in Bot!Task /\ (t.draft # 0 => t.of.kind = "text" /\ t.user.business)
  BY OtherKnown
<1>2. n \in Bot!Task /\ n.of = t.of /\ n.at = place /\ n.user = t.user /\ n.draft = t.draft
  BY <1>1, PlacedOf
<1>3. Goes(t, {n})
  BY ToOf
<1> HIDE DEF n
<1>4. OtherPlace(n) /\ (t.draft # 0 => place \in {"reply", "ping"}) /\ (place = "ping" => t.draft # 0 /\ ~Bot!OnSimplex(t.of))
        => Formed(n)
  BY <1>1, <1>2 DEF Formed
<1>5. QED
  BY <1>2, <1>3, <1>4 DEF n

\* A task goes on with the row of its user.
LEMMA LoadedOf ==
  ASSUME BotBounds, BotIInv, NEW t \in tasks, ~Bot!Tap(t.of), NEW row \in Bot!Row, Bot!Loaded(t, row), t.at \in {"lookup", "insert", "attach"}
  PROVE  \E n : /\ Goes(t, {n}) /\ Formed(n) /\ n.draft = t.draft /\ t.draft = 0 /\ n.user = row
                /\ n.at \notin {"ping", "chunks", "business", "attach"}
<1> DEFINE place == CASE t.of.kind = "text" -> "route"
                      [] t.of.kind = "start" -> "reply"
                      [] t.of.kind = "claim" -> "claim"
                      [] OTHER -> "ingest"
           n == [t EXCEPT !.user = row, !.at = place]
<1>1. t \in Bot!Task /\ t.of.kind \in {"text", "start", "claim", "document"} /\ t.draft = 0
  BY OtherKnown
<1>2. /\ place \in {"route", "reply", "claim", "ingest"}
      /\ place = "route" => t.of.kind = "text"
      /\ place = "reply" => t.of.kind = "start"
      /\ place = "claim" => t.of.kind = "claim"
      /\ place = "ingest" => t.of.kind = "document"
  BY <1>1
<1>3. Bot!Put(t, n)
  BY DEF Bot!Loaded
<1> HIDE DEF place
<1>4. n \in Bot!Task /\ n.of = t.of /\ n.at = place /\ n.user = row /\ n.draft = t.draft
  BY <1>1, <1>2 DEF Bot!Task, Bot!Place
<1> HIDE DEF n
<1>5. Goes(t, {n})
  BY <1>3, <1>4 DEF Bot!Put, Goes
<1>6. Formed(n)
  BY <1>1, <1>2, <1>4 DEF Formed, OtherPlace
<1>7. QED
  BY <1>1, <1>2, <1>4, <1>5, <1>6

\* How the error of a task that handles no tap ends.
LEMMA RaiseEnds ==
  ASSUME BotBounds, BotIInv, NEW t \in tasks, ~Bot!Tap(t.of), Bot!Raise(t), Goes(t, {})
  PROVE  t.of.kind # "text" \/ t.of.who = Contact \/ t.at \in {"route", "reply", "ping"}
<1>1. ~Bot!Put(t, [t EXCEPT !.at = "reply", !.user = Bot!NoRow, !.draft = 0])
  <2> DEFINE n == [t EXCEPT !.at = "reply", !.user = Bot!NoRow, !.draft = 0]
  <2>1. SUFFICES ASSUME Bot!Put(t, n) PROVE FALSE
    OBVIOUS
  <2>2. n \in tasks' /\ tasks' = tasks \ {t}
    BY <2>1 DEF Bot!Put, Goes
  <2>3. n.of = t.of /\ n.at = "reply" /\ n.user = Bot!NoRow /\ n.draft = 0 /\ t \in Bot!Task
    BY OtherKnown DEF Bot!Task
  <2> HIDE DEF n
  <2>4. n = t
    BY <2>2, <2>3 DEF BotIInv, LineInv
  <2>5. QED
    BY <2>2, <2>4
<1>2. QED
  BY <1>1 DEF Bot!Raise, Bot!OnSimplex

LEMMA RaiseReplies ==
  ASSUME BotBounds, BotIInv, NEW t \in tasks, ~Bot!Tap(t.of), Bot!Raise(t), ~Goes(t, {})
  PROVE  \E n : /\ Goes(t, {n}) /\ Formed(n) /\ n.user = Bot!NoRow /\ n.at = "reply" /\ n.draft = t.draft /\ n.of = t.of
                /\ t.at \in {"lookup", "insert", "business", "route"} /\ t.of.kind = "text"
<1> DEFINE n == [t EXCEPT !.at = "reply", !.user = Bot!NoRow, !.draft = 0]
<1>1. t.of.kind = "text" /\ t.at \in {"lookup", "insert", "business", "route"} /\ Goes(t, {n})
  BY RaiseOf
<1>2. t \in Bot!Task /\ t.draft = 0
  BY <1>1, OtherKnown
<1>3. n \in Bot!Task /\ n.of = t.of /\ n.at = "reply" /\ n.user = Bot!NoRow /\ n.draft = 0
  BY <1>2, RowsOf DEF Bot!Task, Bot!Place
<1> HIDE DEF n
<1>4. Formed(n)
  BY <1>1, <1>3 DEF Formed, OtherPlace
<1>5. QED
  BY <1>1, <1>2, <1>3, <1>4
-----------------------------------------------------------------------------
(* findOrCreateByTelegram                                                  *)

\* What every step of it leaves alone.
FindFrame(t, N) ==
  /\ Goes(t, N) /\ ~Bot!Tap(t.of) /\ t.at \in {"lookup", "insert", "business", "attach"}
  /\ UNCHANGED <<backend, drafts, document, updates, batch, proxy, buttons, budget>>
  /\ UNCHANGED <<written, replied, answers, reported, hurt, ownerless, crossed, stopped>>

LEMMA FoundKeeps ==
  ASSUME BotBounds, BotIInv, NEW t, NEW N, FindFrame(t, N), user' \in [Bot!Person -> Bot!Row], UserInv',
         process' \in {"up", "ending"}, raced' \in {raced, raced \cup {t.of.id}},
         \A n \in N : Formed(n) /\ n.draft = t.draft /\ n.at # "ping",
         N # {} \/ t.of.kind # "text" \/ (t.of.who = Contact /\ t.of.id \in raced')
  PROVE  BotIInv'
<1>1. SameLine
  BY SameBudget DEF BotIInv, FindFrame
<1>2. t \in tasks /\ t.draft = 0
  <2>1. t \in tasks /\ ~Bot!Tap(t.of) /\ t.at \in {"lookup", "insert", "business", "attach"}
    BY DEF FindFrame, Goes
  <2>2. QED
    BY <2>1, OtherKnown
<1>3. OtherFrame(t, N)
  BY <1>1, <1>2 DEF FindFrame, OtherFrame
<1>4. Bot!HalfStoredNeedsMishap'
  <2>1. Bot!HalfStoredNeedsMishap /\ Goes(t, N) /\ hurt \subseteq hurt' /\ document' = document /\ t.at # "chunks"
    BY DEF BotIInv, FindFrame
  <2>2. QED
    BY <2>1, DocumentStep
<1>5. document' \in {"none", "row", "searchable"}
  BY DEF FindFrame, BotIInv, StoreInv
<1>6. QED
  BY <1>3, <1>4, <1>5, OtherKeeps

\* No row changes.
LEMMA FoundUsers ==
  ASSUME BotBounds, BotIInv, NEW t, NEW N, FindFrame(t, N), user' = user,
         \A n \in N : n.user \in {t.user, user[Bot!From(t.of)], Bot!NoRow} /\ (n.at \in {"business", "attach"} => t.at \in {"business", "attach"}),
         t.at \in {"business", "attach"} => \E n \in N : n.at \in {"business", "attach"}
  PROVE  UserInv' /\ user' \in [Bot!Person -> Bot!Row]
<1>1. Goes(t, N) /\ UNCHANGED <<ownerless, drafts>> /\ hurt \subseteq hurt' /\ UserInv
  BY DEF BotIInv, FindFrame
<1>2. \A s \in tasks : Bot!From(s.of) \in Bot!Person
  BY FromTyped DEF BotIInv
<1>3. UserInv'
  BY <1>1, <1>2, UserKept
<1>4. QED
  BY <1>3 DEF BotIInv, StoreInv

\* A person gets a first row.
LEMMA FirstUsers ==
  ASSUME BotBounds, BotIInv, NEW t, NEW N, FindFrame(t, N), t.at \in {"lookup", "insert"}, user[Bot!From(t.of)] = Bot!NoRow,
         NEW row, row # Bot!NoRow,
         user' \in [Bot!Person -> Bot!Row], user'[Bot!From(t.of)] = row, \A q \in Bot!Person : q # Bot!From(t.of) => user'[q] = user[q],
         \A n \in N : n.user \in {t.user, row}, row.business => Bot!From(t.of) = Owner,
         Bot!From(t.of) = Owner => row.business \/ \E n \in N : n.at \in {"business", "attach"}
  PROVE  UserInv' /\ user' \in [Bot!Person -> Bot!Row]
<1> DEFINE p == Bot!From(t.of)
<1>1. Goes(t, N) /\ UNCHANGED <<ownerless, drafts>> /\ hurt \subseteq hurt' /\ UserInv /\ user \in [Bot!Person -> Bot!Row]
  BY DEF BotIInv, FindFrame, StoreInv
<1>2. (\A s \in tasks : Bot!From(s.of) \in Bot!Person) /\ p \in Bot!Person /\ Owner \in Bot!Person
  <2>1. \A s \in tasks : Bot!From(s.of) \in Bot!Person
    BY FromTyped DEF BotIInv
  <2>2. QED
    BY <1>1, <2>1, ConstantTypes DEF Goes
<1>3. user' \in [Bot!Person -> Bot!Row] /\ user'[p] = row /\ \A q \in Bot!Person : q # p => user'[q] = user[q]
  OBVIOUS
<1>4. \A q \in Bot!Person : user[q] # Bot!NoRow => user'[q] # Bot!NoRow
  BY <1>3
<1>5. \A d \in DOMAIN drafts' : user'[drafts'[d].client] # Bot!NoRow
  <2>1. \A d \in DOMAIN drafts : user[drafts[d].client] # Bot!NoRow /\ drafts[d].client \in Bot!Person
    BY <1>1, DraftsTyped DEF UserInv
  <2>2. QED
    BY <1>1, <1>4, <2>1
<1>6. user[Owner].business => user'[Owner].business /\ p # Owner
  BY <1>2, <1>3, RowsOf
<1>7. (\E q \in Bot!Person : user'[q].business) \/ (\E n \in N : n.user.business) =>
        user'[Owner].business \/ (\E q \in Bot!Person : user[q].business) \/ t.user.business
  BY <1>3
<1>8. ownerless' # {} => ownerless # {} /\ (user[Owner].business => user'[Owner].role = user[Owner].role)
  BY <1>1, <1>2, <1>3, <1>6
<1>9. user'[Owner] = [role |-> "owner", business |-> FALSE] =>
        \/ \E n \in N : n.at \in {"business", "attach"}
        \/ user'[Owner] = user[Owner] /\ t.at \notin {"business", "attach"}
  <2>1. CASE p = Owner
    <3>1. user'[Owner] = [role |-> "owner", business |-> FALSE] => ~row.business
      BY <1>3, <2>1
    <3>2. QED
      BY <2>1, <3>1
  <2>2. CASE p # Owner
    BY <1>2, <1>3, <2>2
  <2>3. QED
    BY <2>1, <2>2
<1>10. UserInv'
  <2> HIDE DEF p
  <2>1. \A n \in N : n.user # Bot!NoRow \/ n.at \in {"business", "attach"} => user'[Bot!From(t.of)] # Bot!NoRow
    BY <1>3 DEF p
  <2>2. QED
    BY <1>1, <1>2, <1>4, <1>5, <1>6, <1>7, <1>8, <1>9, <2>1, UserGrows
<1>11. QED
  BY <1>3, <1>10

LEMMA FindOrCreateKeeps == ASSUME BotBounds, BotIInv, NEW t \in tasks, ~Bot!Tap(t.of), Bot!FindOrCreate(t) PROVE BotIInv'
<1> DEFINE p == Bot!From(t.of)
<1>1. /\ UNCHANGED <<backend, drafts, document, updates, batch, proxy, buttons, budget>>
      /\ UNCHANGED <<written, replied, answers, reported, hurt, ownerless, crossed, stopped>>
  BY DEF Bot!FindOrCreate, Bot!world
<1>2. /\ user \in [Bot!Person -> Bot!Row] /\ p \in Bot!Person /\ process \in {"up", "ending"} /\ Formed(t) /\ OtherPlace(t)
      /\ t.at \in {"lookup", "insert", "business", "attach"} => t.draft = 0
      /\ t.at \in {"business", "attach"} => p = Owner /\ user[p] # Bot!NoRow
  BY OtherKnown DEF OtherPlace
<1>3. \A N : Goes(t, N) /\ t.at \in {"lookup", "insert", "business", "attach"} => FindFrame(t, N)
  BY <1>1 DEF FindFrame
<1>4. CASE Bot!Lookup(t)
  <2>1. UNCHANGED <<user, raced, process>> /\ t.at = "lookup" /\ user[p] \in Bot!Row
    BY <1>2, <1>4 DEF Bot!Lookup
  <2>2. PICK n : /\ Goes(t, {n}) /\ Formed(n) /\ n.draft = t.draft /\ n.user = user[p]
                 /\ n.at \notin {"ping", "chunks", "business", "attach"}
    BY <1>4, <2>1, LoadedOf DEF Bot!Lookup
  <2>3. FindFrame(t, {n})
    BY <1>3, <2>1, <2>2
  <2>4. UserInv' /\ user' \in [Bot!Person -> Bot!Row]
    BY <2>1, <2>2, <2>3, FoundUsers
  <2>5. QED
    BY <1>2, <2>1, <2>2, <2>3, <2>4, FoundKeeps
<1>5. CASE Bot!CreateAtOnce(t)
  <2> DEFINE row == [Bot!FirstRow(p) EXCEPT !.business = p = Owner]
  <2>1. /\ t.at = "lookup" /\ user[p] = Bot!NoRow /\ user' = [user EXCEPT ![p] = row] /\ Bot!Loaded(t, row)
        /\ UNCHANGED <<raced, process>>
    BY <1>5 DEF Bot!CreateAtOnce
  <2>2. row \in Bot!Row /\ row # Bot!NoRow /\ (row.business <=> p = Owner)
    BY <1>2 DEF Bot!FirstRow, Bot!Row, Bot!Role, Bot!NoRow
  <2> HIDE DEF row
  <2>3. PICK n : /\ Goes(t, {n}) /\ Formed(n) /\ n.draft = t.draft /\ n.user = row
                 /\ n.at \notin {"ping", "chunks", "business", "attach"}
    BY <2>1, <2>2, LoadedOf
  <2>4. FindFrame(t, {n})
    BY <1>3, <2>1, <2>3
  <2>5. UserInv' /\ user' \in [Bot!Person -> Bot!Row]
    <3>1. /\ t.at \in {"lookup", "insert"} /\ user[Bot!From(t.of)] = Bot!NoRow
          /\ user' \in [Bot!Person -> Bot!Row] /\ user'[Bot!From(t.of)] = row /\ (\A q \in Bot!Person : q # Bot!From(t.of) => user'[q] = user[q])
          /\ \A m \in {n} : m.user \in {t.user, row}
          /\ row.business => Bot!From(t.of) = Owner
          /\ Bot!From(t.of) = Owner => row.business \/ \E m \in {n} : m.at \in {"business", "attach"}
      BY <1>2, <2>1, <2>2, <2>3
    <3> HIDE DEF p
    <3>2. QED
      BY <2>2, <2>4, <3>1, FirstUsers
  <2>6. QED
    BY <1>2, <2>1, <2>3, <2>4, <2>5, FoundKeeps
<1>6. CASE Bot!Missing(t)
  <2> DEFINE n == [t EXCEPT !.at = "insert"]
  <2>1. t.at = "lookup" /\ UNCHANGED <<user, raced, process>> /\ Bot!To(t, "insert")
    BY <1>6 DEF Bot!Missing
  <2>2. /\ Goes(t, {n}) /\ n.user = t.user /\ n.draft = t.draft /\ n.at = "insert"
        /\ OtherPlace(n) /\ t.draft = 0 => Formed(n)
    BY <2>1, OtherGoes, ZenonT(60) DEF Bot!Place
  <2> HIDE DEF n
  <2>3. Formed(n)
    BY <1>2, <2>1, <2>2 DEF OtherPlace
  <2>4. FindFrame(t, {n})
    BY <1>3, <2>1, <2>2
  <2>5. UserInv' /\ user' \in [Bot!Person -> Bot!Row]
    BY <2>1, <2>2, <2>4, FoundUsers
  <2>6. QED
    BY <1>2, <2>1, <2>2, <2>3, <2>4, <2>5, FoundKeeps
<1>7. CASE Bot!Insert(t)
  <2> DEFINE row == Bot!FirstRow(p)
  <2>1. /\ t.at = "insert" /\ user[p] = Bot!NoRow /\ user' = [user EXCEPT ![p] = row]
        /\ IF p = Owner THEN Bot!To(t, "business") ELSE Bot!Loaded(t, row)
        /\ UNCHANGED <<raced, process>>
    BY <1>7 DEF Bot!Insert
  <2>2. row \in Bot!Row /\ row # Bot!NoRow /\ ~row.business
    BY <1>2, RowsOf
  <2> HIDE DEF row
  <2>3. \E n : /\ Goes(t, {n}) /\ Formed(n) /\ n.draft = t.draft /\ n.user \in {t.user, row} /\ n.at # "ping"
               /\ p = Owner => n.at = "business"
    <3>1. CASE p = Owner
      <4> DEFINE n == [t EXCEPT !.at = "business"]
      <4>1. /\ Goes(t, {n}) /\ n.user = t.user /\ n.draft = t.draft /\ n.at = "business" /\ n.of = t.of
            /\ OtherPlace(n) /\ t.draft = 0 => Formed(n)
        BY <2>1, <3>1, OtherGoes, ZenonT(60) DEF Bot!Place
      <4> HIDE DEF n
      <4>2. Formed(n)
        BY <1>2, <2>1, <3>1, <4>1 DEF OtherPlace
      <4>3. QED
        BY <3>1, <4>1, <4>2
    <3>2. CASE p # Owner
      BY <2>1, <2>2, <3>2, LoadedOf
    <3>3. QED
      BY <3>1, <3>2
  <2>4. PICK n : /\ Goes(t, {n}) /\ Formed(n) /\ n.draft = t.draft /\ n.user \in {t.user, row} /\ n.at # "ping"
                 /\ p = Owner => n.at = "business"
    BY <2>3
  <2>5. FindFrame(t, {n})
    BY <1>3, <2>1, <2>4
  <2>6. UserInv' /\ user' \in [Bot!Person -> Bot!Row]
    <3>1. /\ t.at \in {"lookup", "insert"} /\ user[Bot!From(t.of)] = Bot!NoRow
          /\ user' \in [Bot!Person -> Bot!Row] /\ user'[Bot!From(t.of)] = row /\ (\A q \in Bot!Person : q # Bot!From(t.of) => user'[q] = user[q])
          /\ \A m \in {n} : m.user \in {t.user, row}
          /\ row.business => Bot!From(t.of) = Owner
          /\ Bot!From(t.of) = Owner => row.business \/ \E m \in {n} : m.at \in {"business", "attach"}
      BY <1>2, <2>1, <2>2, <2>4
    <3> HIDE DEF p
    <3>2. QED
      BY <2>2, <2>5, <3>1, FirstUsers
  <2>7. QED
    BY <1>2, <2>1, <2>4, <2>5, <2>6, FoundKeeps
<1>8. CASE Bot!InsertRefused(t)
  <2>1. t.at = "insert" /\ Bot!Raise(t) /\ raced' = raced \cup {t.of.id} /\ user' = user
    BY <1>8 DEF Bot!InsertRefused
  <2>2. process' \in {"up", "ending"}
    BY <2>1, RaiseOf
  <2>3. CASE Goes(t, {})
    <3>1. t.of.kind # "text" \/ t.of.who = Contact
      BY <1>2, <2>1, <2>3, RaiseEnds
    <3>2. FindFrame(t, {})
      BY <1>3, <2>1, <2>3
    <3>3. UserInv' /\ user' \in [Bot!Person -> Bot!Row]
      BY <2>1, <3>2, FoundUsers
    <3>4. QED
      BY <2>1, <2>2, <3>1, <3>2, <3>3, FoundKeeps
  <2>4. CASE ~Goes(t, {})
    <3>1. PICK n : Goes(t, {n}) /\ Formed(n) /\ n.user = Bot!NoRow /\ n.at = "reply" /\ n.draft = t.draft
      BY <1>2, <2>1, <2>4, RaiseReplies
    <3>2. FindFrame(t, {n})
      BY <1>3, <2>1, <3>1
    <3>3. UserInv' /\ user' \in [Bot!Person -> Bot!Row]
      BY <2>1, <3>1, <3>2, FoundUsers
    <3>4. QED
      BY <2>1, <2>2, <3>1, <3>2, <3>3, FoundKeeps
  <2>5. QED
    BY <2>3, <2>4
<1>9. CASE Bot!InsertBusiness(t)
  <2> DEFINE n == [t EXCEPT !.at = "attach"]
  <2>1. t.at = "business" /\ UNCHANGED <<user, raced, process>> /\ Bot!To(t, "attach")
    BY <1>9 DEF Bot!InsertBusiness
  <2>2. /\ Goes(t, {n}) /\ n.user = t.user /\ n.draft = t.draft /\ n.at = "attach" /\ n.of = t.of
        /\ OtherPlace(n) /\ t.draft = 0 => Formed(n)
    BY <2>1, OtherGoes DEF Bot!Place
  <2> HIDE DEF n
  <2>3. Formed(n)
    BY <1>2, <2>1, <2>2 DEF OtherPlace
  <2>4. FindFrame(t, {n})
    BY <1>3, <2>1, <2>2
  <2>5. UserInv' /\ user' \in [Bot!Person -> Bot!Row]
    BY <2>1, <2>2, <2>4, FoundUsers
  <2>6. QED
    BY <1>2, <2>1, <2>2, <2>3, <2>4, <2>5, FoundKeeps
<1>10. CASE Bot!LinkBusiness(t)
  <2> DEFINE row == [Bot!FirstRow(Owner) EXCEPT !.business = TRUE]
  <2>1. /\ t.at = "attach" /\ user' = [user EXCEPT ![Owner] = [user[Owner] EXCEPT !.business = TRUE]]
        /\ Bot!Loaded(t, row) /\ UNCHANGED <<raced, process>>
    BY <1>10 DEF Bot!LinkBusiness
  <2>2. row \in Bot!Row /\ Owner \in Bot!Person
    BY ConstantTypes, RowsOf
  <2>3. PICK n : /\ Goes(t, {n}) /\ Formed(n) /\ n.draft = t.draft /\ n.user = row
                 /\ n.at \notin {"ping", "chunks", "business", "attach"}
    BY <2>1, <2>2, LoadedOf
  <2> HIDE DEF row
  <2>4. FindFrame(t, {n})
    BY <1>3, <2>1, <2>3
  <2>5. /\ user' \in [Bot!Person -> Bot!Row] /\ user'[Owner].business /\ user'[Owner].role = user[Owner].role
        /\ \A q \in Bot!Person : user[q] # Bot!NoRow => user'[q] # Bot!NoRow
        /\ user'[Owner] # Bot!NoRow
    <3>1. [user[Owner] EXCEPT !.business = TRUE] \in Bot!Row /\ [user[Owner] EXCEPT !.business = TRUE].business
          /\ [user[Owner] EXCEPT !.business = TRUE].role = user[Owner].role
      BY <1>2, <2>2, RowsOf
    <3>2. QED
      BY <1>2, <2>1, <2>2, <3>1, RowsOf
  <2>6. Goes(t, {n}) /\ UNCHANGED <<ownerless, drafts>> /\ hurt \subseteq hurt' /\ UserInv
    BY <1>1, <2>3 DEF BotIInv
  <2>7. \A d \in DOMAIN drafts' : user'[drafts'[d].client] # Bot!NoRow
    <3>1. \A d \in DOMAIN drafts : user[drafts[d].client] # Bot!NoRow /\ drafts[d].client \in Bot!Person
      BY <2>6, DraftsTyped DEF UserInv
    <3>2. QED
      BY <2>5, <2>6, <3>1
  <2>8. (\A s \in tasks : Bot!From(s.of) \in Bot!Person) /\ Bot!From(t.of) = Owner
    BY <1>2, <2>1, FromTyped DEF BotIInv
  <2>9. UserInv'
    BY <2>5, <2>6, <2>7, <2>8, UserGrows
  <2>10. process' \in {"up", "ending"} /\ raced' = raced /\ user' \in [Bot!Person -> Bot!Row]
         /\ \A m \in {n} : Formed(m) /\ m.draft = t.draft /\ m.at # "ping"
    BY <1>2, <2>1, <2>3, <2>5
  <2>11. QED
    BY <2>4, <2>9, <2>10, FoundKeeps
<1>11. QED
  BY <1>4, <1>5, <1>6, <1>7, <1>8, <1>9, <1>10 DEF Bot!FindOrCreate
-----------------------------------------------------------------------------
(* A message is routed and answered, and the owner is asked                *)

LEMMA NoTap ==
  ASSUME BotBounds, BotIInv, NEW t \in tasks, t.at \in {"route", "reply", "ping", "claim", "ingest", "chunks", "insert", "business", "attach"}
  PROVE  ~Bot!Tap(t.of)
BY DEF BotIInv, FormInv, Formed, TapPlace

LEMMA LengthsOf ==
  ASSUME BotBounds, BotIInv
  PROVE  /\ Len(drafts) = Len(answers) /\ Len(drafts) \in Nat /\ DOMAIN drafts = 1..Len(drafts)
<1> DEFINE D == [of : Bot!Id, client : Bot!Person, status : {"pending", "approved", "rejected", "sent"}]
<1>1. drafts \in Seq(D) /\ answers \in Seq(Nat) /\ DOMAIN answers = DOMAIN drafts
  BY DraftsTyped
<1> HIDE DEF D
<1>2. /\ Len(drafts) \in Nat /\ DOMAIN drafts = 1..Len(drafts)
      /\ Len(answers) \in Nat /\ DOMAIN answers = 1..Len(answers)
  BY <1>1, LenProperties
<1>3. 1..Len(drafts) = 1..Len(answers)
  BY <1>1, <1>2
<1> DEFINE m == Len(drafts)  n == Len(answers)
<1> HIDE DEF m, n
<1>4. m \in Nat /\ n \in Nat /\ 1..m = 1..n
  BY <1>2, <1>3 DEF m, n
<1>5. m = n
  <2>1. ASSUME m < n PROVE FALSE
    <3>1. n \in 1..n
      BY <1>4, <2>1
    <3>2. n \in 1..m
      BY <1>4, <3>1
    <3>3. QED
      BY <1>4, <2>1, <3>2
  <2>2. ASSUME n < m PROVE FALSE
    <3>1. m \in 1..m
      BY <1>4, <2>2
    <3>2. m \in 1..n
      BY <1>4, <3>1
    <3>3. QED
      BY <1>4, <2>2, <3>2
  <2>3. QED
    BY <1>4, <2>1, <2>2
<1>6. QED
  BY <1>2, <1>5 DEF m, n

\* A step that changes no row and no document.
LEMMA PlainKeeps ==
  ASSUME BotBounds, BotIInv, NEW t, NEW N, OtherFrame(t, N), UNCHANGED <<user, document, ownerless>>,
         \A n \in N : n.user \in {t.user, Bot!NoRow} /\ (n.at \in {"business", "attach"} => t.at \in {"business", "attach"}),
         t.at \in {"business", "attach"} => t.of \in hurt' \/ \E n \in N : n.at \in {"business", "attach"},
         t.at = "chunks" => t.of \in hurt'
  PROVE  BotIInv'
<1>1. /\ Goes(t, N) /\ drafts' = drafts /\ hurt \subseteq hurt' /\ UserInv /\ Bot!HalfStoredNeedsMishap /\ t \in tasks
      /\ ~Bot!Tap(t.of)
  BY DEF BotIInv, OtherFrame, Goes
<1>2. \A s \in tasks : Bot!From(s.of) \in Bot!Person
  BY FromTyped DEF BotIInv
<1>3. OtherPlace(t) /\ Bot!From(t.of) \in Bot!Person
  BY <1>1, OtherKnown
<1>4. /\ t.at \in {"business", "attach"} => Bot!From(t.of) = Owner
      /\ t.at = "chunks" => t.of.kind = "document"
  BY <1>3 DEF OtherPlace
<1>5. UserInv'
  BY <1>1, <1>2, <1>4, UserKept
<1>6. Bot!HalfStoredNeedsMishap'
  BY <1>1, <1>4, DocumentStep
<1>7. user' \in [Bot!Person -> Bot!Row] /\ document' \in {"none", "row", "searchable"}
  BY DEF BotIInv, StoreInv
<1>8. QED
  BY <1>5, <1>6, <1>7, OtherKeeps

LEMMA ReplyKeeps == ASSUME BotBounds, BotIInv, NEW t \in tasks, Bot!Reply(t) PROVE BotIInv'
<1>1. t.at = "reply" /\ ~Bot!Tap(t.of)
  BY NoTap DEF Bot!Reply
<1>2. /\ UNCHANGED <<backend, user, drafts, document, updates, batch, proxy, buttons, process, budget>>
      /\ UNCHANGED <<written, answers, reported, hurt, ownerless, raced, crossed, stopped>>
      /\ replied' = replied \cup {t.of.id}
  BY DEF Bot!Reply, Bot!storage, Bot!world
<1>3. SameLine
  BY <1>2, SameBudget DEF BotIInv
<1>4. /\ t.draft # 0 => t.of.kind = "text" /\ t.user.business
      /\ process \in {"up", "ending"}
  BY <1>1, OtherKnown
<1>5. CASE t.draft # 0 /\ t.user.business /\ ~Bot!OnSimplex(t.of)
  <2> DEFINE n == [t EXCEPT !.at = "ping"]
  <2>1. Bot!To(t, "ping")
    BY <1>5 DEF Bot!Reply
  <2>2. /\ Goes(t, {n}) /\ n.user = t.user /\ n.draft = t.draft /\ n.at = "ping" /\ n.of = t.of
        /\ OtherPlace(n) /\ (t.draft # 0 => "ping" \in {"reply", "ping"}) /\ ("ping" = "ping" => t.draft # 0 /\ ~Bot!OnSimplex(t.of)) => Formed(n)
    BY <1>1, <2>1, OtherGoes DEF Bot!Place
  <2> HIDE DEF n
  <2>3. Formed(n)
    BY <1>4, <1>5, <2>2 DEF OtherPlace
  <2>4. OtherFrame(t, {n})
    BY <1>1, <1>2, <1>3, <1>4, <2>2, <2>3 DEF OtherFrame
  <2>5. QED
    BY <1>1, <1>2, <2>2, <2>4, PlainKeeps
<1>6. CASE ~(t.draft # 0 /\ t.user.business /\ ~Bot!OnSimplex(t.of))
  <2>1. Goes(t, {})
    BY <1>6, EndOf DEF Bot!Reply
  <2>2. t.draft # 0 => t.of.who = Contact
    BY <1>4, <1>6 DEF Bot!OnSimplex
  <2>3. OtherFrame(t, {})
    BY <1>1, <1>2, <1>3, <1>4, <2>1, <2>2 DEF OtherFrame
  <2>4. QED
    BY <1>1, <1>2, <2>3, PlainKeeps
<1>7. QED
  BY <1>5, <1>6

LEMMA AskOwnerKeeps == ASSUME BotBounds, BotIInv, NEW t \in tasks, Bot!AskOwner(t) PROVE BotIInv'
<1>1. t.at = "ping" /\ ~Bot!Tap(t.of)
  BY NoTap DEF Bot!AskOwner
<1>2. /\ UNCHANGED <<backend, user, drafts, document, updates, batch, proxy, process, budget>>
      /\ UNCHANGED <<written, replied, answers, reported, hurt, raced, crossed, stopped>>
      /\ \/ Bot!Owners = {} /\ ownerless' = ownerless \cup {t.draft} /\ buttons' = buttons
         \/ Bot!Owners # {} /\ buttons' = buttons \cup {t.draft} /\ ownerless' = ownerless
  BY DEF Bot!AskOwner, Bot!storage
<1>3. SameLine
  BY <1>2 DEF BotIInv, LineInv, SameLine
<1>4. /\ Goes(t, {}) /\ Formed(t) /\ process \in {"up", "ending"} /\ t.draft # 0 /\ t.user.business
      /\ user \in [Bot!Person -> Bot!Row] /\ Bot!From(t.of) \in Bot!Person
  <2>1. Formed(t) /\ process \in {"up", "ending"} /\ user \in [Bot!Person -> Bot!Row] /\ Bot!From(t.of) \in Bot!Person
        /\ (t.draft # 0 => t.user.business)
    BY <1>1, OtherKnown
  <2>2. Goes(t, {})
    BY EndOf DEF Bot!AskOwner
  <2>3. QED
    BY <1>1, <2>1, <2>2 DEF Formed
<1>5. t.of.id \in replied
  BY <1>1 DEF BotIInv, FormInv
<1>6. OtherFrame(t, {})
  BY <1>1, <1>2, <1>3, <1>4, <1>5 DEF OtherFrame
<1>7. UserInv /\ HurtOwner' = HurtOwner
  BY <1>2 DEF BotIInv, HurtOwner
<1>8. Bot!Owners = {} => HurtOwner \/ (user[Owner].business /\ user[Owner].role # "owner")
  <2>1. user[Owner].business \/ HurtOwner
    BY <1>4, <1>7 DEF UserInv
  <2>2. Owner \in Bot!Person /\ user[Owner] \in Bot!Row
    BY <1>4, ConstantTypes
  <2>3. user[Owner].business /\ user[Owner].role = "owner" => Owner \in Bot!Owners
    BY <2>2 DEF Bot!Owners, Bot!Row
  <2>4. QED
    BY <2>1, <2>3
<1>9. UserInv'
  <2>1. \A s \in tasks : Bot!From(s.of) \in Bot!Person
    BY FromTyped DEF BotIInv
  <2>2. \A d \in DOMAIN drafts' : user'[drafts'[d].client] # Bot!NoRow
    BY <1>2, <1>7 DEF UserInv
  <2>3. ownerless' # {} => \/ ownerless # {} /\ (user[Owner].business => user'[Owner].role = user[Owner].role)
                           \/ HurtOwner' \/ (user'[Owner].business /\ user'[Owner].role # "owner")
    BY <1>2, <1>7, <1>8
  <2>4. user' = user /\ hurt' = hurt
    BY <1>2
  <2>5. QED
    BY <1>1, <1>4, <1>7, <2>1, <2>2, <2>3, <2>4, UserGrows
<1>10. Bot!HalfStoredNeedsMishap'
  BY <1>1, <1>2, <1>4, DocumentStep DEF BotIInv
<1>11. user' \in [Bot!Person -> Bot!Row] /\ document' \in {"none", "row", "searchable"}
  BY <1>2 DEF BotIInv, StoreInv
<1>12. QED
  BY <1>6, <1>9, <1>10, <1>11, OtherKeeps

-----------------------------------------------------------------------------
(* The owner's commands                                                    *)

LEMMA ClaimKeeps == ASSUME BotBounds, BotIInv, NEW t \in tasks, Bot!Claim(t) PROVE BotIInv'
<1> DEFINE row == [role |-> t.of.role, business |-> TRUE]
           claimed == t.user = [role |-> "owner", business |-> TRUE] /\ user[t.of.who] # Bot!NoRow
<1>1. t.at = "claim" /\ ~Bot!Tap(t.of) /\ Goes(t, {})
  BY NoTap, EndOf DEF Bot!Claim
<1>2. /\ UNCHANGED <<backend, drafts, document, updates, batch, proxy, buttons, process, budget>>
      /\ UNCHANGED <<written, replied, answers, reported, hurt, ownerless, raced, crossed, stopped>>
      /\ user' = IF claimed THEN [user EXCEPT ![t.of.who] = row] ELSE user
  BY DEF Bot!Claim, Bot!world, Bot!past
<1>3. SameLine
  BY <1>2, SameBudget DEF BotIInv
<1>4. /\ t.of.kind = "claim" /\ t.draft = 0 /\ process \in {"up", "ending"} /\ user \in [Bot!Person -> Bot!Row]
      /\ t.of.who \in Bot!Person /\ t.of \in Bot!Update /\ Bot!From(t.of) \in Bot!Person /\ t.of.role # "owner"
  <2>1. /\ OtherPlace(t) /\ process \in {"up", "ending"} /\ user \in [Bot!Person -> Bot!Row] /\ t.of.who \in Bot!Person
        /\ t.of \in Bot!Update /\ Bot!From(t.of) \in Bot!Person /\ t.draft = 0
    BY <1>1, OtherKnown
  <2>2. t.of.role # "owner"
    BY DEF BotIInv, LineInv, UpdateOK
  <2>3. QED
    BY <1>1, <2>1, <2>2 DEF OtherPlace
<1>5. OtherFrame(t, {})
  BY <1>1, <1>2, <1>3, <1>4 DEF OtherFrame
<1>6. row \in Bot!Row /\ row # Bot!NoRow /\ row.business /\ row.role # "owner"
  BY <1>4 DEF Bot!Row, Bot!NoRow, Bot!Update
<1>7. /\ user' \in [Bot!Person -> Bot!Row]
      /\ \A p \in Bot!Person : user'[p] = user[p] \/ (claimed /\ p = t.of.who /\ user'[p] = row)
  <2> HIDE DEF row, claimed
  <2>1. QED
    BY <1>2, <1>4, <1>6
<1> HIDE DEF row
<1>8. UserInv /\ HurtOwner' = HurtOwner /\ Owner \in Bot!Person /\ Goes(t, {}) /\ drafts' = drafts
  BY <1>1, <1>2, ConstantTypes DEF BotIInv, HurtOwner
<1>9. \A p \in Bot!Person : user[p] # Bot!NoRow => user'[p] # Bot!NoRow
  BY <1>6, <1>7
<1>10. \A d \in DOMAIN drafts' : user'[drafts'[d].client] # Bot!NoRow
  <2>1. \A d \in DOMAIN drafts : user[drafts[d].client] # Bot!NoRow /\ drafts[d].client \in Bot!Person
    BY <1>8, DraftsTyped DEF UserInv
  <2>2. QED
    BY <1>8, <1>9, <2>1
<1>11. user[Owner].business => user'[Owner].business
  BY <1>6, <1>7, <1>8
<1>12. (\E p \in Bot!Person : user'[p].business) => (\E p \in Bot!Person : user[p].business) \/ t.user.business
  BY <1>7
<1>13. ownerless' # {} => HurtOwner' \/ (user'[Owner].business /\ user'[Owner].role # "owner")
  BY <1>2, <1>6, <1>7, <1>8 DEF UserInv
<1>14. user'[Owner] = [role |-> "owner", business |-> FALSE] => user'[Owner] = user[Owner]
  <2>1. user'[Owner] = user[Owner] \/ user'[Owner].business = TRUE
    BY <1>6, <1>7, <1>8
  <2>2. user'[Owner] = [role |-> "owner", business |-> FALSE] => user'[Owner].business = FALSE
    OBVIOUS
  <2>3. QED
    BY <2>1, <2>2
<1>15. \A s \in tasks : Bot!From(s.of) \in Bot!Person
  BY FromTyped DEF BotIInv
<1>16. UserInv'
  <2> HIDE DEF claimed
  <2>1. hurt \subseteq hurt' /\ t.at \notin {"business", "attach"}
    BY <1>1, <1>2
  <2>2. QED
    BY <1>8, <1>9, <1>10, <1>11, <1>12, <1>13, <1>14, <1>15, <2>1, UserGrows
<1>17. Bot!HalfStoredNeedsMishap'
  BY <1>1, <1>2, DocumentStep DEF BotIInv
<1>18. document' \in {"none", "row", "searchable"}
  BY <1>2 DEF BotIInv, StoreInv
<1>19. QED
  BY <1>5, <1>7, <1>16, <1>17, <1>18, OtherKeeps

\* A step of an upload: no row changes.
LEMMA UploadKeeps ==
  ASSUME BotBounds, BotIInv, NEW t, NEW N, OtherFrame(t, N), UNCHANGED <<user, ownerless>>, t.at \in {"ingest", "chunks"},
         \A n \in N : n.user = t.user /\ n.at = "chunks",
         document' \in {"none", "row", "searchable"}, document' = "row" => document = "row" \/ N # {},
         t.at = "chunks" => document' # "row" \/ t.of \in hurt'
  PROVE  BotIInv'
<1>1. /\ Goes(t, N) /\ drafts' = drafts /\ hurt \subseteq hurt' /\ UserInv /\ Bot!HalfStoredNeedsMishap /\ t \in tasks
      /\ ~Bot!Tap(t.of)
  BY DEF BotIInv, OtherFrame, Goes
<1>2. (\A s \in tasks : Bot!From(s.of) \in Bot!Person) /\ OtherPlace(t)
  <2>1. \A s \in tasks : Bot!From(s.of) \in Bot!Person
    BY FromTyped DEF BotIInv
  <2>2. QED
    BY <1>1, <2>1, OtherKnown
<1>3. UserInv'
  BY <1>1, <1>2, UserKept
<1>4. Bot!HalfStoredNeedsMishap'
  <2>1. t.of.kind = "document"
    BY <1>2 DEF OtherPlace
  <2>2. CASE N # {}
    BY <1>1, <2>2 DEF Bot!HalfStoredNeedsMishap, Goes
  <2>3. CASE N = {}
    BY <1>1, <2>1, <2>3 DEF Bot!HalfStoredNeedsMishap, Goes
  <2>4. QED
    BY <2>2, <2>3
<1>5. user' \in [Bot!Person -> Bot!Row]
  BY DEF BotIInv, StoreInv
<1>6. QED
  BY <1>3, <1>4, <1>5, OtherKeeps

LEMMA CreateDocumentKeeps == ASSUME BotBounds, BotIInv, NEW t \in tasks, Bot!CreateDocument(t) PROVE BotIInv'
<1>1. t.at = "ingest" /\ ~Bot!Tap(t.of)
  BY NoTap DEF Bot!CreateDocument
<1>2. /\ UNCHANGED <<backend, user, drafts, updates, batch, proxy, buttons, process, budget>>
      /\ UNCHANGED <<written, replied, answers, reported, hurt, ownerless, raced, crossed, stopped>>
  BY DEF Bot!CreateDocument, Bot!world, Bot!past
<1>3. SameLine /\ document \in {"none", "row", "searchable"}
  BY <1>2, SameBudget DEF BotIInv, StoreInv
<1>4. process \in {"up", "ending"} /\ OtherPlace(t) /\ t.draft = 0 /\ t.of.kind = "document"
  <2>1. process \in {"up", "ending"} /\ OtherPlace(t) /\ t.draft = 0
    BY <1>1, OtherKnown
  <2>2. QED
    BY <1>1, <2>1 DEF OtherPlace
<1>5. CASE t.user = [role |-> "owner", business |-> TRUE]
  <2> DEFINE n == [t EXCEPT !.at = "chunks"]
  <2>1. Bot!To(t, "chunks") /\ document' = IF document = "none" THEN "row" ELSE document
    BY <1>5 DEF Bot!CreateDocument
  <2>2. /\ Goes(t, {n}) /\ n.user = t.user /\ n.draft = t.draft /\ n.at = "chunks" /\ n.of = t.of
        /\ OtherPlace(n) /\ t.draft = 0 => Formed(n)
    BY <1>1, <2>1, OtherGoes DEF Bot!Place
  <2> HIDE DEF n
  <2>3. Formed(n)
    BY <1>4, <2>2 DEF OtherPlace
  <2>4. OtherFrame(t, {n})
    BY <1>1, <1>2, <1>3, <1>4, <2>2, <2>3 DEF OtherFrame
  <2>5. QED
    BY <1>1, <1>2, <1>3, <2>1, <2>2, <2>4, UploadKeeps
<1>6. CASE t.user # [role |-> "owner", business |-> TRUE]
  <2>1. Goes(t, {}) /\ document' = document
    BY <1>6, EndOf DEF Bot!CreateDocument
  <2>2. OtherFrame(t, {})
    BY <1>1, <1>2, <1>3, <1>4, <2>1 DEF OtherFrame
  <2>3. QED
    BY <1>1, <1>2, <1>3, <2>1, <2>2, UploadKeeps
<1>7. QED
  BY <1>5, <1>6

LEMMA InsertChunksKeeps == ASSUME BotBounds, BotIInv, NEW t \in tasks, Bot!InsertChunks(t) PROVE BotIInv'
<1>1. t.at = "chunks" /\ ~Bot!Tap(t.of) /\ document' = "searchable" /\ Goes(t, {})
  BY NoTap, EndOf DEF Bot!InsertChunks
<1>2. /\ UNCHANGED <<backend, user, drafts, updates, batch, proxy, buttons, process, budget>>
      /\ UNCHANGED <<written, replied, answers, reported, hurt, ownerless, raced, crossed, stopped>>
  BY DEF Bot!InsertChunks, Bot!world, Bot!past
<1>3. SameLine
  BY <1>2, SameBudget DEF BotIInv
<1>4. process \in {"up", "ending"} /\ t.draft = 0 /\ t.of.kind = "document"
  <2>1. process \in {"up", "ending"} /\ OtherPlace(t) /\ t.draft = 0
    BY <1>1, OtherKnown
  <2>2. QED
    BY <1>1, <2>1 DEF OtherPlace
<1>5. OtherFrame(t, {})
  BY <1>1, <1>2, <1>3, <1>4 DEF OtherFrame
<1>6. QED
  BY <1>1, <1>2, <1>5, UploadKeeps

\* A draft is made: nobody knows its number yet.
LEMMA NewDraftIsNew ==
  ASSUME BotBounds, BotIInv, NEW d, d \notin DOMAIN drafts, d # 0
  PROVE  TapsOn(d) = {} /\ Bot!OnDraft(d) = {} /\ Asking(d) = {} /\ d \notin buttons
<1>1. TapsOn(d) = {}
  BY DEF BotIInv, LineInv, UpdateOK, TapsOn
<1>2. Bot!OnDraft(d) = {}
  BY DEF BotIInv, LineInv, UpdateOK, Bot!OnDraft
<1>3. Asking(d) = {}
  BY DEF BotIInv, FormInv, Asking
<1>4. d \notin buttons
  BY DEF BotIInv, StoreInv
<1>5. QED
  BY <1>1, <1>2, <1>3, <1>4

LEMMA RouteDraftKeeps ==
  ASSUME BotBounds, BotIInv, NEW t \in tasks, t.at = "route", Bot!RouteDraft(t),
         answers' \in Seq(Nat), DOMAIN answers' = 1..(Len(drafts) + 1), answers'[Len(drafts) + 1] = 0,
         \A d \in DOMAIN drafts : answers'[d] = answers[d],
         UNCHANGED <<backend, user, document, updates, batch, proxy, buttons, process, budget>>,
         UNCHANGED <<written, replied, reported, hurt, ownerless, raced, crossed, stopped>>
  PROVE  BotIInv'
<1>0. PICK new : new = Len(drafts) + 1
  OBVIOUS
<1> DEFINE draft == [of |-> t.of.id, client |-> t.of.who, status |-> "pending"]
           n == [t EXCEPT !.at = "reply", !.draft = new]
           D == [of : Bot!Id, client : Bot!Person, status : {"pending", "approved", "rejected", "sent"}]
<1>1. /\ ~Bot!Tap(t.of) /\ t \in Bot!Task /\ OtherPlace(t) /\ t.of \in Bot!Update /\ t.of.id \in Bot!Id /\ t.of.who \in Bot!Person
      /\ process \in {"up", "ending"} /\ t.draft = 0 /\ (t.user # Bot!NoRow => user[Bot!From(t.of)] # Bot!NoRow)
  <2>1. ~Bot!Tap(t.of)
    BY NoTap
  <2>2. t \in Bot!Task /\ OtherPlace(t) /\ t.of \in Bot!Update /\ t.of.who \in Bot!Person
        /\ process \in {"up", "ending"} /\ t.draft = 0 /\ (t.user # Bot!NoRow => user[Bot!From(t.of)] # Bot!NoRow)
    BY <2>1, OtherKnown
  <2>3. QED
    BY <2>1, <2>2 DEF Bot!Update
<1>2. t.of.kind = "text" /\ Bot!From(t.of) = t.of.who
  BY <1>1 DEF OtherPlace, Bot!From
<1>3. t.user.role = "client" /\ t.user.business /\ user[t.of.who] # Bot!NoRow
  <2>1. t.user.role = "client" /\ t.user.business
    BY DEF Bot!RouteDraft
  <2>2. t.user # Bot!NoRow
    BY <2>1 DEF Bot!NoRow
  <2>3. QED
    BY <1>1, <1>2, <2>1, <2>2
<1>4. drafts \in Seq(D) /\ answers \in Seq(Nat) /\ Len(answers) = Len(drafts) /\ Len(drafts) \in Nat
      /\ DOMAIN drafts = 1..Len(drafts)
  BY DraftsTyped, LengthsOf
<1>5. draft \in D
  BY <1>1
<1>6. drafts' = Append(drafts, draft)
  BY DEF Bot!RouteDraft
<1>7. /\ drafts' \in Seq(D) /\ drafts'[new] = draft /\ DOMAIN drafts' = 1..new
      /\ \A d \in 1..Len(drafts) : drafts'[d] = drafts[d]
  <2> HIDE DEF draft, D
  <2>1. QED
    BY <1>0, <1>4, <1>5, <1>6, AppendRange
<1>8. /\ answers' \in Seq(Nat) /\ answers'[new] = 0 /\ DOMAIN answers' = 1..new
      /\ \A d \in 1..Len(drafts) : answers'[d] = answers[d]
  BY <1>0, <1>4
<1>9. DOMAIN drafts' = DOMAIN drafts \cup {new} /\ new \notin DOMAIN drafts /\ new \in Nat /\ new # 0
  BY <1>0, <1>4, <1>7
<1>10. n \in Bot!Task /\ n.of = t.of /\ n.at = "reply" /\ n.draft = new /\ n.user = t.user
  BY <1>1, <1>9 DEF Bot!Task, Bot!Place
<1>11. Bot!Put(t, n)
  BY <1>0 DEF Bot!RouteDraft
<1>12. \A d \in DOMAIN drafts : drafts'[d] = drafts[d] /\ answers'[d] = answers[d]
  BY <1>4, <1>7, <1>8
<1>13. drafts'[new].of = t.of.id /\ drafts'[new].client = t.of.who /\ drafts'[new].status = "pending" /\ answers'[new] = 0
  <2>1. drafts'[new] = draft /\ answers'[new] = 0
    BY <1>7, <1>8
  <2>2. QED
    BY <2>1
<1>14. DOMAIN answers' = DOMAIN drafts' /\ drafts' \in Seq(D) /\ answers' \in Seq(Nat)
  BY <1>7, <1>8
<1> HIDE DEF n, draft
<1>15. Goes(t, {n})
  BY <1>10, <1>11 DEF Bot!Put, Goes
<1>16. Formed(n)
  BY <1>1, <1>2, <1>3, <1>10 DEF Formed, OtherPlace
<1>17. SameLine
  BY SameBudget DEF BotIInv
<1>18. LineInv'
  BY <1>1, <1>9, <1>15, <1>17, LineStep DEF BotIInv
<1>19. FormInv'
  <2>1. FormInv /\ replied \subseteq replied' /\ DOMAIN drafts \subseteq DOMAIN drafts'
        /\ \A m \in {n} : Formed(m) /\ m.draft \in {0} \cup DOMAIN drafts' /\ m.at # "ping"
    BY <1>9, <1>10, <1>16 DEF BotIInv
  <2>2. QED
    BY <1>15, <2>1, FormStep
<1>20. StoreInv'
  BY <1>1, <1>9, <1>14 DEF BotIInv, StoreInv
<1>21. UserInv'
  <2>1. UserInv /\ (\A s \in tasks : Bot!From(s.of) \in Bot!Person)
    BY FromTyped DEF BotIInv
  <2>2. \A d \in DOMAIN drafts' : user'[drafts'[d].client] # Bot!NoRow
    BY <1>3, <1>9, <1>12, <1>13, <2>1 DEF UserInv
  <2>3. \A m \in {n} : m.user = t.user /\ m.at \notin {"business", "attach"}
    BY <1>10
  <2>4. t.user # Bot!NoRow => user'[Bot!From(t.of)] # Bot!NoRow
    BY <1>1
  <2>5. user' = user /\ hurt' = hurt /\ ownerless' = ownerless /\ t.at \notin {"business", "attach"}
    OBVIOUS
  <2>6. QED
    BY <1>15, <2>1, <2>2, <2>3, <2>4, <2>5, UserGrows
<1>22. Bot!HalfStoredNeedsMishap'
  BY <1>15, DocumentStep DEF BotIInv
<1>23. ReplyInv'
  BY <1>15, <1>17, ReplyStep DEF BotIInv
<1>24. /\ TapsOn(new) = {} /\ Bot!OnDraft(new) = {} /\ Asking(new) = {} /\ new \notin buttons
  BY <1>9, NewDraftIsNew
<1>25. /\ Rest' = Rest /\ Waiting' = Waiting /\ Used' = Used
       /\ \A d : TapsOn(d)' = TapsOn(d)
  BY SameParts DEF Used, TapsOn
<1>26. \A d : Bot!OnDraft(d)' = Bot!OnDraft(d)
  BY <1>1, <1>10, <1>15 DEF Bot!OnDraft, Goes
<1>27. \A s \in tasks' : s.of.id = t.of.id => s = n
  BY <1>10, <1>15 DEF BotIInv, LineInv, Goes
<1>28. \A u \in Rest \cup Waiting : u.id # t.of.id
  BY DEF BotIInv, LineInv
<1>29. t.of.id <= Used
  BY DEF BotIInv, LineInv, UpdateOK
<1>30. ASSUME NEW d \in DOMAIN drafts PROVE OnceInv(d) /\ (drafts[d].of = t.of.id => d \in DOMAIN drafts /\ drafts[d].of \in stopped)
  <2>1. OnceInv(d)
    BY DEF BotIInv, DraftInv
  <2>2. QED
    BY <2>1 DEF OnceInv
<1>31. ASSUME NEW d \in DOMAIN drafts PROVE AskInv(d)' /\ TapInv(d)' /\ (d \in crossed' \/ SingleInv(d)') /\ OnceInv(d)'
  <2>1. AskInv(d) /\ TapInv(d) /\ (d \in crossed \/ SingleInv(d)) /\ OnceInv(d) /\ d # new /\ d # 0
    BY <1>4, <1>9 DEF BotIInv, DraftInv
  <2>2. Asking(d)' = Asking(d)
    BY <1>1, <1>10, <1>15, <2>1 DEF Asking, Goes
  <2>3. AskInv(d)' /\ TapInv(d)' /\ (d \in crossed' \/ SingleInv(d)')
    BY <1>12, <1>25, <1>26, <2>1, <2>2, SameDraft
  <2>4. OnceInv(d)'
    <3>1. drafts'[d].of = drafts[d].of /\ stopped' = stopped
      BY <1>12
    <3>2. ASSUME drafts[d].of \notin stopped
          PROVE  /\ \A s \in tasks' : s.of.id = drafts[d].of => s.at \in {"reply", "ping"}
                 /\ \A e \in DOMAIN drafts' : drafts'[e].of = drafts[d].of => e = d
      <4>1. drafts[d].of # t.of.id
        BY <1>30, <3>2
      <4>2. \A s \in tasks' : s.of.id = drafts[d].of => s.at \in {"reply", "ping"}
        BY <1>10, <1>15, <2>1, <3>2, <4>1 DEF Goes, OnceInv
      <4>3. \A e \in DOMAIN drafts' : drafts'[e].of = drafts[d].of => e = d
        BY <1>9, <1>12, <1>13, <2>1, <3>2, <4>1 DEF OnceInv
      <4>4. QED
        BY <4>2, <4>3
    <3>3. QED
      BY <1>25, <2>1, <3>1, <3>2 DEF OnceInv
  <2>5. QED
    BY <2>3, <2>4
<1>32. AskInv(new)' /\ TapInv(new)' /\ SingleInv(new)' /\ OnceInv(new)'
  <2>1. Bot!Status(new)' = "pending" /\ TapsOn(new)' = {} /\ Bot!OnDraft(new)' = {} /\ new \notin buttons'
    BY <1>13, <1>24, <1>25, <1>26 DEF Bot!Status
  <2>2. Asking(new)' = {n}
    <3>1. \A s \in tasks : ~(~Bot!Tap(s.of) /\ s.draft = new)
      BY <1>24 DEF Asking
    <3>2. QED
      BY <1>1, <1>10, <1>15, <3>1 DEF Asking, Goes
  <2>3. AskInv(new)'
    BY <1>10, <1>13, <2>1, <2>2 DEF AskInv
  <2>4. TapInv(new)'
    BY <2>1 DEF TapInv
  <2>5. SingleInv(new)'
    <3>1. answers'[new] <= 1 /\ ~(answers'[new] > 0)
      BY <1>13
    <3>2. QED
      BY <1>13, <2>1, <3>1 DEF SingleInv
  <2>6. OnceInv(new)'
    <3>1. \A e \in DOMAIN drafts' : drafts'[e].of = t.of.id /\ t.of.id \notin stopped => e = new
      BY <1>9, <1>12, <1>30
    <3>2. \A s \in tasks' : s.of.id = t.of.id => s.at \in {"reply", "ping"}
      BY <1>10, <1>27
    <3>3. QED
      BY <1>13, <1>25, <1>28, <1>29, <3>1, <3>2 DEF OnceInv
  <2>7. QED
    BY <2>3, <2>4, <2>5, <2>6
<1>33. DraftInv'
  BY <1>9, <1>31, <1>32 DEF DraftInv
<1>34. QED
  BY <1>18, <1>19, <1>20, <1>21, <1>22, <1>23, <1>33 DEF BotIInv

LEMMA RouteKeeps == ASSUME BotBounds, BotIInv, NEW t \in tasks, Bot!Route(t) PROVE BotIInv'
<1>1. t.at = "route" /\ ~Bot!Tap(t.of)
  BY NoTap DEF Bot!Route
<1>2. /\ UNCHANGED <<backend, user, document, updates, batch, proxy, buttons, process, budget>>
      /\ UNCHANGED <<written, replied, reported, hurt, ownerless, raced, crossed, stopped>>
  BY DEF Bot!Route, Bot!world
<1>3. Len(drafts) = Len(answers) /\ Len(drafts) \in Nat
  BY LengthsOf
<1>4. CASE Bot!RouteDraft(t)
  <2> DEFINE draft == [of |-> t.of.id, client |-> t.of.who, status |-> "pending"]
             D == [of : Bot!Id, client : Bot!Person, status : {"pending", "approved", "rejected", "sent"}]
  <2>1. drafts' = Append(drafts, draft) /\ drafts \in Seq(D)
    BY <1>4, DraftsTyped DEF Bot!RouteDraft
  <2>2. draft \in D
    BY DEF BotIInv, LineInv, UpdateOK, Bot!Update
  <2> HIDE DEF draft, D
  <2>3. Len(drafts') = Len(drafts) + 1
    BY <2>1, <2>2, AppendRange
  <2>4. answers' = Append(answers, 0)
    BY <1>3, <2>3 DEF Bot!Route
  <2>5. /\ answers' \in Seq(Nat) /\ DOMAIN answers' = 1..(Len(drafts) + 1) /\ answers'[Len(drafts) + 1] = 0
        /\ \A d \in DOMAIN drafts : answers'[d] = answers[d]
    <3>1. answers \in Seq(Nat) /\ DOMAIN drafts = 1..Len(answers) /\ 0 \in Nat
      BY <1>3, DraftsTyped, LengthsOf
    <3>2. QED
      BY <1>3, <2>4, <3>1, AppendRange
  <2>6. QED
    BY <1>1, <1>2, <1>4, <2>5, RouteDraftKeeps
<1>5. CASE ~Bot!RouteDraft(t)
  <2> DEFINE n == [t EXCEPT !.at = "reply"]
  <2>1. Bot!To(t, "reply") /\ drafts' = drafts
    BY <1>5 DEF Bot!Route, Bot!RouteOwner, Bot!RouteUnclaimed, Bot!RouteGrounded
  <2>2. answers' = answers
    BY <1>3, <2>1 DEF Bot!Route
  <2>3. /\ Goes(t, {n}) /\ n.user = t.user /\ n.draft = t.draft /\ n.at = "reply" /\ n.of = t.of
        /\ OtherPlace(n) /\ t.draft = 0 => Formed(n)
    BY <1>1, <2>1, OtherGoes DEF Bot!Place
  <2> HIDE DEF n
  <2>4. OtherPlace(t) /\ t.draft = 0 /\ process \in {"up", "ending"}
    BY <1>1, OtherKnown
  <2>5. Formed(n)
    BY <1>1, <2>3, <2>4 DEF OtherPlace
  <2>6. SameLine
    BY <1>2, SameBudget DEF BotIInv
  <2>7. OtherFrame(t, {n})
    BY <1>1, <1>2, <2>1, <2>2, <2>3, <2>4, <2>5, <2>6 DEF OtherFrame
  <2>8. QED
    BY <1>1, <1>2, <2>3, <2>7, PlainKeeps
<1>6. QED
  BY <1>4, <1>5
-----------------------------------------------------------------------------
(* A call fails                                                            *)

LEMMA AnsweredOf ==
  ASSUME BotBounds, BotIInv, NEW d \in DOMAIN drafts, answers' = [answers EXCEPT ![d] = @ + 1]
  PROVE  /\ DOMAIN answers' = DOMAIN answers /\ answers' \in Seq(Nat)
         /\ \A e \in DOMAIN drafts : e # d => answers'[e] = answers[e]
         /\ answers'[d] = answers[d] + 1
<1>1. answers \in Seq(Nat) /\ answers \in [1..Len(answers) -> Nat] /\ Len(answers) \in Nat
      /\ DOMAIN answers = 1..Len(answers) /\ DOMAIN answers = DOMAIN drafts /\ answers[d] \in Nat
  BY DraftsTyped, LenProperties
<1>2. answers' \in [1..Len(answers) -> Nat]
  <2>1. answers[d] + 1 \in Nat
    BY <1>1
  <2>2. QED
    BY <1>1, <2>1
<1>3. QED
  BY <1>1, <1>2

LEMMA FailureFrame ==
  ASSUME BotBounds, BotIInv, NEW t \in tasks, Bot!Fails(t)
  PROVE  /\ SameLine /\ UNCHANGED <<backend, user, drafts, document>>
         /\ UNCHANGED <<written, replied, reported, ownerless, raced, crossed, stopped>>
         /\ hurt' = hurt \cup {t.of} /\ t.of \in hurt' /\ hurt \subseteq hurt'
         /\ process' \in {"up", "ending"} /\ process' # "down"
         /\ t.at # "attach" => Bot!Raise(t)
         /\ \/ UNCHANGED <<answers, buttons>>
            \/ t.at = "send" /\ answers' = [answers EXCEPT ![t.draft] = @ + 1] /\ buttons' = buttons
            \/ t.at = "ping" /\ buttons' = buttons \cup {t.draft} /\ answers' = answers
<1>1. /\ Bot!Spend("faults") /\ hurt' = hurt \cup {t.of}
      /\ UNCHANGED <<Bot!storage, updates, batch, proxy, written, replied, reported, ownerless, raced, crossed, stopped>>
      /\ IF t.at = "attach"
         THEN Bot!Loaded(t, [Bot!FirstRow(Owner) EXCEPT !.business = TRUE]) /\ UNCHANGED process
         ELSE Bot!Raise(t)
      /\ \/ UNCHANGED <<answers, buttons>>
         \/ t.at = "send" /\ answers' = [answers EXCEPT ![t.draft] = @ + 1] /\ buttons' = buttons
         \/ t.at = "ping" /\ buttons' = buttons \cup {t.draft} /\ answers' = answers
  BY DEF Bot!Fails
<1>2. SameLine
  BY <1>1, SpendOf DEF BotIInv, SameLine
<1>3. process \in {"up", "ending"}
  BY DraftsTyped
<1>4. process' \in {"up", "ending"}
  BY <1>1, <1>3, RaiseOf
<1>5. QED
  BY <1>1, <1>2, <1>4 DEF Bot!storage

LEMMA TapFails == ASSUME BotBounds, BotIInv, NEW t \in tasks, Bot!Tap(t.of), Bot!Fails(t) PROVE BotIInv'
<1> DEFINE d == t.draft
<1>1. d \in DOMAIN drafts /\ TapPlace(t) /\ t.of.kind # "text" /\ answers[d] \in Nat
  BY TapKnown, DraftsTyped DEF Bot!Tap
<1>2. t.at \notin {"attach", "ping"}
  BY <1>1 DEF TapPlace
<1>3. Goes(t, {})
  BY <1>1, <1>2, FailureFrame, RaiseOf
<1>4. /\ SameLine /\ UNCHANGED <<backend, user, drafts, document, buttons>>
      /\ UNCHANGED <<written, replied, reported, ownerless, raced, crossed, stopped>>
      /\ hurt' = hurt \cup {t.of} /\ t.of \in hurt' /\ process' \in {"up", "ending"} /\ process' # "down"
      /\ answers' = answers \/ (t.at = "send" /\ answers' = [answers EXCEPT ![d] = @ + 1])
  BY <1>2, FailureFrame
<1>5. /\ DOMAIN answers' = DOMAIN answers /\ answers' \in Seq(Nat)
      /\ \A e \in DOMAIN drafts : e # d => answers'[e] = answers[e]
      /\ answers'[d] \in {answers[d], answers[d] + 1}
      /\ answers'[d] # answers[d] => t.at = "send"
      /\ t.at = "report" => answers' = answers
  BY <1>1, <1>4, AnsweredOf, DraftsTyped
<1> HIDE DEF d
<1>6. TapFrame(t, {})
  BY <1>3, <1>4, <1>5, DraftsTyped DEF TapFrame, d
<1>7. QED
  BY <1>4, <1>5, <1>6, TapEnds DEF d

LEMMA AttachFails == ASSUME BotBounds, BotIInv, NEW t \in tasks, t.at = "attach", Bot!Fails(t) PROVE BotIInv'
<1> DEFINE row == [Bot!FirstRow(Owner) EXCEPT !.business = TRUE]
<1>1. ~Bot!Tap(t.of) /\ Bot!Loaded(t, row) /\ row \in Bot!Row
  BY NoTap, ConstantTypes, RowsOf DEF Bot!Fails
<1>2. PICK n : /\ Goes(t, {n}) /\ Formed(n) /\ n.draft = t.draft /\ t.draft = 0 /\ n.user = row
               /\ n.at \notin {"ping", "chunks", "business", "attach"}
  BY <1>1, LoadedOf
<1> HIDE DEF row
<1>3. /\ SameLine /\ UNCHANGED <<backend, user, drafts, document, buttons, answers>>
      /\ UNCHANGED <<written, replied, reported, ownerless, raced, crossed, stopped>>
      /\ hurt' = hurt \cup {t.of} /\ t.of \in hurt' /\ hurt \subseteq hurt'
      /\ process' \in {"up", "ending"} /\ process' # "down"
  BY FailureFrame
<1>4. OtherPlace(t) /\ Bot!From(t.of) \in Bot!Person /\ user[Bot!From(t.of)] # Bot!NoRow
  BY <1>1, OtherKnown
<1>5. Bot!From(t.of) = Owner
  BY <1>4 DEF OtherPlace
<1>6. OtherFrame(t, {n})
  BY <1>1, <1>2, <1>3 DEF OtherFrame
<1>7. HurtOwner' /\ UserInv /\ Bot!HalfStoredNeedsMishap
  BY <1>3, <1>5 DEF HurtOwner, BotIInv
<1>8. UserInv'
  <2>1. (\A s \in tasks : Bot!From(s.of) \in Bot!Person) /\ (\A d \in DOMAIN drafts' : user'[drafts'[d].client] # Bot!NoRow)
    BY <1>3, <1>7, FromTyped DEF BotIInv, UserInv
  <2>2. \A m \in {n} : m.user # Bot!NoRow \/ m.at \in {"business", "attach"} => user'[Bot!From(t.of)] # Bot!NoRow
    BY <1>3, <1>4
  <2>3. \E u \in hurt' : Bot!From(u) = Owner
    BY <1>7 DEF HurtOwner
  <2>4. QED
    BY <1>2, <1>3, <1>7, <2>1, <2>2, <2>3, UserGrows
<1>9. Bot!HalfStoredNeedsMishap'
  BY <1>2, <1>3, <1>7, DocumentStep
<1>10. user' \in [Bot!Person -> Bot!Row] /\ document' \in {"none", "row", "searchable"}
  BY <1>3 DEF BotIInv, StoreInv
<1>11. QED
  BY <1>6, <1>8, <1>9, <1>10, OtherKeeps

LEMMA OtherFails == ASSUME BotBounds, BotIInv, NEW t \in tasks, ~Bot!Tap(t.of), t.at # "attach", Bot!Fails(t) PROVE BotIInv'
<1>1. OtherPlace(t) /\ Formed(t) /\ (t.at \in {"reply", "ping"} \/ t.draft = 0)
  BY OtherKnown
<1>2. /\ SameLine /\ UNCHANGED <<backend, user, drafts, document, answers>>
      /\ UNCHANGED <<written, replied, reported, ownerless, raced, crossed, stopped>>
      /\ hurt' = hurt \cup {t.of} /\ t.of \in hurt' /\ process' \in {"up", "ending"} /\ process' # "down" /\ Bot!Raise(t)
      /\ buttons' = buttons \/ (t.at = "ping" /\ buttons' = buttons \cup {t.draft})
  BY <1>1, FailureFrame DEF OtherPlace
<1>3. t.at = "ping" => t.draft # 0 /\ Goes(t, {})
  BY <1>1, <1>2, RaiseReplies DEF Formed
<1>4. CASE Goes(t, {})
  <2>1. OtherFrame(t, {})
    BY <1>2, <1>3, <1>4 DEF OtherFrame
  <2>2. QED
    BY <1>2, <2>1, PlainKeeps
<1>5. CASE ~Goes(t, {})
  <2>1. PICK n : /\ Goes(t, {n}) /\ Formed(n) /\ n.user = Bot!NoRow /\ n.at = "reply" /\ n.draft = t.draft
                 /\ t.at \in {"lookup", "insert", "business", "route"}
    BY <1>2, <1>5, RaiseReplies
  <2>2. OtherFrame(t, {n})
    BY <1>1, <1>2, <1>3, <1>5, <2>1 DEF OtherFrame
  <2>3. QED
    BY <1>2, <2>1, <2>2, PlainKeeps
<1>6. QED
  BY <1>4, <1>5

LEMMA HandlerKeeps == ASSUME BotBounds, BotIInv, NEW t \in tasks, Bot!Handles(t) \/ Bot!Fails(t) PROVE BotIInv'
<1>1. CASE Bot!Fails(t)
  BY <1>1, TapFails, AttachFails, OtherFails
<1>2. CASE ~Bot!Tap(t.of) /\ Bot!FindOrCreate(t)
  BY <1>2, FindOrCreateKeeps
<1>3. CASE Bot!Route(t) \/ Bot!Reply(t) \/ Bot!AskOwner(t) \/ Bot!Claim(t) \/ Bot!CreateDocument(t) \/ Bot!InsertChunks(t)
  BY <1>3, RouteKeeps, ReplyKeeps, AskOwnerKeeps, ClaimKeeps, CreateDocumentKeeps, InsertChunksKeeps
<1>4. CASE Bot!CheckPending(t) \/ Bot!MarkRejected(t)
  BY <1>4, CheckPendingKeeps, MarkRejectedKeeps
<1>5. CASE Bot!MarkApproved(t) \/ Bot!SendAnswer(t) \/ Bot!MarkSent(t) \/ Bot!Report(t)
  <2>1. t.at \in {"approve", "send", "sent", "report"}
    BY <1>5 DEF Bot!MarkApproved, Bot!SendAnswer, Bot!MarkSent, Bot!Report
  <2>2. Bot!Tap(t.of)
    BY <2>1 DEF BotIInv, FormInv, Formed, OtherPlace
  <2>3. QED
    BY <1>5, <2>2, MarkApprovedKeeps, SendAnswerKeeps, MarkSentKeeps, ReportKeeps
<1>6. QED
  BY <1>1, <1>2, <1>3, <1>4, <1>5 DEF Bot!Handles
-----------------------------------------------------------------------------
(* The process takes updates, ends and starts                              *)

\* New tasks for updates that wait.
Taking(S) ==
  /\ tasks' = tasks \cup {Bot!NewTask(u, "lookup") : u \in S}
  /\ S \subseteq Held \cup Waiting
  /\ UNCHANGED <<backend, user, drafts, document, buttons, budget, process, written, replied, answers,
                 reported, hurt, ownerless, raced, crossed, stopped>>

LEMMA NewTaskOf ==
  ASSUME BotBounds, BotIInv, NEW u \in Held \cup Waiting
  PROVE  LET t == Bot!NewTask(u, "lookup") IN
         /\ Formed(t) /\ t.of = u /\ t.at = "lookup" /\ t.user = Bot!NoRow /\ t.draft = u.draft
         /\ t.draft \in {0} \cup DOMAIN drafts /\ (~Bot!Tap(t.of) => t.draft = 0)
<1> DEFINE t == Bot!NewTask(u, "lookup")
<1>1. UpdateOK(u)
  BY DEF BotIInv, LineInv
<1>2. t.of = u /\ t.at = "lookup" /\ t.user = Bot!NoRow /\ t.draft = u.draft
  BY DEF Bot!NewTask
<1>3. t \in Bot!Task
  BY <1>1, RowsOf DEF Bot!NewTask, Bot!Task, Bot!Place, UpdateOK, Bot!Update
<1> HIDE DEF t
<1>4. Formed(t) /\ t.draft \in {0} \cup DOMAIN drafts /\ (~Bot!Tap(t.of) => t.draft = 0)
  BY <1>1, <1>2, <1>3 DEF Formed, TapPlace, OtherPlace, UpdateOK
<1>5. QED
  BY <1>2, <1>4 DEF t

LEMMA TakingKeeps ==
  ASSUME BotBounds, BotIInv, NEW S, Taking(S), LineInv', DraftInv',
         \A u \in Rest \cup Waiting : u \in Rest' \cup Waiting' \/ u \in S
  PROVE  BotIInv'
<1>1. ASSUME NEW t \in tasks'
      PROVE  t \in tasks \/ (/\ Formed(t) /\ t.of \in S /\ t.at = "lookup" /\ t.user = Bot!NoRow
                             /\ t.draft \in {0} \cup DOMAIN drafts)
  <2>1. CASE t \notin tasks
    <3>1. PICK u \in S : t = Bot!NewTask(u, "lookup")
      BY <2>1 DEF Taking
    <3>2. QED
      BY <3>1, NewTaskOf DEF Taking, Bot!NewTask
  <2>2. QED
    BY <2>1
<1>2. tasks \subseteq tasks' /\ \A u \in S : \E t \in tasks' : t.of = u
  <2>1. \A u \in S : Bot!NewTask(u, "lookup") \in tasks' /\ Bot!NewTask(u, "lookup").of = u
    BY DEF Taking, Bot!NewTask
  <2>2. QED
    BY <2>1 DEF Taking
<1>3. FormInv'
  BY <1>1 DEF BotIInv, FormInv, Taking
<1>4. StoreInv'
  BY DEF BotIInv, StoreInv, Taking
<1>5. UserInv'
  <2>1. UserInv /\ UNCHANGED <<user, drafts, hurt, ownerless>> /\ Bot!NoRow.business = FALSE
    BY RowsOf DEF BotIInv, Taking
  <2>2. \A t \in tasks' : t.user # Bot!NoRow \/ t.at \in {"business", "attach"} => user'[Bot!From(t.of)] # Bot!NoRow
    BY <1>1, <2>1 DEF UserInv
  <2>3. (\E t \in tasks' : t.user.business) => \E t \in tasks : t.user.business
    BY <1>1, <2>1
  <2>4. HurtOwner' = HurtOwner
    BY <2>1 DEF HurtOwner
  <2>5. Bot!OwnerHasABusiness'
    BY <1>2, <2>1 DEF UserInv, Bot!OwnerHasABusiness
  <2>6. QED
    BY <2>1, <2>2, <2>3, <2>4, <2>5 DEF UserInv
<1>6. ReplyInv'
  <2>1. ReplyInv /\ UNCHANGED <<written, replied, hurt, raced>>
    BY DEF BotIInv, Taking
  <2>2. QED
    BY <1>2, <2>1 DEF ReplyInv
<1>7. Bot!HalfStoredNeedsMishap'
  BY <1>2 DEF BotIInv, Taking, Bot!HalfStoredNeedsMishap
<1>8. QED
  BY <1>3, <1>4, <1>5, <1>6, <1>7 DEF BotIInv

\* What a new task changes of a draft: a tap on it may be taken up.
LEMMA TakingDraft ==
  ASSUME BotBounds, BotIInv, NEW S, Taking(S), NEW d \in DOMAIN drafts,
         TapsOn(d)' \subseteq TapsOn(d), \A u \in S : Bot!Tap(u) => Bot!OnDraft(d) = {},
         Rest' \cup Waiting' \subseteq Rest \cup Waiting, S \subseteq Rest \cup Waiting
  PROVE  AskInv(d)' /\ TapInv(d)' /\ (d \in crossed' \/ SingleInv(d)') /\ OnceInv(d)'
<1>1. AskInv(d) /\ TapInv(d) /\ (d \in crossed \/ SingleInv(d)) /\ OnceInv(d) /\ d # 0
  BY DraftsTyped DEF BotIInv, DraftInv
<1>2. UNCHANGED <<drafts, answers, buttons, hurt, ownerless, crossed, stopped, budget>>
  BY DEF Taking
<1>3. Bot!Status(d)' = Bot!Status(d) /\ Bot!HurtTap(d)' = Bot!HurtTap(d) /\ Used' = Used /\ Bot!Hurt(drafts[d].of)' = Bot!Hurt(drafts[d].of)
  BY <1>2 DEF Bot!Status, Bot!HurtTap, Used, Bot!Hurt
<1>4. ASSUME NEW t \in tasks', t \notin tasks
      PROVE  /\ t.of \in S /\ t.at = "lookup" /\ (~Bot!Tap(t.of) => t.draft = 0)
  <2>1. PICK u \in S : t = Bot!NewTask(u, "lookup")
    BY <1>4 DEF Taking
  <2>2. QED
    BY <2>1, NewTaskOf DEF Taking, Bot!NewTask
<1>5. tasks \subseteq tasks'
  BY DEF Taking
<1>6. Asking(d)' = Asking(d)
  BY <1>1, <1>4, <1>5 DEF Asking
<1>7. /\ Bot!OnDraft(d) \subseteq Bot!OnDraft(d)'
      /\ \A t \in Bot!OnDraft(d)' : t \in Bot!OnDraft(d) \/ (t.at = "lookup" /\ Bot!OnDraft(d) = {})
  BY <1>4, <1>5 DEF Bot!OnDraft
<1>8. AskInv(d)'
  BY <1>1, <1>2, <1>3, <1>6 DEF AskInv
<1>9. TapInv(d)'
  BY <1>1, <1>2, <1>3, <1>7 DEF TapInv
<1>10. SingleInv(d) => SingleInv(d)'
  BY <1>1, <1>2, <1>3, <1>7 DEF SingleInv
<1>11. OnceInv(d)'
  BY <1>1, <1>2, <1>3, <1>4 DEF OnceInv
<1>12. QED
  BY <1>1, <1>2, <1>8, <1>9, <1>10, <1>11

LEMMA NextBatchKeeps == ASSUME BotBounds, BotIInv, Bot!NextBatch PROVE BotIInv'
<1>1. /\ LineInv' /\ Taken' = Rest /\ Rest' = {} /\ Held' = Rest /\ Waiting' = Waiting
      /\ tasks' = tasks \cup {Bot!NewTask(u, "lookup") : u \in Rest} /\ \A t \in tasks : Bot!OnSimplex(t.of)
  BY BatchOf DEF BotIInv
<1>2. Rest \subseteq Held
  BY HeldOf DEF BotIInv, LineInv
<1>3. Taking(Rest)
  BY <1>1, <1>2 DEF Taking, Bot!NextBatch, Bot!storage, Bot!past
<1>4. ASSUME NEW d \in DOMAIN drafts
      PROVE  AskInv(d)' /\ TapInv(d)' /\ (d \in crossed' \/ SingleInv(d)') /\ OnceInv(d)'
  <2>1. TapsOn(d)' \subseteq TapsOn(d)
    BY <1>1, <1>2 DEF TapsOn
  <2>2. Bot!OnDraft(d) = {}
    BY <1>1 DEF Bot!OnDraft, Bot!OnSimplex, Bot!Tap
  <2>3. QED
    BY <1>1, <1>3, <2>1, <2>2, TakingDraft
<1>5. DraftInv'
  BY <1>3, <1>4 DEF DraftInv, Taking
<1>6. QED
  BY <1>1, <1>3, <1>5, TakingKeeps

LEMMA PollKeeps == ASSUME BotBounds, BotIInv, Bot!Poll PROVE BotIInv'
<1>1. /\ LineInv' /\ Taken' = Taken /\ Rest' = Rest /\ Held' = Held /\ Waiting' = {}
      /\ tasks' = tasks \cup {Bot!NewTask(u, "lookup") : u \in Waiting}
  BY PollOf DEF BotIInv
<1>2. Taking(Waiting)
  BY <1>1 DEF Taking, Bot!Poll, Bot!storage, Bot!past
<1>3. ASSUME NEW d \in DOMAIN drafts
      PROVE  AskInv(d)' /\ TapInv(d)' /\ (d \in crossed' \/ SingleInv(d)') /\ OnceInv(d)'
  <2>1. TapsOn(d)' \subseteq TapsOn(d)
    BY <1>1 DEF TapsOn
  <2>2. \A u \in Waiting : ~Bot!Tap(u)
    BY DEF BotIInv, LineInv, Bot!OnSimplex, Bot!Tap
  <2>3. QED
    BY <1>1, <1>2, <2>1, <2>2, TakingDraft
<1>4. DraftInv'
  BY <1>2, <1>3 DEF DraftInv, Taking
<1>5. QED
  BY <1>1, <1>2, <1>4, TakingKeeps

LEMMA EndsKeeps ==
  ASSUME BotBounds, BotIInv, NEW confirmed \in BOOLEAN, Bot!Ends(confirmed),
         budget' \in [updates : 0..MaxUpdates, faults : 0..BotFaults], budget'.updates = budget.updates
  PROVE  BotIInv'
<1>1. /\ LineInv' /\ Taken' = {} /\ Rest' = (IF confirmed THEN Rest ELSE Held) /\ Held' = Rest' /\ Waiting' = Waiting
      /\ tasks' = {} /\ hurt' = hurt \cup {t.of : t \in tasks}
      /\ stopped' = IF confirmed THEN stopped ELSE stopped \cup {u.id : u \in Taken}
  BY EndsOf DEF BotIInv
<1>2. /\ UNCHANGED <<backend, user, drafts, document, buttons, written, replied, answers, reported, ownerless, raced, crossed>>
      /\ process' = "down"
  BY DEF Bot!Ends, Bot!storage
<1>3. Held = Taken \cup Rest /\ Held' \subseteq Held /\ Rest \subseteq Rest' /\ hurt \subseteq hurt' /\ stopped \subseteq stopped'
      /\ \A t \in tasks : t.of \in hurt'
  <2>1. Held = Taken \cup Rest
    BY HeldOf DEF BotIInv, LineInv
  <2>2. QED
    BY <1>1, <2>1
<1>4. FormInv'
  BY <1>1 DEF FormInv
<1>5. StoreInv'
  <2>1. \A t \in tasks : t.of \in Bot!Update
    BY DEF BotIInv, LineInv, UpdateOK
  <2>2. \A u \in Taken : u.id \in Bot!Id
    BY <1>3 DEF BotIInv, LineInv, UpdateOK, Bot!Update
  <2>3. QED
    BY <1>1, <1>2, <2>1, <2>2 DEF BotIInv, StoreInv
<1>6. UserInv'
  <2>1. UserInv /\ (HurtOwner => HurtOwner')
    BY <1>3 DEF BotIInv, HurtOwner
  <2>2. Bot!OwnerHasABusiness'
    <3>1. SUFFICES ASSUME user[Owner] = [role |-> "owner", business |-> FALSE]
                   PROVE  \E u \in hurt' : Bot!From(u) = Owner
      BY <1>2 DEF Bot!OwnerHasABusiness
    <3>2. CASE \E u \in hurt : Bot!From(u) = Owner
      BY <1>3, <3>2
    <3>3. CASE ~\E u \in hurt : Bot!From(u) = Owner
      <4>1. PICK t \in tasks : t.at \in {"business", "attach"}
        BY <2>1, <3>1, <3>3 DEF UserInv, Bot!OwnerHasABusiness
      <4>2. ~Bot!Tap(t.of)
        BY <4>1, NoTap
      <4>3. Bot!From(t.of) = Owner
        BY <4>1, <4>2, OtherKnown DEF OtherPlace
      <4>4. QED
        BY <1>3, <4>3
    <3>4. QED
      BY <3>2, <3>3
  <2>3. (\E p \in Bot!Person : user'[p].business) \/ (\E t \in tasks' : t.user.business) => user'[Owner].business \/ HurtOwner'
    BY <1>1, <1>2, <2>1 DEF UserInv
  <2>4. QED
    BY <1>1, <1>2, <2>1, <2>2, <2>3 DEF UserInv
<1>7. ASSUME NEW d \in DOMAIN drafts
      PROVE  AskInv(d)' /\ TapInv(d)' /\ (d \in crossed' \/ SingleInv(d)') /\ OnceInv(d)'
  <2>1. AskInv(d) /\ TapInv(d) /\ (d \in crossed \/ SingleInv(d)) /\ OnceInv(d)
    BY DEF BotIInv, DraftInv
  <2>2. /\ Bot!Status(d)' = Bot!Status(d) /\ (Bot!HurtTap(d) => Bot!HurtTap(d)') /\ Used' = Used
        /\ Bot!Hurt(drafts[d].of) => Bot!Hurt(drafts[d].of)'
        /\ drafts'[d] = drafts[d] /\ answers'[d] = answers[d]
    <3>1. Used' = Used
      BY DEF Used
    <3>2. QED
      BY <1>2, <1>3, <3>1 DEF Bot!Status, Bot!HurtTap, Bot!Hurt
  <2>3. TapsOn(d)' \subseteq TapsOn(d) /\ Bot!OnDraft(d)' = {} /\ Asking(d)' = {}
    BY <1>1, <1>3 DEF TapsOn, Bot!OnDraft, Asking
  <2>4. Asking(d) # {} => Bot!Hurt(drafts[d].of)'
    <3>1. ASSUME NEW t \in Asking(d) PROVE Bot!Hurt(drafts[d].of)'
      <4>1. t.of \in hurt' /\ drafts[d].of = t.of.id
        BY <1>3, <2>1 DEF Asking, AskInv
      <4>2. QED
        BY <1>2, <4>1 DEF Bot!Hurt
    <3>2. QED
      BY <3>1
  <2>5. Bot!OnDraft(d) # {} => Bot!HurtTap(d)'
    BY <1>3 DEF Bot!OnDraft, Bot!HurtTap
  <2>6. AskInv(d)'
    BY <1>2, <2>1, <2>2, <2>3, <2>4 DEF AskInv
  <2>7. TapInv(d)'
    BY <2>1, <2>2, <2>3, <2>5 DEF TapInv
  <2>8. SingleInv(d) => SingleInv(d)'
    BY <1>2, <2>2, <2>3, <2>5 DEF SingleInv
  <2>9. OnceInv(d)'
    <3>1. ASSUME drafts[d].of \notin stopped'
          PROVE  \A u \in Rest' \cup Waiting' : u.id # drafts[d].of
      <4>1. \A u \in Rest \cup Waiting : u.id # drafts[d].of
        BY <1>3, <2>1, <3>1 DEF OnceInv
      <4>2. CASE confirmed
        BY <1>1, <4>1, <4>2
      <4>3. CASE ~confirmed
        BY <1>1, <1>3, <3>1, <4>1, <4>3
      <4>4. QED
        BY <4>2, <4>3
    <3>2. drafts' = drafts
      BY <1>2
    <3>3. QED
      BY <1>1, <1>3, <2>1, <2>2, <3>1, <3>2 DEF OnceInv
  <2>10. QED
    BY <1>2, <2>1, <2>6, <2>7, <2>8, <2>9
<1>8. DraftInv'
  BY <1>2, <1>7 DEF DraftInv
<1>9. ReplyInv'
  BY <1>1, <1>2, <1>3 DEF BotIInv, ReplyInv
<1>10. Bot!HalfStoredNeedsMishap'
  <2>1. \A t \in tasks : t.at = "chunks" => t.of.kind = "document"
    BY NoTap, OtherKnown DEF OtherPlace
  <2>2. QED
    BY <1>2, <1>3, <2>1 DEF BotIInv, Bot!HalfStoredNeedsMishap
<1>11. QED
  BY <1>1, <1>4, <1>5, <1>6, <1>8, <1>9, <1>10 DEF BotIInv

LEMMA ProcessKeeps == ASSUME BotBounds, BotIInv, Bot!ExitsOnError \/ Bot!Shutdown \/ Bot!Starts PROVE BotIInv'
<1>1. budget \in [updates : 0..MaxUpdates, faults : 0..BotFaults]
  BY DEF BotIInv, LineInv
<1>2. CASE Bot!ExitsOnError
  <2>1. CASE Bot!Ends(TRUE) /\ UNCHANGED budget
    BY <1>1, <2>1, EndsKeeps
  <2>2. CASE Bot!Ends(FALSE) /\ Bot!Spend("faults")
    BY <2>2, EndsKeeps, SpendOf DEF BotIInv
  <2>3. QED
    BY <1>2, <2>1, <2>2 DEF Bot!ExitsOnError
<1>3. CASE Bot!Shutdown
  BY <1>3, EndsKeeps, SpendOf DEF BotIInv, Bot!Shutdown
<1>4. CASE Bot!Starts
  <2>1. /\ UNCHANGED <<backend, user, drafts, document, updates, batch, proxy, buttons, tasks, budget>>
        /\ UNCHANGED <<written, replied, answers, reported, hurt, ownerless, raced, crossed, stopped>>
        /\ process' = "up"
    BY <1>4 DEF Bot!Starts, Bot!storage, Bot!world, Bot!past
  <2>2. Taken' = Taken /\ Rest' = Rest /\ Held' = Held /\ Waiting' = Waiting /\ Used' = Used
    BY <2>1, SameParts DEF Used
  <2>3. LineInv'
    BY <2>1, <2>2 DEF BotIInv, LineInv, UpdateOK
  <2>4. FormInv' /\ StoreInv'
    BY <2>1 DEF BotIInv, FormInv, StoreInv
  <2>5. UserInv'
    BY <2>1 DEF BotIInv, UserInv, HurtOwner, Bot!OwnerHasABusiness
  <2>6. DraftInv'
    <3>1. \A d : /\ Bot!Status(d)' = Bot!Status(d) /\ TapsOn(d)' = TapsOn(d) /\ Bot!OnDraft(d)' = Bot!OnDraft(d)
                 /\ Asking(d)' = Asking(d) /\ Bot!HurtTap(d)' = Bot!HurtTap(d) /\ Bot!Hurt(d)' = Bot!Hurt(d)
      BY <2>1, <2>2 DEF Bot!Status, TapsOn, Bot!OnDraft, Asking, Bot!HurtTap, Bot!Hurt
    <3>2. QED
      BY <2>1, <2>2, <3>1 DEF BotIInv, DraftInv, AskInv, TapInv, SingleInv, OnceInv
  <2>7. ReplyInv' /\ Bot!HalfStoredNeedsMishap'
    BY <2>1, <2>2 DEF BotIInv, ReplyInv, Bot!HalfStoredNeedsMishap
  <2>8. QED
    BY <2>3, <2>4, <2>5, <2>6, <2>7 DEF BotIInv
<1>5. QED
  BY <1>2, <1>3, <1>4
-----------------------------------------------------------------------------
(* What the people do                                                      *)

LEMMA ArrivalKeeps ==
  ASSUME BotBounds, BotIInv, Bot!WithinBounds, NEW u \in Bot!Update, u.id = Bot!NextId, u.role # "owner",
         IF Bot!Tap(u) THEN u.draft \in DOMAIN drafts ELSE u.draft = 0,
         IF Bot!OnSimplex(u) THEN proxy' = Append(proxy, u) /\ UNCHANGED updates ELSE Bot!Arrives(u),
         UNCHANGED <<backend, user, drafts, document, batch, tasks, process, buttons>>,
         UNCHANGED <<replied, answers, reported, hurt, ownerless, raced, stopped>>,
         written' = written \/ (u.kind = "text" /\ written' = written \cup {u}),
         crossed' = crossed \/ (Bot!Tap(u) /\ crossed' = crossed \cup {u.draft}),
         Bot!Tap(u) => u.draft \in buttons /\ (u.draft \in crossed' \/ Bot!Unsettled(u.draft) = {})
  PROVE  BotIInv'
<1>1. /\ LineInv' /\ Used' = Used + 1 /\ u.id = Used + 1 /\ Taken' = Taken
      /\ Rest' = (IF Bot!OnSimplex(u) THEN Rest ELSE Rest \cup {u})
      /\ Held' = (IF Bot!OnSimplex(u) THEN Held ELSE Held \cup {u})
      /\ Waiting' = (IF Bot!OnSimplex(u) THEN Waiting \cup {u} ELSE Waiting)
  BY ArrivalOf DEF BotIInv
<1>2. FormInv'
  BY DEF BotIInv, FormInv
<1>3. StoreInv'
  BY DEF BotIInv, StoreInv
<1>4. UserInv'
  BY DEF BotIInv, UserInv, HurtOwner, Bot!OwnerHasABusiness
<1>5. ReplyInv'
  <2>1. Rest \cup Waiting \cup {u} = Rest' \cup Waiting'
    BY <1>1
  <2>2. \A v \in written' : v \in written \/ (v = u /\ u.kind = "text")
    OBVIOUS
  <2>3. ReplyInv
    BY DEF BotIInv
  <2>4. QED
    BY <2>1, <2>2, <2>3 DEF ReplyInv
<1>6. Bot!HalfStoredNeedsMishap'
  BY DEF BotIInv, Bot!HalfStoredNeedsMishap
<1>7. ASSUME NEW d \in DOMAIN drafts
      PROVE  AskInv(d)' /\ TapInv(d)' /\ (d \in crossed' \/ SingleInv(d)') /\ OnceInv(d)'
  <2>1. AskInv(d) /\ TapInv(d) /\ (d \in crossed \/ SingleInv(d)) /\ OnceInv(d)
    BY DEF BotIInv, DraftInv
  <2>2. /\ Bot!Status(d)' = Bot!Status(d) /\ Bot!HurtTap(d)' = Bot!HurtTap(d) /\ Bot!Hurt(drafts[d].of)' = Bot!Hurt(drafts[d].of)
        /\ Bot!OnDraft(d)' = Bot!OnDraft(d) /\ Asking(d)' = Asking(d) /\ crossed \subseteq crossed'
    BY DEF Bot!Status, Bot!HurtTap, Bot!Hurt, Bot!OnDraft, Asking
  <2>3. TapsOn(d)' = IF Bot!Tap(u) /\ u.draft = d THEN TapsOn(d) \cup {u} ELSE TapsOn(d)
    BY <1>1 DEF TapsOn, Bot!OnSimplex, Bot!Tap
  <2>4. OnceInv(d)'
    <3>1. drafts[d].of \in Int /\ Used \in Int
      <4>1. drafts[d].of \in Bot!Id
        BY DraftsTyped
      <4>2. budget \in [updates : 0..MaxUpdates, faults : 0..BotFaults] /\ MaxUpdates \in Nat
        BY ConstantTypes DEF BotIInv, LineInv
      <4>3. QED
        BY <4>1, <4>2 DEF Bot!Id, Used
    <3>2. drafts[d].of <= Used' /\ u.id # drafts[d].of
      BY <1>1, <2>1, <3>1 DEF OnceInv
    <3>3. \A v \in Rest' \cup Waiting' : v = u \/ v \in Rest \cup Waiting
      BY <1>1
    <3>4. QED
      BY <2>1, <3>2, <3>3 DEF OnceInv
  <2>5. CASE ~(Bot!Tap(u) /\ u.draft = d)
    <3>1. TapsOn(d)' = TapsOn(d)
      BY <2>3, <2>5
    <3>2. AskInv(d)' /\ TapInv(d)'
      BY <2>1, <2>2, <3>1 DEF AskInv, TapInv
    <3>3. SingleInv(d) => SingleInv(d)'
      BY <2>1, <2>2, <3>1 DEF SingleInv
    <3>4. QED
      BY <2>1, <2>2, <2>4, <3>2, <3>3
  <2>6. CASE Bot!Tap(u) /\ u.draft = d
    <3>1. d \in buttons /\ (d \in crossed' \/ Bot!Unsettled(d) = {}) /\ Asking(d) = {}
      BY <2>1, <2>6 DEF AskInv
    <3>2. AskInv(d)' /\ TapInv(d)'
      BY <2>1, <2>2, <3>1 DEF AskInv, TapInv
    <3>3. ASSUME d \notin crossed' PROVE SingleInv(d)'
      <4>1. TapsOn(d) = {} /\ Bot!OnDraft(d) = {} /\ SingleInv(d)
        <5>1. Bot!Unsettled(d) = {} /\ SingleInv(d)
          BY <2>1, <2>2, <3>1, <3>3
        <5>2. TapsOn(d) = {}
          BY <5>1 DEF Bot!Unsettled, TapsOn, Held, Bot!Range, Range
        <5>3. Bot!OnDraft(d) = {}
          BY <5>1 DEF Bot!Unsettled
        <5>4. QED
          BY <5>1, <5>2, <5>3
      <4>2. ~(answers[d] > 0 /\ ~Bot!HurtTap(d))
        BY <3>1, <4>1 DEF SingleInv
      <4>3. TapsOn(d)' = {u}
        BY <2>3, <2>6, <4>1
      <4>4. QED
        BY <2>2, <4>1, <4>2, <4>3 DEF SingleInv
    <3>4. QED
      BY <2>4, <3>2, <3>3
  <2>7. QED
    BY <2>5, <2>6
<1>8. DraftInv'
  BY <1>7 DEF DraftInv
<1>9. QED
  BY <1>1, <1>2, <1>3, <1>4, <1>5, <1>6, <1>8 DEF BotIInv

LEMMA NextIdOf ==
  ASSUME BotBounds, BotIInv, Bot!WithinBounds
  PROVE  Bot!NextId \in Bot!Id /\ \A kind \in Bot!Kind, p \in Bot!Person, role \in Bot!Role, d \in Nat :
           LET u == Bot!NewUpdate(kind, p, role, d) IN
           u \in Bot!Update /\ u.id = Bot!NextId /\ u.kind = kind /\ u.who = p /\ u.role = role /\ u.draft = d
<1>1. budget.updates \in 0..MaxUpdates /\ budget.updates > 0 /\ MaxUpdates \in Nat
  BY ConstantTypes DEF BotIInv, LineInv, Bot!WithinBounds, Bot!Spend
<1>2. Bot!NextId \in Bot!Id
  BY <1>1 DEF Bot!NextId, Bot!Id
<1>3. QED
  BY <1>2 DEF Bot!NewUpdate, Bot!Update

LEMMA PeopleKeeps == ASSUME BotBounds, BotIInv, Bot!People PROVE BotIInv'
<1>1. Owner \in Bot!Person /\ Client \in Bot!Person /\ Contact \in Bot!Person /\ Owner # Contact /\ Client # Contact
      /\ Claims \subseteq Bot!Person \X {"client", "employee"}
  BY ConstantTypes
<1>2. ASSUME NEW p \in Bot!Person, Bot!Writes(p) PROVE BotIInv'
  <2> DEFINE u == Bot!NewUpdate("text", p, "none", 0)
  <2>1. /\ Bot!WithinBounds /\ written' = written \cup {u}
        /\ IF p = Contact THEN proxy' = Append(proxy, u) /\ UNCHANGED updates ELSE Bot!Arrives(u)
        /\ UNCHANGED <<backend, user, drafts, document, batch, tasks, process, buttons>>
        /\ UNCHANGED <<replied, answers, reported, hurt, ownerless, raced, stopped, crossed>>
    BY <1>2 DEF Bot!Writes, Bot!storage
  <2>2. u \in Bot!Update /\ u.id = Bot!NextId /\ u.kind = "text" /\ u.who = p /\ u.role = "none" /\ u.draft = 0
    BY <2>1, NextIdOf DEF Bot!Kind, Bot!Role
  <2> HIDE DEF u
  <2>3. ~Bot!Tap(u) /\ (Bot!OnSimplex(u) <=> p = Contact)
    BY <2>2 DEF Bot!Tap, Bot!OnSimplex
  <2>4. IF Bot!OnSimplex(u) THEN proxy' = Append(proxy, u) /\ UNCHANGED updates ELSE Bot!Arrives(u)
    BY <2>1, <2>3
  <2>5. IF Bot!Tap(u) THEN u.draft \in DOMAIN drafts ELSE u.draft = 0
    BY <2>2, <2>3
  <2>6. u.role # "owner"
    BY <2>2
  <2>7. QED
    BY <2>1, <2>2, <2>3, <2>4, <2>5, <2>6, ArrivalKeeps
<1>3. ASSUME Bot!Commands PROVE BotIInv'
  <2>1. /\ Bot!WithinBounds
        /\ UNCHANGED <<backend, user, drafts, document, batch, tasks, process, buttons>>
        /\ UNCHANGED <<written, replied, answers, reported, hurt, ownerless, raced, stopped, crossed>>
    BY <1>3 DEF Bot!Commands, Bot!storage, Bot!past
  <2>2. ASSUME NEW kind \in {"start", "claim", "document"}, NEW p \in Bot!Person,
               NEW role \in {"none", "client", "employee"}, Bot!Arrives(Bot!NewUpdate(kind, p, role, 0))
        PROVE  BotIInv'
    <3> DEFINE u == Bot!NewUpdate(kind, p, role, 0)
    <3>1. u \in Bot!Update /\ u.id = Bot!NextId /\ u.kind = kind /\ u.who = p /\ u.role = role /\ u.draft = 0
      BY <2>1, NextIdOf DEF Bot!Kind, Bot!Role
    <3>2. Bot!Arrives(u)
      BY <2>2
    <3> HIDE DEF u
    <3>3. ~Bot!Tap(u) /\ ~Bot!OnSimplex(u) /\ u.role # "owner"
      BY <3>1 DEF Bot!Tap, Bot!OnSimplex
    <3>4. QED
      BY <2>1, <3>1, <3>2, <3>3, ArrivalKeeps
  <2>3. CASE \E p \in {Owner, Client} : Bot!Arrives(Bot!NewUpdate("start", p, "none", 0))
    BY <1>1, <2>2, <2>3
  <2>4. CASE \E c \in Claims : Bot!Arrives(Bot!NewUpdate("claim", c[1], c[2], 0))
    BY <1>1, <2>2, <2>4
  <2>5. CASE Bot!Arrives(Bot!NewUpdate("document", Owner, "none", 0))
    BY <1>1, <2>2, <2>5
  <2>6. QED
    BY <1>3, <2>3, <2>4, <2>5 DEF Bot!Commands
<1>4. ASSUME NEW d \in buttons, NEW kind \in {"approve", "reject"}, Bot!Taps(d, kind) PROVE BotIInv'
  <2> DEFINE u == Bot!NewUpdate(kind, Owner, "none", d)
  <2>1. /\ Bot!WithinBounds /\ Bot!Arrives(u)
        /\ crossed' = IF Bot!Unsettled(d) = {} THEN crossed ELSE crossed \cup {d}
        /\ UNCHANGED <<backend, user, drafts, document, batch, tasks, process, buttons>>
        /\ UNCHANGED <<written, replied, answers, reported, hurt, ownerless, raced, stopped>>
    BY <1>4 DEF Bot!Taps, Bot!storage
  <2>2. d \in DOMAIN drafts /\ d \in Nat
    BY DraftsTyped DEF BotIInv, StoreInv
  <2>3. u \in Bot!Update /\ u.id = Bot!NextId /\ u.kind = kind /\ u.who = Owner /\ u.role = "none" /\ u.draft = d
    BY <1>1, <2>1, <2>2, NextIdOf DEF Bot!Kind, Bot!Role
  <2> HIDE DEF u
  <2>4. Bot!Tap(u) /\ ~Bot!OnSimplex(u)
    BY <2>3 DEF Bot!Tap, Bot!OnSimplex
  <2>5. QED
    BY <2>1, <2>2, <2>3, <2>4, ArrivalKeeps
<1>5. QED
  BY <1>2, <1>3, <1>4 DEF Bot!People

-----------------------------------------------------------------------------
(* The invariant holds                                                     *)

LEMMA BotInit == ASSUME BotBounds PROVE Bot!Init => BotIInv
<1>1. SUFFICES ASSUME Bot!Init PROVE BotIInv
  OBVIOUS
<1>2. /\ updates = <<>> /\ batch = 0 /\ proxy = <<>> /\ tasks = {} /\ buttons = {} /\ process = "up"
      /\ drafts = <<>> /\ answers = <<>> /\ document = "none" /\ backend \in {"sqlite", "supabase"}
      /\ written = {} /\ replied = {} /\ reported = {} /\ hurt = {}
      /\ ownerless = {} /\ raced = {} /\ crossed = {} /\ stopped = {}
      /\ budget = [updates |-> MaxUpdates, faults |-> BotFaults]
  BY <1>1 DEF Bot!Init
<1>3. Held = {} /\ Waiting = {} /\ Rest = {} /\ Len(updates) = 0
  <2>1. \A S : <<>> \in Seq(S) /\ Len(<<>>) = 0
    BY EmptySeq
  <2>2. Range(<<>>) = {}
    BY DEF Range
  <2>3. Held = {} /\ Waiting = {}
    BY <1>2, <2>2 DEF Held, Waiting
  <2>4. Rest = {}
    BY <1>2, <2>1 DEF Rest
  <2>5. QED
    BY <1>2, <2>1, <2>3, <2>4
<1>4. LineInv
  <2>1. updates \in Seq(Bot!Update) /\ proxy \in Seq(Bot!Update)
    BY <1>2, EmptySeq
  <2>2. budget \in [updates : 0..MaxUpdates, faults : 0..BotFaults]
    BY <1>2, ConstantTypes
  <2>3. QED
    BY <1>2, <1>3, <2>1, <2>2 DEF LineInv
<1>5. user \in [Bot!Person -> Bot!Row] /\ ((\A p \in Bot!Person : user[p] = Bot!NoRow) \/ user[Owner] = [role |-> "owner", business |-> TRUE])
  <2>1. CASE user = [p \in Bot!Person |-> Bot!NoRow]
    BY <2>1, RowsOf
  <2>2. CASE user = [p \in Bot!Person |-> [role |-> IF p = Owner THEN "owner" ELSE "client", business |-> TRUE]]
    BY <2>2, ConstantTypes DEF Bot!Row, Bot!Role
  <2>3. QED
    BY <1>1, <2>1, <2>2 DEF Bot!Init
<1>6. DOMAIN drafts = {} /\ DOMAIN answers = {}
  BY <1>2
<1>7. FormInv /\ DraftInv /\ ReplyInv /\ Bot!HalfStoredNeedsMishap
  BY <1>2, <1>6 DEF FormInv, DraftInv, ReplyInv, Bot!HalfStoredNeedsMishap
<1>8. StoreInv
  <2>1. drafts \in Seq([of : Bot!Id, client : Bot!Person, status : {"pending", "approved", "rejected", "sent"}]) /\ answers \in Seq(Nat)
    BY <1>2, EmptySeq
  <2>2. QED
    BY <1>2, <1>5, <1>6, <2>1 DEF StoreInv
<1>9. UserInv
  <2>1. Bot!OwnerHasABusiness
    BY <1>5, ConstantTypes DEF Bot!OwnerHasABusiness, Bot!NoRow
  <2>2. (\E p \in Bot!Person : user[p].business) => user[Owner].business
    BY <1>5, RowsOf
  <2>3. QED
    BY <1>2, <1>6, <2>1, <2>2 DEF UserInv
<1>10. QED
  BY <1>4, <1>7, <1>8, <1>9 DEF BotIInv

LEMMA BotNext == ASSUME BotBounds PROVE BotIInv /\ [Bot!Next]_(Bot!vars) => BotIInv'
<1>1. SUFFICES ASSUME BotIInv, [Bot!Next]_(Bot!vars) PROVE BotIInv'
  OBVIOUS
<1>2. CASE UNCHANGED Bot!vars
  <2>1. /\ UNCHANGED <<backend, user, drafts, document, updates, batch, proxy, buttons, tasks, budget, process>>
        /\ UNCHANGED <<written, replied, answers, reported, hurt, ownerless, raced, crossed, stopped>>
    BY <1>2 DEF Bot!vars, Bot!storage, Bot!world, Bot!past
  <2>2. Taken' = Taken /\ Rest' = Rest /\ Held' = Held /\ Waiting' = Waiting /\ Used' = Used
    BY <2>1, SameParts DEF Used
  <2>3. LineInv'
    BY <1>1, <2>1, <2>2 DEF BotIInv, LineInv, UpdateOK
  <2>4. FormInv' /\ StoreInv'
    BY <1>1, <2>1 DEF BotIInv, FormInv, StoreInv
  <2>5. UserInv'
    BY <1>1, <2>1 DEF BotIInv, UserInv, HurtOwner, Bot!OwnerHasABusiness
  <2>6. DraftInv'
    <3>1. \A d : /\ Bot!Status(d)' = Bot!Status(d) /\ TapsOn(d)' = TapsOn(d) /\ Bot!OnDraft(d)' = Bot!OnDraft(d)
                 /\ Asking(d)' = Asking(d) /\ Bot!HurtTap(d)' = Bot!HurtTap(d) /\ Bot!Hurt(d)' = Bot!Hurt(d)
      BY <2>1, <2>2 DEF Bot!Status, TapsOn, Bot!OnDraft, Asking, Bot!HurtTap, Bot!Hurt
    <3>2. QED
      BY <1>1, <2>1, <2>2, <3>1 DEF BotIInv, DraftInv, AskInv, TapInv, SingleInv, OnceInv
  <2>7. ReplyInv' /\ Bot!HalfStoredNeedsMishap'
    BY <1>1, <2>1, <2>2 DEF BotIInv, ReplyInv, Bot!HalfStoredNeedsMishap
  <2>8. QED
    BY <2>3, <2>4, <2>5, <2>6, <2>7 DEF BotIInv
<1>3. CASE Bot!Next
  <2>1. CASE \E t \in tasks : Bot!Handles(t) \/ Bot!Fails(t)
    BY <1>1, <2>1, HandlerKeeps
  <2>2. CASE Bot!NextBatch
    BY <1>1, <2>2, NextBatchKeeps
  <2>3. CASE Bot!Poll
    BY <1>1, <2>3, PollKeeps
  <2>4. CASE Bot!ExitsOnError \/ Bot!Shutdown \/ Bot!Starts
    BY <1>1, <2>4, ProcessKeeps
  <2>5. CASE Bot!People
    BY <1>1, <2>5, PeopleKeeps
  <2>6. QED
    BY <1>3, <2>1, <2>2, <2>3, <2>4, <2>5 DEF Bot!Next
<1>4. QED
  BY <1>1, <1>2, <1>3

LEMMA IInvGives == ASSUME BotBounds PROVE BotIInv => Bot!AssistantInv /\ Bot!AnsweredOnce /\ Bot!RejectedIsUnsent
<1>1. SUFFICES ASSUME BotIInv PROVE Bot!AssistantInv /\ Bot!AnsweredOnce /\ Bot!RejectedIsUnsent
  OBVIOUS
<1>2. Bot!TypeOK
  BY <1>1 DEF BotIInv, LineInv, FormInv, Formed, StoreInv, Bot!TypeOK
<1>3. ASSUME NEW d \in DOMAIN drafts
      PROVE  AskInv(d) /\ TapInv(d) /\ (d \in crossed \/ SingleInv(d)) /\ OnceInv(d)
  BY <1>1 DEF BotIInv, DraftInv
<1>4. Bot!StuckNeedsMishap
  <2>1. \A d \in DOMAIN drafts : Bot!Unsettled(d) = {} => Bot!OnDraft(d) = {}
    BY DEF Bot!Unsettled
  <2>2. QED
    BY <1>3, <2>1 DEF Bot!StuckNeedsMishap, TapInv
<1>5. Bot!UnaskedNeedsCause
  BY <1>3 DEF Bot!UnaskedNeedsCause, AskInv, Asking
<1>6. Bot!OwnerlessNeedsCause /\ Bot!OwnerHasABusiness
  BY <1>1 DEF BotIInv, UserInv, Bot!OwnerlessNeedsCause, HurtOwner
<1>7. Bot!OneDraftPerMessage
  BY <1>3 DEF Bot!OneDraftPerMessage, OnceInv
<1>8. Bot!SilenceNeedsCause
  <2>1. Rest \subseteq Range(updates) /\ Waiting = Range(proxy)
    BY <1>1, HeldOf DEF BotIInv, LineInv, Held, Waiting
  <2>2. QED
    BY <1>1, <2>1 DEF BotIInv, ReplyInv, Bot!SilenceNeedsCause, Bot!Range, Range
<1>9. Bot!AssistantInv
  BY <1>1, <1>2, <1>4, <1>5, <1>6, <1>7, <1>8 DEF BotIInv, Bot!AssistantInv
<1>10. Bot!AnsweredOnce /\ Bot!RejectedIsUnsent
  <2>1. \A d \in DOMAIN drafts : answers[d] \in Nat
    BY <1>1, DraftsTyped
  <2>2. QED
    BY <1>3, <2>1 DEF Bot!AnsweredOnce, Bot!RejectedIsUnsent, SingleInv
<1>11. QED
  BY <1>9, <1>10

LEMMA BotAlways == ASSUME BotBounds PROVE Bot!Spec => []BotIInv
BY BotInit, BotNext, PTL DEF Bot!Spec

\* Nothing the assistant began is left half done without a cause the code names: a failed
\* call, an end of the process, a contact whose user was created twice, an owner who
\* claimed herself.  This for any number of messages, commands and taps, however many of
\* them are handled at once.
THEOREM NothingIsHalfDone == ASSUME BotBounds PROVE Bot!Spec => []Bot!AssistantInv
BY BotAlways, IInvGives, PTL

\* A client gets the answer to a draft once, unless the owner taps on the draft while
\* another tap on it is unsettled, though Telegram repeats updates after a crash and the
\* check of the status and the mark are two calls.
THEOREM AnswersGoOutOnce == ASSUME BotBounds PROVE Bot!Spec => []Bot!AnsweredOnce
BY BotAlways, IInvGives, PTL

\* What the owner rejects has not gone to the client, although markRejected reads no status:
\* a tap overlapped another, or the handling of one on that draft failed.
THEOREM RejectionStands == ASSUME BotBounds PROVE Bot!Spec => []Bot!RejectedIsUnsent
BY BotAlways, IInvGives, PTL

=============================================================================
