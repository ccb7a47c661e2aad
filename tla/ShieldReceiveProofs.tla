------------------------- MODULE ShieldReceiveProofs -------------------------
(***************************************************************************)
(* Proofs about ShieldReceive, for any number of ciphertexts, reloads and  *)
(* failed transactions: nothing is decrypted twice, nothing is handed over *)
(* with a hole before it, and the buffer forgets nothing unless two        *)
(* retries overlap.                                                        *)
(*                                                                         *)
(* The argument: position 0 is decrypted by its own call or never, and     *)
(* only the session object that decrypted it gets any further, however     *)
(* many were created; so what was decrypted are the positions that one     *)
(* object has passed.                                                      *)
(***************************************************************************)
EXTENDS ShieldReceive, SequenceTheorems, TLAPS

-----------------------------------------------------------------------------
(* The inductive invariant                                                 *)

\* Before the session object of call m exists.
Unmade == {"idle", "loading", "restoring", "fetchKey"}

\* Before call m has tried its ciphertext.
Untried == Unmade \cup {"creating"}

\* An array is named by a call that ended.
Named == {"buffered", "shown"}

\* Position k was decrypted, and its plaintext is handed over or about to be.
IsCurrent(k) == \E r \in Msg : Retrying(r) /\ Current(r) = k
Decrypted(k) == k \in shown \cup ToSet(recovered) \/ pc[k] \in {"saving", "retrySave"} \/ IsCurrent(k)

\* ... or was, and is lost.
Taken(k) == k \in dropped \/ pc[k] = "lost" \/ Decrypted(k)

\* Where the sessions, the buffer and the retries point.
RefInv ==
  /\ entry # None => pc[entry] \notin Unmade
  /\ \A m \in Msg : held[m] # None => pc[held[m]] \notin Unmade
  /\ \A m \in Msg : pc[m] \in {"creating", "retrySave"} => held[m] # None
  /\ entry = None => \A m \in Msg : pc[m] \notin {"creating", "saving", "retrySave"}
  /\ pend # None => pc[pend] \in Named
  /\ \A r \in Msg : Retrying(r) => /\ list[r] # None /\ pc[list[r]] \in Named
                                   /\ idx[r] - 1 \in 1..Len(arr[list[r]])

\* What was decrypted and what waits in the arrays are apart.
PlaceInv ==
  /\ \A m \in Msg : m \in shown <=> pc[m] = "shown"
  /\ \A a \in Msg : \A k \in ToSet(arr[a]) : k # 0 /\ pc[k] = "buffered"
  /\ \A k \in ToSet(recovered) : pc[k] \in {"buffered", "lost"}
  /\ \A r \in Msg : Retrying(r) => Current(r) \notin ToSet(recovered)
  /\ \A r, o \in Msg : Retrying(r) /\ Retrying(o) /\ Current(r) = Current(o) => r = o
  /\ IsInjective(recovered)

\* One session object is ahead of position 0, the one that decrypted it, and what was
\* decrypted are the positions up to where it is; or a reload came between, and nothing
\* is decrypted any more.
Ended == pc[0] \in {"shown", "lost"} /\ \A s \in Msg : expected[s] = 0

FrontInv ==
  /\ \A m \in Msg : pc[m] \in Unmade => expected[m] = 0
  /\ \A s, t \in Msg : expected[s] > 0 /\ expected[t] > 0 => s = t
  /\ \A s \in Msg : expected[s] > 0 => pc[0] \notin Untried
  /\ \A s, k \in Msg : k < expected[s] => Taken(k)
  /\ \A m, k \in Msg : Decrypted(m) /\ k < m => Taken(k)
  /\ \A m \in Msg : Decrypted(m) => Ended \/ \E s \in Msg : m < expected[s]

IInv == TypeOK /\ RefInv /\ PlaceInv /\ FrontInv

\* While no two retries overlap: the one retry there is goes over the array in the map,
\* and what it has passed is in remaining or was recovered; so what call m buffered is
\* still in the array in the map.
BufferKept ==
  /\ \A r, o \in Msg : Retrying(r) /\ Retrying(o) => r = o
  /\ \A r \in Msg : Retrying(r) =>
       /\ pend = list[r]
       /\ \A j \in 1..(idx[r] - 2) : arr[list[r]][j] \in ToSet(arr[r]) \cup ToSet(recovered)
  /\ BufferedUntilDecrypted

BufferInv == overlapped \/ BufferKept

-----------------------------------------------------------------------------
(* Types and sequences                                                     *)

LEMMA ConstantTypes ==
  /\ N \in Nat /\ MaxReloads \in Nat /\ MaxFaults \in Nat
  /\ Msg \subseteq Nat /\ None \notin Msg
  /\ \A m \in Msg : m + 1 \in 0..N /\ m \in 0..N /\ 0 \in Msg
  /\ \A m \in Msg : \A k \in 0..(m - 1) : k \in Msg /\ k < m
BY ReceiveAssumption DEF Msg

LEMMA Names ==
  /\ States = Untried \cup {"saving", "retrySave", "shown", "buffered", "failed", "lost"}
  /\ Named \subseteq States
BY DEF States, Terminal, Untried, Unmade, Named

\* Append adds one element and moves none.
LEMMA Pushed ==
  ASSUME NEW S, NEW q \in Seq(S), NEW x \in S
  PROVE  /\ Append(q, x) \in Seq(S) /\ Len(Append(q, x)) = Len(q) + 1
         /\ \A j \in 1..Len(q) : Append(q, x)[j] = q[j]
         /\ Append(q, x)[Len(q) + 1] = x
         /\ ToSet(Append(q, x)) = ToSet(q) \cup {x}
<1>1. /\ Append(q, x) \in Seq(S) /\ Len(Append(q, x)) = Len(q) + 1 /\ Len(q) \in Nat
      /\ \A j \in 1..Len(q) : Append(q, x)[j] = q[j]
      /\ Append(q, x)[Len(q) + 1] = x
  OBVIOUS
<1>2. DOMAIN Append(q, x) = 1..(Len(q) + 1) /\ DOMAIN q = 1..Len(q)
  OBVIOUS
<1>3. 1..(Len(q) + 1) = 1..Len(q) \cup {Len(q) + 1}
  BY <1>1
<1>4. QED
  BY <1>1, <1>2, <1>3 DEF ToSet

\* What is moved from one array to the end of another.
Between(t, i, j) == {t[n] : n \in i..j}

LEMMA Moved ==
  ASSUME NEW S, NEW q \in Seq(S), NEW t \in Seq(S), NEW i \in Nat, i >= 1, NEW j \in Nat, j <= Len(t), i <= j + 1
  PROVE  /\ q \o SubSeq(t, i, j) \in Seq(S)
         /\ ToSet(q \o SubSeq(t, i, j)) = ToSet(q) \cup Between(t, i, j)
<1> DEFINE u == SubSeq(t, i, j)
<1>1. u \in Seq(S) /\ Len(u) = j - i + 1 /\ \A n \in 1..(j - i + 1) : u[n] = t[i + n - 1]
  <2>1. \A n \in i..j : t[n] \in S
    OBVIOUS
  <2>2. QED
    BY <2>1
<1>2. DOMAIN u = 1..(j - i + 1)
  BY <1>1
<1>3. ToSet(u) = {t[n] : n \in i..j}
  <2>1. ASSUME NEW x \in ToSet(u) PROVE x \in {t[n] : n \in i..j}
    <3>1. PICK n \in 1..(j - i + 1) : x = u[n]
      BY <1>2 DEF ToSet
    <3>2. x = t[i + n - 1] /\ i + n - 1 \in i..j
      BY <1>1, <3>1
    <3>3. QED
      BY <3>2
  <2>2. ASSUME NEW n \in i..j PROVE t[n] \in ToSet(u)
    <3>1. n - i + 1 \in 1..(j - i + 1) /\ i + (n - i + 1) - 1 = n
      OBVIOUS
    <3>2. u[n - i + 1] = t[n]
      BY <1>1, <3>1
    <3>3. QED
      BY <1>2, <3>1, <3>2 DEF ToSet
  <2>3. QED
    BY <2>1, <2>2
<1> HIDE DEF u
<1>4. q \o u \in Seq(S) /\ Len(q \o u) = Len(q) + Len(u)
      /\ \A n \in 1..(Len(q) + Len(u)) : (q \o u)[n] = IF n <= Len(q) THEN q[n] ELSE u[n - Len(q)]
  BY <1>1, ConcatProperties, ZenonT(60)
<1>5. ToSet(q \o u) = ToSet(q) \cup ToSet(u)
  <2>1. DOMAIN (q \o u) = 1..(Len(q) + Len(u)) /\ DOMAIN q = 1..Len(q) /\ DOMAIN u = 1..Len(u)
        /\ Len(q) \in Nat /\ Len(u) \in Nat
    BY <1>1, <1>4
  <2>2. ASSUME NEW x \in ToSet(q \o u) PROVE x \in ToSet(q) \cup ToSet(u)
    <3>1. PICK n \in 1..(Len(q) + Len(u)) : x = (q \o u)[n]
      BY <2>1 DEF ToSet
    <3>2. CASE n <= Len(q)
      BY <1>4, <2>1, <3>1, <3>2 DEF ToSet
    <3>3. CASE n > Len(q)
      <4>1. x = u[n - Len(q)] /\ n - Len(q) \in 1..Len(u)
        BY <1>4, <2>1, <3>1, <3>3
      <4>2. QED
        BY <2>1, <4>1 DEF ToSet
    <3>4. QED
      BY <2>1, <3>2, <3>3
  <2>3. ASSUME NEW n \in 1..Len(q) PROVE q[n] \in ToSet(q \o u)
    <3>1. q[n] = (q \o u)[n] /\ n \in 1..(Len(q) + Len(u))
      BY <1>4, <2>1
    <3>2. QED
      BY <2>1, <3>1 DEF ToSet
  <2>4. ASSUME NEW n \in 1..Len(u) PROVE u[n] \in ToSet(q \o u)
    <3>1. n + Len(q) \in 1..(Len(q) + Len(u)) /\ (n + Len(q)) - Len(q) = n /\ ~(n + Len(q) <= Len(q))
      BY <2>1
    <3>2. u[n] = (q \o u)[n + Len(q)]
      BY <1>4, <3>1
    <3>3. QED
      BY <2>1, <3>1, <3>2 DEF ToSet
  <2>5. QED
    BY <2>1, <2>2, <2>3, <2>4 DEF ToSet
<1>6. QED
  BY <1>3, <1>4, <1>5 DEF u, Between

-----------------------------------------------------------------------------
(* The front                                                               *)

LEMMA Types ==
  ASSUME TypeOK
  PROVE  /\ entry \in Msg \cup {None} /\ expected \in [Msg -> 0..N] /\ pend \in Msg \cup {None}
         /\ arr \in [Msg -> Seq(Msg)] /\ pc \in [Msg -> States] /\ held \in [Msg -> Msg \cup {None}]
         /\ list \in [Msg -> Msg \cup {None}] /\ idx \in [Msg -> Nat] /\ recovered \in Seq(Msg)
         /\ shown \subseteq Msg /\ dropped \subseteq Msg
         /\ \A s \in Msg : expected[s] \in Nat
<1>1. expected \in [Msg -> 0..N]
  BY DEF TypeOK
<1>2. \A s \in Msg : expected[s] \in Nat
  BY <1>1, ConstantTypes
<1>3. QED
  BY <1>2, Zenon DEF TypeOK

\* Nothing more is decrypted.
LEMMA FrontStays ==
  ASSUME TypeOK, FrontInv, expected' = expected,
         \A k \in Msg : (Taken(k) => Taken(k)') /\ (Decrypted(k)' => Decrypted(k)),
         \A m \in Msg : pc'[m] \in Unmade => pc[m] \in Unmade,
         0 \in Msg => /\ pc'[0] \in Untried => pc[0] \in Untried
                      /\ pc[0] \in {"shown", "lost"} => pc'[0] \in {"shown", "lost"}
  PROVE  FrontInv'
<1>1. \A m \in Msg : 0 \in Msg
  BY ConstantTypes
<1>2. /\ \A m \in Msg : pc'[m] \in Unmade => expected'[m] = 0
      /\ \A s, t \in Msg : expected'[s] > 0 /\ expected'[t] > 0 => s = t
      /\ \A s \in Msg : expected'[s] > 0 => pc'[0] \notin Untried
  BY <1>1 DEF FrontInv
<1>3. \A s, k \in Msg : k < expected'[s] => Taken(k)'
  BY DEF FrontInv
<1>4. \A m, k \in Msg : Decrypted(m)' /\ k < m => Taken(k)'
  BY DEF FrontInv
<1>5. \A m \in Msg : Decrypted(m)' => Ended' \/ \E s \in Msg : m < expected'[s]
  BY <1>1 DEF FrontInv, Ended
<1>6. QED
  BY <1>2, <1>3, <1>4, <1>5 DEF FrontInv

\* Session s decrypts position x, the next one it accepts.
LEMMA FrontMoves ==
  ASSUME TypeOK, FrontInv, NEW s \in Msg, NEW x \in Msg, x = expected[s],
         expected' = [expected EXCEPT ![s] = x + 1], pc'[s] \notin Unmade,
         \A k \in Msg : Taken(k) => Taken(k)', Taken(x)',
         \A k \in Msg : Decrypted(k)' => Decrypted(k) \/ k = x,
         \A m \in Msg : pc'[m] \in Unmade => pc[m] \in Unmade,
         pc'[0] \in Untried => pc[0] \in Untried,
         x = 0 => pc[0] \in Untried /\ pc'[0] \notin Untried
  PROVE  FrontInv'
<1>1. /\ expected'[s] = x + 1 /\ \A t \in Msg : t # s => expected'[t] = expected[t]
      /\ \A t \in Msg : expected[t] \in Nat /\ expected[t] <= expected'[t]
      /\ x \in Nat /\ Msg \subseteq Nat /\ 0 \in Msg
  BY Types, ConstantTypes, SMTT(60)
<1>2. \A t \in Msg : t # s => expected[t] = 0
  BY <1>1 DEF FrontInv
<1>3. /\ \A m \in Msg : pc'[m] \in Unmade => expected'[m] = 0
      /\ \A t, u \in Msg : expected'[t] > 0 /\ expected'[u] > 0 => t = u
  BY <1>1, <1>2
<1>4. pc'[0] \notin Untried
  BY <1>1 DEF FrontInv
<1>5. \A t, k \in Msg : k < expected'[t] => Taken(k)'
  <2>1. ASSUME NEW k \in Msg, k < x + 1
        PROVE  Taken(k)'
    <3>1. k = x \/ k < expected[s]
      BY <1>1, <2>1
    <3>2. QED
      BY <3>1 DEF FrontInv
  <2>2. ASSUME NEW t \in Msg, NEW k \in Msg, k < expected'[t]
        PROVE  t = s
    BY <1>1, <1>2, <2>2
  <2>3. QED
    BY <1>1, <2>1, <2>2
<1>6. \A m, k \in Msg : Decrypted(m)' /\ k < m => Taken(k)'
  <2>1. ASSUME NEW m \in Msg, NEW k \in Msg, Decrypted(m)', k < m
        PROVE  Taken(k)'
    <3>1. CASE Decrypted(m)
      BY <2>1, <3>1 DEF FrontInv
    <3>2. CASE m = x
      BY <2>1, <3>2 DEF FrontInv
    <3>3. QED
      BY <2>1, <3>1, <3>2
  <2>2. QED
    BY <2>1
<1>7. \A m \in Msg : Decrypted(m)' => \E t \in Msg : m < expected'[t]
  <2>1. ASSUME NEW m \in Msg, Decrypted(m)'
        PROVE  \E t \in Msg : m < expected'[t]
    <3>1. CASE m = x
      BY <1>1, <3>1
    <3>2. CASE Decrypted(m)
      <4>1. ~Ended
        BY <1>1 DEF Ended, Untried, Unmade
      <4>2. PICK t \in Msg : m < expected[t]
        BY <3>2, <4>1 DEF FrontInv
      <4>3. m < expected'[t]
        BY <1>1, <4>2
      <4>4. QED
        BY <4>3
    <3>3. QED
      BY <2>1, <3>1, <3>2
  <2>2. QED
    BY <2>1
<1>8. QED
  BY <1>3, <1>4, <1>5, <1>6, <1>7 DEF FrontInv

\* The next position of a session that is ahead was not decrypted yet.
LEMMA NextIsNew ==
  ASSUME TypeOK, FrontInv, NEW s \in Msg, NEW x \in Msg, x = expected[s], x # 0
  PROVE  ~Decrypted(x)
<1>1. expected[s] > 0 /\ \A t \in Msg : expected[t] \in Nat
  BY Types
<1>2. ~Ended
  BY <1>1 DEF Ended
<1>3. \A t \in Msg : ~(x < expected[t])
  BY <1>1 DEF FrontInv
<1>4. QED
  BY <1>2, <1>3 DEF FrontInv
-----------------------------------------------------------------------------
(* A step of one call outside retryPending                                 *)

\* Call m moves on: it may install a session, push its ciphertext, hand its plaintext
\* over, or give up.
OwnStep(m) ==
  /\ pc[m] \notin Terminal /\ pc'[m] # "retrySave"
  /\ \A k \in Msg \ {m} : pc'[k] = pc[k] /\ held'[k] = held[k]
  /\ list' = list /\ idx' = idx /\ recovered' = recovered /\ dropped \subseteq dropped'
  /\ shown' = IF pc'[m] = "shown" THEN shown \cup {m} ELSE shown
  /\ \A a \in Msg : \/ arr'[a] = arr[a]
                    \/ arr'[a] = Append(arr[a], m) /\ m # 0 /\ pc'[m] = "buffered"
  /\ pend' = pend \/ (pend' = m /\ pc'[m] = "buffered")
  /\ entry' = entry \/ entry' = m
  /\ held'[m] \in {held[m], None, m}
  /\ pc'[m] \in Untried => pc[m] \in Untried
  /\ pc'[m] \in Unmade => pc[m] \in Unmade /\ entry' = entry /\ held' = held
  /\ pc'[m] = "creating" => held'[m] = m
  /\ pc'[m] \in {"creating", "saving"} => entry' # None
  /\ pc[m] \in {"saving", "retrySave"} => m \in shown' \cup dropped'
  /\ Retrying(m) => Current(m) \in dropped'
  /\ pc'[m] = "shown" => pc[m] = "saving"

\* What call m does to the buffer: nothing, or it pushes its ciphertext.
Pushes(m) ==
  \/ pc'[m] # "buffered" /\ pend' = pend /\ arr' = arr
  \/ /\ pend' \in Msg /\ pend' = IF pend = None THEN m ELSE pend
     /\ arr'[pend'] = Append(arr[pend'], m) /\ \A a \in Msg \ {pend'} : arr'[a] = arr[a]

\* What other calls are retrying stays in place.
LEMMA RetriesStay ==
  ASSUME TypeOK, RefInv, NEW m \in Msg, OwnStep(m), NEW r \in Msg, Retrying(r)'
  PROVE  /\ r # m /\ Retrying(r) /\ list'[r] = list[r] /\ idx'[r] = idx[r]
         /\ list[r] \in Msg /\ pc[list[r]] \in Named /\ pc'[list[r]] \in Named
         /\ idx[r] - 1 \in 1..Len(arr'[list[r]])
         /\ Current(r)' = Current(r)
<1>1. r # m /\ Retrying(r) /\ list'[r] = list[r] /\ idx'[r] = idx[r]
  BY DEF OwnStep, Retrying
<1>2. list[r] \in Msg /\ pc[list[r]] \in Named /\ idx[r] - 1 \in 1..Len(arr[list[r]])
  BY <1>1, Types DEF RefInv
<1>3. list[r] # m
  BY <1>2 DEF OwnStep, Named, Terminal
<1>4. pc'[list[r]] \in Named
  BY <1>2, <1>3 DEF OwnStep
<1>5. /\ idx[r] - 1 \in 1..Len(arr'[list[r]])
      /\ arr'[list[r]][idx[r] - 1] = arr[list[r]][idx[r] - 1]
  <2>1. CASE arr'[list[r]] = arr[list[r]]
    BY <1>2, <2>1
  <2>2. CASE arr'[list[r]] = Append(arr[list[r]], m)
    <3>1. arr[list[r]] \in Seq(Msg)
      BY <1>2, Types
    <3>2. Len(arr[list[r]]) \in Nat
      BY <3>1
    <3>3. QED
      BY <1>2, <2>2, <3>1, <3>2, Pushed
  <2>3. QED
    BY <1>2, <2>1, <2>2 DEF OwnStep
<1>6. QED
  BY <1>1, <1>2, <1>4, <1>5 DEF Current

LEMMA OwnRef ==
  ASSUME TypeOK, RefInv, NEW m \in Msg, OwnStep(m)
  PROVE  RefInv'
<1>1. \A k \in Msg : pc[k] \notin Unmade => pc'[k] \notin Unmade
  BY DEF OwnStep
<1>2. entry' # None => pc'[entry'] \notin Unmade
  <2>1. CASE entry' = entry
    BY <1>1, <2>1, Types DEF RefInv
  <2>2. CASE entry' = m /\ entry' # entry
    BY <2>2 DEF OwnStep
  <2>3. QED
    BY <2>1, <2>2 DEF OwnStep
<1>3. ASSUME NEW k \in Msg, held'[k] # None
      PROVE  pc'[held'[k]] \notin Unmade
  <2>1. CASE held'[k] = held[k]
    BY <1>1, <1>3, <2>1, Types DEF RefInv
  <2>2. CASE k = m /\ held'[k] = m /\ held'[k] # held[k]
    BY <2>2 DEF OwnStep
  <2>3. QED
    BY <1>3, <2>1, <2>2 DEF OwnStep
<1>4. \A k \in Msg : pc'[k] \in {"creating", "retrySave"} => held'[k] # None
  BY ConstantTypes DEF OwnStep, RefInv
<1>5. entry' = None => \A k \in Msg : pc'[k] \notin {"creating", "saving", "retrySave"}
  BY ConstantTypes DEF OwnStep, RefInv
<1>6. pend' # None => pc'[pend'] \in Named
  <2>1. CASE pend' = pend /\ pend # None
    <3>1. pend \in Msg /\ pc[pend] \in Named
      BY <2>1, Types DEF RefInv
    <3>2. pend # m
      BY <3>1 DEF OwnStep, Named, Terminal
    <3>3. QED
      BY <2>1, <3>1, <3>2 DEF OwnStep
  <2>2. CASE pend' = m /\ pc'[m] = "buffered"
    BY <2>2 DEF Named
  <2>3. QED
    BY <2>1, <2>2 DEF OwnStep
<1>7. ASSUME NEW r \in Msg, Retrying(r)'
      PROVE  list'[r] # None /\ pc'[list'[r]] \in Named /\ idx'[r] - 1 \in 1..Len(arr'[list'[r]])
  BY <1>7, RetriesStay, ConstantTypes
<1>8. QED
  BY <1>2, <1>3, <1>4, <1>5, <1>6, <1>7 DEF RefInv

LEMMA OwnPlace ==
  ASSUME TypeOK, RefInv, PlaceInv, NEW m \in Msg, OwnStep(m)
  PROVE  PlaceInv'
<1>1. \A k \in Msg : k \in shown' <=> pc'[k] = "shown"
  BY DEF OwnStep, PlaceInv, Terminal
<1>2. ASSUME NEW a \in Msg, NEW k \in ToSet(arr'[a])
      PROVE  k # 0 /\ pc'[k] = "buffered"
  <2>1. arr[a] \in Seq(Msg)
    BY Types
  <2>2. \A j \in ToSet(arr[a]) : j \in Msg
    BY <2>1 DEF ToSet
  <2>3. CASE k \in ToSet(arr[a])
    BY <2>2, <2>3 DEF OwnStep, PlaceInv, Terminal
  <2>4. CASE k \notin ToSet(arr[a])
    <3>1. arr'[a] = Append(arr[a], m) /\ m # 0 /\ pc'[m] = "buffered"
      BY <1>2, <2>4 DEF OwnStep
    <3>2. k = m
      BY <1>2, <2>1, <2>4, <3>1, Pushed
    <3>3. QED
      BY <3>1, <3>2
  <2>5. QED
    BY <2>3, <2>4
<1>3. \A k \in ToSet(recovered') : pc'[k] \in {"buffered", "lost"}
  <2>1. \A j \in ToSet(recovered) : j \in Msg
    BY Types DEF ToSet
  <2>2. QED
    BY <2>1 DEF OwnStep, PlaceInv, Terminal
<1>4. ASSUME NEW r \in Msg, Retrying(r)'
      PROVE  Current(r)' \notin ToSet(recovered')
  <2>1. Retrying(r) /\ Current(r)' = Current(r)
    BY <1>4, RetriesStay
  <2>2. recovered' = recovered
    BY DEF OwnStep
  <2>3. QED
    BY <2>1, <2>2 DEF PlaceInv
<1>5. \A r, o \in Msg : Retrying(r)' /\ Retrying(o)' /\ Current(r)' = Current(o)' => r = o
  BY RetriesStay DEF PlaceInv
<1>6. IsInjective(recovered')
  BY DEF OwnStep, PlaceInv
<1>7. QED
  BY <1>1, <1>2, <1>3, <1>4, <1>5, <1>6 DEF PlaceInv

\* A call that moves on takes nothing back; it decrypts at most its own ciphertext.
LEMMA OwnTaken ==
  ASSUME TypeOK, RefInv, NEW m \in Msg, OwnStep(m)
  PROVE  /\ \A k \in Msg : Taken(k) => Taken(k)'
         /\ \A k \in Msg : Decrypted(k)' => Decrypted(k) \/ (k = m /\ pc'[m] = "saving")
<1>1. ASSUME NEW k \in Msg, IsCurrent(k)
      PROVE  IsCurrent(k)' \/ k \in dropped'
  <2>1. PICK r \in Msg : Retrying(r) /\ Current(r) = k
    BY <1>1 DEF IsCurrent
  <2>2. CASE r = m
    BY <2>1, <2>2 DEF OwnStep
  <2>3. CASE r # m
    <3>1. Retrying(r)'
      BY <2>1, <2>3 DEF OwnStep, Retrying
    <3>2. QED
      BY <2>1, <3>1, RetriesStay DEF IsCurrent
  <2>4. QED
    BY <2>2, <2>3
<1>2. ASSUME NEW k \in Msg, Taken(k)
      PROVE  Taken(k)'
  <2>1. CASE k \in dropped \/ pc[k] = "lost"
    BY <2>1 DEF OwnStep, Taken, Terminal
  <2>2. CASE k \in shown \/ k \in ToSet(recovered)
    BY <2>2 DEF OwnStep, Taken, Decrypted
  <2>3. CASE pc[k] \in {"saving", "retrySave"}
    BY <2>3 DEF OwnStep, Taken, Decrypted
  <2>4. CASE IsCurrent(k)
    BY <1>1, <2>4 DEF Taken, Decrypted
  <2>5. QED
    BY <1>2, <2>1, <2>2, <2>3, <2>4 DEF Taken, Decrypted
<1>3. ASSUME NEW k \in Msg, Decrypted(k)'
      PROVE  Decrypted(k) \/ (k = m /\ pc'[m] = "saving")
  <2>1. CASE k \in shown' \/ k \in ToSet(recovered')
    <3>1. k \in shown \/ k \in ToSet(recovered) \/ pc[k] = "saving"
      BY <2>1 DEF OwnStep
    <3>2. QED
      BY <3>1 DEF Decrypted
  <2>2. CASE pc'[k] \in {"saving", "retrySave"}
    <3>1. pc[k] \in {"saving", "retrySave"} \/ (k = m /\ pc'[m] = "saving")
      BY <2>2 DEF OwnStep
    <3>2. QED
      BY <3>1 DEF Decrypted
  <2>3. CASE IsCurrent(k)'
    <3>1. PICK r \in Msg : Retrying(r)' /\ Current(r)' = k
      BY <2>3 DEF IsCurrent
    <3>2. Retrying(r) /\ Current(r) = k
      BY <3>1, RetriesStay
    <3>3. IsCurrent(k)
      BY <3>2 DEF IsCurrent
    <3>4. QED
      BY <3>3 DEF Decrypted
  <2>4. QED
    BY <1>3, <2>1, <2>2, <2>3 DEF Decrypted
<1>4. QED
  BY <1>2, <1>3
\* Call m moves on without decrypting.
LEMMA OwnQuiet ==
  ASSUME TypeOK, RefInv, PlaceInv, FrontInv, NEW m \in Msg, OwnStep(m),
         pc'[m] # "saving", expected' = expected
  PROVE  RefInv' /\ PlaceInv' /\ FrontInv'
<1>1. \A k \in Msg : (Taken(k) => Taken(k)') /\ (Decrypted(k)' => Decrypted(k))
  BY OwnTaken
<1>2. \A k \in Msg : pc'[k] \in Unmade => pc[k] \in Unmade
  BY DEF OwnStep
<1>3. 0 \in Msg => /\ pc'[0] \in Untried => pc[0] \in Untried
                   /\ pc[0] \in {"shown", "lost"} => pc'[0] \in {"shown", "lost"}
  BY DEF OwnStep, Terminal
<1>4. FrontInv'
  BY <1>1, <1>2, <1>3, FrontStays
<1>5. QED
  BY <1>4, OwnRef, OwnPlace

\* Call m decrypts its ciphertext on session s.
LEMMA OwnMoves ==
  ASSUME TypeOK, RefInv, PlaceInv, FrontInv, NEW m \in Msg, OwnStep(m), pc'[m] = "saving",
         pc[m] \in Untried, NEW s \in Msg, s = m \/ pc[s] \notin Unmade, m = expected[s],
         expected' = [expected EXCEPT ![s] = m + 1]
  PROVE  RefInv' /\ PlaceInv' /\ FrontInv'
<1>1. \A k \in Msg : (Taken(k) => Taken(k)') /\ (Decrypted(k)' => Decrypted(k) \/ k = m)
  BY OwnTaken
<1>2. \A k \in Msg : pc'[k] \in Unmade => pc[k] \in Unmade
  BY DEF OwnStep
<1>3. pc'[0] \in Untried => pc[0] \in Untried
  BY ConstantTypes DEF OwnStep
<1>4. pc'[m] \notin Untried
  BY DEF Untried, Unmade
<1>5. pc'[s] \notin Unmade
  BY <1>2, <1>4 DEF Untried
<1>6. Taken(m)'
  BY DEF Taken, Decrypted
<1>7. FrontInv'
  BY <1>1, <1>2, <1>3, <1>4, <1>5, <1>6, FrontMoves
<1>8. QED
  BY <1>7, OwnRef, OwnPlace

\* What a call may do to the session map and to the session it holds when it decrypts.
AttemptOn(m, s) ==
  /\ pc[m] \in Untried
  /\ entry' # None /\ (entry' = entry \/ entry' = m)
  /\ held' = held \/ held' = [held EXCEPT ![m] = None]
  /\ s = m \/ pc[s] \notin Unmade
  /\ UNCHANGED <<shown, recovered, dropped, list, idx>>

LEMMA AttemptKeeps ==
  ASSUME TypeOK, RefInv, PlaceInv, FrontInv, NEW m \in Msg, NEW s \in Msg,
         AttemptOn(m, s), TryDecrypt(m, s, expected[s])
  PROVE  /\ RefInv' /\ PlaceInv' /\ FrontInv' /\ OwnStep(m) /\ Pushes(m)
         /\ expected' \in [Msg -> 0..N] /\ pend' \in Msg \cup {None} /\ arr' \in [Msg -> Seq(Msg)]
         /\ pc' \in [Msg -> States] /\ held' \in [Msg -> Msg \cup {None}]
<1>1. held' \in [Msg -> Msg \cup {None}] /\ held'[m] \in {held[m], None}
      /\ \A k \in Msg \ {m} : held'[k] = held[k]
  BY Types DEF AttemptOn
<1>2. pc[m] \notin Terminal /\ pc[m] \notin {"saving", "retrySave"}
  BY DEF AttemptOn, Untried, Unmade, Terminal
<1>3. CASE /\ Accepts(m, expected[s])
           /\ expected' = [expected EXCEPT ![s] = expected[s] + 1]
           /\ Goto(m, "saving")
           /\ UNCHANGED <<pend, arr>>
  <2>1. m = expected[s] /\ expected' = [expected EXCEPT ![s] = m + 1]
    BY <1>3 DEF Accepts
  <2>2. pc' \in [Msg -> States] /\ pc'[m] = "saving" /\ \A k \in Msg \ {m} : pc'[k] = pc[k]
    BY <1>3, Types, Names DEF Goto
  <2>3. expected' \in [Msg -> 0..N]
    BY <2>1, Types, ConstantTypes
  <2>4. OwnStep(m)
    BY <1>1, <1>2, <1>3, <2>2 DEF OwnStep, AttemptOn, Retrying, Untried, Unmade
  <2>5. Pushes(m)
    BY <1>3, <2>2 DEF Pushes
  <2>6. QED
    BY <1>1, <1>3, <2>1, <2>2, <2>3, <2>4, <2>5, OwnMoves, Types DEF AttemptOn
<1>4. CASE /\ ~Accepts(m, expected[s])
           /\ expected' = [expected EXCEPT ![s] = expected[s]]
           /\ pend' = IF pend = None THEN m ELSE pend
           /\ arr' = [arr EXCEPT ![pend'] = Append(@, m)]
           /\ Goto(m, "buffered")
  <2>1. expected' = expected
    BY <1>4, Types
  <2>2. pc' \in [Msg -> States] /\ pc'[m] = "buffered" /\ \A k \in Msg \ {m} : pc'[k] = pc[k]
    BY <1>4, Types, Names DEF Goto
  <2>3. pend' \in Msg /\ pend' \in {pend, m}
    BY <1>4, Types
  <2>4. arr' \in [Msg -> Seq(Msg)] /\ \A a \in Msg : arr'[a] \in {arr[a], Append(arr[a], m)}
    <3> DEFINE q == Append(arr[pend'], m)
    <3>1. arr' = [arr EXCEPT ![pend'] = q]
      BY <1>4
    <3>2. arr \in [Msg -> Seq(Msg)] /\ arr[pend'] \in Seq(Msg)
      BY <2>3, Types
    <3>3. q \in Seq(Msg)
      BY <3>2, Pushed
    <3>4. \A a \in Msg : a = pend' => q = Append(arr[a], m)
      OBVIOUS
    <3> HIDE DEF q
    <3>5. QED
      BY <2>3, <3>1, <3>2, <3>3, <3>4
  <2>5. m # 0
    <3>1. m # expected[s] /\ expected[s] \in Nat
      BY <1>4, Types DEF Accepts
    <3>2. m = 0 => expected[s] > 0 /\ pc[0] \in Untried
      BY <3>1 DEF AttemptOn
    <3>3. QED
      BY <3>2 DEF FrontInv
  <2>6. \A a \in Msg : \/ arr'[a] = arr[a]
                       \/ arr'[a] = Append(arr[a], m) /\ m # 0 /\ pc'[m] = "buffered"
    BY <2>2, <2>4, <2>5
  <2>7. OwnStep(m)
    <3> DEFINE pushed == \A a \in Msg : \/ arr'[a] = arr[a]
                                        \/ arr'[a] = Append(arr[a], m) /\ m # 0 /\ pc'[m] = "buffered"
    <3>1. pushed
      BY <2>6
    <3> HIDE DEF pushed
    <3>2. /\ list' = list /\ idx' = idx /\ recovered' = recovered /\ dropped \subseteq dropped'
          /\ shown' = shown
          /\ entry' # None /\ (entry' = entry \/ entry' = m)
      BY DEF AttemptOn
    <3>3. pend' = pend \/ (pend' = m /\ pc'[m] = "buffered")
      BY <2>2, <2>3
    <3>4. pc'[m] \notin Untried /\ pc'[m] \notin Unmade /\ ~Retrying(m)
      BY <1>2, <2>2 DEF Untried, Unmade, Retrying
    <3>5. QED
      BY <1>1, <1>2, <2>2, <3>1, <3>2, <3>3, <3>4 DEF OwnStep, pushed
  <2>8. Pushes(m)
    <3>1. arr'[pend'] = Append(arr[pend'], m) /\ \A a \in Msg \ {pend'} : arr'[a] = arr[a]
      <4>1. arr \in [Msg -> Seq(Msg)] /\ arr' = [arr EXCEPT ![pend'] = Append(arr[pend'], m)]
        BY <1>4, Types
      <4>2. QED
        BY <2>3, <4>1
    <3>2. QED
      BY <1>4, <2>3, <3>1 DEF Pushes
  <2>9. QED
    BY <1>1, <2>1, <2>2, <2>3, <2>4, <2>7, <2>8, OwnQuiet, Types
<1>5. QED
  BY <1>3, <1>4 DEF TryDecrypt
-----------------------------------------------------------------------------
(* The steps of decryptMessage                                             *)

LEMMA BeginWarmKeeps ==
  ASSUME IInv, NEW m \in Msg, BeginWarm(m)
  PROVE  IInv' /\ OwnStep(m) /\ Pushes(m)
<1>1. entry \in Msg /\ pc[entry] \notin Unmade /\ entry' = entry /\ held' = held
  BY Types DEF IInv, RefInv, BeginWarm
<1>2. AttemptOn(m, entry) /\ TryDecrypt(m, entry, expected[entry])
  BY <1>1, ConstantTypes DEF BeginWarm, AttemptOn, Untried, Unmade, faultVars, retryVars
<1>3. /\ RefInv' /\ PlaceInv' /\ FrontInv' /\ OwnStep(m) /\ Pushes(m)
      /\ expected' \in [Msg -> 0..N] /\ pend' \in Msg \cup {None} /\ arr' \in [Msg -> Seq(Msg)]
      /\ pc' \in [Msg -> States] /\ held' \in [Msg -> Msg \cup {None}]
  BY <1>1, <1>2, AttemptKeeps DEF IInv
<1>4. UNCHANGED <<entry, stored, shown, recovered, reloads, faults, dropped, forked, list, idx, overlapped>>
  BY DEF BeginWarm, faultVars, retryVars
<1>5. TypeOK'
  BY <1>3, <1>4 DEF IInv, TypeOK
<1>6. QED
  BY <1>3, <1>5 DEF IInv

LEMMA RestoreKeeps ==
  ASSUME IInv, NEW m \in Msg, Restore(m)
  PROVE  IInv' /\ OwnStep(m) /\ Pushes(m)
<1>1. pc[m] \in Unmade /\ pc[m] \in Untried /\ expected[m] = 0
  BY DEF IInv, FrontInv, Restore, Unmade, Untried
<1>2. AttemptOn(m, m) /\ TryDecrypt(m, m, expected[m])
  BY <1>1, ConstantTypes DEF Restore, Install, AttemptOn, faultVars, retryVars
<1>3. /\ RefInv' /\ PlaceInv' /\ FrontInv' /\ OwnStep(m) /\ Pushes(m)
      /\ expected' \in [Msg -> 0..N] /\ pend' \in Msg \cup {None} /\ arr' \in [Msg -> Seq(Msg)]
      /\ pc' \in [Msg -> States] /\ held' \in [Msg -> Msg \cup {None}]
  BY <1>2, AttemptKeeps DEF IInv
<1>4. UNCHANGED <<stored, shown, recovered, reloads, faults, dropped, list, idx, overlapped>>
  BY DEF Restore, faultVars, retryVars
<1>5. entry' \in Msg \cup {None} /\ forked' \in BOOLEAN
  BY DEF Restore, Install
<1>6. TypeOK'
  BY <1>3, <1>4, <1>5 DEF IInv, TypeOK
<1>7. QED
  BY <1>3, <1>6 DEF IInv

LEMMA CreatedKeeps ==
  ASSUME IInv, NEW m \in Msg, Created(m)
  PROVE  IInv' /\ OwnStep(m) /\ Pushes(m)
<1>1. held[m] \in Msg /\ pc[held[m]] \notin Unmade /\ pc[m] \in Untried /\ entry # None
  BY Types DEF IInv, RefInv, Created, Untried
<1>2. AttemptOn(m, held[m]) /\ TryDecrypt(m, held[m], expected[held[m]])
  BY <1>1, ConstantTypes DEF Created, AttemptOn, faultVars, retryVars
<1>3. /\ RefInv' /\ PlaceInv' /\ FrontInv' /\ OwnStep(m) /\ Pushes(m)
      /\ expected' \in [Msg -> 0..N] /\ pend' \in Msg \cup {None} /\ arr' \in [Msg -> Seq(Msg)]
      /\ pc' \in [Msg -> States] /\ held' \in [Msg -> Msg \cup {None}]
  BY <1>1, <1>2, AttemptKeeps DEF IInv
<1>4. UNCHANGED <<entry, shown, recovered, reloads, faults, dropped, forked, list, idx, overlapped>>
      /\ stored' = TRUE
  BY DEF Created, faultVars, retryVars
<1>5. TypeOK'
  BY <1>3, <1>4 DEF IInv, TypeOK
<1>6. QED
  BY <1>3, <1>5 DEF IInv

\* A call that only goes on, or gives up without having anything to lose.
LEMMA WaitsKeep ==
  ASSUME IInv, NEW m \in Msg, NEW l \in {"loading", "restoring", "fetchKey", "failed"},
         pc[m] \in Untried, l = "failed" \/ pc[m] \in Unmade, Goto(m, l),
         UNCHANGED <<entry, expected, stored, pend, arr, held, shown, recovered, reloads, dropped,
                     forked, list, idx, overlapped>>,
         faults' \in 0..MaxFaults
  PROVE  IInv' /\ OwnStep(m) /\ Pushes(m)
<1>1. pc' \in [Msg -> States] /\ pc'[m] = l /\ \A k \in Msg \ {m} : pc'[k] = pc[k]
  BY Types, Names DEF IInv, Goto, Untried, Unmade
<1>2. OwnStep(m)
  BY <1>1 DEF OwnStep, Untried, Unmade, Terminal, Retrying
<1>3. RefInv' /\ PlaceInv' /\ FrontInv'
  BY <1>1, <1>2, OwnQuiet DEF IInv
<1>4. TypeOK'
  BY <1>1 DEF IInv, TypeOK
<1>5. Pushes(m)
  BY <1>1 DEF Pushes
<1>6. QED
  BY <1>2, <1>3, <1>4, <1>5 DEF IInv

LEMMA CreateKeeps ==
  ASSUME IInv, NEW m \in Msg, Create(m)
  PROVE  IInv' /\ OwnStep(m) /\ Pushes(m)
<1>1. pc[m] = "fetchKey" /\ expected[m] = 0
  BY DEF IInv, FrontInv, Create, Unmade
<1>2. expected' = expected
  BY <1>1, Types DEF IInv, Create
<1>3. pc' \in [Msg -> States] /\ pc'[m] = "creating" /\ \A k \in Msg \ {m} : pc'[k] = pc[k]
  BY Types, Names DEF IInv, Create, Goto, Untried
<1>4. held' \in [Msg -> Msg \cup {None}] /\ held'[m] = m /\ \A k \in Msg \ {m} : held'[k] = held[k]
  BY Types DEF IInv, Create
<1>5. UNCHANGED <<stored, pend, arr, shown, recovered, reloads, faults, dropped, list, idx, overlapped>>
      /\ entry' = m
  BY DEF Create, Install, faultVars, retryVars
<1>6. OwnStep(m)
  BY <1>1, <1>3, <1>4, <1>5, ConstantTypes DEF OwnStep, Untried, Unmade, Terminal, Retrying
<1>7. RefInv' /\ PlaceInv' /\ FrontInv'
  BY <1>2, <1>3, <1>6, OwnQuiet DEF IInv
<1>8. forked' \in BOOLEAN
  BY DEF Create, Install
<1>9. TypeOK'
  BY <1>2, <1>3, <1>4, <1>5, <1>8 DEF IInv, TypeOK
<1>10. Pushes(m)
  BY <1>3, <1>5 DEF Pushes
<1>11. QED
  BY <1>6, <1>7, <1>9, <1>10 DEF IInv

\* A transaction fails behind a decryption.
LEMMA LossKeeps ==
  ASSUME IInv, NEW m \in Msg, TxFails(m), pc[m] \in {"saving", "retrySave"}
  PROVE  IInv' /\ OwnStep(m) /\ Pushes(m)
<1>1. pc' \in [Msg -> States] /\ pc'[m] = "failed" /\ \A k \in Msg \ {m} : pc'[k] = pc[k]
  BY Types, Names DEF IInv, TxFails, Goto
<1>2. UNCHANGED <<entry, expected, stored, pend, arr, held, shown, recovered, reloads, forked, list,
                  idx, overlapped>> /\ faults' \in 0..MaxFaults
  <2>1. faults \in Nat /\ faults < MaxFaults /\ faults' = faults + 1
    BY ConstantTypes DEF IInv, TypeOK, TxFails
  <2>2. faults' \in 0..MaxFaults
    BY <2>1, ConstantTypes
  <2>3. QED
    BY <2>2 DEF TxFails, retryVars
<1>3. dropped' = dropped \cup (IF Retrying(m) THEN {m, Current(m)} ELSE {m})
  BY DEF TxFails, Retrying
<1>4. Retrying(m) => Current(m) \in Msg
  <2>1. Retrying(m) => list[m] \in Msg /\ idx[m] - 1 \in 1..Len(arr[list[m]])
    BY Types DEF IInv, RefInv
  <2>2. QED
    BY <2>1, Types DEF IInv, Current
<1>5. dropped' \subseteq Msg /\ dropped \subseteq dropped' /\ m \in dropped'
      /\ (Retrying(m) => Current(m) \in dropped')
  BY <1>3, <1>4, Types DEF IInv
<1>6. OwnStep(m)
  BY <1>1, <1>2, <1>5 DEF OwnStep, Untried, Unmade, Terminal
<1>7. RefInv' /\ PlaceInv' /\ FrontInv'
  BY <1>1, <1>2, <1>6, OwnQuiet DEF IInv
<1>8. TypeOK'
  BY <1>1, <1>2, <1>5 DEF IInv, TypeOK
<1>9. Pushes(m)
  BY <1>1, <1>2 DEF Pushes
<1>10. QED
  BY <1>6, <1>7, <1>8, <1>9 DEF IInv

\* saveSession resolves and nothing is buffered.
LEMMA HandsOver ==
  ASSUME IInv, NEW m \in Msg, pc[m] = "saving", shown' = shown \cup {m}, Goto(m, "shown"),
         UNCHANGED <<entry, expected, pend, arr, held, recovered, reloads, faults, dropped, forked,
                     list, idx, overlapped>>,
         stored' = TRUE
  PROVE  IInv' /\ OwnStep(m) /\ Pushes(m)
<1>1. pc' \in [Msg -> States] /\ pc'[m] = "shown" /\ \A k \in Msg \ {m} : pc'[k] = pc[k]
  BY Types, Names DEF IInv, Goto
<1>2. OwnStep(m)
  BY <1>1 DEF OwnStep, Untried, Unmade, Terminal, Retrying
<1>3. RefInv' /\ PlaceInv' /\ FrontInv'
  BY <1>1, <1>2, OwnQuiet DEF IInv
<1>4. shown' \subseteq Msg
  BY Types DEF IInv
<1>5. TypeOK'
  BY <1>1, <1>4 DEF IInv, TypeOK
<1>6. Pushes(m)
  BY <1>1 DEF Pushes
<1>7. QED
  BY <1>2, <1>3, <1>5, <1>6 DEF IInv
-----------------------------------------------------------------------------
(* The steps of retryPending                                               *)

LEMMA InjectiveAppend ==
  ASSUME NEW S, NEW q \in Seq(S), NEW x \in S, x \notin ToSet(q), IsInjective(q)
  PROVE  IsInjective(Append(q, x))
<1>1. /\ Len(q) \in Nat /\ DOMAIN q = 1..Len(q) /\ DOMAIN Append(q, x) = 1..Len(q) \cup {Len(q) + 1}
      /\ \A j \in 1..Len(q) : Append(q, x)[j] = q[j]
      /\ Append(q, x)[Len(q) + 1] = x
  BY Pushed
<1>2. \A j \in 1..Len(q) : q[j] # x
  BY <1>1 DEF ToSet
<1>3. \A j, k \in 1..Len(q) : q[j] = q[k] => j = k
  BY <1>1 DEF IsInjective
<1>4. QED
  BY <1>1, <1>2, <1>3 DEF IsInjective

\* What call m scans: array a from index i on session s, with done in remaining; what it
\* retried before is now handed over.
ScanOn(m, s, a, i, done) ==
  /\ pc[m] \in {"saving", "retrySave"} /\ pc[s] \notin Unmade /\ pc[a] \in Named
  /\ i \in 1..(Len(arr[a]) + 1)
  /\ done \in Seq(Msg) /\ ToSet(done) \subseteq ToSet(arr[m])
  /\ recovered' = IF Retrying(m) THEN Append(recovered, Current(m)) ELSE recovered
  /\ UNCHANGED <<entry, reloads, faults, dropped, forked>>

\* The other calls and their arrays stay where they are.
OthersStay(m) ==
  \A k \in Msg \ {m} : /\ pc'[k] = pc[k] /\ arr'[k] = arr[k]
                       /\ list'[k] = list[k] /\ idx'[k] = idx[k]

LEMMA CurrentTypes ==
  ASSUME TypeOK, RefInv, PlaceInv, NEW r \in Msg, Retrying(r)
  PROVE  /\ list[r] \in Msg /\ pc[list[r]] \in Named /\ idx[r] - 1 \in 1..Len(arr[list[r]])
         /\ Current(r) \in Msg /\ Current(r) \in ToSet(arr[list[r]])
         /\ Current(r) # 0 /\ pc[Current(r)] = "buffered"
<1>1. list[r] \in Msg /\ pc[list[r]] \in Named /\ idx[r] - 1 \in 1..Len(arr[list[r]])
  BY Types DEF RefInv
<1>2. arr[list[r]] \in Seq(Msg)
  BY <1>1, Types
<1>3. Current(r) \in Msg /\ Current(r) \in ToSet(arr[list[r]])
  BY <1>1, <1>2 DEF Current, ToSet
<1>4. QED
  BY <1>1, <1>3 DEF PlaceInv

LEMMA OthersCurrent ==
  ASSUME TypeOK, RefInv, PlaceInv, NEW m \in Msg, pc[m] \in {"saving", "retrySave"}, OthersStay(m),
         NEW r \in Msg \ {m}
  PROVE  /\ Retrying(r)' <=> Retrying(r)
         /\ Retrying(r) => /\ list'[r] = list[r] /\ idx'[r] = idx[r] /\ list[r] \in Msg \ {m}
                           /\ pc'[list[r]] \in Named /\ idx'[r] - 1 \in 1..Len(arr'[list[r]])
                           /\ Current(r)' = Current(r)
<1>1. Retrying(r)' <=> Retrying(r)
  BY DEF OthersStay, Retrying
<1>2. ASSUME Retrying(r)
      PROVE  /\ list'[r] = list[r] /\ idx'[r] = idx[r] /\ list[r] \in Msg \ {m}
             /\ pc'[list[r]] \in Named /\ idx'[r] - 1 \in 1..Len(arr'[list[r]])
             /\ Current(r)' = Current(r)
  <2>1. list[r] \in Msg /\ pc[list[r]] \in Named /\ idx[r] - 1 \in 1..Len(arr[list[r]])
    BY <1>2, CurrentTypes
  <2>2. list[r] # m
    BY <2>1 DEF Named
  <2>3. arr'[list[r]] = arr[list[r]] /\ pc'[list[r]] = pc[list[r]] /\ list'[r] = list[r] /\ idx'[r] = idx[r]
    BY <2>1, <2>2 DEF OthersStay
  <2>4. QED
    BY <2>1, <2>2, <2>3 DEF Current
<1>3. QED
  BY <1>1, <1>2

\* The events that have gone out, after a step of call m's retry.
LEMMA EventsAfter ==
  ASSUME TypeOK, RefInv, PlaceInv, NEW m \in Msg, pc[m] \in {"saving", "retrySave"},
         recovered' = IF Retrying(m) THEN Append(recovered, Current(m)) ELSE recovered
  PROVE  /\ recovered' \in Seq(Msg) /\ IsInjective(recovered')
         /\ ToSet(recovered') = ToSet(recovered) \cup (IF Retrying(m) THEN {Current(m)} ELSE {})
         /\ \A k \in ToSet(recovered') : k \in Msg \ {m} /\ pc[k] \in {"buffered", "lost"}
         /\ \A r \in Msg \ {m} : Retrying(r) => Current(r) \notin ToSet(recovered')
<1>1. recovered \in Seq(Msg) /\ \A k \in ToSet(recovered) : k \in Msg
  BY Types DEF ToSet
<1>2. CASE Retrying(m)
  <2>1. Current(m) \in Msg /\ pc[Current(m)] = "buffered" /\ Current(m) \notin ToSet(recovered)
    BY <1>2, CurrentTypes DEF PlaceInv
  <2>2. recovered' = Append(recovered, Current(m))
    BY <1>2
  <2>3. recovered' \in Seq(Msg) /\ ToSet(recovered') = ToSet(recovered) \cup {Current(m)}
    BY <1>1, <2>1, <2>2, Pushed
  <2>4. IsInjective(recovered')
    BY <1>1, <2>1, <2>2, InjectiveAppend DEF PlaceInv
  <2>5. \A k \in ToSet(recovered') : k \in Msg \ {m} /\ pc[k] \in {"buffered", "lost"}
    BY <1>1, <2>1, <2>3 DEF PlaceInv
  <2>6. \A r \in Msg \ {m} : Retrying(r) => Current(r) \notin ToSet(recovered')
    BY <1>2, <2>3 DEF PlaceInv
  <2>7. QED
    BY <1>2, <2>3, <2>4, <2>5, <2>6
<1>3. CASE ~Retrying(m)
  BY <1>1, <1>3 DEF PlaceInv
<1>4. QED
  BY <1>2, <1>3

\* What a step of call m's retry leaves behind.
AfterScan(m) ==
  /\ pc'[m] \in {"retrySave", "shown"} /\ OthersStay(m)
  /\ \A b \in Msg \ {m} : held'[b] = held[b]
  /\ \A b \in Msg : \A j \in ToSet(arr'[b]) : \E c \in Msg : j \in ToSet(arr[c])
  /\ shown' = IF pc'[m] = "shown" THEN shown \cup {m} ELSE shown
  /\ pend' \in {pend, None} \/ (pend' = m /\ pc'[m] = "shown")
  /\ held'[m] # None => held'[m] \in Msg /\ pc[held'[m]] \notin Unmade
  /\ Retrying(m)' => /\ held'[m] # None /\ list'[m] \in Msg /\ pc[list'[m]] \in Named
                     /\ idx'[m] - 1 \in 1..Len(arr'[list'[m]])
                     /\ \E x \in Msg : Current(m)' = x /\ ~Decrypted(x)

LEMMA ScanRef ==
  ASSUME TypeOK, RefInv, PlaceInv, NEW m \in Msg, pc[m] \in {"saving", "retrySave"}, entry' = entry,
         AfterScan(m)
  PROVE  RefInv'
<1>1. /\ \A k \in Msg : pc[k] \notin Unmade => pc'[k] \notin Unmade
      /\ \A k \in Msg : pc[k] \in Named => k # m /\ pc'[k] \in Named
  BY DEF AfterScan, OthersStay, Unmade, Named
<1>2. entry' # None => pc'[entry'] \notin Unmade
  BY <1>1, Types DEF RefInv
<1>3. ASSUME NEW k \in Msg, held'[k] # None
      PROVE  pc'[held'[k]] \notin Unmade
  <2>1. CASE k = m
    BY <1>1, <1>3, <2>1 DEF AfterScan
  <2>2. CASE k # m
    BY <1>1, <1>3, <2>2, Types DEF AfterScan, RefInv
  <2>3. QED
    BY <2>1, <2>2
<1>4. \A k \in Msg : pc'[k] \in {"creating", "retrySave"} => held'[k] # None
  BY DEF AfterScan, OthersStay, RefInv, Retrying
<1>5. entry' = None => \A k \in Msg : pc'[k] \notin {"creating", "saving", "retrySave"}
  BY DEF AfterScan, OthersStay, RefInv
<1>6. pend' # None => pc'[pend'] \in Named
  <2>1. CASE pend' = pend
    BY <1>1, <2>1, Types DEF RefInv
  <2>2. CASE pend' = m /\ pc'[m] = "shown"
    BY <2>2 DEF Named
  <2>3. QED
    BY <2>1, <2>2 DEF AfterScan
<1>7. ASSUME NEW r \in Msg, Retrying(r)'
      PROVE  list'[r] # None /\ pc'[list'[r]] \in Named /\ idx'[r] - 1 \in 1..Len(arr'[list'[r]])
  <2>1. CASE r = m
    BY <1>1, <1>7, <2>1, ConstantTypes DEF AfterScan
  <2>2. CASE r # m
    <3>1. OthersStay(m)
      BY DEF AfterScan
    <3>2. QED
      BY <1>7, <2>2, <3>1, OthersCurrent, ConstantTypes
  <2>3. QED
    BY <2>1, <2>2
<1>8. QED
  BY <1>2, <1>3, <1>4, <1>5, <1>6, <1>7 DEF RefInv

LEMMA ScanPlace ==
  ASSUME TypeOK, RefInv, PlaceInv, NEW m \in Msg, pc[m] \in {"saving", "retrySave"}, AfterScan(m),
         recovered' = IF Retrying(m) THEN Append(recovered, Current(m)) ELSE recovered
  PROVE  PlaceInv'
<1>1. /\ recovered' \in Seq(Msg) /\ IsInjective(recovered')
      /\ ToSet(recovered') = ToSet(recovered) \cup (IF Retrying(m) THEN {Current(m)} ELSE {})
      /\ \A j \in ToSet(recovered') : j \in Msg \ {m} /\ pc[j] \in {"buffered", "lost"}
      /\ \A r \in Msg \ {m} : Retrying(r) => Current(r) \notin ToSet(recovered')
  BY EventsAfter
<1>2. \A k \in Msg : k \in shown' <=> pc'[k] = "shown"
  BY DEF AfterScan, OthersStay, PlaceInv
<1>3. ASSUME NEW b \in Msg, NEW j \in ToSet(arr'[b])
      PROVE  j # 0 /\ pc'[j] = "buffered"
  <2>1. PICK c \in Msg : j \in ToSet(arr[c])
    BY <1>3 DEF AfterScan
  <2>2. arr[c] \in Seq(Msg)
    BY Types
  <2>3. j \in Msg
    BY <2>1, <2>2 DEF ToSet
  <2>4. j # 0 /\ pc[j] = "buffered"
    BY <2>1 DEF PlaceInv
  <2>5. QED
    BY <2>3, <2>4 DEF AfterScan, OthersStay
<1>4. \A j \in ToSet(recovered') : pc'[j] \in {"buffered", "lost"}
  BY <1>1 DEF AfterScan, OthersStay
<1>5. OthersStay(m)
  BY DEF AfterScan
<1>6. \A r \in Msg \ {m} : Retrying(r)' => Retrying(r) /\ Current(r)' = Current(r)
  BY <1>5, OthersCurrent
<1>7. ASSUME Retrying(m)'
      PROVE  /\ Current(m)' \notin ToSet(recovered')
             /\ \A r \in Msg \ {m} : Retrying(r) => Current(r) # Current(m)'
  <2>1. PICK x \in Msg : Current(m)' = x /\ ~Decrypted(x)
    BY <1>7 DEF AfterScan
  <2>2. x \notin ToSet(recovered) /\ ~IsCurrent(x)
    BY <2>1 DEF Decrypted
  <2>3. \A r \in Msg : Retrying(r) => Current(r) # x
    BY <2>2 DEF IsCurrent
  <2>4. x \notin ToSet(recovered')
    BY <1>1, <2>2, <2>3
  <2>5. QED
    BY <2>1, <2>3, <2>4
<1>8. \A r \in Msg : Retrying(r)' => Current(r)' \notin ToSet(recovered')
  BY <1>1, <1>6, <1>7
<1>9. ASSUME NEW r \in Msg, NEW o \in Msg, Retrying(r)', Retrying(o)', Current(r)' = Current(o)'
      PROVE  r = o
  <2>1. CASE r = m \/ o = m
    BY <1>6, <1>7, <1>9, <2>1
  <2>2. CASE r # m /\ o # m
    BY <1>6, <1>9, <2>2 DEF PlaceInv
  <2>3. QED
    BY <2>1, <2>2
<1>10. QED
  BY <1>1, <1>2, <1>3, <1>4, <1>8, <1>9 DEF PlaceInv

LEMMA ScanTaken ==
  ASSUME TypeOK, RefInv, PlaceInv, NEW m \in Msg, pc[m] \in {"saving", "retrySave"}, AfterScan(m),
         dropped' = dropped,
         recovered' = IF Retrying(m) THEN Append(recovered, Current(m)) ELSE recovered
  PROVE  /\ \A k \in Msg : Taken(k) => Taken(k)'
         /\ \A k \in Msg : Decrypted(k)' => Decrypted(k) \/ (Retrying(m)' /\ Current(m)' = k)
<1>1. ToSet(recovered') = ToSet(recovered) \cup (IF Retrying(m) THEN {Current(m)} ELSE {})
  BY EventsAfter
<1>2. OthersStay(m)
  BY DEF AfterScan
<1>3. \A r \in Msg \ {m} : /\ Retrying(r)' <=> Retrying(r)
                           /\ Retrying(r) => Current(r)' = Current(r)
  BY <1>2, OthersCurrent
<1>4. ASSUME NEW k \in Msg, IsCurrent(k)
      PROVE  IsCurrent(k)' \/ k \in ToSet(recovered')
  <2>1. PICK r \in Msg : Retrying(r) /\ Current(r) = k
    BY <1>4 DEF IsCurrent
  <2>2. CASE r = m
    BY <1>1, <2>1, <2>2
  <2>3. CASE r # m
    BY <1>3, <2>1, <2>3 DEF IsCurrent
  <2>4. QED
    BY <2>2, <2>3
<1>5. ASSUME NEW k \in Msg, Taken(k)
      PROVE  Taken(k)'
  <2>1. CASE k \in dropped \/ pc[k] = "lost"
    BY <2>1 DEF AfterScan, OthersStay, Taken
  <2>2. CASE k \in shown \/ k \in ToSet(recovered)
    BY <1>1, <2>2 DEF AfterScan, Taken, Decrypted
  <2>3. CASE pc[k] \in {"saving", "retrySave"}
    BY <2>3 DEF AfterScan, OthersStay, Taken, Decrypted
  <2>4. CASE IsCurrent(k)
    BY <1>4, <2>4 DEF Taken, Decrypted
  <2>5. QED
    BY <1>5, <2>1, <2>2, <2>3, <2>4 DEF Taken, Decrypted
<1>6. ASSUME NEW k \in Msg, Decrypted(k)'
      PROVE  Decrypted(k) \/ (Retrying(m)' /\ Current(m)' = k)
  <2>1. CASE k \in shown'
    BY <2>1 DEF AfterScan, Decrypted
  <2>2. CASE k \in ToSet(recovered')
    <3>1. k \in ToSet(recovered) \/ IsCurrent(k)
      BY <1>1, <2>2 DEF IsCurrent
    <3>2. QED
      BY <3>1 DEF Decrypted
  <2>3. CASE pc'[k] \in {"saving", "retrySave"}
    BY <2>3 DEF AfterScan, OthersStay, Decrypted
  <2>4. CASE IsCurrent(k)'
    <3>1. PICK r \in Msg : Retrying(r)' /\ Current(r)' = k
      BY <2>4 DEF IsCurrent
    <3>2. r # m => IsCurrent(k)
      BY <1>3, <3>1 DEF IsCurrent
    <3>3. QED
      BY <3>1, <3>2 DEF Decrypted
  <2>5. QED
    BY <1>6, <2>1, <2>2, <2>3, <2>4 DEF Decrypted
<1>7. QED
  BY <1>5, <1>6

\* The array remaining of call m's scan, which goes as far as index l.
LEMMA Remaining ==
  ASSUME IInv, NEW m \in Msg, NEW s \in Msg, NEW a \in Msg, NEW i, NEW done, ScanOn(m, s, a, i, done),
         NEW l \in Nat, l <= Len(arr[a]), i <= l + 1,
         arr' = [arr EXCEPT ![m] = done \o SubSeq(arr[a], i, l)]
  PROVE  /\ arr' \in [Msg -> Seq(Msg)] /\ \A b \in Msg \ {m} : arr'[b] = arr[b]
         /\ ToSet(arr'[m]) = ToSet(done) \cup Between(arr[a], i, l)
         /\ \A b \in Msg : \A j \in ToSet(arr'[b]) : \E c \in Msg : j \in ToSet(arr[c])
<1> DEFINE q == done \o SubSeq(arr[a], i, l)
<1>1. arr[a] \in Seq(Msg) /\ Len(arr[a]) \in Nat /\ i \in Nat /\ i >= 1 /\ done \in Seq(Msg)
  <2>1. arr[a] \in Seq(Msg)
    BY Types DEF IInv
  <2>2. Len(arr[a]) \in Nat /\ i \in 1..(Len(arr[a]) + 1)
    BY <2>1 DEF ScanOn
  <2>3. QED
    BY <2>1, <2>2 DEF ScanOn
<1>2. q \in Seq(Msg) /\ ToSet(q) = ToSet(done) \cup Between(arr[a], i, l)
  <2>1. /\ done \o SubSeq(arr[a], i, l) \in Seq(Msg)
        /\ ToSet(done \o SubSeq(arr[a], i, l)) = ToSet(done) \cup Between(arr[a], i, l)
    BY <1>1, Moved
  <2>2. QED
    BY <2>1
<1>3. Between(arr[a], i, l) \subseteq ToSet(arr[a])
  BY <1>1 DEF ToSet, Between
<1>4. \A j \in ToSet(q) : j \in ToSet(arr[m]) \/ j \in ToSet(arr[a])
  BY <1>2, <1>3 DEF ScanOn
<1> HIDE DEF q
<1>5. arr' = [arr EXCEPT ![m] = q]
  BY DEF q
<1>6. arr' \in [Msg -> Seq(Msg)] /\ arr'[m] = q /\ \A b \in Msg \ {m} : arr'[b] = arr[b]
  BY <1>2, <1>5, Types DEF IInv
<1>7. QED
  BY <1>2, <1>4, <1>6

\* Call m's scan reaches a ciphertext that decrypts.
LEMMA ScanHits ==
  ASSUME IInv, NEW m \in Msg, NEW s \in Msg, NEW a \in Msg, NEW i, NEW done,
         ScanOn(m, s, a, i, done), NEW k \in i..Len(arr[a]), Accepts(arr[a][k], expected[s]),
         arr' = [arr EXCEPT ![m] = done \o SubSeq(arr[a], i, k - 1)],
         list' = [list EXCEPT ![m] = a], idx' = [idx EXCEPT ![m] = k + 1],
         held' = [held EXCEPT ![m] = s], expected' = [expected EXCEPT ![s] = @ + 1],
         Goto(m, "retrySave"), UNCHANGED <<pend, shown>>,
         stored' \in BOOLEAN, overlapped' \in BOOLEAN
  PROVE  IInv'
<1>1. /\ arr[a] \in Seq(Msg) /\ Len(arr[a]) \in Nat /\ i \in Nat /\ i >= 1 /\ k \in Nat
      /\ k - 1 \in Nat /\ k - 1 <= Len(arr[a]) /\ i <= k /\ k \in 1..Len(arr[a]) /\ a # m
  <2>1. arr[a] \in Seq(Msg)
    BY Types DEF IInv
  <2>2. Len(arr[a]) \in Nat /\ i \in 1..(Len(arr[a]) + 1)
    BY <2>1 DEF ScanOn
  <2>3. a # m
    BY DEF ScanOn, Named
  <2>4. QED
    BY <2>1, <2>2, <2>3
<1>2. PICK x \in Msg : /\ x = arr[a][k] /\ x = expected[s] /\ x # 0 /\ pc[x] = "buffered"
                       /\ x \in ToSet(arr[a])
  <2>1. arr[a][k] \in Msg /\ arr[a][k] \in ToSet(arr[a]) /\ arr[a][k] = expected[s]
    BY <1>1 DEF ToSet, Accepts
  <2>2. QED
    BY <2>1 DEF IInv, PlaceInv, ScanOn
<1>3. ~Decrypted(x)
  BY <1>2, NextIsNew DEF IInv
<1>4. /\ arr' \in [Msg -> Seq(Msg)] /\ \A b \in Msg \ {m} : arr'[b] = arr[b]
      /\ \A b \in Msg : \A j \in ToSet(arr'[b]) : \E c \in Msg : j \in ToSet(arr[c])
  <2>1. i <= (k - 1) + 1
    BY <1>1
  <2>2. QED
    BY <1>1, <2>1, Remaining
<1>5. /\ pc' \in [Msg -> States] /\ pc'[m] = "retrySave"
      /\ list' \in [Msg -> Msg \cup {None}] /\ list'[m] = a
      /\ held' \in [Msg -> Msg \cup {None}] /\ held'[m] = s /\ \A b \in Msg \ {m} : held'[b] = held[b]
  BY Types, Names DEF IInv, Goto
<1>6. idx' \in [Msg -> Nat] /\ idx'[m] - 1 = k
  BY <1>1, Types DEF IInv
<1>7. /\ expected' \in [Msg -> 0..N] /\ expected' = [expected EXCEPT ![s] = x + 1]
  BY <1>2, Types, ConstantTypes DEF IInv
<1>8. OthersStay(m)
  BY <1>4, Types DEF IInv, OthersStay, Goto
<1>9. TypeOK /\ RefInv /\ PlaceInv /\ FrontInv /\ pc[m] \in {"saving", "retrySave"}
  BY DEF IInv, ScanOn
<1>10. Retrying(m)' /\ Current(m)' = x
  BY <1>1, <1>2, <1>4, <1>5, <1>6 DEF Retrying, Current
<1>11. AfterScan(m)
  <2>1. /\ pc'[m] \in {"retrySave", "shown"} /\ OthersStay(m)
        /\ \A b \in Msg \ {m} : held'[b] = held[b]
        /\ shown' = IF pc'[m] = "shown" THEN shown \cup {m} ELSE shown
        /\ pend' = pend
    BY <1>5, <1>8
  <2>2. held'[m] \in Msg /\ pc[held'[m]] \notin Unmade /\ held'[m] # None
    BY <1>5, ConstantTypes DEF ScanOn
  <2>3. list'[m] \in Msg /\ pc[list'[m]] \in Named /\ idx'[m] - 1 \in 1..Len(arr'[list'[m]])
    BY <1>1, <1>4, <1>5, <1>6 DEF ScanOn
  <2>4. \E y \in Msg : Current(m)' = y /\ ~Decrypted(y)
    BY <1>2, <1>3, <1>10
  <2>5. QED
    BY <1>4, <2>1, <2>2, <2>3, <2>4 DEF AfterScan
<1>12. recovered' = IF Retrying(m) THEN Append(recovered, Current(m)) ELSE recovered
  BY DEF ScanOn
<1>13. recovered' \in Seq(Msg)
  BY <1>9, <1>12, EventsAfter
<1>14. TypeOK'
  BY <1>4, <1>5, <1>6, <1>7, <1>13 DEF TypeOK, IInv, ScanOn
<1>15. entry' = entry /\ dropped' = dropped
  BY DEF ScanOn
<1>16. RefInv' /\ PlaceInv'
  BY <1>9, <1>11, <1>12, <1>15, ScanRef, ScanPlace
<1>17. FrontInv'
  <2>1. /\ \A j \in Msg : Taken(j) => Taken(j)'
        /\ \A j \in Msg : Decrypted(j)' => Decrypted(j) \/ j = x
    BY <1>9, <1>10, <1>11, <1>12, <1>15, ScanTaken
  <2>2. \A j \in Msg : /\ pc'[j] \in Unmade => pc[j] \in Unmade
                       /\ pc'[j] \in Untried => pc[j] \in Untried
    BY <1>5, <1>8 DEF OthersStay, Unmade, Untried
  <2>3. pc'[s] \notin Unmade
    BY <2>2 DEF ScanOn
  <2>4. Taken(x)'
    BY <1>10 DEF Taken, Decrypted, IsCurrent
  <2>5. QED
    BY <1>2, <1>7, <1>9, <2>1, <2>2, <2>3, <2>4, FrontMoves, ConstantTypes
<1>18. QED
  BY <1>14, <1>16, <1>17 DEF IInv
\* Call m's scan reaches the end of the array.
LEMMA ScanEnds ==
  ASSUME IInv, NEW m \in Msg, NEW s \in Msg, NEW a \in Msg, NEW i, NEW done,
         ScanOn(m, s, a, i, done),
         arr' = [arr EXCEPT ![m] = done \o SubSeq(arr[a], i, Len(arr[a]))],
         pend' = IF arr'[m] = <<>> THEN None ELSE m, shown' = shown \cup {m}, Goto(m, "shown"),
         list' = [list EXCEPT ![m] = None], idx' = [idx EXCEPT ![m] = 1],
         held' = [held EXCEPT ![m] = None], UNCHANGED expected,
         stored' \in BOOLEAN, overlapped' \in BOOLEAN
  PROVE  IInv'
<1> DEFINE l == Len(arr[a])
<1>1. /\ arr[a] \in Seq(Msg) /\ l \in Nat /\ i \in Nat /\ i >= 1 /\ i <= l + 1
      /\ l <= Len(arr[a]) /\ done \in Seq(Msg)
  <2>1. arr[a] \in Seq(Msg)
    BY Types DEF IInv
  <2>2. Len(arr[a]) \in Nat /\ i \in 1..(Len(arr[a]) + 1)
    BY <2>1 DEF ScanOn
  <2>3. QED
    BY <2>1, <2>2 DEF ScanOn
<1>2. /\ arr' \in [Msg -> Seq(Msg)] /\ \A b \in Msg \ {m} : arr'[b] = arr[b]
      /\ \A b \in Msg : \A j \in ToSet(arr'[b]) : \E c \in Msg : j \in ToSet(arr[c])
  BY <1>1, Remaining
<1>3. /\ pc' \in [Msg -> States] /\ pc'[m] = "shown"
      /\ list' \in [Msg -> Msg \cup {None}] /\ idx' \in [Msg -> Nat]
      /\ held' \in [Msg -> Msg \cup {None}] /\ held'[m] = None /\ \A b \in Msg \ {m} : held'[b] = held[b]
  BY Types, Names DEF IInv, Goto
<1>4. pend' \in {None, m} /\ shown' \subseteq Msg
  BY Types DEF IInv
<1>5. OthersStay(m)
  BY <1>2, Types DEF IInv, OthersStay, Goto
<1>6. TypeOK /\ RefInv /\ PlaceInv /\ FrontInv /\ pc[m] \in {"saving", "retrySave"}
  BY DEF IInv, ScanOn
<1>7. ~Retrying(m)'
  BY <1>3 DEF Retrying
<1>8. AfterScan(m)
  BY <1>2, <1>3, <1>4, <1>5, <1>7 DEF AfterScan
<1>9. recovered' = IF Retrying(m) THEN Append(recovered, Current(m)) ELSE recovered
  BY DEF ScanOn
<1>10. recovered' \in Seq(Msg)
  BY <1>6, <1>9, EventsAfter
<1>11. TypeOK'
  BY <1>2, <1>3, <1>4, <1>10 DEF TypeOK, IInv, ScanOn
<1>12. entry' = entry /\ dropped' = dropped
  BY DEF ScanOn
<1>13. RefInv' /\ PlaceInv'
  BY <1>6, <1>8, <1>9, <1>12, ScanRef, ScanPlace
<1>14. FrontInv'
  <2>1. \A k \in Msg : (Taken(k) => Taken(k)') /\ (Decrypted(k)' => Decrypted(k))
    BY <1>6, <1>7, <1>8, <1>9, <1>12, ScanTaken
  <2>2. \A j \in Msg : /\ pc'[j] \in Unmade => pc[j] \in Unmade
                       /\ pc'[j] \in Untried => pc[j] \in Untried
                       /\ pc[j] \in {"shown", "lost"} => pc'[j] \in {"shown", "lost"}
    BY <1>3, <1>5 DEF OthersStay, Unmade, Untried
  <2>3. QED
    BY <1>6, <2>1, <2>2, FrontStays
<1>15. QED
  BY <1>11, <1>13, <1>14 DEF IInv

LEMMA ScanKeeps ==
  ASSUME IInv, NEW m \in Msg, NEW s \in Msg, NEW a \in Msg, NEW i, NEW done,
         ScanOn(m, s, a, i, done), Scan(m, s, a, i, done),
         stored' \in BOOLEAN, overlapped' \in BOOLEAN
  PROVE  IInv'
<1>1. CASE \E k \in {k \in i..Len(arr[a]) : Accepts(arr[a][k], expected[s])} :
             /\ arr' = [arr EXCEPT ![m] = done \o SubSeq(arr[a], i, k - 1)]
             /\ list' = [list EXCEPT ![m] = a]
             /\ idx' = [idx EXCEPT ![m] = k + 1]
             /\ held' = [held EXCEPT ![m] = s]
             /\ expected' = [expected EXCEPT ![s] = @ + 1]
             /\ Goto(m, "retrySave")
             /\ UNCHANGED <<pend, shown>>
  BY <1>1, ScanHits
<1>2. CASE /\ arr' = [arr EXCEPT ![m] = done \o SubSeq(arr[a], i, Len(arr[a]))]
           /\ pend' = IF arr'[m] = <<>> THEN None ELSE m
           /\ shown' = shown \cup {m}
           /\ Goto(m, "shown")
           /\ list' = [list EXCEPT ![m] = None]
           /\ idx' = [idx EXCEPT ![m] = 1]
           /\ held' = [held EXCEPT ![m] = None]
           /\ UNCHANGED expected
  BY <1>2, ScanEnds
<1>3. QED
  BY <1>1, <1>2 DEF Scan

LEMMA SavedKeeps ==
  ASSUME IInv, NEW m \in Msg, Saved(m)
  PROVE  IInv'
<1>1. pc[m] = "saving" /\ stored' = TRUE /\ UNCHANGED <<entry, recovered, reloads, faults, dropped, forked>>
  BY DEF Saved, faultVars
<1>2. CASE /\ Buffered = <<>>
           /\ shown' = shown \cup {m}
           /\ Goto(m, "shown")
           /\ UNCHANGED <<expected, pend, arr, held, list, idx, overlapped>>
  BY <1>1, <1>2, HandsOver
<1>3. CASE /\ Buffered # <<>>
           /\ Scan(m, entry, pend, 1, <<>>)
           /\ overlapped' = (overlapped \/ \E o \in Msg : Retrying(o))
  <2>1. entry \in Msg /\ pc[entry] \notin Unmade
    BY <1>1, Types DEF IInv, RefInv
  <2>2. pend \in Msg /\ pc[pend] \in Named
    BY <1>3, Types DEF IInv, RefInv, Buffered
  <2>3. ~Retrying(m)
    BY <1>1 DEF Retrying
  <2>4. Len(arr[pend]) \in Nat
    <3>1. arr[pend] \in Seq(Msg)
      BY <2>2, Types DEF IInv
    <3>2. QED
      BY <3>1
  <2>5. <<>> \in Seq(Msg) /\ ToSet(<<>>) = {}
    BY DEF ToSet
  <2>6. 1 \in 1..(Len(arr[pend]) + 1)
    BY <2>4
  <2>7. ScanOn(m, entry, pend, 1, <<>>)
    BY <1>1, <2>1, <2>2, <2>3, <2>5, <2>6 DEF ScanOn
  <2>8. overlapped' \in BOOLEAN
    BY <1>3
  <2>9. QED
    BY <1>1, <1>3, <2>1, <2>2, <2>7, <2>8, ScanKeeps
<1>4. QED
  BY <1>2, <1>3 DEF Saved

LEMMA RetrySavedKeeps ==
  ASSUME IInv, NEW m \in Msg, RetrySaved(m)
  PROVE  IInv'
<1>1. /\ Retrying(m) /\ recovered' = Append(recovered, Current(m))
      /\ Scan(m, held[m], list[m], idx[m], arr[m])
      /\ UNCHANGED <<entry, stored, reloads, faults, dropped, forked, overlapped>>
  BY DEF RetrySaved, Retrying, faultVars
<1>2. held[m] \in Msg /\ pc[held[m]] \notin Unmade
  BY <1>1, Types DEF IInv, RefInv, Retrying
<1>3. list[m] \in Msg /\ pc[list[m]] \in Named /\ idx[m] - 1 \in 1..Len(arr[list[m]])
  BY <1>1, CurrentTypes DEF IInv
<1>4. idx[m] \in 1..(Len(arr[list[m]]) + 1)
  <2>1. arr[list[m]] \in Seq(Msg) /\ idx[m] \in Nat
    BY <1>3, Types DEF IInv
  <2>2. Len(arr[list[m]]) \in Nat
    BY <2>1
  <2>3. QED
    BY <1>3, <2>1, <2>2
<1>5. arr[m] \in Seq(Msg)
  BY Types DEF IInv
<1>6. ScanOn(m, held[m], list[m], idx[m], arr[m])
  BY <1>1, <1>2, <1>3, <1>4, <1>5 DEF ScanOn, Retrying
<1>7. stored' \in BOOLEAN /\ overlapped' \in BOOLEAN
  BY <1>1 DEF IInv, TypeOK
<1>8. QED
  BY <1>1, <1>2, <1>3, <1>6, <1>7, ScanKeeps
-----------------------------------------------------------------------------
(* Reload, and the whole                                                   *)

LEMMA WaitingSteps ==
  ASSUME IInv, NEW m \in Msg, BeginCold(m) \/ LoadRead(m) \/ RestoreFails(m) \/ TxFails(m)
  PROVE  IInv' /\ OwnStep(m) /\ Pushes(m)
<1>1. CASE BeginCold(m)
  BY <1>1, WaitsKeep DEF IInv, TypeOK, BeginCold, Untried, Unmade, faultVars, retryVars
<1>2. CASE LoadRead(m)
  BY <1>2, WaitsKeep DEF IInv, TypeOK, LoadRead, Untried, Unmade, faultVars, retryVars
<1>3. CASE RestoreFails(m)
  <2>1. faults' \in 0..MaxFaults
    BY <1>3, ConstantTypes DEF IInv, TypeOK, RestoreFails
  <2>2. QED
    BY <1>3, <2>1, WaitsKeep DEF RestoreFails, Untried, Unmade, retryVars
<1>4. CASE TxFails(m)
  <2>1. CASE pc[m] \in {"saving", "retrySave"}
    BY <1>4, <2>1, LossKeeps
  <2>2. CASE pc[m] \in {"loading", "creating"}
    <3>1. faults' \in 0..MaxFaults
      <4>1. faults \in Nat /\ faults < MaxFaults /\ faults' = faults + 1
        BY <1>4, ConstantTypes DEF IInv, TypeOK, TxFails
      <4>2. QED
        BY <4>1, ConstantTypes
    <3>2. dropped' = dropped
      BY <1>4, <2>2 DEF TxFails
    <3>3. QED
      BY <1>4, <2>2, <3>1, <3>2, WaitsKeep DEF TxFails, Untried, Unmade, retryVars
  <2>3. QED
    BY <1>4, <2>1, <2>2 DEF TxFails
<1>5. QED
  BY <1>1, <1>2, <1>3, <1>4

LEMMA ReloadKeeps ==
  ASSUME IInv, Reload
  PROVE  IInv'
<1>1. /\ entry' = None /\ pend' = None /\ UNCHANGED <<stored, shown, recovered, faults, dropped, forked, overlapped>>
      /\ \A k \in Msg : /\ pc'[k] = IF pc[k] \in {"idle", "shown"} THEN pc[k] ELSE "lost"
                        /\ arr'[k] = <<>> /\ expected'[k] = 0 /\ held'[k] = None
  BY DEF Reload
<1>2. /\ pc' \in [Msg -> States] /\ arr' \in [Msg -> Seq(Msg)] /\ expected' \in [Msg -> 0..N]
      /\ held' \in [Msg -> Msg \cup {None}] /\ list' \in [Msg -> Msg \cup {None}] /\ idx' \in [Msg -> Nat]
  <2>1. /\ arr' = [a \in Msg |-> <<>>] /\ expected' = [s \in Msg |-> 0] /\ held' = [m \in Msg |-> None]
        /\ list' = [m \in Msg |-> None] /\ idx' = [m \in Msg |-> 1]
        /\ pc' = [m \in Msg |-> IF pc[m] \in {"idle", "shown"} THEN pc[m] ELSE "lost"]
    BY DEF Reload
  <2>2. <<>> \in Seq(Msg) /\ 0 \in 0..N
    BY ConstantTypes
  <2>3. \A m \in Msg : (IF pc[m] \in {"idle", "shown"} THEN pc[m] ELSE "lost") \in States
    BY Names DEF Untried, Unmade
  <2>4. QED
    BY <2>1, <2>2, <2>3
<1>3. reloads' \in 0..MaxReloads
  <2>1. reloads \in Nat /\ reloads < MaxReloads /\ reloads' = reloads + 1
    BY ConstantTypes DEF IInv, TypeOK, Reload
  <2>2. QED
    BY <2>1, ConstantTypes
<1>4. TypeOK'
  BY <1>1, <1>2, <1>3 DEF IInv, TypeOK
<1>5. \A k \in Msg : ~Retrying(k)' /\ pc'[k] \in {"idle", "shown", "lost"}
  BY <1>1 DEF Retrying
<1>6. RefInv'
  BY <1>1, <1>5 DEF RefInv
<1>7. \A k \in ToSet(recovered) : k \in Msg /\ pc[k] \in {"buffered", "lost"}
  BY Types DEF IInv, PlaceInv, ToSet
<1>8. PlaceInv'
  <2>1. \A k \in Msg : k \in shown' <=> pc'[k] = "shown"
    BY <1>1 DEF IInv, PlaceInv
  <2>2. \A a \in Msg : ToSet(arr'[a]) = {}
    BY <1>1 DEF ToSet
  <2>3. \A k \in ToSet(recovered') : pc'[k] \in {"buffered", "lost"}
    BY <1>1, <1>7
  <2>4. IsInjective(recovered')
    BY <1>1 DEF IInv, PlaceInv
  <2>5. QED
    BY <1>5, <2>1, <2>2, <2>3, <2>4 DEF PlaceInv
<1>9. ASSUME NEW k \in Msg, Taken(k)
      PROVE  Taken(k)'
  <2>1. CASE k \in dropped \/ k \in shown \/ k \in ToSet(recovered)
    BY <1>1, <2>1 DEF Taken, Decrypted
  <2>2. CASE pc[k] \in {"lost", "saving", "retrySave", "buffered"}
    <3>1. pc'[k] = "lost"
      BY <1>1, <2>2
    <3>2. QED
      BY <3>1 DEF Taken
  <2>3. IsCurrent(k) => pc[k] = "buffered"
    BY CurrentTypes DEF IInv, IsCurrent
  <2>4. QED
    BY <1>9, <2>1, <2>2, <2>3 DEF Taken, Decrypted
<1>10. ASSUME NEW k \in Msg, Decrypted(k)'
       PROVE  Decrypted(k)
  <2>1. ~IsCurrent(k)' /\ pc'[k] \notin {"saving", "retrySave"}
    BY <1>5 DEF IsCurrent
  <2>2. k \in shown \cup ToSet(recovered)
    BY <1>1, <1>10, <2>1 DEF Decrypted
  <2>3. QED
    BY <2>2 DEF Decrypted
<1>11. \A m, k \in Msg : Decrypted(m)' /\ k < m => Taken(k)'
  BY <1>9, <1>10 DEF IInv, FrontInv
<1>12. ASSUME NEW m \in Msg, Decrypted(m)'
       PROVE  Ended'
  <2>1. Decrypted(m) /\ 0 \in Msg
    BY <1>10, <1>12, ConstantTypes
  <2>2. CASE Ended
    BY <1>1, <2>1, <2>2 DEF Ended
  <2>3. CASE ~Ended
    <3>1. PICK s \in Msg : m < expected[s]
      BY <2>1, <2>3 DEF IInv, FrontInv
    <3>2. expected[s] > 0
      BY <3>1, Types, ConstantTypes DEF IInv
    <3>3. pc[0] # "idle"
      BY <3>2 DEF IInv, FrontInv, Untried, Unmade
    <3>4. QED
      BY <1>1, <2>1, <3>3 DEF Ended
  <2>4. QED
    BY <2>2, <2>3
<1>13. FrontInv'
  <2>1. \A s \in Msg : expected'[s] = 0
    BY <1>1
  <2>2. \A s, k \in Msg : ~(k < expected'[s])
    BY <2>1, ConstantTypes
  <2>3. QED
    BY <1>11, <1>12, <2>1, <2>2 DEF FrontInv
<1>14. QED
  BY <1>4, <1>6, <1>8, <1>13 DEF IInv

LEMMA IInvInit == Init => IInv
<1> SUFFICES ASSUME Init PROVE IInv
  OBVIOUS
<1>1. /\ entry = None /\ pend = None /\ shown = {} /\ recovered = <<>> /\ dropped = {}
      /\ \A k \in Msg : pc[k] = "idle" /\ arr[k] = <<>> /\ expected[k] = 0 /\ held[k] = None
  BY DEF Init
<1>2. TypeOK
  <2>1. <<>> \in Seq(Msg) /\ 0 \in 0..N /\ "idle" \in States /\ 0 \in 0..MaxReloads /\ 0 \in 0..MaxFaults
    BY ConstantTypes DEF States
  <2>2. QED
    BY <2>1 DEF Init, TypeOK
<1>3. \A k \in Msg : ~Retrying(k)
  BY <1>1 DEF Retrying
<1>4. ToSet(recovered) = {} /\ \A a \in Msg : ToSet(arr[a]) = {}
  BY <1>1 DEF ToSet
<1>5. RefInv
  BY <1>1, <1>3 DEF RefInv
<1>6. PlaceInv
  BY <1>1, <1>3, <1>4 DEF PlaceInv, IsInjective
<1>7. \A k \in Msg : ~Decrypted(k)
  BY <1>1, <1>3, <1>4 DEF Decrypted, IsCurrent
<1>8. FrontInv
  BY <1>1, <1>7, ConstantTypes DEF FrontInv
<1>9. QED
  BY <1>2, <1>5, <1>6, <1>8 DEF IInv

LEMMA IInvNext == IInv /\ [Next]_vars => IInv'
<1> SUFFICES ASSUME IInv, [Next]_vars PROVE IInv'
  OBVIOUS
<1>1. CASE Reload
  BY <1>1, ReloadKeeps
<1>2. CASE UNCHANGED vars
  BY <1>2 DEF vars, IInv, TypeOK, RefInv, PlaceInv, FrontInv, Ended, Taken, Decrypted, IsCurrent,
              Retrying, Current
<1>3. QED
  BY <1>1, <1>2, WaitingSteps, BeginWarmKeeps, RestoreKeeps, CreateKeeps, CreatedKeeps, SavedKeeps,
     RetrySavedKeeps DEF Next, Arrive, Progress

LEMMA IInvAlways == Spec => []IInv
<1>1. QED
  BY IInvInit, IInvNext, PTL DEF Spec

\* crypto.ts decryptMessage and retryPending, however many calls, retries and reloads overlap:
\* no position is handed over twice, by its own call and a retry or by two retries, and
\* behind a position that was handed over there is no hole.
THEOREM ReceivedOnceInOrder == Spec => []ReceiveInv
<1>1. IInv => ReceiveInv
  <2> SUFFICES ASSUME IInv PROVE ReceiveInv
    OBVIOUS
  <2>1. \A k \in ToSet(recovered) : k \in Msg /\ pc[k] \in {"buffered", "lost"}
    BY Types DEF IInv, PlaceInv, ToSet
  <2>2. \A k \in shown : k \in Msg /\ pc[k] = "shown"
    BY Types DEF IInv, PlaceInv
  <2>3. DecryptedOnce
    BY <2>1, <2>2 DEF IInv, PlaceInv, DecryptedOnce
  <2>4. ShownWithoutHoles
    <3> SUFFICES ASSUME NEW m \in shown \cup ToSet(recovered), NEW k \in 0..(m - 1)
                 PROVE  \/ k \in shown \cup ToSet(recovered) \cup dropped
                        \/ pc[k] \in {"saving", "retrySave", "lost"}
                        \/ \E r \in Msg : Retrying(r) /\ Current(r) = k
      BY DEF ShownWithoutHoles
    <3>1. m \in Msg /\ Decrypted(m)
      BY <2>1, <2>2 DEF Decrypted
    <3>2. k \in Msg /\ k < m
      BY <3>1, ConstantTypes
    <3>3. Taken(k)
      BY <3>1, <3>2 DEF IInv, FrontInv
    <3>4. QED
      BY <3>3 DEF Taken, Decrypted, IsCurrent
  <2>5. QED
    BY <2>3, <2>4 DEF ReceiveInv, IInv
<1>2. QED
  BY <1>1, IInvAlways, PTL

-----------------------------------------------------------------------------
(* What the buffer keeps                                                   *)

\* The array in the map only grows, whatever a call outside retryPending does.
LEMMA PushesGrow ==
  ASSUME TypeOK, NEW m \in Msg, Pushes(m)
  PROVE  /\ pend # None => pend' = pend
         /\ ToSet(Buffered) \subseteq ToSet(Buffered')
         /\ pc'[m] = "buffered" => m \in ToSet(Buffered')
         /\ \A a \in Msg : /\ ToSet(arr[a]) \subseteq ToSet(arr'[a])
                           /\ \A j \in 1..Len(arr[a]) : arr'[a][j] = arr[a][j]
<1>1. \A a \in Msg : arr[a] \in Seq(Msg)
  BY Types
<1>2. CASE pc'[m] # "buffered" /\ pend' = pend /\ arr' = arr
  BY <1>2 DEF Buffered
<1>3. CASE /\ pend' \in Msg /\ pend' = IF pend = None THEN m ELSE pend
           /\ arr'[pend'] = Append(arr[pend'], m) /\ \A a \in Msg \ {pend'} : arr'[a] = arr[a]
  <2>1. ASSUME NEW a \in Msg
        PROVE  /\ ToSet(arr[a]) \subseteq ToSet(arr'[a])
               /\ \A j \in 1..Len(arr[a]) : arr'[a][j] = arr[a][j]
    <3>1. CASE a = pend'
      <4>1. arr'[a] = Append(arr[a], m) /\ arr[a] \in Seq(Msg)
        BY <1>1, <1>3, <3>1
      <4>2. /\ \A j \in 1..Len(arr[a]) : Append(arr[a], m)[j] = arr[a][j]
            /\ ToSet(Append(arr[a], m)) = ToSet(arr[a]) \cup {m}
        BY <4>1, Pushed
      <4>3. QED
        BY <4>1, <4>2
    <3>2. CASE a # pend'
      BY <1>3, <3>2
    <3>3. QED
      BY <3>1, <3>2
  <2>2. Buffered' = arr'[pend'] /\ m \in ToSet(arr'[pend'])
    <3>1. pend' # None
      BY <1>3, ConstantTypes
    <3>2. ToSet(Append(arr[pend'], m)) = ToSet(arr[pend']) \cup {m}
      BY <1>1, <1>3, Pushed
    <3>3. QED
      BY <1>3, <3>1, <3>2 DEF Buffered
  <2>3. ToSet(Buffered) \subseteq ToSet(Buffered')
    <3>1. CASE pend = None
      BY <3>1 DEF Buffered, ToSet
    <3>2. CASE pend # None
      BY <1>3, <2>1, <2>2, <3>2 DEF Buffered
    <3>3. QED
      BY <3>1, <3>2
  <2>4. QED
    BY <1>3, <2>1, <2>2, <2>3
<1>4. QED
  BY <1>2, <1>3 DEF Pushes

LEMMA OwnKeepsBuffer ==
  ASSUME IInv, BufferKept, NEW m \in Msg, OwnStep(m), Pushes(m)
  PROVE  BufferKept'
<1>1. TypeOK /\ RefInv /\ recovered' = recovered /\ dropped \subseteq dropped'
  BY DEF IInv, OwnStep
<1>2. \A r \in Msg : Retrying(r)' => Retrying(r) /\ list'[r] = list[r] /\ idx'[r] = idx[r]
  BY <1>1, RetriesStay
<1>3. \A r, o \in Msg : Retrying(r)' /\ Retrying(o)' => r = o
  BY <1>2 DEF BufferKept
<1>4. ASSUME NEW r \in Msg, Retrying(r)'
      PROVE  /\ pend' = list'[r]
             /\ \A j \in 1..(idx'[r] - 2) : arr'[list'[r]][j] \in ToSet(arr'[r]) \cup ToSet(recovered')
  <2>1. Retrying(r) /\ list'[r] = list[r] /\ idx'[r] = idx[r]
    BY <1>2, <1>4
  <2>2. list[r] \in Msg /\ idx[r] - 1 \in 1..Len(arr[list[r]])
    BY <2>1, CurrentTypes DEF IInv
  <2>3. pend' = list'[r]
    BY <1>1, <2>1, <2>2, PushesGrow, ConstantTypes DEF BufferKept
  <2>4. ASSUME NEW j \in 1..(idx'[r] - 2)
        PROVE  arr'[list'[r]][j] \in ToSet(arr'[r]) \cup ToSet(recovered')
    <3>1. Len(arr[list[r]]) \in Nat /\ idx[r] \in Nat
      <4>1. arr[list[r]] \in Seq(Msg)
        BY <2>2, Types DEF IInv
      <4>2. QED
        BY <4>1, Types DEF IInv
    <3>2. j \in 1..(idx[r] - 2) /\ j \in 1..Len(arr[list[r]])
      BY <2>1, <2>2, <3>1
    <3>3. arr[list[r]][j] \in ToSet(arr[r]) \cup ToSet(recovered)
      BY <2>1, <3>2 DEF BufferKept
    <3>4. arr'[list[r]][j] = arr[list[r]][j] /\ ToSet(arr[r]) \subseteq ToSet(arr'[r])
      BY <1>1, <2>2, <3>2, PushesGrow
    <3>5. QED
      BY <1>1, <2>1, <3>3, <3>4
  <2>5. QED
    BY <2>3, <2>4
<1>5. BufferedUntilDecrypted'
  <2> SUFFICES ASSUME NEW k \in Msg, pc'[k] = "buffered"
               PROVE  k \in ToSet(Buffered') \cup ToSet(recovered') \cup dropped'
    BY DEF BufferedUntilDecrypted
  <2>1. CASE k = m
    BY <1>1, <2>1, PushesGrow
  <2>2. CASE k # m
    <3>1. pc[k] = "buffered"
      BY <2>2 DEF OwnStep
    <3>2. k \in ToSet(Buffered) \cup ToSet(recovered) \cup dropped
      BY <3>1 DEF BufferKept, BufferedUntilDecrypted
    <3>3. QED
      BY <1>1, <3>2, PushesGrow
  <2>3. QED
    BY <2>1, <2>2
<1>6. QED
  BY <1>3, <1>4, <1>5 DEF BufferKept

\* Call m is alone in retryPending, over the array in the map; what it has passed is in
\* remaining or recovered.
Alone(m, a, i, done) ==
  /\ pend = a /\ \A r \in Msg \ {m} : ~Retrying(r)
  /\ \A j \in 1..(i - 1) : arr[a][j] \in ToSet(done) \cup ToSet(recovered')

\* How far call m's retry gets: to index l, and what it passes is in remaining.
LEMMA PassedOver ==
  ASSUME IInv, NEW m \in Msg, NEW s \in Msg, NEW a \in Msg, NEW i, NEW done, ScanOn(m, s, a, i, done),
         Alone(m, a, i, done), NEW l \in Nat, l <= Len(arr[a]), i <= l + 1,
         arr' = [arr EXCEPT ![m] = done \o SubSeq(arr[a], i, l)]
  PROVE  /\ \A b \in Msg \ {m} : arr'[b] = arr[b]
         /\ \A j \in 1..l : arr[a][j] \in ToSet(arr'[m]) \cup ToSet(recovered')
<1>1. arr[a] \in Seq(Msg)
  BY Types DEF IInv
<1>2. i \in 1..(Len(arr[a]) + 1) /\ Len(arr[a]) \in Nat
  BY <1>1 DEF ScanOn
<1>3. /\ \A b \in Msg \ {m} : arr'[b] = arr[b]
      /\ ToSet(arr'[m]) = ToSet(done) \cup Between(arr[a], i, l)
  <2>1. /\ arr' \in [Msg -> Seq(Msg)] /\ \A b \in Msg \ {m} : arr'[b] = arr[b]
        /\ ToSet(arr'[m]) = ToSet(done) \cup Between(arr[a], i, l)
        /\ \A b \in Msg : \A j \in ToSet(arr'[b]) : \E c \in Msg : j \in ToSet(arr[c])
    BY Remaining
  <2>2. QED
    BY <2>1
<1>4. ASSUME NEW j \in 1..l
      PROVE  arr[a][j] \in ToSet(arr'[m]) \cup ToSet(recovered')
  <2>1. CASE j < i
    <3>1. j \in 1..(i - 1)
      BY <1>2, <2>1
    <3>2. QED
      BY <1>3, <3>1 DEF Alone
  <2>2. CASE j >= i
    <3>1. j \in i..l
      BY <1>2, <2>2
    <3>2. QED
      BY <1>3, <3>1 DEF Between
  <2>3. QED
    BY <1>2, <2>1, <2>2
<1>5. QED
  BY <1>3, <1>4

LEMMA ScanKeepsBuffer ==
  ASSUME IInv, BufferedUntilDecrypted, NEW m \in Msg, NEW s \in Msg, NEW a \in Msg, NEW i, NEW done,
         ScanOn(m, s, a, i, done), Alone(m, a, i, done), Scan(m, s, a, i, done)
  PROVE  BufferKept'
<1>1. arr[a] \in Seq(Msg) /\ a # m /\ pc[m] # "buffered" /\ a # None /\ m # None
  BY Types, ConstantTypes DEF IInv, ScanOn, Named
<1>2. i \in 1..(Len(arr[a]) + 1) /\ Len(arr[a]) \in Nat
  BY <1>1 DEF ScanOn
<1>3. ToSet(recovered) \subseteq ToSet(recovered') /\ dropped' = dropped
  BY EventsAfter DEF IInv, ScanOn
<1>4. \A k \in Msg : pc[k] = "buffered" => k \in ToSet(arr[a]) \cup ToSet(recovered) \cup dropped
  BY <1>1 DEF BufferedUntilDecrypted, Buffered, Alone
<1>5. ASSUME NEW k \in i..Len(arr[a]),
             arr' = [arr EXCEPT ![m] = done \o SubSeq(arr[a], i, k - 1)],
             list' = [list EXCEPT ![m] = a], idx' = [idx EXCEPT ![m] = k + 1],
             Goto(m, "retrySave"), UNCHANGED pend
      PROVE  BufferKept'
  <2>1. k \in Nat /\ k - 1 \in Nat /\ k - 1 <= Len(arr[a]) /\ i <= (k - 1) + 1
    BY <1>2
  <2>2. /\ \A b \in Msg \ {m} : arr'[b] = arr[b]
        /\ \A j \in 1..(k - 1) : arr[a][j] \in ToSet(arr'[m]) \cup ToSet(recovered')
    BY <1>5, <2>1, PassedOver
  <2>3. /\ pc'[m] = "retrySave" /\ \A b \in Msg \ {m} : pc'[b] = pc[b]
        /\ list'[m] = a /\ idx'[m] = k + 1
    BY <1>5, Types DEF IInv, Goto
  <2>4. \A r \in Msg : Retrying(r)' => r = m
    BY <2>3 DEF Alone, Retrying
  <2>5. pend' = a /\ arr'[a] = arr[a]
    BY <1>1, <1>5, <2>2 DEF Alone
  <2>6. \A j \in 1..(idx'[m] - 2) : arr'[list'[m]][j] \in ToSet(arr'[m]) \cup ToSet(recovered')
    BY <2>1, <2>2, <2>3, <2>5
  <2>7. Buffered' = arr[a]
    BY <1>1, <2>5 DEF Buffered
  <2>8. BufferedUntilDecrypted'
    BY <1>3, <1>4, <2>3, <2>7 DEF BufferedUntilDecrypted
  <2>9. QED
    BY <2>3, <2>4, <2>5, <2>6, <2>8 DEF BufferKept
<1>6. ASSUME arr' = [arr EXCEPT ![m] = done \o SubSeq(arr[a], i, Len(arr[a]))],
             pend' = IF arr'[m] = <<>> THEN None ELSE m, Goto(m, "shown")
      PROVE  BufferKept'
  <2>1. Len(arr[a]) <= Len(arr[a]) /\ i <= Len(arr[a]) + 1
    BY <1>2
  <2>2. \A j \in 1..Len(arr[a]) : arr[a][j] \in ToSet(arr'[m]) \cup ToSet(recovered')
    BY <1>2, <1>6, <2>1, PassedOver
  <2>3. ToSet(arr[a]) \subseteq ToSet(arr'[m]) \cup ToSet(recovered')
    <3>1. DOMAIN arr[a] = 1..Len(arr[a])
      BY <1>1
    <3>2. QED
      BY <2>2, <3>1 DEF ToSet
  <2>4. pc'[m] = "shown" /\ \A b \in Msg \ {m} : pc'[b] = pc[b]
    BY <1>6, Types DEF IInv, Goto
  <2>5. \A r \in Msg : ~Retrying(r)'
    BY <2>4 DEF Alone, Retrying
  <2>6. Buffered' = arr'[m]
    BY <1>1, <1>6 DEF Buffered
  <2>7. BufferedUntilDecrypted'
    BY <1>3, <1>4, <2>3, <2>4, <2>6 DEF BufferedUntilDecrypted
  <2>8. QED
    BY <2>5, <2>7 DEF BufferKept
<1>7. QED
  BY <1>5, <1>6 DEF Scan

\* A step that leaves overlapped as it is need only keep the buffer when no retries overlap.
LEMMA OverlapStays ==
  ASSUME BufferInv, overlapped' = overlapped, BufferKept => BufferKept'
  PROVE  BufferInv'
BY Zenon DEF BufferInv

LEMMA OwnKeeps ==
  ASSUME IInv, BufferInv, NEW m \in Msg, OwnStep(m), Pushes(m), overlapped' = overlapped
  PROVE  BufferInv'
BY OwnKeepsBuffer, OverlapStays

LEMMA SavedKeepsBuffer ==
  ASSUME IInv, BufferInv, NEW m \in Msg, Saved(m)
  PROVE  BufferInv'
<1>1. pc[m] = "saving" /\ stored' = TRUE /\ UNCHANGED <<entry, recovered, reloads, faults, dropped, forked>>
  BY DEF Saved, faultVars
<1>2. CASE /\ Buffered = <<>>
           /\ shown' = shown \cup {m}
           /\ Goto(m, "shown")
           /\ UNCHANGED <<expected, pend, arr, held, list, idx, overlapped>>
  <2>1. OwnStep(m) /\ Pushes(m)
    BY <1>1, <1>2, HandsOver
  <2>2. overlapped' = overlapped
    BY <1>2
  <2>3. QED
    BY <2>1, <2>2, OwnKeeps
<1>3. CASE /\ Buffered # <<>>
           /\ Scan(m, entry, pend, 1, <<>>)
           /\ overlapped' = (overlapped \/ \E o \in Msg : Retrying(o))
  <2>1. CASE overlapped'
    BY <2>1, Zenon DEF BufferInv
  <2>2. CASE ~overlapped'
    <3>1. ~overlapped /\ \A o \in Msg : ~Retrying(o)
      BY <1>3, <2>2, Zenon
    <3>2. BufferKept
      BY <3>1, Zenon DEF BufferInv
    <3>3. entry \in Msg /\ pc[entry] \notin Unmade
      BY <1>1, Types DEF IInv, RefInv
    <3>4. pend \in Msg /\ pc[pend] \in Named
      BY <1>3, Types DEF IInv, RefInv, Buffered
    <3>5. Len(arr[pend]) \in Nat
      <4>1. arr[pend] \in Seq(Msg)
        BY <3>4, Types DEF IInv
      <4>2. QED
        BY <4>1
    <3>6. <<>> \in Seq(Msg) /\ ToSet(<<>>) = {} /\ 1 \in 1..(Len(arr[pend]) + 1)
      BY <3>5 DEF ToSet
    <3>7. ScanOn(m, entry, pend, 1, <<>>)
      BY <1>1, <3>1, <3>3, <3>4, <3>6 DEF ScanOn
    <3>8. Alone(m, pend, 1, <<>>)
      BY <3>1 DEF Alone
    <3>9. BufferKept'
      BY <1>3, <3>2, <3>3, <3>4, <3>7, <3>8, ScanKeepsBuffer DEF BufferKept
    <3>10. QED
      BY <3>9, Zenon DEF BufferInv
  <2>3. QED
    BY <2>1, <2>2, Zenon
<1>4. QED
  BY <1>2, <1>3 DEF Saved

LEMMA RetrySavedKeepsBuffer ==
  ASSUME IInv, BufferInv, NEW m \in Msg, RetrySaved(m)
  PROVE  BufferInv'
<1>1. /\ Retrying(m) /\ recovered' = Append(recovered, Current(m))
      /\ Scan(m, held[m], list[m], idx[m], arr[m])
      /\ UNCHANGED <<entry, stored, reloads, faults, dropped, forked, overlapped>>
  BY DEF RetrySaved, Retrying, faultVars
<1>2. held[m] \in Msg /\ pc[held[m]] \notin Unmade
  BY <1>1, Types DEF IInv, RefInv, Retrying
<1>3. list[m] \in Msg /\ pc[list[m]] \in Named /\ idx[m] - 1 \in 1..Len(arr[list[m]])
  BY <1>1, CurrentTypes DEF IInv
<1>4. idx[m] \in 1..(Len(arr[list[m]]) + 1) /\ idx[m] \in Nat
  <2>1. arr[list[m]] \in Seq(Msg) /\ idx[m] \in Nat
    BY <1>3, Types DEF IInv
  <2>2. Len(arr[list[m]]) \in Nat
    BY <2>1
  <2>3. QED
    BY <1>3, <2>1, <2>2
<1>5. arr[m] \in Seq(Msg)
  BY Types DEF IInv
<1>6. ScanOn(m, held[m], list[m], idx[m], arr[m])
  BY <1>1, <1>2, <1>3, <1>4, <1>5 DEF ScanOn, Retrying
<1>7. ToSet(recovered') = ToSet(recovered) \cup {Current(m)}
  <2>1. pc[m] \in {"saving", "retrySave"}
    BY <1>1 DEF Retrying
  <2>2. QED
    BY <1>1, <2>1, EventsAfter DEF IInv
<1>8. ASSUME BufferKept
      PROVE  BufferKept'
  <2>1. \A r \in Msg \ {m} : ~Retrying(r)
    BY <1>1, <1>8 DEF BufferKept
  <2>2. pend = list[m]
    BY <1>1, <1>8 DEF BufferKept
  <2>3. ASSUME NEW j \in 1..(idx[m] - 1)
        PROVE  arr[list[m]][j] \in ToSet(arr[m]) \cup ToSet(recovered')
    <3>1. CASE j = idx[m] - 1
      BY <1>7, <3>1 DEF Current
    <3>2. CASE j # idx[m] - 1
      <4>1. j \in 1..(idx[m] - 2)
        BY <1>4, <3>2
      <4>2. arr[list[m]][j] \in ToSet(arr[m]) \cup ToSet(recovered)
        BY <1>1, <1>8, <4>1 DEF BufferKept
      <4>3. QED
        BY <1>7, <4>2
    <3>3. QED
      BY <3>1, <3>2
  <2>4. Alone(m, list[m], idx[m], arr[m])
    BY <2>1, <2>2, <2>3 DEF Alone
  <2>5. BufferedUntilDecrypted
    BY <1>8 DEF BufferKept
  <2>6. QED
    BY <1>1, <1>2, <1>3, <1>6, <2>4, <2>5, ScanKeepsBuffer
<1>9. QED
  BY <1>1, <1>8, OverlapStays

LEMMA ReloadKeepsBuffer ==
  ASSUME BufferInv, Reload
  PROVE  BufferInv'
<1>1. \A k \in Msg : pc'[k] \in {"idle", "shown", "lost"}
  BY DEF Reload
<1>2. BufferKept'
  BY <1>1 DEF BufferKept, BufferedUntilDecrypted, Retrying
<1>3. QED
  BY <1>2, Zenon DEF BufferInv

LEMMA BufferInvInit == Init => BufferInv
<1> SUFFICES ASSUME Init PROVE BufferInv
  OBVIOUS
<1>1. \A k \in Msg : pc[k] = "idle"
  BY DEF Init
<1>2. BufferKept
  BY <1>1 DEF BufferKept, BufferedUntilDecrypted, Retrying
<1>3. QED
  BY <1>2, Zenon DEF BufferInv

LEMMA BufferInvNext == IInv /\ BufferInv /\ [Next]_vars => BufferInv'
<1> SUFFICES ASSUME IInv, BufferInv, [Next]_vars PROVE BufferInv'
  OBVIOUS
<1>1. CASE Reload
  BY <1>1, ReloadKeepsBuffer
<1>2. ASSUME NEW m \in Msg, BeginWarm(m) \/ Restore(m) \/ Created(m) \/ Create(m)
      PROVE  BufferInv'
  <2>1. overlapped' = overlapped
    BY <1>2 DEF BeginWarm, Restore, Created, Create, retryVars
  <2>2. OwnStep(m) /\ Pushes(m)
    BY <1>2, BeginWarmKeeps, RestoreKeeps, CreatedKeeps, CreateKeeps
  <2>3. QED
    BY <2>1, <2>2, OwnKeeps
<1>3. ASSUME NEW m \in Msg, BeginCold(m) \/ LoadRead(m) \/ RestoreFails(m) \/ TxFails(m)
      PROVE  BufferInv'
  <2>1. overlapped' = overlapped
    BY <1>3 DEF BeginCold, LoadRead, RestoreFails, TxFails, faultVars, retryVars
  <2>2. OwnStep(m) /\ Pushes(m)
    BY <1>3, WaitingSteps
  <2>3. QED
    BY <2>1, <2>2, OwnKeeps
<1>4. CASE UNCHANGED vars
  BY <1>4 DEF vars, BufferInv, BufferKept, BufferedUntilDecrypted, Buffered, Retrying
<1>5. QED
  BY <1>1, <1>2, <1>3, <1>4, SavedKeepsBuffer, RetrySavedKeepsBuffer DEF Next, Arrive, Progress

\* crypto.ts:364-367, a ciphertext that fails "is queued and retried": as long as no two
\* retries overlap it stays in the queue of the map until it has been decrypted, whatever
\* arrives while a retry awaits a save, and although the retry replaces the array.
THEOREM ForgottenOnlyByOverlap == Spec => []BufferLossNeedsOverlap
<1>1. BufferInv => BufferLossNeedsOverlap
  BY Zenon DEF BufferInv, BufferKept, BufferLossNeedsOverlap
<1>2. QED
  BY <1>1, BufferInvInit, BufferInvNext, IInvAlways, PTL DEF Spec
====
