--------------------------- MODULE DeviceKeysProofs ---------------------------
(***************************************************************************)
(* Proofs about DeviceKeys, for any number of pages, calls and mishaps:    *)
(* when a page holds a key that is not the stored one, and when a group    *)
(* key is locked away.                                                     *)
(*                                                                         *)
(* The argument: unless two pages store a device key at once there is one  *)
(* device key, so that a record read is a record opened; unless a read     *)
(* fails, a call that goes to make a master key found none; and unless two *)
(* calls make one at once, whoever made one found nothing sealed.          *)
(***************************************************************************)
EXTENDS DeviceKeys, TLAPS

-----------------------------------------------------------------------------
(* The inductive invariant                                                 *)

Loading == {"unwrap", "migrate", "migrating", "loaded"}   \* holds a key read from the record
Sealing == {"wrap", "put"}                                \* holds a key it made
Ended == {"done", "failed"}

\* What a call knows at each stage.
Fits(c, stage, key, under) ==
  /\ stage \in Loading => key # NoKey /\ key # c /\ under # NoKey
  /\ stage = "unwrap" => under # Clear
  /\ stage \in Sealing => key = c
  /\ stage \in {"put", "migrating"} => under \notin {NoKey, Clear}

\* A key is known to others once its maker has ended, and a record is only opened
\* that somebody sealed.
CallInv ==
  \A c \in Call :
    /\ calls[c].stage # "idle" => calls[c].page \in Pages
    /\ Fits(c, calls[c].stage, calls[c].key, calls[c].under)
    /\ calls[c].kind = "open" => sealed[calls[c].of] # NoKey
    /\ sealed[c] # NoKey => calls[c].stage = "done"
    /\ calls[c].key \in Call /\ calls[c].key # c => calls[calls[c].key].stage \in Ended

DiskInv ==
  /\ disk.key \in Call => calls[disk.key].stage \in Ended
  /\ disk.key # NoKey => disk.under # NoKey
  /\ \A p \in Pages : master[p] \in Call => calls[master[p]].stage \in Ended

\* One page at a time stores a device key, and only while there is none.
DeviceInv ==
  /\ \A p \in Pages : promise[p].state \in {"putting", "ready"} => promise[p].key # NoKey
  /\ \/ raced
     \/ /\ \A p \in Pages : promise[p].state = "ready" => promise[p].key = atRest
        /\ \A p \in Pages : promise[p].state = "putting" => atRest = NoKey
        /\ \A p, q \in Pages : promise[p].state = "putting" /\ promise[q].state = "putting" => p = q

\* What is wrapped opens, and an old profile's key is never replaced.
Opens(c, stage, key, under) ==
  /\ stage \in {"unwrap", "put", "migrating"} => under = atRest
  /\ stage \in Loading \ {"unwrap"} => sealed[0] # NoKey
  /\ sealed[0] # NoKey => stage \notin Making /\ (stage \in Loading => key = OldMaster)

RecordInv ==
  \/ raced \/ faults.read > 0
  \/ /\ disk.key # NoKey => disk.under \in {atRest, Clear}
     /\ disk.key # NoKey /\ disk.under = Clear => sealed[0] # NoKey
     /\ sealed[0] # NoKey => disk.key = OldMaster /\ \A p \in Pages : master[p] \in {NoKey, OldMaster}
     /\ \A c \in Call : Opens(c, calls[c].stage, calls[c].key, calls[c].under)
     /\ \A p \in Pages : master[p] # NoKey /\ disk.key # master[p] => disk.by # p \/ LoadedBy(p)

\* One call makes the master key; what is sealed, held or loaded is the stored one.
OneKey ==
  \/ overlapped \/ raced \/ faults.read > 0
  \/ /\ \A c, d \in Call : calls[c].stage \in Making /\ calls[d].stage \in Making => c = d
     /\ \A c \in Call : calls[c].stage \in Making => disk.key = NoKey
     /\ \A r \in 0..MaxCalls : sealed[r] \in {NoKey, disk.key}
     /\ \A p \in Pages : master[p] \in {NoKey, disk.key}
     /\ \A c \in Call : calls[c].stage \in Loading => calls[c].key = disk.key

IInv == /\ TypeOK /\ CallInv /\ DiskInv /\ DeviceInv /\ RecordInv /\ OneKey /\ FailedNeedsFault

-----------------------------------------------------------------------------
(* Type correctness                                                        *)

CallRec == [stage : Stages, page : {0} \cup Pages, kind : {"seal", "open"}, of : 0..MaxCalls,
            key : {NoKey} \cup Master, under : Nat \cup {Clear}, struck : BOOLEAN]

PromiseRec == [state : {"none", "reading", "putting", "ready"}, key : Nat]

LEMMA ConstantTypes ==
  /\ Pages \subseteq Nat /\ 0 \notin Pages /\ MaxCalls \in Nat /\ MaxMishaps \in Nat
  /\ NoKey \notin Master /\ NoKey \notin Call /\ OldMaster \in Master /\ OldMaster \notin Call
  /\ Call \subseteq Master /\ Clear \notin Nat /\ NoKey # Clear /\ NoKey \in Nat
  /\ Call \subseteq 0..MaxCalls /\ 0 \notin Call /\ 0 \in 0..MaxCalls /\ Master \subseteq Nat
  /\ \A r \in 0..MaxCalls : r = 0 \/ r \in Call
BY Bounds DEF Call, NoKey, OldMaster, Master, Clear

CallsTyped == calls \in [Call -> CallRec] /\ sealed \in [0..MaxCalls -> {NoKey} \cup Master]
PagesTyped == promise \in [Pages -> PromiseRec] /\ master \in [Pages -> {NoKey} \cup Master]

\* What the steps below do, without EXCEPT.

Others(c) == \A d \in Call \ {c} : calls'[d] = calls[d]

\* Call c goes on: it stays the same call, and its page asks for the device key or not.
Moves(c, stage, key, under, struck) ==
  /\ CallsTyped' /\ Others(c) /\ sealed' = sealed
  /\ calls'[c].page = calls[c].page /\ calls'[c].kind = calls[c].kind /\ calls'[c].of = calls[c].of
  /\ calls'[c].stage = stage /\ calls'[c].key = key /\ calls'[c].under = under
  /\ calls'[c].struck = struck

\* Call c ends with the master key k.
Ends(c, k) ==
  /\ CallsTyped' /\ Others(c)
  /\ calls'[c].key = k /\ calls'[c].stage \in Ended
  /\ calls'[c].stage = "failed" => calls'[c].kind = "open" /\ sealed[calls'[c].of] # k
  /\ \A r \in 0..MaxCalls : r # c => sealed'[r] = sealed[r]
  /\ calls'[c].kind = "seal" => calls'[c].stage = "done" /\ sealed'[c] = k
  /\ calls'[c].kind = "open" => sealed' = sealed

Stays(c) ==
  /\ calls'[c].page = calls[c].page /\ calls'[c].kind = calls[c].kind
  /\ calls'[c].of = calls[c].of /\ calls'[c].under = calls[c].under

\* No page stores or holds another device key than before.
Quiet == PagesTyped' /\ \A p \in Pages : promise'[p] = promise[p] \/ promise'[p].state \in {"none", "reading"}

LEMMA Typed == TypeOK => CallsTyped /\ PagesTyped
BY DEF TypeOK, CallsTyped, PagesTyped, CallRec, PromiseRec

LEMMA FinishEnds ==
  ASSUME TypeOK, NEW c \in Call, NEW call \in CallRec, NEW k \in Master, Finish(c, call, k)
  PROVE  /\ Ends(c, k)
         /\ calls'[c].page = call.page /\ calls'[c].kind = call.kind
         /\ calls'[c].of = call.of /\ calls'[c].under = call.under
<1>1. calls \in [Call -> CallRec] /\ sealed \in [0..MaxCalls -> {NoKey} \cup Master]
  BY Typed DEF CallsTyped
<1>2. PICK stage \in Ended :
         /\ calls' = [calls EXCEPT ![c] = [call EXCEPT !.stage = stage, !.key = k]]
         /\ stage = "failed" => call.kind = "open" /\ sealed[call.of] # k
         /\ call.kind = "seal" => stage = "done"
  BY DEF Finish, Ended
<1>3. [call EXCEPT !.stage = stage, !.key = k] \in CallRec
  BY DEF CallRec, Ended, Stages, Settled
<1>4. sealed' = IF call.kind = "seal" THEN [sealed EXCEPT ![c] = k] ELSE sealed
  BY DEF Finish
<1>5. /\ calls' \in [Call -> CallRec] /\ \A d \in Call \ {c} : calls'[d] = calls[d]
      /\ calls'[c] = [call EXCEPT !.stage = stage, !.key = k]
  BY <1>1, <1>2, <1>3
<1>6. /\ calls'[c].key = k /\ calls'[c].page = call.page /\ calls'[c].kind = call.kind
      /\ calls'[c].of = call.of /\ calls'[c].under = call.under
      /\ calls'[c].stage = stage
  BY <1>5 DEF CallRec
<1>7. /\ sealed' \in [0..MaxCalls -> {NoKey} \cup Master]
      /\ \A r \in 0..MaxCalls : r # c => sealed'[r] = sealed[r]
      /\ call.kind = "seal" => sealed'[c] = k
      /\ call.kind = "open" => sealed' = sealed
  BY <1>1, <1>4, ConstantTypes
<1>8. QED
  BY <1>2, <1>5, <1>6, <1>7 DEF Ended, Ends, Others, CallsTyped

LEMMA UpdateMoves ==
  ASSUME TypeOK, NEW c \in Call, NEW stage \in Stages, NEW k \in {NoKey} \cup Master,
         NEW u \in Nat \cup {Clear}, NEW struck \in BOOLEAN, sealed' = sealed,
         \/ calls' = [calls EXCEPT ![c].stage = stage]
              /\ k = calls[c].key /\ u = calls[c].under /\ struck = calls[c].struck
         \/ calls' = [calls EXCEPT ![c] = [@ EXCEPT !.stage = stage, !.key = k]]
              /\ u = calls[c].under /\ struck = calls[c].struck
         \/ calls' = [calls EXCEPT ![c] = [@ EXCEPT !.stage = stage, !.under = u]]
              /\ k = calls[c].key /\ struck = calls[c].struck
         \/ calls' = [calls EXCEPT ![c] = [@ EXCEPT !.stage = stage, !.struck = struck]]
              /\ k = calls[c].key /\ u = calls[c].under
         \/ calls' = [calls EXCEPT ![c] = [@ EXCEPT !.stage = stage, !.key = k, !.under = u]]
              /\ struck = calls[c].struck
  PROVE  Moves(c, stage, k, u, struck)
<1>1. calls \in [Call -> CallRec] /\ CallsTyped
  BY Typed DEF CallsTyped
<1>2. calls[c] \in CallRec
  BY <1>1
<1>3. PICK call \in CallRec :
        /\ calls' = [calls EXCEPT ![c] = call]
        /\ call.page = calls[c].page /\ call.kind = calls[c].kind /\ call.of = calls[c].of
        /\ call.stage = stage /\ call.key = k /\ call.under = u /\ call.struck = struck
  <2>1. CASE /\ calls' = [calls EXCEPT ![c].stage = stage]
             /\ k = calls[c].key /\ u = calls[c].under /\ struck = calls[c].struck
    <3> DEFINE call == [calls[c] EXCEPT !.stage = stage]
    <3>1. call \in CallRec /\ calls' = [calls EXCEPT ![c] = call]
      BY <2>1, <1>2 DEF CallRec
    <3>2. QED
      BY <2>1, <1>2, <3>1 DEF CallRec
  <2>2. CASE /\ calls' = [calls EXCEPT ![c] = [@ EXCEPT !.stage = stage, !.key = k]]
             /\ u = calls[c].under /\ struck = calls[c].struck
    <3> DEFINE call == [calls[c] EXCEPT !.stage = stage, !.key = k]
    <3>1. call \in CallRec /\ calls' = [calls EXCEPT ![c] = call]
      BY <2>2, <1>2 DEF CallRec
    <3>2. QED
      BY <2>2, <1>2, <3>1 DEF CallRec
  <2>3. CASE /\ calls' = [calls EXCEPT ![c] = [@ EXCEPT !.stage = stage, !.under = u]]
             /\ k = calls[c].key /\ struck = calls[c].struck
    <3> DEFINE call == [calls[c] EXCEPT !.stage = stage, !.under = u]
    <3>1. call \in CallRec /\ calls' = [calls EXCEPT ![c] = call]
      BY <2>3, <1>2 DEF CallRec
    <3>2. QED
      BY <2>3, <1>2, <3>1 DEF CallRec
  <2>4. CASE /\ calls' = [calls EXCEPT ![c] = [@ EXCEPT !.stage = stage, !.struck = struck]]
             /\ k = calls[c].key /\ u = calls[c].under
    <3> DEFINE call == [calls[c] EXCEPT !.stage = stage, !.struck = struck]
    <3>1. call \in CallRec /\ calls' = [calls EXCEPT ![c] = call]
      BY <2>4, <1>2 DEF CallRec
    <3>2. QED
      BY <2>4, <1>2, <3>1 DEF CallRec
  <2>5. CASE /\ calls' = [calls EXCEPT ![c] = [@ EXCEPT !.stage = stage, !.key = k, !.under = u]]
             /\ struck = calls[c].struck
    <3> DEFINE call == [calls[c] EXCEPT !.stage = stage, !.key = k, !.under = u]
    <3>1. call \in CallRec /\ calls' = [calls EXCEPT ![c] = call]
      BY <2>5, <1>2 DEF CallRec
    <3>2. QED
      BY <2>5, <1>2, <3>1 DEF CallRec
  <2>6. QED
    BY <2>1, <2>2, <2>3, <2>4, <2>5
<1>4. calls' \in [Call -> CallRec] /\ calls'[c] = call /\ Others(c)
  BY <1>1, <1>3 DEF Others
<1>5. QED
  BY <1>1, <1>3, <1>4 DEF Moves, CallsTyped

LEMMA AskedQuiet ==
  ASSUME TypeOK, NEW p \in Pages, promise' = Asked(p), master' = master
  PROVE  Quiet
<1>1. promise \in [Pages -> PromiseRec] /\ PagesTyped
  BY Typed DEF PagesTyped
<1>2. promise' \in [Pages -> PromiseRec]
      /\ \A q \in Pages : promise'[q] = promise[q] \/ promise'[q].state = "reading"
  BY <1>1 DEF Asked, PromiseRec
<1>3. QED
  BY <1>1, <1>2 DEF Quiet, PagesTyped
-----------------------------------------------------------------------------
(* Steps of one call                                                       *)

LEMMA MoveCalls ==
  ASSUME TypeOK, CallInv, FailedNeedsFault, NEW c \in Call, NEW stage \in Stages, NEW k, NEW u, NEW struck,
         Moves(c, stage, k, u, struck), calls[c].stage \notin Ended,
         calls[c].page \in Pages, Fits(c, stage, k, u), stage # "done",
         k \in Call /\ k # c => calls[k].stage \in Ended, stage = "failed" => struck
  PROVE  CallInv' /\ FailedNeedsFault' /\ \A d \in Call : calls[d].stage \in Ended => calls'[d] = calls[d]
<1>1. /\ \A d \in Call : d # c => calls'[d] = calls[d]
      /\ sealed' = sealed /\ sealed[c] = NoKey
      /\ calls'[c].page = calls[c].page /\ calls'[c].kind = calls[c].kind /\ calls'[c].of = calls[c].of
      /\ calls'[c].stage = stage /\ calls'[c].key = k /\ calls'[c].under = u /\ calls'[c].struck = struck
  BY DEF Moves, Others, CallInv, Ended
<1>2. \A d \in Call : calls[d].stage \in Ended => calls'[d] = calls[d]
  BY <1>1
<1>3. ASSUME NEW d \in Call
      PROVE  /\ calls'[d].stage # "idle" => calls'[d].page \in Pages
             /\ Fits(d, calls'[d].stage, calls'[d].key, calls'[d].under)
             /\ calls'[d].kind = "open" => sealed'[calls'[d].of] # NoKey
             /\ sealed'[d] # NoKey => calls'[d].stage = "done"
             /\ calls'[d].key \in Call /\ calls'[d].key # d => calls'[calls'[d].key].stage \in Ended
  BY <1>1, <1>2 DEF CallInv
<1>4. CallInv'
  BY <1>3 DEF CallInv, Fits
<1>5. FailedNeedsFault'
  BY <1>1 DEF FailedNeedsFault
<1>6. QED
  BY <1>2, <1>4, <1>5

LEMMA EndCalls ==
  ASSUME TypeOK, CallInv, FailedNeedsFault, NEW c \in Call, NEW k \in Master, Ends(c, k),
         calls[c].stage \notin Ended, calls'[c].page \in Pages,
         calls'[c].kind = "open" => sealed[calls'[c].of] # NoKey,
         k \in Call /\ k # c => calls[k].stage \in Ended
  PROVE  CallInv' /\ FailedNeedsFault' /\ \A d \in Call : calls[d].stage \in Ended => calls'[d] = calls[d]
<1>1. /\ \A d \in Call : d # c => calls'[d] = calls[d]
      /\ calls'[c].key = k /\ calls'[c].stage \in Ended /\ sealed[c] = NoKey /\ k # NoKey
      /\ \A r \in 0..MaxCalls : r # c => sealed'[r] = sealed[r]
      /\ calls'[c].kind \in {"seal", "open"}
      /\ calls'[c].kind = "seal" => calls'[c].stage = "done" /\ sealed'[c] = k
      /\ calls'[c].kind = "open" => sealed' = sealed
  BY ConstantTypes DEF Ends, Others, CallInv, Ended, CallsTyped, CallRec
<1>2. \A d \in Call : calls[d].stage \in Ended => calls'[d] = calls[d]
  BY <1>1
<1>3. \A r \in 0..MaxCalls : sealed[r] # NoKey => sealed'[r] = sealed[r]
  BY <1>1
<1>4. \A d \in Call : calls[d].of \in 0..MaxCalls /\ calls'[d].of \in 0..MaxCalls
  BY Typed DEF Ends, CallsTyped, CallRec
<1>5. ASSUME NEW d \in Call
      PROVE  /\ calls'[d].stage # "idle" => calls'[d].page \in Pages
             /\ Fits(d, calls'[d].stage, calls'[d].key, calls'[d].under)
             /\ calls'[d].kind = "open" => sealed'[calls'[d].of] # NoKey
             /\ sealed'[d] # NoKey => calls'[d].stage = "done"
             /\ calls'[d].key \in Call /\ calls'[d].key # d => calls'[calls'[d].key].stage \in Ended
  <2>1. CASE d = c
    <3>1. Fits(c, calls'[c].stage, calls'[c].key, calls'[c].under)
      BY <1>1 DEF Fits, Loading, Sealing, Ended
    <3>2. sealed'[c] # NoKey => calls'[c].stage = "done"
      BY <1>1
    <3>3. QED
      BY <2>1, <3>1, <3>2, <1>1, <1>2, <1>3, <1>4
  <2>2. CASE d # c
    <3>1. calls'[d] = calls[d] /\ sealed'[d] = sealed[d]
      BY <2>2, <1>1, ConstantTypes
    <3>2. calls[d].kind = "open" => sealed'[calls[d].of] # NoKey
      BY <1>3, <1>4 DEF CallInv
    <3>3. calls[d].key \in Call /\ calls[d].key # d => calls'[calls[d].key].stage \in Ended
      BY <1>2 DEF CallInv
    <3>4. QED
      BY <3>1, <3>2, <3>3 DEF CallInv
  <2>3. QED
    BY <2>1, <2>2
<1>6. CallInv'
  BY <1>5 DEF CallInv, Fits
<1>7. FailedNeedsFault'
  <2>1. ASSUME NEW d \in Call, calls'[d].stage = "failed"
        PROVE  calls'[d].struck \/ (calls'[d].kind = "open" /\ calls'[d].key \notin {NoKey, sealed'[calls'[d].of]})
    <3>1. CASE d = c
      BY <2>1, <3>1, <1>1 DEF Ends
    <3>2. CASE d # c
      BY <2>1, <3>2, <1>1, <1>3, <1>4 DEF FailedNeedsFault, CallInv
    <3>3. QED
      BY <3>1, <3>2
  <2>2. QED
    BY <2>1 DEF FailedNeedsFault
<1>8. QED
  BY <1>2, <1>6, <1>7

\* Nothing is forgotten of the calls that have ended.
Lasting == \A d \in Call : calls[d].stage \in Ended => calls'[d] = calls[d]

LEMMA LoadedLasts ==
  ASSUME NEW p \in Pages, Lasting, LoadedBy(p), master'[p] = master[p]
  PROVE  LoadedBy(p)'
BY DEF Lasting, LoadedBy, Ended

LEMMA MoveRecord ==
  ASSUME TypeOK, RecordInv, NEW c \in Call, NEW stage, NEW k, NEW u, NEW struck,
         Moves(c, stage, k, u, struck), Lasting,
         UNCHANGED <<atRest, disk, master>>, raced => raced', faults'.read = faults.read,
         raced \/ Opens(c, stage, k, u)
  PROVE  RecordInv'
<1>1. CASE raced \/ faults.read > 0
  BY <1>1 DEF RecordInv
<1>2. CASE ~raced /\ ~(faults.read > 0)
  <2>1. \A d \in Call : Opens(d, calls'[d].stage, calls'[d].key, calls'[d].under)
    BY <1>2 DEF RecordInv, Moves, Others
  <2>2. \A p \in Pages : LoadedBy(p) => LoadedBy(p)'
    BY LoadedLasts
  <2>3. sealed' = sealed
    BY DEF Moves
  <2>4. \A d \in Call : Opens(d, calls[d].stage, calls[d].key, calls[d].under)'
    BY <2>1, <2>3 DEF Opens
  <2>5. QED
    BY <1>2, <2>2, <2>3, <2>4 DEF RecordInv
<1>3. QED
  BY <1>1, <1>2

LEMMA MoveOneKey ==
  ASSUME TypeOK, OneKey, NEW c \in Call, NEW stage, NEW k, NEW u, NEW struck,
         Moves(c, stage, k, u, struck), UNCHANGED <<disk, master>>,
         raced => raced', overlapped => overlapped', faults'.read = faults.read,
         \/ raced
         \/ overlapped'
         \/ faults.read > 0
         \/ /\ stage \in Making => calls[c].stage \in Making
                                     \/ (disk.key = NoKey /\ \A d \in Call : calls[d].stage \notin Making)
            /\ stage \in Loading => k = disk.key
  PROVE  OneKey'
<1>1. /\ \A d \in Call : d # c => calls'[d] = calls[d]
      /\ calls'[c].stage = stage /\ calls'[c].key = k /\ sealed' = sealed
  BY DEF Moves, Others
<1>2. QED
  BY <1>1 DEF OneKey

\* Call c ended with the key k, which its page holds now or held before.
LEMMA EndRecord ==
  ASSUME TypeOK, RecordInv, NEW c \in Call, NEW k \in Master, Ends(c, k), Lasting,
         UNCHANGED <<atRest, disk>>, raced => raced', faults'.read = faults.read,
         raced \/ faults.read > 0 \/ (sealed[0] # NoKey => k = OldMaster),
         \A p \in Pages : \/ master'[p] = master[p]
                          \/ /\ p = calls'[c].page /\ master'[p] = k
                             /\ calls'[c].under # NoKey /\ k # c
  PROVE  RecordInv'
<1>1. CASE raced \/ faults.read > 0
  BY <1>1 DEF RecordInv
<1>2. CASE ~raced /\ ~(faults.read > 0)
  <2>1. sealed'[0] = sealed[0] /\ (sealed[0] # NoKey => k = OldMaster)
    BY <1>2, ConstantTypes DEF Ends
  <2>2. \A d \in Call : Opens(d, calls'[d].stage, calls'[d].key, calls'[d].under)
    <3>1. \A d \in Call : Opens(d, calls[d].stage, calls[d].key, calls[d].under)
      BY <1>2 DEF RecordInv
    <3>2. Opens(c, calls'[c].stage, calls'[c].key, calls'[c].under)
      BY DEF Ends, Ended, Opens, Loading, Making
    <3>3. QED
      BY <3>1, <3>2 DEF Ends, Others
  <2>3. \A d \in Call : Opens(d, calls[d].stage, calls[d].key, calls[d].under)'
    BY <2>1, <2>2 DEF Opens
  <2>4. ASSUME NEW p \in Pages, master'[p] # NoKey, disk'.key # master'[p]
        PROVE  disk'.by # p \/ LoadedBy(p)'
    <3>1. CASE master'[p] = master[p]
      BY <1>2, <2>4, <3>1, LoadedLasts DEF RecordInv
    <3>2. CASE p = calls'[c].page /\ master'[p] = k /\ calls'[c].under # NoKey /\ k # c
      BY <3>2 DEF Ends, LoadedBy, Ended
    <3>3. QED
      BY <3>1, <3>2
  <2>5. QED
    BY <1>2, <2>1, <2>3, <2>4 DEF RecordInv
<1>3. QED
  BY <1>1, <1>2

LEMMA EndOneKey ==
  ASSUME TypeOK, OneKey, NEW c \in Call, NEW k \in Master, Ends(c, k), disk' = disk,
         raced => raced', overlapped => overlapped', faults'.read = faults.read,
         raced \/ overlapped \/ faults.read > 0 \/ k = disk.key,
         \A p \in Pages : master'[p] \in {master[p], k}
  PROVE  OneKey'
<1>1. CASE raced \/ overlapped \/ faults.read > 0
  BY <1>1 DEF OneKey
<1>2. CASE ~(raced \/ overlapped \/ faults.read > 0)
  <2>1. \A d \in Call : calls'[d].stage \in Making => d # c
    BY DEF Ends, Ended, Making
  <2>2. \A d \in Call : calls'[d].stage \in Loading => d # c
    BY DEF Ends, Ended, Loading
  <2>3. \A r \in 0..MaxCalls : sealed'[r] \in {NoKey, disk.key}
    <3>1. \A r \in 0..MaxCalls : sealed[r] \in {NoKey, disk.key}
      BY <1>2 DEF OneKey
    <3>2. calls'[c].kind \in {"seal", "open"}
      BY DEF Ends, CallsTyped, CallRec
    <3>3. QED
      BY <1>2, <3>1, <3>2 DEF Ends
  <2>4. QED
    BY <1>2, <2>1, <2>2, <2>3 DEF OneKey, Ends, Others
<1>3. QED
  BY <1>1, <1>2

LEMMA KeysOnDisk ==
  ASSUME DiskInv, Lasting, disk' = disk,
         \A p \in Pages : \/ master'[p] = master[p]
                          \/ master'[p] = NoKey
                          \/ master'[p] \in Call => calls[master'[p]].stage \in Ended
                                                      \/ calls'[master'[p]].stage \in Ended
  PROVE  DiskInv'
<1>1. \A d \in Call : calls[d].stage \in Ended => calls'[d].stage \in Ended
  BY DEF Lasting
<1>2. QED
  BY <1>1, ConstantTypes DEF DiskInv

LEMMA QuietDevice ==
  ASSUME DeviceInv, Quiet, atRest' = atRest, raced' = raced
  PROVE  DeviceInv'
<1>1. \A p \in Pages : promise'[p].state \in {"putting", "ready"} => promise'[p] = promise[p]
  BY DEF Quiet
<1>2. QED
  BY <1>1 DEF DeviceInv

LEMMA SameTypes ==
  ASSUME TypeOK, CallsTyped', PagesTyped', atRest' \in Nat, ring' \in Nat,
         disk' \in [key : {NoKey} \cup Master, under : Nat \cup {Clear}, by : {0} \cup Pages],
         faults' \in [{"read", "write"} -> 0..MaxMishaps], reloads' \in 0..MaxMishaps,
         overlapped' \in BOOLEAN, raced' \in BOOLEAN
  PROVE  TypeOK'
BY DEF TypeOK, CallsTyped, CallRec, PagesTyped, PromiseRec

\* A failing request leaves its mark.
LEMMA FaultCounts ==
  ASSUME TypeOK, NEW kind \in {"read", "write"}, Fault(kind)
  PROVE  /\ faults' \in [{"read", "write"} -> 0..MaxMishaps]
         /\ kind = "read" => faults'.read > 0
         /\ kind = "write" => faults'.read = faults.read
         /\ faults.read > 0 => faults'.read > 0
<1>1. /\ faults \in [{"read", "write"} -> 0..MaxMishaps] /\ reloads \in 0..MaxMishaps
      /\ MaxMishaps \in Nat
  BY ConstantTypes DEF TypeOK
<1>2. faults.read + faults.write + reloads < MaxMishaps /\ faults' = [faults EXCEPT ![kind] = @ + 1]
  BY DEF Fault, MishapLeft
<1>3. faults[kind] + 1 \in 0..MaxMishaps
  BY <1>1, <1>2
<1>4. faults' \in [{"read", "write"} -> 0..MaxMishaps]
  BY <1>1, <1>2, <1>3
<1>5. faults'["read"] = IF kind = "read" THEN faults["read"] + 1 ELSE faults["read"]
  BY <1>1, <1>2
<1>6. QED
  BY <1>1, <1>4, <1>5

-----------------------------------------------------------------------------
(* The actions                                                             *)

LEMMA AsksKeep ==
  ASSUME IInv, NEW p \in Pages, StoreAsks(p)
  PROVE  IInv'
<1>1. Quiet /\ UNCHANGED <<atRest, ring, disk, master, calls, sealed, faults, reloads, overlapped, raced>>
  BY AskedQuiet DEF StoreAsks, ghosts, IInv
<1>2. TypeOK'
  BY <1>1, Typed, SameTypes DEF IInv, TypeOK, Quiet, CallsTyped
<1>3. DeviceInv'
  BY <1>1, QuietDevice DEF IInv
<1>4. CallInv' /\ DiskInv' /\ RecordInv' /\ OneKey' /\ FailedNeedsFault'
  <2>1. CallInv' /\ FailedNeedsFault'
    BY <1>1 DEF IInv, CallInv, Fits, FailedNeedsFault
  <2>2. DiskInv' /\ OneKey'
    BY <1>1 DEF IInv, DiskInv, OneKey
  <2>3. RecordInv'
    BY <1>1 DEF IInv, RecordInv, Opens, LoadedBy
  <2>4. QED
    BY <2>1, <2>2, <2>3
<1>5. QED
  BY <1>2, <1>3, <1>4 DEF IInv

LEMMA DeviceRaceOnly ==
  ASSUME RecordInv, OneKey, raced => raced',
         UNCHANGED <<atRest, disk, master, calls, sealed, faults, overlapped>>
  PROVE  RecordInv' /\ OneKey'
<1>1. \A c \in Call : Opens(c, calls[c].stage, calls[c].key, calls[c].under)
                        => Opens(c, calls[c].stage, calls[c].key, calls[c].under)'
  BY DEF Opens
<1>2. \A p \in Pages : LoadedBy(p) => LoadedBy(p)'
  BY DEF LoadedBy
<1>3. RecordInv'
  BY <1>1, <1>2 DEF RecordInv
<1>4. OneKey'
  BY DEF OneKey
<1>5. QED
  BY <1>3, <1>4

LEMMA ReadDeviceKeyKeeps ==
  ASSUME IInv, NEW p \in Pages, ReadDeviceKey(p)
  PROVE  IInv'
<1>1. UNCHANGED <<atRest, disk, master, calls, sealed, faults, reloads, overlapped>>
  BY DEF ReadDeviceKey
<1>2. promise \in [Pages -> PromiseRec] /\ atRest \in Nat /\ ring \in Nat /\ raced \in BOOLEAN
  BY Typed DEF IInv, TypeOK, PagesTyped
<1>3. PICK r \in PromiseRec :
        /\ promise' = [promise EXCEPT ![p] = r] /\ ring' \in Nat /\ r.key # NoKey
        /\ \/ atRest # NoKey /\ r.state = "ready" /\ r.key = atRest /\ raced' = raced
           \/ /\ atRest = NoKey /\ r.state = "putting"
              /\ raced' = (raced \/ \E q \in Pages : promise[q].state = "putting")
  <2>1. CASE atRest # NoKey
    <3>1. [state |-> "ready", key |-> atRest] \in PromiseRec
      BY <1>2 DEF PromiseRec
    <3>2. QED
      BY <2>1, <3>1, <1>2 DEF ReadDeviceKey
  <2>2. CASE atRest = NoKey
    <3>1. [state |-> "putting", key |-> ring + 1] \in PromiseRec /\ ring + 1 # NoKey /\ ring + 1 \in Nat
      BY <1>2 DEF PromiseRec, NoKey
    <3>2. QED
      BY <2>2, <3>1 DEF ReadDeviceKey
  <2>3. QED
    BY <2>1, <2>2
<1>4. /\ promise' \in [Pages -> PromiseRec] /\ promise'[p].state = r.state /\ promise'[p].key = r.key
      /\ \A q \in Pages : q # p => promise'[q] = promise[q]
  BY <1>2, <1>3
<1>10. raced' \in BOOLEAN
  BY <1>2, <1>3
<1>11. raced => raced'
  BY <1>3, Zenon
<1>5. TypeOK'
  BY <1>1, <1>3, <1>4, <1>10, Typed, SameTypes DEF IInv, TypeOK, CallsTyped, PagesTyped
<1>6. DeviceInv'
  <2>1. \A q \in Pages : promise'[q].state \in {"putting", "ready"} => promise'[q].key # NoKey
    BY <1>3, <1>4 DEF IInv, DeviceInv
  <2>2. CASE raced'
    BY <2>1, <2>2 DEF DeviceInv
  <2>3. CASE ~raced' /\ atRest # NoKey
    BY <1>1, <1>3, <1>4, <2>1, <2>3 DEF IInv, DeviceInv
  <2>4. CASE ~raced' /\ atRest = NoKey
    <3>1. ~raced /\ r.state = "putting" /\ \A q \in Pages : promise[q].state # "putting"
      BY <1>3, <2>4
    <3>2. \A q \in Pages : promise'[q].state = "putting" => q = p
      BY <1>4, <3>1
    <3>3. ASSUME NEW q \in Pages, promise'[q].state = "ready"
          PROVE  promise'[q].key = atRest
      <4>1. q # p
        BY <1>4, <3>1, <3>3
      <4>2. QED
        BY <4>1, <3>1, <3>3, <1>4 DEF IInv, DeviceInv
    <3>4. QED
      BY <1>1, <2>1, <2>4, <3>2, <3>3 DEF DeviceInv
  <2>5. QED
    BY <2>2, <2>3, <2>4
<1>7. CallInv' /\ DiskInv' /\ FailedNeedsFault'
  BY <1>1 DEF IInv, CallInv, Fits, DiskInv, FailedNeedsFault
<1>8. RecordInv' /\ OneKey'
  BY <1>1, <1>11, DeviceRaceOnly, Zenon DEF IInv
<1>9. QED
  BY <1>5, <1>6, <1>7, <1>8 DEF IInv

LEMMA PutDeviceKeyKeeps ==
  ASSUME IInv, NEW p \in Pages, PutDeviceKey(p)
  PROVE  IInv'
<1>1. /\ UNCHANGED <<ring, disk, master, calls, sealed, faults, reloads, overlapped, raced>>
      /\ promise[p].state = "putting" /\ atRest' = promise[p].key
      /\ promise' = [promise EXCEPT ![p].state = "ready"]
  BY DEF PutDeviceKey, ghosts
<1>2. promise \in [Pages -> PromiseRec] /\ atRest \in Nat
  BY Typed DEF IInv, TypeOK, PagesTyped
<1>3. /\ promise' \in [Pages -> PromiseRec] /\ atRest' \in Nat
      /\ promise'[p].state = "ready" /\ promise'[p].key = promise[p].key
      /\ \A q \in Pages : q # p => promise'[q] = promise[q]
  BY <1>1, <1>2 DEF PromiseRec
<1>4. TypeOK'
  BY <1>1, <1>3, Typed, SameTypes DEF IInv, TypeOK, CallsTyped, PagesTyped
<1>5. raced \/ atRest = NoKey
  BY <1>1 DEF IInv, DeviceInv
<1>6. DeviceInv'
  BY <1>1, <1>3, <1>5 DEF IInv, DeviceInv
<1>7. RecordInv'
  <2>1. CASE raced \/ faults.read > 0
    BY <1>1, <2>1 DEF RecordInv
  <2>2. CASE ~raced /\ ~(faults.read > 0)
    <3>1. atRest = NoKey
      BY <1>5, <2>2
    <3>2. \A c \in Call : calls[c].stage \notin {"unwrap", "put", "migrating"}
      BY <2>2, <3>1 DEF IInv, RecordInv, Opens, CallInv, Fits, Loading
    <3>3. disk.key # NoKey => disk.under = Clear
      BY <2>2, <3>1 DEF IInv, RecordInv, DiskInv
    <3>4. \A c \in Call : Opens(c, calls[c].stage, calls[c].key, calls[c].under)'
      BY <1>1, <2>2, <3>2 DEF IInv, RecordInv, Opens
    <3>5. QED
      BY <1>1, <2>2, <3>3, <3>4 DEF IInv, RecordInv, LoadedBy
  <2>3. QED
    BY <2>1, <2>2
<1>8. CallInv' /\ DiskInv' /\ OneKey' /\ FailedNeedsFault'
  BY <1>1 DEF IInv, CallInv, Fits, DiskInv, OneKey, FailedNeedsFault
<1>9. QED
  BY <1>4, <1>6, <1>7, <1>8 DEF IInv

\* A call goes on, and nothing else changes but what its page asks for.
LEMMA MoveKeeps ==
  ASSUME IInv, NEW c \in Call, NEW stage \in Stages, NEW k, NEW u, NEW struck,
         Moves(c, stage, k, u, struck), Quiet,
         UNCHANGED <<atRest, ring, disk, master, reloads, raced>>,
         faults' \in [{"read", "write"} -> 0..MaxMishaps],
         overlapped' \in BOOLEAN, overlapped => overlapped',
         calls[c].stage \notin Ended, stage # "done", stage = "failed" => struck,
         calls[c].page \in Pages, Fits(c, stage, k, u),
         k \in Call /\ k # c => calls[k].stage \in Ended,
         \/ faults'.read > 0
         \/ /\ faults'.read = faults.read
            /\ raced \/ faults.read > 0 \/ Opens(c, stage, k, u)
            /\ \/ raced \/ overlapped' \/ faults.read > 0
               \/ /\ stage \in Making => calls[c].stage \in Making
                                           \/ (disk.key = NoKey /\ \A d \in Call : calls[d].stage \notin Making)
                  /\ stage \in Loading => k = disk.key
  PROVE  IInv'
<1>1. CallInv' /\ FailedNeedsFault' /\ Lasting
  BY MoveCalls DEF IInv, Lasting
<1>2. TypeOK'
  BY Typed, SameTypes DEF IInv, TypeOK, Moves, Quiet
<1>3. DeviceInv'
  BY QuietDevice DEF IInv
<1>4. DiskInv'
  BY <1>1, KeysOnDisk DEF IInv
<1>5. RecordInv' /\ OneKey'
  <2>1. CASE faults'.read > 0
    BY <2>1 DEF RecordInv, OneKey
  <2>2. CASE ~(faults'.read > 0)
    <3>1. RecordInv'
      <4>1. raced \/ Opens(c, stage, k, u)
        BY <2>2
      <4>2. QED
        BY <1>1, <2>2, <4>1, MoveRecord DEF IInv
    <3>2. OneKey'
      BY <2>2, MoveOneKey DEF IInv
    <3>3. QED
      BY <3>1, <3>2
  <2>3. QED
    BY <2>1, <2>2
<1>6. QED
  BY <1>1, <1>2, <1>3, <1>4, <1>5 DEF IInv

\* A call ends with a key its page holds or takes.
LEMMA EndKeeps ==
  ASSUME IInv, NEW c \in Call, NEW k \in Master, Ends(c, k),
         UNCHANGED <<atRest, ring, promise, disk, faults, reloads, overlapped, raced>>,
         PagesTyped', calls[c].stage \notin Ended, calls'[c].page \in Pages,
         calls'[c].kind = "open" => sealed[calls'[c].of] # NoKey,
         k \in Call => k # c /\ calls[k].stage \in Ended,
         raced \/ faults.read > 0 \/ (sealed[0] # NoKey => k = OldMaster),
         raced \/ overlapped \/ faults.read > 0 \/ k = disk.key,
         \A p \in Pages : \/ master'[p] = master[p]
                          \/ p = calls'[c].page /\ master'[p] = k /\ calls'[c].under # NoKey
  PROVE  IInv'
<1>1. CallInv' /\ FailedNeedsFault' /\ Lasting
  BY EndCalls DEF IInv, Lasting
<1>2. TypeOK'
  BY SameTypes DEF IInv, TypeOK, Ends
<1>3. DeviceInv'
  BY DEF IInv, DeviceInv
<1>4. DiskInv'
  BY <1>1, KeysOnDisk DEF IInv
<1>5. RecordInv'
  <2>1. k # c
    BY ConstantTypes
  <2>2. QED
    BY <1>1, <2>1, EndRecord DEF IInv
<1>6. OneKey'
  BY EndOneKey DEF IInv
<1>7. QED
  BY <1>1, <1>2, <1>3, <1>4, <1>5, <1>6 DEF IInv

LEMMA CallFacts ==
  ASSUME IInv, NEW c \in Call
  PROVE  /\ calls[c].stage \in Stages /\ calls[c].key \in {NoKey} \cup Master
         /\ calls[c].under \in Nat \cup {Clear} /\ calls[c].struck \in BOOLEAN
         /\ calls[c].page \in {0} \cup Pages /\ calls[c].kind \in {"seal", "open"}
         /\ calls[c].stage # "idle" => calls[c].page \in Pages
         /\ Fits(c, calls[c].stage, calls[c].key, calls[c].under)
         /\ calls[c].key \in Call /\ calls[c].key # c => calls[calls[c].key].stage \in Ended
         /\ calls[c].kind = "open" => sealed[calls[c].of] # NoKey
         /\ raced \/ faults.read > 0 \/ Opens(c, calls[c].stage, calls[c].key, calls[c].under)
<1>1. calls[c] \in CallRec
  BY Typed DEF IInv, CallsTyped
<1>2. raced \/ faults.read > 0 \/ Opens(c, calls[c].stage, calls[c].key, calls[c].under)
  BY DEF IInv, RecordInv
<1>3. /\ calls[c].stage # "idle" => calls[c].page \in Pages
      /\ Fits(c, calls[c].stage, calls[c].key, calls[c].under)
      /\ calls[c].key \in Call /\ calls[c].key # c => calls[calls[c].key].stage \in Ended
      /\ calls[c].kind = "open" => sealed[calls[c].of] # NoKey
  BY DEF IInv, CallInv
<1>4. QED
  BY <1>1, <1>2, <1>3 DEF CallRec

LEMMA StageNames ==
  /\ {"null", "wrap", "put", "load", "unwrap", "migrate", "migrating", "loaded", "failed", "done", "idle", "gone"} \subseteq Stages
  /\ Ended \subseteq Stages
BY DEF Stages, Settled, Waiting, Making, Ended

LEMMA MakeKeeps ==
  ASSUME IInv, NEW c \in Call, Make(c)
  PROVE  IInv'
<1>1. calls[c].stage = "null" /\ UNCHANGED <<atRest, ring, disk, master, sealed, faults, reloads, overlapped, raced>>
  BY DEF Make, ghosts
<1>2. Moves(c, "wrap", c, calls[c].under, calls[c].struck)
  <2>1. calls' = [calls EXCEPT ![c] = [@ EXCEPT !.stage = "wrap", !.key = c]] /\ c \in Master
    BY ConstantTypes DEF Make
  <2>2. calls[c].under \in Nat \cup {Clear} /\ calls[c].struck \in BOOLEAN /\ TypeOK
    BY CallFacts DEF IInv
  <2>3. QED
    BY <1>1, <2>1, <2>2, StageNames, UpdateMoves
<1>3. Quiet
  BY <1>1, CallFacts, AskedQuiet DEF Make, IInv
<1>4. Fits(c, "wrap", c, calls[c].under)
  BY DEF Fits, Loading, Sealing
<1>5. raced \/ faults.read > 0 \/ Opens(c, "wrap", c, calls[c].under)
  BY <1>1, CallFacts DEF Opens, Loading, Making
<1>6. overlapped' \in BOOLEAN /\ faults' \in [{"read", "write"} -> 0..MaxMishaps]
  BY <1>1 DEF IInv, TypeOK
<1>7. QED
  BY <1>1, <1>2, <1>3, <1>4, <1>5, <1>6, CallFacts, StageNames, MoveKeeps DEF Ended, Making, Loading

LEMMA WrapKeeps ==
  ASSUME IInv, NEW c \in Call, Wrap(c)
  PROVE  IInv'
<1>1. /\ calls[c].stage = "wrap"
      /\ UNCHANGED <<atRest, ring, promise, disk, master, sealed, faults, reloads, overlapped, raced>>
  BY DEF Wrap, ghosts, deviceVars
<1>2. /\ DeviceKey(c) \in Nat /\ DeviceKey(c) # NoKey
      /\ raced \/ DeviceKey(c) = atRest
  BY <1>1, CallFacts, Typed DEF Wrap, Ready, DeviceKey, IInv, DeviceInv, PagesTyped, PromiseRec
<1>3. Moves(c, "put", calls[c].key, DeviceKey(c), calls[c].struck)
  BY <1>1, <1>2, CallFacts, StageNames, UpdateMoves DEF Wrap, IInv
<1>4. Quiet
  BY <1>1, Typed DEF Quiet, PagesTyped, IInv
<1>5. Fits(c, "put", calls[c].key, DeviceKey(c))
  BY <1>1, <1>2, CallFacts, ConstantTypes DEF Fits, Loading, Sealing
<1>6. raced \/ faults.read > 0 \/ Opens(c, "put", calls[c].key, DeviceKey(c))
  BY <1>1, <1>2, CallFacts DEF Opens, Loading, Making
<1>7. overlapped' \in BOOLEAN /\ faults' \in [{"read", "write"} -> 0..MaxMishaps]
  BY <1>1 DEF IInv, TypeOK
<1>8. QED
  BY <1>1, <1>3, <1>4, <1>5, <1>6, <1>7, CallFacts, StageNames, MoveKeeps DEF Ended, Making, Loading

LEMMA ReadMasterKeeps ==
  ASSUME IInv, NEW c \in Call, ReadMaster(c)
  PROVE  IInv'
<1>1. /\ calls[c].stage = "load"
      /\ UNCHANGED <<atRest, ring, disk, master, sealed, faults, reloads, raced>>
  BY DEF ReadMaster
<1>2. /\ overlapped \in BOOLEAN /\ faults' \in [{"read", "write"} -> 0..MaxMishaps]
      /\ disk.key \in {NoKey} \cup Master /\ disk.under \in Nat \cup {Clear}
  BY <1>1 DEF IInv, TypeOK
<1>3. CASE disk.key = NoKey
  <2>1. Moves(c, "null", calls[c].key, calls[c].under, calls[c].struck)
    <3>1. calls' = [calls EXCEPT ![c].stage = "null"]
      BY <1>3 DEF ReadMaster, Goto
    <3>2. /\ calls[c].under \in Nat \cup {Clear} /\ calls[c].struck \in BOOLEAN
          /\ calls[c].key \in {NoKey} \cup Master /\ TypeOK
      BY CallFacts DEF IInv
    <3>3. QED
      BY <1>1, <3>1, <3>2, StageNames, UpdateMoves
  <2>2. Quiet
    BY <1>1, <1>3, Typed DEF ReadMaster, Quiet, PagesTyped, IInv
  <2>3. overlapped' = (overlapped \/ \E d \in Call : calls[d].stage \in Making)
    BY <1>3 DEF ReadMaster
  <2>4. overlapped' \in BOOLEAN
    BY <1>2, <2>3
  <2>5. overlapped => overlapped'
    BY <2>3, Zenon
  <2>6. overlapped' \/ \A d \in Call : calls[d].stage \notin Making
    BY <2>3, Zenon
  <2>7. Fits(c, "null", calls[c].key, calls[c].under)
    BY DEF Fits, Loading, Sealing
  <2>8. raced \/ faults.read > 0 \/ Opens(c, "null", calls[c].key, calls[c].under)
    BY <1>3, ConstantTypes DEF IInv, RecordInv, Opens, Loading
  <2>9. QED
    BY <1>1, <1>2, <1>3, <2>1, <2>2, <2>4, <2>5, <2>6, <2>7, <2>8, CallFacts, StageNames, MoveKeeps
    DEF Ended, Loading
<1>4. CASE disk.key # NoKey
  <2> DEFINE stage == IF disk.under = Clear THEN "migrate" ELSE "unwrap"
  <2>1. Moves(c, stage, disk.key, disk.under, calls[c].struck)
    <3>1. calls' = [calls EXCEPT ![c] = [@ EXCEPT !.stage = stage, !.key = disk.key, !.under = disk.under]]
      BY <1>4 DEF ReadMaster
    <3>2. stage \in Stages /\ calls[c].struck \in BOOLEAN /\ TypeOK
      BY CallFacts, StageNames DEF IInv
    <3> HIDE DEF stage
    <3>3. QED
      BY <1>1, <1>2, <3>1, <3>2, UpdateMoves, ZenonT(60)
  <2>2. Quiet
    BY <1>1, <1>4, CallFacts, AskedQuiet DEF ReadMaster, IInv
  <2>3. overlapped' = overlapped
    BY <1>4 DEF ReadMaster
  <2>4. /\ disk.key \in Call => calls[disk.key].stage \in Ended
        /\ disk.under # NoKey
    BY <1>4 DEF IInv, DiskInv
  <2>5. Fits(c, stage, disk.key, disk.under)
    BY <1>1, <1>4, <2>4 DEF Fits, Loading, Sealing, Ended
  <2>6. raced \/ faults.read > 0 \/ Opens(c, stage, disk.key, disk.under)
    BY <1>4 DEF IInv, RecordInv, Opens, Loading, Making
  <2>7. QED
    BY <1>1, <1>2, <2>1, <2>2, <2>3, <2>4, <2>5, <2>6, CallFacts, StageNames, MoveKeeps
    DEF Ended, Making
<1>5. QED
  BY <1>3, <1>4

LEMMA ReadMasterFailsKeeps ==
  ASSUME IInv, NEW c \in Call, ReadMasterFails(c)
  PROVE  IInv'
<1>1. /\ calls[c].stage = "load" /\ Fault("read")
      /\ UNCHANGED <<atRest, ring, promise, disk, master, sealed, reloads, overlapped, raced>>
  BY DEF ReadMasterFails, deviceVars, ghosts
<1>2. Moves(c, "null", calls[c].key, calls[c].under, TRUE)
  BY <1>1, CallFacts, StageNames, UpdateMoves DEF ReadMasterFails, IInv
<1>3. Quiet
  BY <1>1, Typed DEF Quiet, PagesTyped, IInv
<1>4. Fits(c, "null", calls[c].key, calls[c].under)
  BY DEF Fits, Loading, Sealing
<1>5. overlapped' \in BOOLEAN
  BY <1>1 DEF IInv, TypeOK
<1>6. faults' \in [{"read", "write"} -> 0..MaxMishaps] /\ faults'.read > 0
  BY <1>1, FaultCounts DEF IInv
<1>7. QED
  BY <1>1, <1>2, <1>3, <1>4, <1>5, <1>6, CallFacts, StageNames, MoveKeeps DEF Ended

LEMMA PutMasterFailsKeeps ==
  ASSUME IInv, NEW c \in Call, PutMasterFails(c)
  PROVE  IInv'
<1>1. /\ calls[c].stage = "put" /\ Fault("write")
      /\ UNCHANGED <<atRest, ring, promise, disk, master, sealed, reloads, overlapped, raced>>
  BY DEF PutMasterFails, deviceVars, ghosts
<1>2. Moves(c, "failed", calls[c].key, calls[c].under, TRUE)
  BY <1>1, CallFacts, StageNames, UpdateMoves DEF PutMasterFails, IInv
<1>3. Quiet
  BY <1>1, Typed DEF Quiet, PagesTyped, IInv
<1>4. Fits(c, "failed", calls[c].key, calls[c].under)
  BY DEF Fits, Loading, Sealing
<1>5. overlapped' \in BOOLEAN
  BY <1>1 DEF IInv, TypeOK
<1>6. faults' \in [{"read", "write"} -> 0..MaxMishaps] /\ faults'.read = faults.read
  BY <1>1, FaultCounts DEF IInv
<1>7. Opens(c, "failed", calls[c].key, calls[c].under)
  BY DEF Opens, Loading, Making
<1>8. QED
  BY <1>1, <1>2, <1>3, <1>4, <1>5, <1>6, <1>7, CallFacts, StageNames, MoveKeeps
  DEF Ended, Making, Loading

LEMMA MigrateWrapKeeps ==
  ASSUME IInv, NEW c \in Call, MigrateWrap(c)
  PROVE  IInv'
<1>1. /\ calls[c].stage = "migrate"
      /\ UNCHANGED <<atRest, ring, promise, disk, master, sealed, faults, reloads, overlapped, raced>>
  BY DEF MigrateWrap, ghosts, deviceVars
<1>2. /\ DeviceKey(c) \in Nat /\ DeviceKey(c) # NoKey
      /\ raced \/ DeviceKey(c) = atRest
  BY <1>1, CallFacts, Typed DEF MigrateWrap, Ready, DeviceKey, IInv, DeviceInv, PagesTyped, PromiseRec
<1>3. Moves(c, "migrating", calls[c].key, DeviceKey(c), calls[c].struck)
  BY <1>1, <1>2, CallFacts, StageNames, UpdateMoves DEF MigrateWrap, IInv
<1>4. Quiet
  BY <1>1, Typed DEF Quiet, PagesTyped, IInv
<1>5. Fits(c, "migrating", calls[c].key, DeviceKey(c))
  BY <1>1, <1>2, CallFacts, ConstantTypes DEF Fits, Loading, Sealing
<1>6. raced \/ faults.read > 0 \/ Opens(c, "migrating", calls[c].key, DeviceKey(c))
  BY <1>1, <1>2, CallFacts DEF Opens, Loading, Making
<1>7. overlapped' \in BOOLEAN /\ faults' \in [{"read", "write"} -> 0..MaxMishaps]
  BY <1>1 DEF IInv, TypeOK
<1>8. raced \/ overlapped \/ faults.read > 0 \/ calls[c].key = disk.key
  BY <1>1 DEF IInv, OneKey, Loading
<1>9. QED
  BY <1>1, <1>3, <1>4, <1>5, <1>6, <1>7, <1>8, CallFacts, StageNames, MoveKeeps DEF Ended, Making

\* A call that loaded its key ends with it, in memory too.
LEMMA LoadedEnds ==
  ASSUME IInv, NEW c \in Call, calls[c].stage \in {"unwrap", "loaded"},
         Finish(c, calls[c], calls[c].key), master' = [master EXCEPT ![calls[c].page] = calls[c].key],
         UNCHANGED <<atRest, ring, promise, disk, faults, reloads, overlapped, raced>>
  PROVE  IInv'
<1> DEFINE k == calls[c].key
<1>1. calls[c] \in CallRec /\ k \in Master /\ k # c /\ calls[c].under # NoKey
  BY CallFacts, Typed DEF Fits, Loading, IInv, CallsTyped
<1>2. Ends(c, k) /\ Stays(c)
  BY <1>1, FinishEnds DEF IInv, Stays
<1>3. /\ calls'[c].page = calls[c].page /\ calls[c].page \in Pages /\ calls'[c].under # NoKey
      /\ calls'[c].kind = "open" => sealed[calls'[c].of] # NoKey
      /\ k \in Call => k # c /\ calls[k].stage \in Ended
  BY <1>1, <1>2, CallFacts DEF Stays
<1>4. /\ PagesTyped'
      /\ \A p \in Pages : master'[p] = master[p] \/ (p = calls'[c].page /\ master'[p] = k)
  BY <1>1, <1>3, Typed DEF PagesTyped, IInv
<1>5. raced \/ faults.read > 0 \/ (sealed[0] # NoKey => k = OldMaster)
  BY CallFacts DEF Opens, Loading
<1>6. raced \/ overlapped \/ faults.read > 0 \/ k = disk.key
  BY DEF IInv, OneKey, Loading
<1>7. calls[c].stage \notin Ended
  BY DEF Ended
<1> HIDE DEF k
<1>8. QED
  BY <1>1, <1>2, <1>3, <1>4, <1>5, <1>6, <1>7, EndKeeps

LEMMA UnwrapKeeps ==
  ASSUME IInv, NEW c \in Call, Unwrap(c)
  PROVE  IInv'
<1>1. /\ calls[c].stage = "unwrap" /\ Ready(c)
      /\ UNCHANGED <<atRest, ring, promise, disk, faults, reloads, overlapped, raced>>
  BY DEF Unwrap, ghosts, deviceVars
<1>2. CASE calls[c].under = DeviceKey(c)
  BY <1>1, <1>2, LoadedEnds DEF Unwrap
<1>3. CASE calls[c].under # DeviceKey(c)
  <2>1. Moves(c, "null", calls[c].key, calls[c].under, calls[c].struck) /\ UNCHANGED <<sealed, master>>
    <3>1. calls' = [calls EXCEPT ![c].stage = "null"] /\ UNCHANGED <<sealed, master>>
      BY <1>3 DEF Unwrap, Goto, Unopened
    <3>2. /\ calls[c].under \in Nat \cup {Clear} /\ calls[c].struck \in BOOLEAN
          /\ calls[c].key \in {NoKey} \cup Master /\ TypeOK
      BY CallFacts DEF IInv
    <3>3. QED
      BY <3>1, <3>2, StageNames, UpdateMoves
  <2>2. Quiet
    BY <1>1, <2>1, Typed DEF Quiet, PagesTyped, IInv
  <2>3. Fits(c, "null", calls[c].key, calls[c].under)
    BY DEF Fits, Loading, Sealing
  <2>4. raced \/ DeviceKey(c) = atRest
    BY <1>1, CallFacts DEF Ready, DeviceKey, IInv, DeviceInv
  <2>5. raced \/ faults.read > 0
    BY <1>1, <1>3, <2>4, CallFacts DEF Opens
  <2>6. overlapped' \in BOOLEAN /\ faults' \in [{"read", "write"} -> 0..MaxMishaps]
    BY <1>1 DEF IInv, TypeOK
  <2>7. QED
    BY <1>1, <2>1, <2>2, <2>3, <2>5, <2>6, CallFacts, StageNames, MoveKeeps DEF Ended
<1>4. QED
  BY <1>2, <1>3

LEMMA TakeLoadedKeeps ==
  ASSUME IInv, NEW c \in Call, TakeLoaded(c)
  PROVE  IInv'
BY LoadedEnds DEF TakeLoaded, deviceVars, ghosts

LEMMA StartKeeps ==
  ASSUME IInv, NEW c \in Call, calls[c].stage = "idle", NEW call \in CallRec, call.page \in Pages,
         call.stage = "idle", call.key = NoKey, call.under = NoKey,
         call.kind = "open" => sealed[call.of] # NoKey, Start(c, call),
         UNCHANGED <<atRest, ring, promise, disk, master, faults, reloads, overlapped, raced>>
  PROVE  IInv'
<1>1. PagesTyped'
  BY Typed DEF PagesTyped, IInv
<1>2. CASE master[call.page] # NoKey
  <2> DEFINE k == master[call.page]
  <2>1. k \in Master
    BY <1>2, Typed DEF PagesTyped, IInv
  <2>2. Ends(c, k) /\ calls'[c].page = call.page /\ calls'[c].kind = call.kind /\ calls'[c].of = call.of
    BY <1>2, <2>1, FinishEnds DEF Start, IInv
  <2>3. k \in Call => calls[k].stage \in Ended
    BY DEF IInv, DiskInv
  <2>4. k # c
    BY <2>3 DEF Ended
  <2>5. raced \/ faults.read > 0 \/ (sealed[0] # NoKey => k = OldMaster)
    BY <1>2 DEF IInv, RecordInv
  <2>6. raced \/ overlapped \/ faults.read > 0 \/ k = disk.key
    BY <1>2 DEF IInv, OneKey
  <2>7. calls[c].stage \notin Ended
    BY DEF Ended
  <2> HIDE DEF k
  <2>8. QED
    BY <1>1, <2>1, <2>2, <2>3, <2>4, <2>5, <2>6, <2>7, EndKeeps
<1>3. CASE master[call.page] = NoKey
  <2>1. /\ calls' = [calls EXCEPT ![c] = [call EXCEPT !.stage = "load"]]
        /\ sealed' = sealed
    BY <1>3 DEF Start
  <2>2. [call EXCEPT !.stage = "load"] \in CallRec
    BY StageNames DEF CallRec
  <2>3. calls \in [Call -> CallRec] /\ sealed \in [0..MaxCalls -> {NoKey} \cup Master]
    BY Typed DEF IInv, CallsTyped
  <2>4. CallsTyped' /\ calls'[c] = [call EXCEPT !.stage = "load"] /\ Others(c)
    BY <2>1, <2>2, <2>3 DEF CallsTyped, Others
  <2>5. /\ calls'[c].stage = "load" /\ calls'[c].page = call.page /\ calls'[c].kind = call.kind
        /\ calls'[c].of = call.of /\ calls'[c].key = NoKey /\ calls'[c].under = NoKey
    BY <2>4 DEF CallRec
  <2>6. Lasting
    BY <2>4 DEF Lasting, Others, Ended
  <2>7. TypeOK'
    BY <1>1, <2>4, SameTypes DEF IInv, TypeOK
  <2>8. CallInv'
    <3>1. ASSUME NEW d \in Call
          PROVE  /\ calls'[d].stage # "idle" => calls'[d].page \in Pages
                 /\ Fits(d, calls'[d].stage, calls'[d].key, calls'[d].under)
                 /\ calls'[d].kind = "open" => sealed'[calls'[d].of] # NoKey
                 /\ sealed'[d] # NoKey => calls'[d].stage = "done"
                 /\ calls'[d].key \in Call /\ calls'[d].key # d => calls'[calls'[d].key].stage \in Ended
      <4>1. CASE d = c
        BY <2>1, <2>5, <4>1, ConstantTypes DEF Fits, Loading, Sealing, IInv, CallInv
      <4>2. CASE d # c
        BY <2>1, <2>4, <2>6, <4>2, ZenonT(60) DEF Others, IInv, CallInv, Lasting
      <4>3. QED
        BY <4>1, <4>2
    <3>2. QED
      BY <3>1 DEF CallInv, Fits
  <2>9. DiskInv'
    BY <2>6, KeysOnDisk DEF IInv
  <2>10. DeviceInv'
    BY DEF IInv, DeviceInv
  <2>11. FailedNeedsFault'
    BY <2>1, <2>4, <2>5 DEF FailedNeedsFault, Others, IInv
  <2>12. RecordInv'
    <3>1. CASE raced \/ faults.read > 0
      BY <3>1 DEF RecordInv
    <3>2. CASE ~raced /\ ~(faults.read > 0)
      <4>1. Opens(c, calls'[c].stage, calls'[c].key, calls'[c].under)
        BY <2>5 DEF Opens, Loading, Making
      <4>2. \A d \in Call : Opens(d, calls'[d].stage, calls'[d].key, calls'[d].under)
        BY <3>2, <4>1, <2>4 DEF Others, IInv, RecordInv
      <4>3. \A d \in Call : Opens(d, calls[d].stage, calls[d].key, calls[d].under)'
        BY <4>2, <2>1 DEF Opens
      <4>4. \A p \in Pages : LoadedBy(p) => LoadedBy(p)'
        BY <2>6, LoadedLasts
      <4>5. QED
        BY <2>1, <3>2, <4>3, <4>4 DEF IInv, RecordInv
    <3>3. QED
      BY <3>1, <3>2
  <2>13. OneKey'
    BY <2>1, <2>4, <2>5 DEF IInv, OneKey, Others, Making, Loading
  <2>14. QED
    BY <2>7, <2>8, <2>9, <2>10, <2>11, <2>12, <2>13 DEF IInv
<1>4. QED
  BY <1>2, <1>3

LEMMA AskKeeps ==
  ASSUME IInv, NEW c \in Call, Ask(c)
  PROVE  IInv'
<1>1. /\ calls[c].stage = "idle"
      /\ UNCHANGED <<atRest, ring, promise, disk, master, faults, reloads, overlapped, raced>>
  BY DEF Ask, deviceVars, ghosts
<1>2. PICK p \in Pages :
        \/ Start(c, [Idle EXCEPT !.page = p])
        \/ \E r \in 0..MaxCalls : sealed[r] # NoKey /\ Start(c, [Idle EXCEPT !.page = p, !.kind = "open", !.of = r])
  BY DEF Ask
<1>3. Idle \in CallRec /\ Idle.stage = "idle" /\ Idle.key = NoKey /\ Idle.under = NoKey /\ Idle.kind = "seal"
  BY StageNames, ConstantTypes DEF Idle, CallRec
<1>4. CASE Start(c, [Idle EXCEPT !.page = p])
  <2> DEFINE call == [Idle EXCEPT !.page = p]
  <2>1. /\ call \in CallRec /\ call.page = p /\ call.stage = "idle" /\ call.key = NoKey
        /\ call.under = NoKey /\ call.kind = "seal"
    BY <1>3 DEF CallRec
  <2>2. Start(c, call)
    BY <1>4
  <2> HIDE DEF call
  <2>3. QED
    BY <1>1, <2>1, <2>2, StartKeeps
<1>5. ASSUME NEW r \in 0..MaxCalls, sealed[r] # NoKey, Start(c, [Idle EXCEPT !.page = p, !.kind = "open", !.of = r])
      PROVE  IInv'
  <2> DEFINE call == [Idle EXCEPT !.page = p, !.kind = "open", !.of = r]
  <2>1. /\ call \in CallRec /\ call.page = p /\ call.stage = "idle" /\ call.key = NoKey
        /\ call.under = NoKey /\ call.of = r
    BY <1>3 DEF CallRec
  <2>2. Start(c, call)
    BY <1>5
  <2> HIDE DEF call
  <2>3. QED
    BY <1>1, <1>5, <2>1, <2>2, StartKeeps
<1>6. QED
  BY <1>2, <1>4, <1>5

\* A call stores the record of its key: nothing is sealed yet that it would lock away.
LEMMA PutMasterKeeps ==
  ASSUME IInv, NEW c \in Call, PutMaster(c)
  PROVE  IInv'
<1>1. /\ calls[c].stage = "put" /\ Finish(c, calls[c], calls[c].key) /\ calls[c].key = c
      /\ calls[c].page \in Pages /\ calls[c].under \in Nat /\ calls[c].under # NoKey
      /\ UNCHANGED <<atRest, ring, promise, faults, reloads, overlapped, raced>>
  BY CallFacts DEF PutMaster, deviceVars, ghosts, Fits, Sealing, Loading
<1>2. /\ disk' = [key |-> c, under |-> calls[c].under, by |-> calls[c].page]
      /\ master' = [master EXCEPT ![calls[c].page] = c]
  BY <1>1 DEF PutMaster, Record, MasterAfter
<1>3. c \in Master /\ c # NoKey /\ calls[c] \in CallRec /\ calls[c].stage \notin Ended
  BY <1>1, ConstantTypes, Typed DEF IInv, CallsTyped, Ended
<1>4. Ends(c, c) /\ Stays(c)
  BY <1>1, <1>3, FinishEnds DEF IInv, Stays
<1>5. CallInv' /\ FailedNeedsFault' /\ Lasting
  <2>1. calls'[c].page \in Pages /\ (calls'[c].kind = "open" => sealed[calls'[c].of] # NoKey)
    BY <1>1, <1>4, CallFacts DEF Stays
  <2>2. QED
    BY <1>3, <1>4, <2>1, EndCalls DEF IInv, Lasting
<1>6. /\ PagesTyped' /\ master'[calls[c].page] = c
      /\ \A p \in Pages : p # calls[c].page => master'[p] = master[p]
  BY <1>1, <1>2, <1>3, Typed DEF PagesTyped, IInv
<1>7. /\ disk'.key = c /\ disk'.under = calls[c].under /\ disk'.by = calls[c].page
      /\ disk' \in [key : {NoKey} \cup Master, under : Nat \cup {Clear}, by : {0} \cup Pages]
  BY <1>1, <1>2, <1>3
<1>8. TypeOK'
  BY <1>1, <1>4, <1>6, <1>7, SameTypes DEF IInv, TypeOK, Ends
<1>9. DiskInv'
  <2>1. calls'[c].stage \in Ended
    BY <1>4 DEF Ends
  <2>2. \A p \in Pages : master'[p] \in Call => calls'[master'[p]].stage \in Ended
    BY <1>5, <1>6, <2>1 DEF IInv, DiskInv, Lasting
  <2>3. QED
    BY <1>1, <1>7, <2>1, <2>2 DEF DiskInv
<1>10. DeviceInv'
  BY <1>1 DEF IInv, DeviceInv
<1>11. RecordInv'
  <2>1. CASE raced \/ faults.read > 0
    BY <1>1, <2>1 DEF RecordInv
  <2>2. CASE ~raced /\ ~(faults.read > 0)
    <3>1. sealed[0] = NoKey /\ calls[c].under = atRest
      BY <1>1, <2>2, CallFacts DEF Opens, Making
    <3>2. sealed'[0] = NoKey
      BY <1>4, <3>1, ConstantTypes DEF Ends
    <3>3. Opens(c, calls'[c].stage, calls'[c].key, calls'[c].under)
      BY <1>4 DEF Ends, Ended, Opens, Loading, Making
    <3>4. \A d \in Call : Opens(d, calls'[d].stage, calls'[d].key, calls'[d].under)
      BY <1>4, <2>2, <3>3 DEF IInv, RecordInv, Ends, Others
    <3>5. \A d \in Call : Opens(d, calls[d].stage, calls[d].key, calls[d].under)'
      BY <1>1, <3>1, <3>2, <3>4 DEF Opens
    <3>6. disk'.under # Clear
      BY <1>1, <1>7, ConstantTypes
    <3>7. \A p \in Pages : master'[p] # NoKey /\ disk'.key # master'[p] => disk'.by # p
      BY <1>6, <1>7
    <3>8. QED
      BY <1>1, <1>7, <3>1, <3>2, <3>5, <3>6, <3>7 DEF RecordInv
  <2>3. QED
    BY <2>1, <2>2
<1>12. OneKey'
  <2>1. CASE overlapped \/ raced \/ faults.read > 0
    BY <1>1, <2>1 DEF OneKey
  <2>2. CASE ~(overlapped \/ raced \/ faults.read > 0)
    <3>1. disk.key = NoKey /\ \A d \in Call : d # c => calls[d].stage \notin Making
      BY <1>1, <2>2 DEF IInv, OneKey, Making
    <3>2. /\ \A r \in 0..MaxCalls : sealed[r] = NoKey
          /\ \A p \in Pages : master[p] = NoKey
          /\ \A d \in Call : calls[d].stage \notin Loading
      BY <2>2, <3>1 DEF IInv, OneKey, CallInv, Fits
    <3>3. calls'[c].stage \in Ended /\ \A d \in Call : d # c => calls'[d] = calls[d]
      BY <1>4 DEF Ends, Others
    <3>4. \A d \in Call : calls'[d].stage \notin Making /\ calls'[d].stage \notin Loading
      BY <3>1, <3>2, <3>3 DEF Ended, Making, Loading
    <3>5. \A r \in 0..MaxCalls : sealed'[r] \in {NoKey, c}
      <4>1. calls'[c].kind \in {"seal", "open"}
        BY <1>4 DEF Ends, CallsTyped, CallRec
      <4>2. QED
        BY <1>4, <3>2, <4>1 DEF Ends
    <3>6. \A p \in Pages : master'[p] \in {NoKey, c}
      BY <1>6, <3>2
    <3>7. QED
      BY <1>7, <3>4, <3>5, <3>6 DEF OneKey
  <2>3. QED
    BY <2>1, <2>2
<1>13. QED
  BY <1>5, <1>8, <1>9, <1>10, <1>11, <1>12 DEF IInv

\* A migration stores the key it found, wrapped now.
LEMMA MigratePutKeeps ==
  ASSUME IInv, NEW c \in Call, MigratePut(c)
  PROVE  IInv'
<1>1. /\ calls[c].stage = "migrating"
      /\ UNCHANGED <<atRest, ring, promise, master, sealed, reloads, overlapped, raced>>
      /\ \/ disk' = Record(c) /\ UNCHANGED faults
         \/ Fault("write") /\ UNCHANGED disk
  BY DEF MigratePut, deviceVars, ghosts
<1>2. Moves(c, "loaded", calls[c].key, calls[c].under, calls[c].struck)
  <2>1. calls' = [calls EXCEPT ![c].stage = "loaded"] /\ sealed' = sealed
    BY <1>1 DEF MigratePut, Goto
  <2>2. /\ calls[c].under \in Nat \cup {Clear} /\ calls[c].struck \in BOOLEAN
        /\ calls[c].key \in {NoKey} \cup Master /\ TypeOK
    BY CallFacts DEF IInv
  <2>3. QED
    BY <2>1, <2>2, StageNames, UpdateMoves
<1>3. Quiet
  BY <1>1, Typed DEF Quiet, PagesTyped, IInv
<1>4. /\ Fits(c, "loaded", calls[c].key, calls[c].under) /\ calls[c].page \in Pages
      /\ calls[c].key \in Call => calls[c].key # c /\ calls[calls[c].key].stage \in Ended
      /\ calls[c].key \in Master /\ calls[c].under \in Nat /\ calls[c].under # NoKey
  BY <1>1, CallFacts DEF Fits, Loading, Sealing
<1>5. raced \/ faults.read > 0 \/ Opens(c, "loaded", calls[c].key, calls[c].under)
  BY <1>1, CallFacts DEF Opens, Loading, Making
<1>6. raced \/ overlapped \/ faults.read > 0 \/ calls[c].key = disk.key
  BY <1>1 DEF IInv, OneKey, Loading
<1>7. CASE Fault("write") /\ UNCHANGED disk
  <2>1. faults' \in [{"read", "write"} -> 0..MaxMishaps] /\ faults'.read = faults.read
    BY <1>7, FaultCounts DEF IInv
  <2>2. overlapped' \in BOOLEAN
    BY <1>1 DEF IInv, TypeOK
  <2>3. QED
    BY <1>1, <1>2, <1>3, <1>4, <1>5, <1>6, <1>7, <2>1, <2>2, StageNames, MoveKeeps DEF Ended, Making
<1>8. CASE disk' = Record(c) /\ UNCHANGED faults
  <2>1. /\ disk'.key = calls[c].key /\ disk'.under = calls[c].under /\ disk'.by = calls[c].page
        /\ disk' \in [key : {NoKey} \cup Master, under : Nat \cup {Clear}, by : {0} \cup Pages]
    BY <1>4, <1>8 DEF Record
  <2>2. CallInv' /\ FailedNeedsFault' /\ Lasting
    <3>1. calls[c].stage \notin Ended
      BY <1>1 DEF Ended
    <3>2. QED
      BY <1>2, <1>4, <3>1, StageNames, MoveCalls DEF IInv, Lasting
  <2>3. TypeOK'
    BY <1>1, <1>2, <1>3, <1>8, <2>1, SameTypes DEF IInv, TypeOK, Moves, Quiet
  <2>4. DiskInv'
    <3>1. \A d \in Call : calls[d].stage \in Ended => calls'[d].stage \in Ended
      BY <2>2 DEF Lasting
    <3>2. QED
      BY <1>1, <1>4, <2>1, <3>1 DEF IInv, DiskInv
  <2>5. DeviceInv'
    BY <1>1 DEF IInv, DeviceInv
  <2>6. RecordInv'
    <3>1. CASE raced \/ faults.read > 0
      BY <1>1, <1>8, <3>1 DEF RecordInv
    <3>2. CASE ~raced /\ ~(faults.read > 0)
      <4>1. sealed[0] # NoKey /\ calls[c].key = OldMaster /\ calls[c].under = atRest
        BY <1>1, <3>2, CallFacts DEF Opens, Loading
      <4>2. \A p \in Pages : master[p] \in {NoKey, OldMaster}
        BY <3>2, <4>1 DEF IInv, RecordInv
      <4>3. \A d \in Call : Opens(d, calls'[d].stage, calls'[d].key, calls'[d].under)
        BY <1>2, <1>5, <3>2 DEF IInv, RecordInv, Moves, Others
      <4>4. \A d \in Call : Opens(d, calls[d].stage, calls[d].key, calls[d].under)'
        BY <1>1, <4>3 DEF Opens
      <4>5. QED
        BY <1>1, <2>1, <4>1, <4>2, <4>4 DEF RecordInv
    <3>3. QED
      BY <3>1, <3>2
  <2>7. OneKey'
    <3>1. CASE raced \/ overlapped \/ faults.read > 0
      BY <1>1, <1>8, <3>1 DEF OneKey
    <3>2. CASE ~(raced \/ overlapped \/ faults.read > 0)
      <4>1. disk'.key = disk.key
        BY <1>6, <2>1, <3>2
      <4>2. QED
        BY <1>1, <1>2, <1>6, <3>2, <4>1 DEF IInv, OneKey, Moves, Others, Making, Loading
    <3>3. QED
      BY <3>1, <3>2
  <2>8. QED
    BY <2>2, <2>3, <2>4, <2>5, <2>6, <2>7 DEF IInv
<1>9. QED
  BY <1>1, <1>7, <1>8

-----------------------------------------------------------------------------
(* What happens to a page's calls at once                                  *)

\* Call c is as it was, is gone, or awaited a promise that was rejected.
Struck(c) ==
  \/ calls[c].stage = "wrap" /\ calls'[c].stage = "failed"
  \/ calls[c].stage = "unwrap" /\ calls'[c].stage = "null"
  \/ calls[c].stage = "migrate" /\ calls'[c].stage = "loaded"

AtOnce(c) ==
  /\ Stays(c) /\ calls'[c].key = calls[c].key
  /\ \/ calls'[c].stage = calls[c].stage /\ calls'[c].struck = calls[c].struck
     \/ calls'[c].stage = "gone" /\ calls[c].stage \notin Settled
     \/ Struck(c) /\ calls'[c].struck

LittleChanged(c) ==
  /\ calls'[c].stage \in Loading => calls[c].stage \in Loading
  /\ calls'[c].stage \in Making => calls[c].stage \in Making \cup {"unwrap"}
  /\ Opens(c, calls[c].stage, calls[c].key, calls[c].under)
       => \/ calls[c].stage = "unwrap" /\ calls'[c].stage = "null"
          \/ Opens(c, calls'[c].stage, calls'[c].key, calls'[c].under)

LEMMA AllAtOnce ==
  ASSUME IInv, CallsTyped', sealed' = sealed, \A c \in Call : AtOnce(c)
  PROVE  /\ CallInv' /\ FailedNeedsFault'
         /\ \A c \in Call : calls[c].stage \in Ended => calls'[c].stage = calls[c].stage
         /\ \A c \in Call : LittleChanged(c)
<1>1. \A c \in Call : calls[c].stage \in Ended => calls'[c].stage = calls[c].stage
  BY DEF AtOnce, Struck, Ended, Settled
<1>2. ASSUME NEW c \in Call
      PROVE  /\ calls'[c].stage # "idle" => calls'[c].page \in Pages
             /\ Fits(c, calls'[c].stage, calls'[c].key, calls'[c].under)
             /\ calls'[c].kind = "open" => sealed'[calls'[c].of] # NoKey
             /\ sealed'[c] # NoKey => calls'[c].stage = "done"
             /\ calls'[c].key \in Call /\ calls'[c].key # c => calls'[calls'[c].key].stage \in Ended
  <2>1. AtOnce(c)
    OBVIOUS
  <2>2. calls'[c].stage # "idle" => calls'[c].page \in Pages
    BY <2>1 DEF AtOnce, Stays, Struck, Settled, IInv, CallInv
  <2>3. Fits(c, calls'[c].stage, calls'[c].key, calls'[c].under)
    <3>1. Fits(c, calls[c].stage, calls[c].key, calls[c].under)
      BY DEF IInv, CallInv
    <3>2. QED
      BY <2>1, <3>1 DEF AtOnce, Stays, Struck, Fits, Loading, Sealing
  <2>4. calls'[c].kind = "open" => sealed'[calls'[c].of] # NoKey
    BY <2>1 DEF AtOnce, Stays, IInv, CallInv
  <2>5. sealed'[c] # NoKey => calls'[c].stage = "done"
    BY <1>1 DEF IInv, CallInv, Ended
  <2>6. calls'[c].key \in Call /\ calls'[c].key # c => calls'[calls'[c].key].stage \in Ended
    BY <1>1, <2>1 DEF AtOnce, IInv, CallInv
  <2>7. QED
    BY <2>2, <2>3, <2>4, <2>5, <2>6
<1>3. CallInv'
  BY <1>2 DEF CallInv, Fits
<1>4. FailedNeedsFault'
  <2>1. ASSUME NEW c \in Call, calls'[c].stage = "failed"
        PROVE  calls'[c].struck \/ (calls'[c].kind = "open" /\ calls'[c].key \notin {NoKey, sealed'[calls'[c].of]})
    <3>1. AtOnce(c)
      OBVIOUS
    <3>2. CASE calls'[c].stage = calls[c].stage /\ calls'[c].struck = calls[c].struck
      BY <2>1, <3>1, <3>2 DEF AtOnce, Stays, IInv, FailedNeedsFault
    <3>3. CASE Struck(c) /\ calls'[c].struck
      BY <3>3
    <3>4. QED
      BY <2>1, <3>1, <3>2, <3>3 DEF AtOnce
  <2>2. QED
    BY <2>1 DEF FailedNeedsFault
<1>5. ASSUME NEW c \in Call
      PROVE  LittleChanged(c)
  <2>1. AtOnce(c)
    OBVIOUS
  <2>2. QED
    BY <2>1 DEF LittleChanged, AtOnce, Stays, Struck, Opens, Loading, Making
<1>6. QED
  BY <1>1, <1>3, <1>4, <1>5

\* The getters of the device key are told that it cannot be had.
LEMMA DeviceKeyFailsKeeps ==
  ASSUME IInv, NEW p \in Pages, DeviceKeyFails(p)
  PROVE  IInv'
<1>1. /\ UNCHANGED <<atRest, ring, disk, master, sealed, reloads, overlapped, raced>>
      /\ promise' = [promise EXCEPT ![p] = [state |-> "none", key |-> NoKey]]
      /\ calls' = [c \in Call |-> IF calls[c].page = p THEN Rejected(calls[c]) ELSE calls[c]]
      /\ \/ promise[p].state = "reading" /\ Fault("read")
         \/ promise[p].state = "putting" /\ Fault("write")
  BY DEF DeviceKeyFails, Forgotten, ghosts
<1>2. faults' \in [{"read", "write"} -> 0..MaxMishaps] /\ (faults.read > 0 => faults'.read > 0)
  BY <1>1, FaultCounts DEF IInv
<1>3. Quiet
  <2>1. promise \in [Pages -> PromiseRec] /\ [state |-> "none", key |-> NoKey] \in PromiseRec
    BY Typed, ConstantTypes DEF IInv, PagesTyped, PromiseRec
  <2>2. /\ promise' \in [Pages -> PromiseRec] /\ promise'[p].state = "none"
        /\ \A q \in Pages : q # p => promise'[q] = promise[q]
    BY <1>1, <2>1
  <2>3. QED
    BY <1>1, <2>2, Typed DEF Quiet, PagesTyped, IInv
<1>4. CallsTyped' /\ \A c \in Call : AtOnce(c) /\ (calls'[c].stage = calls[c].stage \/ Struck(c))
  <2>1. ASSUME NEW c \in Call
        PROVE  calls'[c] \in CallRec /\ AtOnce(c) /\ (calls'[c].stage = calls[c].stage \/ Struck(c))
    <3>1. calls[c] \in CallRec
      BY Typed DEF IInv, CallsTyped
    <3>2. CASE calls'[c] = calls[c]
      BY <3>1, <3>2 DEF AtOnce, Stays
    <3>3. CASE calls'[c] = Rejected(calls[c])
      <4>1. CASE calls[c].stage = "wrap"
        <5>1. calls'[c] = [calls[c] EXCEPT !.stage = "failed", !.struck = TRUE]
          BY <3>3, <4>1 DEF Rejected
        <5>2. calls'[c] \in CallRec
          BY <3>1, <5>1, StageNames DEF CallRec
        <5>3. QED
          BY <3>1, <4>1, <5>1, <5>2 DEF AtOnce, Stays, Struck, CallRec
      <4>2. CASE calls[c].stage = "unwrap"
        <5>1. calls'[c] = [calls[c] EXCEPT !.stage = "null", !.struck = TRUE]
          BY <3>3, <4>2 DEF Rejected
        <5>2. calls'[c] \in CallRec
          BY <3>1, <5>1, StageNames DEF CallRec
        <5>3. QED
          BY <3>1, <4>2, <5>1, <5>2 DEF AtOnce, Stays, Struck, CallRec
      <4>3. CASE calls[c].stage = "migrate"
        <5>1. calls'[c] = [calls[c] EXCEPT !.stage = "loaded", !.struck = TRUE]
          BY <3>3, <4>3 DEF Rejected
        <5>2. calls'[c] \in CallRec
          BY <3>1, <5>1, StageNames DEF CallRec
        <5>3. QED
          BY <3>1, <4>3, <5>1, <5>2 DEF AtOnce, Stays, Struck, CallRec
      <4>4. CASE calls[c].stage \notin {"wrap", "unwrap", "migrate"}
        BY <3>2, <3>3, <4>4 DEF Rejected
      <4>5. QED
        BY <4>1, <4>2, <4>3, <4>4
    <3>4. QED
      BY <1>1, <3>2, <3>3
  <2>2. sealed' \in [0..MaxCalls -> {NoKey} \cup Master]
    BY <1>1, Typed DEF IInv, CallsTyped
  <2>3. calls' \in [Call -> CallRec]
    BY <1>1, <2>1
  <2>4. QED
    BY <2>1, <2>2, <2>3 DEF CallsTyped
<1>5. CallInv' /\ FailedNeedsFault'
  BY <1>1, <1>4, AllAtOnce
<1>6. \A c \in Call : calls[c].stage \in Ended => calls'[c].stage = calls[c].stage
  BY <1>1, <1>4, AllAtOnce
<1>7. TypeOK'
  BY <1>1, <1>2, <1>3, <1>4, SameTypes DEF IInv, TypeOK, Quiet
<1>8. DiskInv'
  BY <1>1, <1>6 DEF IInv, DiskInv
<1>9. DeviceInv'
  BY <1>1, <1>3, QuietDevice DEF IInv
<1>10. CASE raced \/ faults.read > 0 \/ faults'.read > 0
  <2>1. RecordInv' /\ OneKey'
    BY <1>1, <1>2, <1>10 DEF RecordInv, OneKey
  <2>2. QED
    BY <1>5, <1>7, <1>8, <1>9, <2>1 DEF IInv
<1>11. CASE ~raced /\ ~(faults.read > 0) /\ ~(faults'.read > 0)
  <2>1. promise[p].state = "putting"
    <3>1. ~Fault("read")
      BY <1>11, FaultCounts DEF IInv
    <3>2. QED
      BY <1>1, <3>1
  <2>2. atRest = NoKey
    BY <1>11, <2>1 DEF IInv, DeviceInv
  <2>3. \A c \in Call : calls[c].stage # "unwrap"
    BY <1>11, <2>2, CallFacts DEF Opens, Fits, Loading
  <2>4. \A c \in Call : /\ calls'[c].stage \in Loading => calls[c].stage \in Loading
                        /\ calls'[c].stage \in Making => calls[c].stage \in Making
                        /\ calls'[c].key = calls[c].key
                        /\ Opens(c, calls'[c].stage, calls'[c].key, calls'[c].under)
    <3>1. \A c \in Call : Opens(c, calls[c].stage, calls[c].key, calls[c].under)
      BY <1>11 DEF IInv, RecordInv
    <3>2. sealed' = sealed /\ CallsTyped' /\ \A c \in Call : AtOnce(c)
      BY <1>1, <1>4, Zenon
    <3>3. \A c \in Call : LittleChanged(c)
      BY <3>2, AllAtOnce
    <3>4. \A c \in Call : calls'[c].key = calls[c].key
      BY <3>2 DEF AtOnce
    <3>5. QED
      BY <2>3, <3>1, <3>3, <3>4 DEF LittleChanged
  <2>5. \A c \in Call : Opens(c, calls[c].stage, calls[c].key, calls[c].under)'
    BY <1>1, <2>4 DEF Opens
  <2>6. \A q \in Pages : LoadedBy(q) => LoadedBy(q)'
    BY <1>1, <1>4, <1>6 DEF LoadedBy, AtOnce, Stays, Ended
  <2>7. RecordInv'
    BY <1>1, <1>11, <2>5, <2>6 DEF IInv, RecordInv
  <2>8. OneKey'
    BY <1>1, <1>11, <2>4 DEF IInv, OneKey
  <2>9. QED
    BY <1>5, <1>7, <1>8, <1>9, <2>7, <2>8 DEF IInv
<1>12. QED
  BY <1>10, <1>11

\* A page forgets its keys and its calls.
LEMMA ReloadKeeps ==
  ASSUME IInv, NEW p \in Pages, Reload(p)
  PROVE  IInv'
<1>1. /\ UNCHANGED <<atRest, ring, disk, sealed, faults, overlapped, raced>>
      /\ promise' = [promise EXCEPT ![p] = [state |-> "none", key |-> NoKey]]
      /\ master' = [master EXCEPT ![p] = NoKey]
      /\ calls' = [c \in Call |-> IF calls[c].page = p /\ calls[c].stage \notin Settled
                                     THEN [calls[c] EXCEPT !.stage = "gone"] ELSE calls[c]]
      /\ reloads' = reloads + 1 /\ MishapLeft
  BY DEF Reload, ghosts
<1>2. reloads' \in 0..MaxMishaps
  <2>1. faults.read \in Nat /\ faults.write \in Nat /\ reloads \in Nat /\ MaxMishaps \in Nat
    BY ConstantTypes DEF IInv, TypeOK
  <2>2. QED
    BY <1>1, <2>1 DEF MishapLeft
<1>3. Quiet /\ \A q \in Pages : master'[q] = master[q] \/ master'[q] = NoKey
  <2>1. /\ promise \in [Pages -> PromiseRec] /\ [state |-> "none", key |-> NoKey] \in PromiseRec
        /\ master \in [Pages -> {NoKey} \cup Master]
    BY Typed, ConstantTypes DEF IInv, PagesTyped, PromiseRec
  <2>2. /\ promise' \in [Pages -> PromiseRec] /\ promise'[p].state = "none"
        /\ \A q \in Pages : q # p => promise'[q] = promise[q]
    BY <1>1, <2>1
  <2>3. /\ master' \in [Pages -> {NoKey} \cup Master]
        /\ \A q \in Pages : master'[q] = master[q] \/ master'[q] = NoKey
    BY <1>1, <2>1
  <2>4. QED
    BY <2>2, <2>3 DEF Quiet, PagesTyped
<1>4. CallsTyped' /\ \A c \in Call : AtOnce(c) /\ (calls[c].stage \in Ended => calls'[c] = calls[c])
                                     /\ calls'[c].stage \in {calls[c].stage, "gone"}
  <2>1. ASSUME NEW c \in Call
        PROVE  /\ calls'[c] \in CallRec /\ AtOnce(c) /\ (calls[c].stage \in Ended => calls'[c] = calls[c])
               /\ calls'[c].stage \in {calls[c].stage, "gone"}
    <3>1. calls[c] \in CallRec
      BY Typed DEF IInv, CallsTyped
    <3>2. CASE calls'[c] = calls[c]
      BY <3>1, <3>2 DEF AtOnce, Stays
    <3>3. CASE calls'[c] = [calls[c] EXCEPT !.stage = "gone"] /\ calls[c].stage \notin Settled
      <4>1. calls'[c] \in CallRec
        BY <3>1, <3>3, StageNames DEF CallRec
      <4>2. QED
        BY <3>1, <3>3, <4>1 DEF AtOnce, Stays, CallRec, Settled, Ended
    <3>4. QED
      BY <1>1, <3>2, <3>3
  <2>2. sealed' \in [0..MaxCalls -> {NoKey} \cup Master]
    BY <1>1, Typed DEF IInv, CallsTyped
  <2>3. calls' \in [Call -> CallRec]
    BY <1>1, <2>1
  <2>4. QED
    BY <2>1, <2>2, <2>3 DEF CallsTyped
<1>5. CallInv' /\ FailedNeedsFault'
  BY <1>1, <1>4, AllAtOnce
<1>6. Lasting
  BY <1>4 DEF Lasting
<1>7. TypeOK'
  BY <1>1, <1>2, <1>3, <1>4, SameTypes DEF IInv, TypeOK, Quiet
<1>8. DiskInv'
  BY <1>1, <1>3, <1>6, KeysOnDisk DEF IInv
<1>9. DeviceInv'
  BY <1>1, <1>3, QuietDevice DEF IInv
<1>10. \A c \in Call : /\ calls'[c].stage \in Loading => calls[c].stage \in Loading
                       /\ calls'[c].stage \in Making => calls[c].stage \in Making
                       /\ calls'[c].key = calls[c].key
                       /\ Opens(c, calls[c].stage, calls[c].key, calls[c].under)
                            => Opens(c, calls'[c].stage, calls'[c].key, calls'[c].under)
  BY <1>4 DEF AtOnce, Stays, Opens, Loading, Making
<1>11. RecordInv'
  <2>1. CASE raced \/ faults.read > 0
    BY <1>1, <2>1 DEF RecordInv
  <2>2. CASE ~raced /\ ~(faults.read > 0)
    <3>1. \A c \in Call : Opens(c, calls'[c].stage, calls'[c].key, calls'[c].under)
      BY <1>10, <2>2 DEF IInv, RecordInv
    <3>2. \A c \in Call : Opens(c, calls[c].stage, calls[c].key, calls[c].under)'
      BY <1>1, <3>1 DEF Opens
    <3>3. \A q \in Pages : master'[q] # NoKey => master'[q] = master[q]
      BY <1>3
    <3>4. \A q \in Pages : master'[q] # NoKey /\ LoadedBy(q) => LoadedBy(q)'
      BY <1>6, <3>3, LoadedLasts
    <3>5. QED
      BY <1>1, <1>3, <2>2, <3>2, <3>3, <3>4 DEF IInv, RecordInv
  <2>3. QED
    BY <2>1, <2>2
<1>12. OneKey'
  BY <1>1, <1>3, <1>10 DEF IInv, OneKey
<1>13. QED
  BY <1>5, <1>7, <1>8, <1>9, <1>11, <1>12 DEF IInv

-----------------------------------------------------------------------------
(* The theorems                                                            *)

LEMMA KeysStart == Init => IInv
<1> SUFFICES ASSUME Init PROVE IInv
  OBVIOUS
<1>1. PICK before \in {"fresh", "used", "legacy"}, k \in 0..1 :
        /\ before = "used" => k = 1
        /\ atRest = k /\ ring = k
        /\ disk = IF before = "fresh" THEN NoRecord
                  ELSE [key |-> OldMaster, under |-> IF before = "used" THEN k ELSE Clear, by |-> 0]
        /\ sealed = [c \in 0..MaxCalls |-> IF c = 0 /\ before # "fresh" THEN OldMaster ELSE NoKey]
  BY DEF Init
<1>2. /\ promise = [p \in Pages |-> [state |-> "none", key |-> NoKey]]
      /\ master = [p \in Pages |-> NoKey]
      /\ calls = [c \in Call |-> Idle]
      /\ faults = [read |-> 0, write |-> 0] /\ reloads = 0
      /\ overlapped = FALSE /\ raced = FALSE
  BY DEF Init
<1>3. /\ Idle \in CallRec /\ Idle.stage = "idle" /\ Idle.key = NoKey /\ Idle.under = NoKey
      /\ Idle.kind = "seal"
  BY StageNames, ConstantTypes DEF Idle, CallRec
<1>4. CallsTyped
  BY <1>1, <1>2, <1>3, ConstantTypes DEF CallsTyped
<1>5. PagesTyped
  BY <1>2, ConstantTypes DEF PagesTyped, PromiseRec
<1>6. /\ disk \in [key : {NoKey} \cup Master, under : Nat \cup {Clear}, by : {0} \cup Pages]
      /\ atRest \in Nat /\ ring \in Nat
  BY <1>1, ConstantTypes DEF NoRecord
<1>7. faults \in [{"read", "write"} -> 0..MaxMishaps] /\ reloads \in 0..MaxMishaps /\ faults.read = 0
  BY <1>2, ConstantTypes
<1>8. TypeOK
  BY <1>2, <1>4, <1>5, <1>6, <1>7 DEF TypeOK, CallsTyped, CallRec, PagesTyped, PromiseRec
<1>9. /\ \A c \in Call : calls[c] = Idle /\ sealed[c] = NoKey
      /\ \A p \in Pages : promise[p].state = "none" /\ master[p] = NoKey
  BY <1>1, <1>2, ConstantTypes
<1>10. CallInv /\ FailedNeedsFault
  BY <1>3, <1>9, ConstantTypes DEF CallInv, Fits, Loading, Sealing, FailedNeedsFault
<1>11. \/ disk.key = NoKey /\ sealed[0] = NoKey
       \/ disk.key = OldMaster /\ sealed[0] = OldMaster /\ disk.under \in {atRest, Clear} /\ disk.under # NoKey
  BY <1>1, ConstantTypes DEF NoRecord, NoKey
<1>12. DiskInv
  BY <1>9, <1>11, ConstantTypes DEF DiskInv
<1>13. DeviceInv
  BY <1>9 DEF DeviceInv
<1>14. RecordInv
  <2>1. \A c \in Call : Opens(c, calls[c].stage, calls[c].key, calls[c].under)
    BY <1>3, <1>9 DEF Opens, Loading, Making
  <2>2. QED
    BY <1>9, <1>11, <2>1, ConstantTypes DEF RecordInv
<1>15. OneKey
  BY <1>3, <1>9, <1>11, ConstantTypes DEF OneKey, Making, Loading
<1>16. QED
  BY <1>8, <1>10, <1>12, <1>13, <1>14, <1>15 DEF IInv

LEMMA KeysNext == IInv /\ [Next]_vars => IInv'
<1> SUFFICES ASSUME IInv, [Next]_vars PROVE IInv'
  OBVIOUS
<1>1. CASE UNCHANGED vars
  <2>1. UNCHANGED <<atRest, ring, disk, promise, master, calls, sealed, faults, reloads, overlapped, raced>>
    BY <1>1 DEF vars
  <2>2. TypeOK' /\ CallInv' /\ FailedNeedsFault'
    BY <2>1 DEF IInv, TypeOK, CallsTyped, PagesTyped, CallInv, Fits, FailedNeedsFault
  <2>3. DiskInv' /\ DeviceInv' /\ OneKey'
    BY <2>1 DEF IInv, DiskInv, DeviceInv, OneKey
  <2>4. RecordInv'
    BY <2>1 DEF IInv, RecordInv, Opens, LoadedBy
  <2>5. QED
    BY <2>2, <2>3, <2>4 DEF IInv
<1>2. CASE Next
  BY <1>2, AsksKeep, ReadDeviceKeyKeeps, PutDeviceKeyKeeps, DeviceKeyFailsKeeps, AskKeeps, ReadMasterKeeps,
     ReadMasterFailsKeeps, UnwrapKeeps, MigrateWrapKeeps, MigratePutKeeps, TakeLoadedKeeps, MakeKeeps,
     WrapKeeps, PutMasterKeeps, PutMasterFailsKeeps, ReloadKeeps DEF Next
<1>3. QED
  BY <1>1, <1>2

LEMMA KeysAlways == Spec => []IInv
BY KeysStart, KeysNext, PTL DEF Spec

\* In-memory and stored keys differ only for the causes KeysInv names: getAtRestKey,
\* getMasterKeyBytes, loadMasterKey and saveMasterKey on any number of pages and calls.
THEOREM KeysAgree == Spec => []KeysInv
<1>1. IInv => KeysInv
  BY DEF IInv, DeviceInv, RecordInv, KeysInv, OwnDeviceKeyNeedsRace, StaleMasterNeedsCause
<1>2. QED
  BY <1>1, KeysAlways, PTL

\* A master key in memory opens every sealed group key, unless two calls made a master
\* key at once, two pages made a device key at once, or a read failed.
THEOREM LockedOutOnlyForCause == Spec => []LockedOutNeedsCause
<1>1. IInv => LockedOutNeedsCause
  BY DEF IInv, OneKey, LockedOutNeedsCause
<1>2. QED
  BY <1>1, KeysAlways, PTL
====
