----------------------------- MODULE DeviceKeys -----------------------------
(***************************************************************************)
(* The keys a browser profile keeps for its groups, three deep:            *)
(*   - the device key of storage/atRestCrypto.ts, one non-extractable      *)
(*     CryptoKey in its own IndexedDB, fetched once per page through a     *)
(*     shared promise;                                                     *)
(*   - the master key of GroupKeyManager, wrapped under the device key in  *)
(*     a second IndexedDB, kept in memory once it was loaded or made;      *)
(*   - the group keys, each sealed under the master key its call was       *)
(*     given.                                                              *)
(* Several pages of one profile share the databases and nothing else.      *)
(* Every await is a step, so that calls of one page and of several         *)
(* interleave; requests to IndexedDB may fail; a page may be reloaded.     *)
(*                                                                         *)
(* Abstractions.  A key is a number.  Which sealed records a page has in   *)
(* its group store is EncryptedStore's matter: here a page may be asked to *)
(* open any record sealed so far.  Sealing and opening read nothing that   *)
(* changes, so they happen with the step that hands over the master key.   *)
(***************************************************************************)
EXTENDS Integers

CONSTANTS Pages,        \* the pages of the profile, positive numbers
          MaxCalls,     \* bound: calls that need the master key
          MaxMishaps    \* bound: requests to IndexedDB that fail, and pages reloaded

ASSUME Bounds == /\ Pages \subseteq Nat \ {0}
                 /\ {MaxCalls, MaxMishaps} \subseteq Nat

Call == 1..MaxCalls
NoKey == 0
OldMaster == MaxCalls + 1              \* the master key of an earlier session
Master == Call \cup {OldMaster}        \* a new one is named by the call that made it
Clear == -1                            \* under no device key: a record in cleartext, of an old version
NoRecord == [key |-> NoKey, under |-> NoKey, by |-> 0]

VARIABLES
  atRest,     \* the device key in IndexedDB
  ring,       \* device keys generated so far
  promise,    \* keyPromise of each page
  disk,       \* the master key's record: the key, the device key it is wrapped under, the page that wrote it
  master,     \* this.masterKey of each page
  calls,      \* the calls and how far each got
  sealed,     \* the master key each group key was sealed under, by the call that sealed it; 0: an earlier session's
  faults,     \* ghost: the requests that failed, reads and writes
  reloads,    \* pages reloaded
  overlapped, \* ghost: a call found no master key while another was making one
  raced       \* ghost: a page found no device key while another was storing one

deviceVars == <<atRest, ring, promise>>
ghosts == <<overlapped, raced>>
vars == <<atRest, ring, promise, disk, master, calls, sealed, faults, reloads, overlapped, raced>>

Idle == [stage |-> "idle", page |-> 0, kind |-> "seal", of |-> 0,
         key |-> NoKey, under |-> NoKey, struck |-> FALSE]

Waiting == {"unwrap", "migrate", "wrap"}       \* the stages that await getAtRestKey
Making == {"null", "wrap", "put"}              \* past loadMasterKey, with nothing loaded
Settled == {"idle", "done", "failed", "gone"}
Stages == Settled \cup Waiting \cup Making \cup {"load", "migrating", "loaded"}

\* A profile never used, one used before, and one an old version left in cleartext.
Init ==
  /\ \E before \in {"fresh", "used", "legacy"}, k \in 0..1 :
       /\ before = "used" => k = 1
       /\ atRest = k /\ ring = k
       /\ disk = IF before = "fresh" THEN NoRecord
                 ELSE [key |-> OldMaster, under |-> IF before = "used" THEN k ELSE Clear, by |-> 0]
       /\ sealed = [c \in 0..MaxCalls |-> IF c = 0 /\ before # "fresh" THEN OldMaster ELSE NoKey]
  /\ promise = [p \in Pages |-> [state |-> "none", key |-> NoKey]]
  /\ master = [p \in Pages |-> NoKey]
  /\ calls = [c \in Call |-> Idle]
  /\ faults = [read |-> 0, write |-> 0] /\ reloads = 0
  /\ overlapped = FALSE /\ raced = FALSE

(***************************************************************************)
(* The device key                                                          *)
(***************************************************************************)

\* getAtRestKey: the pages' calls share one promise, started by the first.
Asked(p) == IF promise[p].state = "none" THEN [promise EXCEPT ![p].state = "reading"] ELSE promise

\* The persisted stores and the file storage want the device key too.
StoreAsks(p) ==
  /\ promise[p].state = "none"
  /\ promise' = Asked(p)
  /\ UNCHANGED <<atRest, ring, disk, master, calls, sealed, faults, reloads, ghosts>>

\* loadOrCreateKey looks; without a key it generates one and goes to store it.
ReadDeviceKey(p) ==
  /\ promise[p].state = "reading"
  /\ IF atRest # NoKey
       THEN promise' = [promise EXCEPT ![p] = [state |-> "ready", key |-> atRest]] /\ UNCHANGED <<ring, raced>>
       ELSE /\ promise' = [promise EXCEPT ![p] = [state |-> "putting", key |-> ring + 1]]
            /\ ring' = ring + 1
            /\ raced' = (raced \/ \E q \in Pages : promise[q].state = "putting")
  /\ UNCHANGED <<atRest, disk, master, calls, sealed, faults, reloads, overlapped>>

PutDeviceKey(p) ==
  /\ promise[p].state = "putting"
  /\ atRest' = promise[p].key
  /\ promise' = [promise EXCEPT ![p].state = "ready"]
  /\ UNCHANGED <<ring, disk, master, calls, sealed, faults, reloads, ghosts>>

MishapLeft == faults.read + faults.write + reloads < MaxMishaps

Fault(kind) ==
  /\ MishapLeft
  /\ faults' = [faults EXCEPT ![kind] = @ + 1]

\* What a rejected promise does to a call that awaits it: saveMasterKey throws,
\* loadMasterKey answers null, a migration is given up and its key used all the same.
Rejected(call) ==
  CASE call.stage = "wrap" -> [call EXCEPT !.stage = "failed", !.struck = TRUE]
    [] call.stage = "unwrap" -> [call EXCEPT !.stage = "null", !.struck = TRUE]
    [] call.stage = "migrate" -> [call EXCEPT !.stage = "loaded", !.struck = TRUE]
    [] OTHER -> call

\* Mutant: the rejected promise is kept, and whoever asks next awaits it.
ForgottenNot(p) == [promise EXCEPT ![p] = [state |-> "rejected", key |-> NoKey]]

\* Mutant: a key that could not be stored is used all the same.
ForgottenUnlessMade(p) ==
  [promise EXCEPT ![p].state = IF @ = "putting" THEN "ready" ELSE "none"]

\* The catch of getAtRestKey forgets the promise, so that the next call tries again.
Forgotten(p) == [promise EXCEPT ![p] = [state |-> "none", key |-> NoKey]]

DeviceKeyFails(p) ==
  /\ \/ promise[p].state = "reading" /\ Fault("read")
     \/ promise[p].state = "putting" /\ Fault("write")
  /\ promise' = Forgotten(p)
  /\ calls' = [c \in Call |-> IF calls[c].page = p THEN Rejected(calls[c]) ELSE calls[c]]
  /\ UNCHANGED <<atRest, ring, disk, master, sealed, reloads, ghosts>>

(***************************************************************************)
(* The master key: getMasterKeyBytes, loadMasterKey, saveMasterKey         *)
(***************************************************************************)

\* What a call does once it has the master key m: encryptKeyForStorage seals a key
\* of a group created, rotated or received; decryptKeyFromStorage opens a record,
\* which works only under the key that sealed it.
Finish(c, call, m) ==
  /\ calls' = [calls EXCEPT ![c] =
       [call EXCEPT !.stage = IF call.kind = "open" /\ sealed[call.of] # m THEN "failed" ELSE "done", !.key = m]]
  /\ sealed' = IF call.kind = "seal" THEN [sealed EXCEPT ![c] = m] ELSE sealed

Goto(c, stage) == calls' = [calls EXCEPT ![c].stage = stage]

\* Mutant: the copy in memory is taken for the only one; the disk is not read.
StartUnread(c, call) ==
  IF master[call.page] # NoKey
    THEN Finish(c, call, master[call.page])
    ELSE calls' = [calls EXCEPT ![c] = [call EXCEPT !.stage = "null"]] /\ UNCHANGED sealed

\* The cached key answers at once; else the call goes to read the disk.
Start(c, call) ==
  IF master[call.page] # NoKey
    THEN Finish(c, call, master[call.page])
    ELSE calls' = [calls EXCEPT ![c] = [call EXCEPT !.stage = "load"]] /\ UNCHANGED sealed

\* createGroupKey, rotateKey, storeReceivedKey; encryptGroupMessage, decryptGroupMessage.
Ask(c) ==
  /\ calls[c].stage = "idle" /\ \A d \in 1..(c - 1) : calls[d].stage # "idle"
  /\ \E p \in Pages :
       \/ Start(c, [Idle EXCEPT !.page = p])
       \/ \E r \in 0..MaxCalls : sealed[r] # NoKey /\ Start(c, [Idle EXCEPT !.page = p, !.kind = "open", !.of = r])
  /\ UNCHANGED <<deviceVars, disk, master, faults, reloads, ghosts>>

\* The read of the record: missing, wrapped, or an old version's cleartext.
ReadMaster(c) ==
  /\ calls[c].stage = "load"
  /\ IF disk.key = NoKey
       THEN /\ Goto(c, "null")
            /\ overlapped' = (overlapped \/ \E d \in Call : calls[d].stage \in Making)
            /\ UNCHANGED promise
       ELSE /\ calls' = [calls EXCEPT ![c] = [@ EXCEPT !.stage = IF disk.under = Clear THEN "migrate" ELSE "unwrap",
                                                     !.key = disk.key, !.under = disk.under]]
            /\ promise' = Asked(calls[c].page)
            /\ UNCHANGED overlapped
  /\ UNCHANGED <<atRest, ring, disk, master, sealed, faults, reloads, raced>>

\* A failed open or get is answered like a missing record.
ReadMasterFails(c) ==
  /\ calls[c].stage = "load" /\ Fault("read")
  /\ calls' = [calls EXCEPT ![c] = [@ EXCEPT !.stage = "null", !.struck = TRUE]]
  /\ UNCHANGED <<deviceVars, disk, master, sealed, reloads, ghosts>>

Ready(c) == promise[calls[c].page].state = "ready"
DeviceKey(c) == promise[calls[c].page].key

\* Mutant: a record that does not open fails the call.
UnopenedThrows == "failed"

\* loadMasterKey answers null for a record that does not open.
Unopened == "null"

\* decryptAtRest: another device key does not open the record.
Unwrap(c) ==
  /\ calls[c].stage = "unwrap" /\ Ready(c)
  /\ IF calls[c].under = DeviceKey(c)
       THEN Finish(c, calls[c], calls[c].key) /\ master' = [master EXCEPT ![calls[c].page] = calls[c].key]
       ELSE Goto(c, Unopened) /\ UNCHANGED <<sealed, master>>
  /\ UNCHANGED <<deviceVars, disk, faults, reloads, ghosts>>

\* The migration of a cleartext record; its outcome does not matter to the call.
MigrateWrap(c) ==
  /\ calls[c].stage = "migrate" /\ Ready(c)
  /\ calls' = [calls EXCEPT ![c] = [@ EXCEPT !.stage = "migrating", !.under = DeviceKey(c)]]
  /\ UNCHANGED <<deviceVars, disk, master, sealed, faults, reloads, ghosts>>

Record(c) == [key |-> calls[c].key, under |-> calls[c].under, by |-> calls[c].page]

MigratePut(c) ==
  /\ calls[c].stage = "migrating" /\ Goto(c, "loaded")
  /\ \/ disk' = Record(c) /\ UNCHANGED faults
     \/ Fault("write") /\ UNCHANGED disk
  /\ UNCHANGED <<deviceVars, master, sealed, reloads, ghosts>>

TakeLoaded(c) ==
  /\ calls[c].stage = "loaded"
  /\ Finish(c, calls[c], calls[c].key)
  /\ master' = [master EXCEPT ![calls[c].page] = calls[c].key]
  /\ UNCHANGED <<deviceVars, disk, faults, reloads, ghosts>>

\* Nothing loaded: a new master key, without another look at this.masterKey.
Make(c) ==
  /\ calls[c].stage = "null"
  /\ calls' = [calls EXCEPT ![c] = [@ EXCEPT !.stage = "wrap", !.key = c]]
  /\ promise' = Asked(calls[c].page)
  /\ UNCHANGED <<atRest, ring, disk, master, sealed, faults, reloads, ghosts>>

Wrap(c) ==
  /\ calls[c].stage = "wrap" /\ Ready(c)
  /\ calls' = [calls EXCEPT ![c] = [@ EXCEPT !.stage = "put", !.under = DeviceKey(c)]]
  /\ UNCHANGED <<deviceVars, disk, master, sealed, faults, reloads, ghosts>>

\* Mutant: the first key a page made stays the one in memory, whatever is stored later.
MasterAfterFirst(c) ==
  IF master[calls[c].page] = NoKey THEN [master EXCEPT ![calls[c].page] = calls[c].key] ELSE master

\* this.masterKey = newKey, whatever was there.
MasterAfter(c) == [master EXCEPT ![calls[c].page] = calls[c].key]

PutMaster(c) ==
  /\ calls[c].stage = "put"
  /\ disk' = Record(c) /\ master' = MasterAfter(c)
  /\ Finish(c, calls[c], calls[c].key)
  /\ UNCHANGED <<deviceVars, faults, reloads, ghosts>>

PutMasterFails(c) ==
  /\ calls[c].stage = "put" /\ Fault("write")
  /\ calls' = [calls EXCEPT ![c] = [@ EXCEPT !.stage = "failed", !.struck = TRUE]]
  /\ UNCHANGED <<deviceVars, disk, master, sealed, reloads, ghosts>>

\* A page is reloaded, or closed and opened again: its memory and its calls are gone.
Reload(p) ==
  /\ MishapLeft /\ reloads' = reloads + 1
  /\ promise' = [promise EXCEPT ![p] = [state |-> "none", key |-> NoKey]]
  /\ master' = [master EXCEPT ![p] = NoKey]
  /\ calls' = [c \in Call |-> IF calls[c].page = p /\ calls[c].stage \notin Settled
                               THEN [calls[c] EXCEPT !.stage = "gone"] ELSE calls[c]]
  /\ UNCHANGED <<atRest, ring, disk, sealed, faults, ghosts>>

Next ==
  \/ \E p \in Pages : StoreAsks(p)
  \/ \E p \in Pages : ReadDeviceKey(p)
  \/ \E p \in Pages : PutDeviceKey(p)
  \/ \E p \in Pages : DeviceKeyFails(p)
  \/ \E c \in Call : Ask(c)
  \/ \E c \in Call : ReadMaster(c)
  \/ \E c \in Call : ReadMasterFails(c)
  \/ \E c \in Call : Unwrap(c)
  \/ \E c \in Call : MigrateWrap(c)
  \/ \E c \in Call : MigratePut(c)
  \/ \E c \in Call : TakeLoaded(c)
  \/ \E c \in Call : Make(c)
  \/ \E c \in Call : Wrap(c)
  \/ \E c \in Call : PutMaster(c)
  \/ \E c \in Call : PutMasterFails(c)
  \/ \E p \in Pages : Reload(p)

Spec == Init /\ [][Next]_vars

(***************************************************************************)
(* Properties                                                              *)
(***************************************************************************)

TypeOK ==
  /\ atRest \in Nat /\ ring \in Nat /\ reloads \in 0..MaxMishaps
  /\ promise \in [Pages -> [state : {"none", "reading", "putting", "ready"}, key : Nat]]
  /\ disk \in [key : {NoKey} \cup Master, under : Nat \cup {Clear}, by : {0} \cup Pages]
  /\ master \in [Pages -> {NoKey} \cup Master]
  /\ calls \in [Call -> [stage : Stages, page : {0} \cup Pages, kind : {"seal", "open"}, of : 0..MaxCalls,
                         key : {NoKey} \cup Master, under : Nat \cup {Clear}, struck : BOOLEAN]]
  /\ sealed \in [0..MaxCalls -> {NoKey} \cup Master]
  /\ faults \in [{"read", "write"} -> 0..MaxMishaps]
  /\ overlapped \in BOOLEAN /\ raced \in BOOLEAN

\* A page holds a master key that does not open some group key only if two calls
\* made a master key at the same time, two pages made a device key at the same
\* time, or a read of a key failed: a failed write alone, a reload, a migration and
\* any order of calls after the first one settled lock no group key away.
LockedOutNeedsCause ==
  \A p \in Pages, r \in 0..MaxCalls :
    master[p] # NoKey /\ sealed[r] # NoKey /\ sealed[r] # master[p] => overlapped \/ raced \/ faults.read > 0

\* A page encrypts under a device key that is not the stored one only after two
\* pages made one at the same time: a failed read or write of it is never papered
\* over with a key of the page's own.
OwnDeviceKeyNeedsRace ==
  \A p \in Pages : promise[p].state = "ready" /\ promise[p].key # atRest => raced

\* A call of p ended with the master key that p holds, and had read it from the record.
LoadedBy(p) ==
  \E c \in Call : /\ calls[c].page = p /\ calls[c].stage \in {"done", "failed"}
                  /\ calls[c].under # NoKey /\ calls[c].key = master[p] /\ calls[c].key # c

\* The calls of one page that make a master key leave the same one in memory and on
\* disk, however they interleave: when the two differ, another page wrote the record
\* last, or a call of the page loaded an earlier record while others were making
\* keys, or a read failed, or device keys raced.
StaleMasterNeedsCause ==
  \A p \in Pages :
    master[p] # NoKey /\ disk.key # master[p] => disk.by # p \/ LoadedBy(p) \/ raced \/ faults.read > 0

\* A failure is not remembered: a call that gets no key was itself struck by a
\* failing request, and a call that fails otherwise is one whose record was sealed
\* under another master key.
FailedNeedsFault ==
  \A c \in Call : calls[c].stage = "failed" =>
    calls[c].struck \/ (calls[c].kind = "open" /\ calls[c].key \notin {NoKey, sealed[calls[c].of]})

\* "Creates one if it doesn't exist" (getMasterKeyBytes): a stored master key is
\* never replaced by another one.  The code does not meet it: a record that
\* cannot be read is taken for one that is not there.
CreatedOnlyIfMissing == [][disk.key # NoKey => disk'.key = disk.key]_vars

\* What a page has in memory and what is on disk come apart only by a race of pages or
\* of calls or by a failing read, for the device key and for the master key, and a
\* failing request is not remembered.
KeysInv == /\ TypeOK /\ OwnDeviceKeyNeedsRace /\ StaleMasterNeedsCause /\ FailedNeedsFault
=============================================================================
