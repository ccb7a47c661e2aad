--------------------------- MODULE EncryptedStore ---------------------------
(***************************************************************************)
(* The persisted stores of the web client: chatStore and groupStore behind *)
(* createEncryptedStorage (arkachat-web/src/lib/storage/atRestCrypto.ts),  *)
(* for one store of one page that is loaded again and again.               *)
(*                                                                         *)
(* The persisted part of a store is the set of updates made to it.  Every  *)
(* set() of the store, also of a field that is not persisted, captures     *)
(* that part and calls setItem, which encrypts it and then writes it to    *)
(* localStorage; nothing waits for setItem, and the encryptions of several *)
(* calls end in any order.  The page is loaded with getItem, whose result  *)
(* replaces the persisted part of the store ("hydration").                 *)
(***************************************************************************)
EXTENDS Naturals, Sequences, SequencesExt

CONSTANTS
    Update,         \* what is ever added to the persisted part of the store
    Legacy,         \* the updates of a cleartext blob that is there at first
    None, Clear,    \* no key or no blob, and the "key" of a cleartext blob
    MaxKeys,        \* bound: generated keys
    MaxWrites,      \* bound: setItem calls under way
    MaxLoads,       \* bound: page loads
    MaxFaults       \* bound: failures of IndexedDB, WebCrypto or localStorage

Blob == [key : {Clear} \cup Nat, updates : SUBSET Update]

ASSUME StoreAssumption ==
    /\ Legacy \subseteq Update
    /\ None \notin Nat /\ Clear \notin Nat /\ None # Clear
    /\ None \notin Blob
    /\ MaxKeys \in Nat /\ MaxWrites \in Nat /\ MaxLoads \in Nat /\ MaxFaults \in Nat

VARIABLES
    blob,       \* localStorage: [key, updates], or None
    dbKey,      \* the wrapping key in IndexedDB, or None
    page,       \* closed, hydrating, ready
    raw,        \* the blob getItem has read, or None
    keyPromise, \* none, reading, storing, resolved
    key,        \* the key of keyPromise: a number, or None
    mem,        \* the persisted part of the store, in memory
    writes,     \* what the setItem calls under way captured, in call order
    keys,       \* how many keys were generated (bounded by MaxKeys)
    loads, faults,
    durable,    \* history: the updates localStorage has ever held
    early,      \* history: a set() came before the page was hydrated
    overtaken,  \* history: a write ended before one of an earlier set()
    blinded     \* history: a page was hydrated without what was stored

vars == <<blob, dbKey, page, raw, keyPromise, key, mem, writes, keys, loads,
          faults, durable, early, overtaken, blinded>>

storage == <<blob, dbKey, durable>>
causes  == <<early, overtaken, blinded>>

Init ==
    /\ blob \in {None, [key |-> Clear, updates |-> Legacy]}
    /\ dbKey = None
    /\ page = "closed"
    /\ raw = None
    /\ keyPromise = "none" /\ key = None
    /\ mem = {} /\ writes = <<>>
    /\ keys = 0 /\ loads = 0 /\ faults = 0
    /\ durable = (IF blob = None THEN {} ELSE Legacy)
    /\ early = FALSE /\ overtaken = FALSE /\ blinded = FALSE

Faulty == faults < MaxFaults /\ faults' = faults + 1

-----------------------------------------------------------------------------
(* The page                                                                *)

\* getAtRestKey: whoever needs the key first starts loadOrCreateKey.
NeedKey == keyPromise' = IF keyPromise = "none" THEN "reading" ELSE keyPromise

\* The store is created and getItem reads localStorage.  Without a blob, or
\* with a cleartext one, the page is hydrated before anything else happens.
Load ==
    /\ page = "closed"
    /\ loads < MaxLoads
    /\ loads' = loads + 1
    /\ raw' = blob
    /\ IF blob = None \/ blob.key = Clear
         THEN /\ page' = "ready"
              /\ mem' = IF blob = None THEN {} ELSE blob.updates
              /\ UNCHANGED keyPromise
         ELSE /\ page' = "hydrating"
              /\ mem' = {}
              /\ NeedKey
    /\ UNCHANGED <<storage, key, writes, keys, faults, causes>>

\* Mutant: what could not be decrypted is taken for an empty store.
HydrateAny ==
    /\ page = "hydrating" /\ keyPromise = "resolved"
    /\ page' = "ready"
    /\ mem' = {}
    /\ UNCHANGED <<storage, raw, keyPromise, key, writes, keys, loads, faults, causes>>

\* The blob is decrypted and replaces what the store held.
Hydrate ==
    /\ page = "hydrating" /\ keyPromise = "resolved"
    /\ page' = "ready"
    /\ mem' = IF raw.key = key THEN raw.updates ELSE mem
    /\ UNCHANGED <<storage, raw, keyPromise, key, writes, keys, loads, faults, causes>>

\* Mutant: what is captured is the state before the update.
SetStale(new) ==
    /\ page # "closed"
    /\ Len(writes) < MaxWrites
    /\ mem' = mem \cup new
    /\ writes' = Append(writes, mem)
    /\ NeedKey
    /\ early' = (early \/ page = "hydrating")
    /\ UNCHANGED <<storage, page, raw, key, keys, loads, faults, overtaken, blinded>>

\* set() of the store, with at most one new update, and the setItem it starts.
Set(new) ==
    /\ page # "closed"
    /\ Len(writes) < MaxWrites
    /\ mem' = mem \cup new
    /\ writes' = Append(writes, mem')
    /\ NeedKey
    /\ early' = (early \/ page = "hydrating")
    /\ UNCHANGED <<storage, page, raw, key, keys, loads, faults, overtaken, blinded>>

\* setConnectionState, selectContact, initialize: nothing of it is persisted.
Touch  == Set({})
Add(u) == u \notin mem /\ Set({u})

\* The page is closed or reloaded, or crashes.
Close ==
    /\ page # "closed"
    /\ page' = "closed"
    /\ raw' = None /\ mem' = {} /\ writes' = <<>>
    /\ keyPromise' = "none" /\ key' = None
    /\ UNCHANGED <<storage, keys, loads, faults, causes>>

-----------------------------------------------------------------------------
(* loadOrCreateKey                                                         *)

\* Mutant: the key is used before it is stored.
ReadKeyEager ==
    /\ keyPromise = "reading"
    /\ \/ /\ dbKey # None
          /\ key' = dbKey
          /\ UNCHANGED keys
       \/ /\ dbKey = None /\ keys < MaxKeys
          /\ key' = keys /\ keys' = keys + 1
    /\ keyPromise' = "resolved"
    /\ UNCHANGED <<storage, page, raw, mem, writes, loads, faults, causes>>

\* The stored key is used; if there is none, one is generated and stored.
ReadKey ==
    /\ keyPromise = "reading"
    /\ \/ /\ dbKey # None
          /\ key' = dbKey
          /\ keyPromise' = "resolved"
          /\ UNCHANGED keys
       \/ /\ dbKey = None /\ keys < MaxKeys
          /\ key' = keys /\ keys' = keys + 1
          /\ keyPromise' = "storing"
    /\ UNCHANGED <<storage, page, raw, mem, writes, loads, faults, causes>>

KeyStored ==
    /\ keyPromise = "storing"
    /\ dbKey' = key
    /\ keyPromise' = "resolved"
    /\ UNCHANGED <<blob, durable, page, raw, key, mem, writes, keys, loads, faults, causes>>

\* Mutant: getItem does not catch the failure.
KeyFailsUncaught ==
    /\ keyPromise \in {"reading", "storing"}
    /\ Faulty
    /\ keyPromise' = "none" /\ key' = None
    /\ writes' = <<>>
    /\ UNCHANGED <<storage, page, raw, mem, keys, loads, causes>>

\* Everybody who awaited the key fails: setItem gives up, and getItem's null
\* hydrates the page with nothing.  The next one to need the key tries again.
KeyFails ==
    /\ keyPromise \in {"reading", "storing"}
    /\ Faulty
    /\ keyPromise' = "none" /\ key' = None
    /\ writes' = <<>>
    /\ page' = "ready"
    /\ blinded' = (blinded \/ page = "hydrating")
    /\ UNCHANGED <<storage, raw, mem, keys, loads, early, overtaken>>

-----------------------------------------------------------------------------
(* setItem                                                                 *)

\* An encryption ends and localStorage is written.
WriteEnds(i) ==
    /\ keyPromise = "resolved"
    /\ blob' = [key |-> key, updates |-> writes[i]]
    /\ durable' = durable \cup writes[i]
    /\ writes' = RemoveAt(writes, i)
    /\ overtaken' = (overtaken \/ i > 1)
    /\ UNCHANGED <<dbKey, page, raw, keyPromise, key, mem, keys, loads, faults, early, blinded>>

\* The encryption fails, or localStorage is full: only a line in the log.
WriteFails(i) ==
    /\ keyPromise = "resolved"
    /\ Faulty
    /\ writes' = RemoveAt(writes, i)
    /\ UNCHANGED <<storage, page, raw, keyPromise, key, mem, keys, loads, causes>>

-----------------------------------------------------------------------------
Next ==
    \/ Load \/ Touch \/ Close
    \/ Hydrate \/ ReadKey \/ KeyStored \/ KeyFails
    \/ \E u \in Update : Add(u)
    \/ \E i \in DOMAIN writes : WriteEnds(i) \/ WriteFails(i)

Spec == Init /\ [][Next]_vars

\* IndexedDB and WebCrypto answer, and the event loop goes on.
FairSpec == Spec /\ WF_vars(Hydrate) /\ WF_vars(ReadKey) /\ WF_vars(KeyStored)

-----------------------------------------------------------------------------
(* Properties                                                              *)

\* Every variable stays in its range.
TypeOK ==
    /\ blob \in {None} \cup Blob /\ raw \in {None} \cup Blob
    /\ dbKey \in {None} \cup Nat /\ key \in {None} \cup Nat
    /\ page \in {"closed", "hydrating", "ready"}
    /\ keyPromise \in {"none", "reading", "storing", "resolved"}
    /\ mem \subseteq Update /\ durable \subseteq Update
    /\ writes \in Seq(SUBSET Update) /\ Len(writes) <= MaxWrites
    /\ keys \in 0..MaxKeys /\ loads \in 0..MaxLoads /\ faults \in 0..MaxFaults
    /\ {early, overtaken, blinded} \subseteq BOOLEAN

Saved == IF blob = None THEN {} ELSE blob.updates

\* Whatever crashes, a blob can be decrypted by the next page: its key was
\* in IndexedDB before anything was encrypted with it.
BlobOpens == blob = None \/ blob.key = Clear \/ blob.key = dbKey

\* What localStorage has held it keeps, across updates, crashes, failed
\* writes and page loads, unless a set() came before the hydration had ended
\* (its setItem stores the still empty store), a write was overtaken by a
\* later one, or getItem took a failure for an empty store.
StoredStaysStored == early \/ overtaken \/ blinded \/ durable \subseteq Saved

\* When a page has nothing under way, localStorage holds what it shows, under
\* the same conditions and if no write has failed.
SettledIsSaved ==
    page = "ready" /\ writes = <<>> /\ faults = 0 => early \/ overtaken \/ mem = Saved

\* A page does not wait for its stored state for ever.
PageGetsReady == page = "hydrating" ~> page # "hydrating"
=============================================================================
