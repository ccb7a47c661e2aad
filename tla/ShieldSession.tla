---------------------------- MODULE ShieldSession ----------------------------
(***************************************************************************)
(* The sending half of WebShieldCrypto (arkachat-web/src/lib/shield/       *)
(* crypto.ts) for one contact of one browser profile: the concurrent       *)
(* calls of encryptMessage, the in-memory map of RatchetSession objects,   *)
(* the sendCounter persisted in IndexedDB, and page reloads.               *)
(*                                                                         *)
(* A RatchetSession is reduced to the position of its send chain: two      *)
(* ciphertexts made at the same position use the same message key.  Every  *)
(* session object is named after the call that created it (a call creates  *)
(* at most one).  The steps of a call are cut where the code awaits        *)
(* IndexedDB or WebCrypto; the code between two such awaits runs in one    *)
(* microtask checkpoint and is one action.                                 *)
(***************************************************************************)
EXTENDS Naturals, Sequences, FiniteSets

CONSTANTS
    Call,           \* the calls of encryptMessage, over all the page's lives
    None,           \* undefined / null / "no record"
    MaxReloads,     \* bound: how often the page is reloaded or crashes
    MaxLost,        \* bound: no commit fails when so many saves have been lost
    RestoreFaults   \* may loadSession fail to rebuild a stored session?

Saving == {"initSave", "presave", "save"}

\* A save on its way to the disk: the call, which of its saves, and the value.
Commits == [call : Call, step : Saving, val : Nat]

ASSUME SessionAssumption ==
    /\ None \notin Call
    /\ None \notin Nat
    /\ None \notin Commits
    /\ MaxReloads \in Nat
    /\ MaxLost \in Nat
    /\ RestoreFaults \in BOOLEAN

VARIABLES
    entry,      \* sessions.get(contactId): a session object, or None
    chain,      \* chain[s]: send position of session object s
    record,     \* sendCounter of the stored session record, or None
    txq,        \* the transactions whose request is unanswered, in creation order
    committing, \* the save whose put has succeeded and is not yet committed, or None
    pc,         \* where each call is
    held,       \* held[c]: the session object getSession returned to call c
    target,     \* target[c]: the entry a pending saveSession of c captured
    snap,       \* snap[c]: what loadSession of c read
    counter,    \* counter[c]: chain position of c's ciphertext
    released,   \* the calls that handed their ciphertext to the caller
    reloads,    \* how many reloads so far (bounded by MaxReloads)
    forked,     \* history: a second session object started from an old position
    lost,       \* history: the saves that resolved and were never committed
    overlapped  \* history: the calls that were under way together with another

vars == <<entry, chain, record, txq, committing, pc, held, target, snap, counter,
          released, reloads, forked, lost, overlapped>>

disk    == <<record, committing, lost>>
history == <<released, reloads, forked, overlapped>>

Terminal == {"done", "failed", "lost"}
States   == {"idle", "loading", "restoring", "fetchKey"} \cup Saving \cup Terminal

\* A transaction: the call that opened it and the sendCounter it writes (None:
\* the read-only transaction of loadSession).
Tx == [call : Call, val : Nat \cup {None}]

Init ==
    /\ entry = None
    /\ chain = [s \in Call |-> 0]
    /\ record = None
    /\ txq = <<>>
    /\ committing = None
    /\ pc = [c \in Call |-> "idle"]
    /\ held = [c \in Call |-> None]
    /\ target = [c \in Call |-> None]
    /\ snap = [c \in Call |-> None]
    /\ counter = [c \in Call |-> None]
    /\ released = {}
    /\ reloads = 0
    /\ forked = FALSE
    /\ lost = {}
    /\ overlapped = {}

Goto(c, label) == pc' = [pc EXCEPT ![c] = label]

Queued(c) == \E i \in 1..Len(txq) : txq[i].call = c

UnderWay == {c \in Call : pc[c] \notin {"idle"} \cup Terminal}

\* Call c begins: it overlaps the calls that are under way.
Begins(c) ==
    /\ pc[c] = "idle"
    /\ overlapped' = overlapped \cup (IF UnderWay = {} THEN {} ELSE UnderWay \cup {c})

-----------------------------------------------------------------------------
(* getSession                                                              *)

\* The map has a session: use it, and enter saveSessionWithSendCounterOffset.
BeginWarm(c) ==
    /\ Begins(c)
    /\ entry # None
    /\ held' = [held EXCEPT ![c] = entry]
    /\ target' = [target EXCEPT ![c] = entry]
    /\ Goto(c, "presave")
    /\ UNCHANGED <<disk, entry, chain, txq, snap, counter, released, reloads, forked>>

\* The map has none: loadSession opens a read-only transaction.
BeginCold(c) ==
    /\ Begins(c)
    /\ entry = None
    /\ txq' = Append(txq, [call |-> c, val |-> None])
    /\ Goto(c, "loading")
    /\ UNCHANGED <<disk, entry, chain, held, target, snap, counter, released, reloads,
                   forked>>

\* The transaction of c is the next to run: the object store's transactions run
\* one after the other, each when the one before it has committed or aborted.
Runs(c) ==
    /\ txq # <<>> /\ Head(txq).call = c
    /\ committing = None

\* The read succeeds: the record (or its absence) is what the rest works on.
LoadRead(c) ==
    /\ pc[c] = "loading"
    /\ Runs(c)
    /\ snap' = [snap EXCEPT ![c] = record]
    /\ txq' = Tail(txq)
    /\ Goto(c, IF record = None THEN "fetchKey" ELSE "restoring")
    /\ UNCHANGED <<disk, history, entry, chain, held, target, counter>>

\* sessions.set(contactId, ...) by call c with a chain at position n.  The map
\* is not looked at again after the awaits, so an entry that another call set
\* meanwhile is replaced.
Install(c, n) ==
    /\ chain' = [chain EXCEPT ![c] = n]
    /\ entry' = c
    /\ held' = [held EXCEPT ![c] = c]
    /\ target' = [target EXCEPT ![c] = c]
    /\ forked' = (forked \/ entry # None)

\* Mutant: a call that finds the map filled meanwhile drops its own session,
\* and never resolves.
RestoreOnce(c) ==
    /\ pc[c] = "restoring"
    /\ entry = None
    /\ Install(c, snap[c])
    /\ Goto(c, "presave")
    /\ UNCHANGED <<disk, txq, snap, counter, released, reloads, overlapped>>

\* fromState fast-forwards a new WASM session to the stored sendCounter.
Restore(c) ==
    /\ pc[c] = "restoring"
    /\ Install(c, snap[c])
    /\ Goto(c, "presave")
    /\ UNCHANGED <<disk, txq, snap, counter, released, reloads, overlapped>>

\* decryptAtRest or fromState throws (or the root key is empty): loadSession
\* resolves null, as if nothing had been stored.
RestoreFails(c) ==
    /\ RestoreFaults
    /\ pc[c] = "restoring"
    /\ forked' = TRUE
    /\ Goto(c, "fetchKey")
    /\ UNCHANGED <<disk, entry, chain, txq, held, target, snap, counter, released,
                   reloads, overlapped>>

\* No stored session: a new one from the shared key, and a first saveSession.
Create(c) ==
    /\ pc[c] = "fetchKey"
    /\ Install(c, 0)
    /\ Goto(c, "initSave")
    /\ UNCHANGED <<disk, txq, snap, counter, released, reloads, overlapped>>

-----------------------------------------------------------------------------
(* saveSessionWithSendCounterOffset, encryptMessage                        *)

\* Mutant: the save after the encryption writes the call's own counter, read
\* before the awaits.
PutOwnCounter(c) ==
    /\ pc[c] \in Saving
    /\ ~Queued(c)
    /\ txq' = Append(txq, [call |-> c,
                           val |-> CASE pc[c] = "presave" -> chain[target[c]] + 1
                                     [] pc[c] = "save" -> counter[c] + 1
                                     [] OTHER -> chain[target[c]]])
    /\ UNCHANGED <<disk, history, entry, chain, pc, held, target, snap, counter>>

\* Mutant: every save stores the position after the current one.
PutAlwaysAhead(c) ==
    /\ pc[c] \in Saving
    /\ ~Queued(c)
    /\ txq' = Append(txq, [call |-> c, val |-> chain[target[c]] + 1])
    /\ UNCHANGED <<disk, history, entry, chain, pc, held, target, snap, counter>>

\* Mutant: the save before the encryption stores the counter as it is.
PutUnbumped(c) ==
    /\ pc[c] \in Saving
    /\ ~Queued(c)
    /\ txq' = Append(txq, [call |-> c, val |-> chain[target[c]]])
    /\ UNCHANGED <<disk, history, entry, chain, pc, held, target, snap, counter>>

\* encryptAtRest(rootKey) has resolved: put() is called, with the captured
\* session's sendCounter as it is now, plus one before the encryption.
Put(c) ==
    /\ pc[c] \in Saving
    /\ ~Queued(c)
    /\ txq' = Append(txq, [call |-> c,
                           val |-> chain[target[c]] + IF pc[c] = "presave" THEN 1 ELSE 0])
    /\ UNCHANGED <<disk, history, entry, chain, pc, held, target, snap, counter>>

\* The put of the transaction that runs succeeds: request.onsuccess resolves the
\* save, whose transaction has yet to commit.  The code after the await follows.
PutDone(c) ==
    /\ pc[c] \in Saving
    /\ Runs(c)
    /\ committing' = [call |-> c, step |-> pc[c], val |-> Head(txq).val]
    /\ txq' = Tail(txq)
    /\ UNCHANGED <<record, lost>>

\* getSession returns the session it created; encryptMessage starts the save
\* that precedes the encryption.
Created(c) ==
    /\ pc[c] = "initSave"
    /\ PutDone(c)
    /\ target' = [target EXCEPT ![c] = entry]
    /\ Goto(c, "presave")
    /\ UNCHANGED <<history, entry, chain, held, snap, counter>>

\* Mutant: the ciphertext is handed out without awaiting the second save.
EncryptAndRelease(c) ==
    /\ pc[c] = "presave"
    /\ PutDone(c)
    /\ counter' = [counter EXCEPT ![c] = chain[held[c]]]
    /\ chain' = [chain EXCEPT ![held[c]] = @ + 1]
    /\ target' = [target EXCEPT ![c] = entry]
    /\ released' = released \cup {c}
    /\ Goto(c, "save")
    /\ UNCHANGED <<entry, held, snap, reloads, forked, overlapped>>

\* session.encrypt on the held object, then saveSession on the map's entry.
Encrypt(c) ==
    /\ pc[c] = "presave"
    /\ PutDone(c)
    /\ counter' = [counter EXCEPT ![c] = chain[held[c]]]
    /\ chain' = [chain EXCEPT ![held[c]] = @ + 1]
    /\ target' = [target EXCEPT ![c] = entry]
    /\ Goto(c, "save")
    /\ UNCHANGED <<history, entry, held, snap>>

\* The call resolves: its ciphertext may be sent.
Return(c) ==
    /\ pc[c] = "save"
    /\ PutDone(c)
    /\ released' = released \cup {c}
    /\ Goto(c, "done")
    /\ UNCHANGED <<entry, chain, held, target, snap, counter, reloads, forked, overlapped>>

\* The request of the transaction that runs fails, or the transaction is aborted
\* under it: request.onerror rejects and the call ends without a ciphertext.
TxFails(c) ==
    /\ Runs(c)
    /\ txq' = Tail(txq)
    /\ Goto(c, "failed")
    /\ UNCHANGED <<disk, history, entry, chain, held, target, snap, counter>>

\* The transaction whose put has succeeded commits.
Commit ==
    /\ committing # None
    /\ record' = committing.val
    /\ committing' = None
    /\ UNCHANGED <<history, entry, chain, txq, pc, held, target, snap, counter, lost>>

\* The saves that are lost when the transaction that is committing goes.
Uncommitted ==
    IF committing = None THEN {} ELSE {<<committing.call, committing.step>>}

\* It aborts instead (quota, a disk error).  There is no onabort and nobody waits
\* for oncomplete: the call has gone on, and the record stays what it was.
CommitFails ==
    /\ committing # None
    /\ Cardinality(lost) < MaxLost
    /\ lost' = lost \cup Uncommitted
    /\ committing' = None
    /\ UNCHANGED <<history, entry, chain, record, txq, pc, held, target, snap, counter>>

\* A call fails between its transactions: there is no shared key, or the key
\* store does not open, or the root key cannot be wrapped.  The map keeps what
\* the call has installed.
CallFails(c) ==
    /\ pc[c] \in {"fetchKey"} \cup Saving
    /\ ~Queued(c)
    /\ Goto(c, "failed")
    /\ UNCHANGED <<disk, history, entry, chain, txq, held, target, snap, counter>>

\* The page is reloaded or crashes: memory and unfinished transactions go.
Reload ==
    /\ reloads < MaxReloads
    /\ reloads' = reloads + 1
    /\ entry' = None
    /\ txq' = <<>>
    /\ committing' = None
    /\ lost' = lost \cup Uncommitted
    /\ pc' = [c \in Call |-> IF pc[c] \in {"idle"} \cup Terminal THEN pc[c] ELSE "lost"]
    /\ UNCHANGED <<chain, record, held, target, snap, counter, released, forked, overlapped>>

Step(c) ==
    \/ BeginWarm(c)  \/ BeginCold(c) \/ LoadRead(c) \/ Restore(c)
    \/ RestoreFails(c) \/ Create(c)  \/ Put(c)      \/ Created(c)
    \/ Encrypt(c)    \/ Return(c)    \/ TxFails(c)
    \/ CallFails(c)

Next == Reload \/ Commit \/ CommitFails \/ \E c \in Call : Step(c)

Spec == Init /\ [][Next]_vars

\* IndexedDB runs its transactions and the event loop resumes awaiting calls.
\* Nothing obliges anybody to make a call, to reload, or a fault to happen.
Progress(c) ==
    \/ LoadRead(c) \/ Restore(c) \/ Create(c) \/ Put(c)
    \/ Created(c)  \/ Encrypt(c) \/ Return(c)

FairSpec == Spec /\ WF_vars(Commit) /\ \A c \in Call : WF_vars(Progress(c))

-----------------------------------------------------------------------------
(* Properties                                                              *)

TypeOK ==
    /\ entry \in Call \cup {None}
    /\ chain \in [Call -> Nat]
    /\ record \in Nat \cup {None}
    /\ txq \in Seq(Tx)
    /\ committing \in Commits \cup {None}
    /\ pc \in [Call -> States]
    /\ held \in [Call -> Call \cup {None}]
    /\ target \in [Call -> Call \cup {None}]
    /\ snap \in [Call -> Nat \cup {None}]
    /\ counter \in [Call -> Nat \cup {None}]
    /\ released \subseteq Call
    /\ reloads \in 0..MaxReloads
    /\ forked \in BOOLEAN
    /\ lost \subseteq Call \X Saving
    /\ overlapped \subseteq Call

\* No two ciphertexts handed out for the contact were ever made at the same
\* position of the send chain.  crypto.ts:353-356 states it as what saving the
\* counter first is for: without it a crash "would let the next session replay
\* counter N for a NEW message".  The code does not meet it: see ReuseNeedsFork.
NoCounterReuse ==
    \A c, d \in released : c # d => counter[c] # counter[d]

\* What can leave a released ciphertext without a stored counter beyond it: the
\* save that followed its encryption never reached the disk, and the one that
\* preceded it does not stand in: it did not either, or another call was under
\* way, whose ciphertext took the position it had made room for.
Exposed(c) ==
    /\ <<c, "save">> \in lost
    /\ <<c, "presave">> \in lost \/ c \in overlapped

\* As long as getSession never put a second session object next to a live or
\* stored one, the two saves keep counters unique, whatever the calls'
\* interleaving, the failed saves and the reloads are, except with a ciphertext
\* that was handed out before its saves were durable and whose saves then failed.
ReuseNeedsFork ==
    forked \/ \A c, d \in released :
                c # d /\ counter[c] = counter[d] => Exposed(c) \/ Exposed(d)

\* A released ciphertext is covered by what the next page life would start from:
\* the stored counter, or the save of the call that is committing, is beyond it,
\* and so is everything queued behind: a save that overtakes another one must not
\* bring an old counter back.  One lost save of a call that was alone costs
\* nothing: the save before the encryption has already stored the position.
StoredCounterCoversReleased ==
    forked \/ \A c \in released :
        \/ Exposed(c)
        \/ /\ \/ record # None /\ record > counter[c]
              \/ committing # None /\ committing.call = c /\ committing.step = "save"
           /\ committing # None => committing.val > counter[c]
           /\ \A i \in 1..Len(txq) : txq[i].val # None => txq[i].val > counter[c]

\* A position below a released one that no ciphertext uses blocks the peer's
\* strict chain.  The saves leave such a hole only behind a call that failed or
\* died under way, or in a forked session; finished calls number their
\* ciphertexts without gaps, across reloads too.
HolesNeedACasualty ==
    forked \/ \A c \in released : \A k \in 0..(counter[c] - 1) :
        \/ \E d \in Call : counter[d] = k
        \/ \E d \in Call : pc[d] \in {"failed", "lost"}

\* Every call settles: no call waits forever on the transaction queue or on
\* another call.  (There are finitely many calls, so it comes to the same that
\* again and again none is under way.)
EveryCallSettles == []<>(\A c \in Call : pc[c] \in {"idle"} \cup Terminal)
=============================================================================
