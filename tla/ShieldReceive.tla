---------------------------- MODULE ShieldReceive ----------------------------
(***************************************************************************)
(* The receiving half of WebShieldCrypto (arkachat-web/src/lib/shield/     *)
(* crypto.ts) for one contact: concurrent calls of decryptMessage, the     *)
(* buffer of ciphertexts that failed, and the retry loop over it.          *)
(*                                                                         *)
(* The peer's ciphertexts are numbered by their position on its send       *)
(* chain.  They may reach decryptMessage in any order.  A RatchetSession   *)
(* is reduced to the next position its receive chain accepts; the WASM     *)
(* ratchet rejects any other ("out of order message") and does not move.   *)
(* Session objects and JavaScript arrays are named after the call that     *)
(* created them.  Steps are cut where the code awaits IndexedDB or         *)
(* WebCrypto, as in ShieldSession.                                         *)
(***************************************************************************)
EXTENDS Naturals, Sequences, SequencesExt

CONSTANTS
    N,              \* the peer sends positions 0 .. N-1, one call for each
    None,
    MaxReloads,     \* bound: how often the page is reloaded or crashes
    MaxFaults       \* bound: how many transactions fail

ASSUME ReceiveAssumption ==
    /\ N \in Nat
    /\ None \notin Nat
    /\ MaxReloads \in Nat /\ MaxFaults \in Nat

Msg == 0..(N - 1)

VARIABLES
    entry,      \* sessions.get(contactId): a session object, or None
    expected,   \* expected[s]: next position session object s accepts
    stored,     \* is there a session record in IndexedDB?
    pend,       \* pendingDecrypt.get(contactId): an array, or None
    arr,        \* arr[a]: the contents of array a
    pc,         \* where each call is
    held,       \* held[m]: the session object call m goes on with after an await
    list, idx,  \* the array retryPending of call m iterates, next index
    shown,      \* positions whose decryptMessage resolved with the plaintext
    recovered,  \* positions a retry has dispatched as window events, in order
    reloads, faults,
    dropped,    \* history: positions decrypted whose plaintext an error threw away
    forked,     \* history: a session object replaced another one
    overlapped  \* history: two retries were under way at once

vars == <<entry, expected, stored, pend, arr, pc, held, list, idx, shown,
          recovered, reloads, faults, dropped, forked, overlapped>>

retryVars == <<list, idx, overlapped>>
faultVars == <<reloads, faults, dropped>>

Terminal == {"shown", "buffered", "failed", "lost"}
States == {"idle", "loading", "restoring", "fetchKey", "creating", "saving",
           "retrySave"} \cup Terminal

Init ==
    /\ entry = None
    /\ expected = [s \in Msg |-> 0]
    /\ stored = FALSE
    /\ pend = None
    /\ arr = [a \in Msg |-> <<>>]
    /\ pc = [m \in Msg |-> "idle"]
    /\ held = [m \in Msg |-> None]
    /\ list = [m \in Msg |-> None]
    /\ idx = [m \in Msg |-> 1]
    /\ shown = {}
    /\ recovered = <<>>
    /\ reloads = 0 /\ faults = 0
    /\ dropped = {}
    /\ forked = FALSE
    /\ overlapped = FALSE

\* pendingDecrypt.get(contactId), an empty queue standing for none.
Buffered == IF pend = None THEN <<>> ELSE arr[pend]

Goto(m, label) == pc' = [pc EXCEPT ![m] = label]

-----------------------------------------------------------------------------
(* decryptMessage                                                          *)

\* Mutant: the ratchet also accepts positions it has passed.
AcceptsOld(x, e) == x <= e

\* Mutant: the ratchet skips to any later position.
AcceptsAhead(x, e) == x >= e

\* The WASM receive chain at e accepts the ciphertext of position x.
Accepts(x, e) == x = e

\* Mutant: a success advances the chain twice.
TryDecryptTwice(m, s, e) ==
    \/ /\ Accepts(m, e)
       /\ expected' = [expected EXCEPT ![s] = e + 2]
       /\ Goto(m, "saving")
       /\ UNCHANGED <<pend, arr>>
    \/ /\ ~Accepts(m, e)
       /\ expected' = [expected EXCEPT ![s] = e]
       /\ pend' = IF pend = None THEN m ELSE pend
       /\ arr' = [arr EXCEPT ![pend'] = Append(@, m)]
       /\ Goto(m, "buffered")

\* session.decrypt(ciphertext) by call m on session s, whose chain is at e.
\* Success goes on to saveSession; failure buffers the ciphertext and throws.
TryDecrypt(m, s, e) ==
    \/ /\ Accepts(m, e)
       /\ expected' = [expected EXCEPT ![s] = e + 1]
       /\ Goto(m, "saving")
       /\ UNCHANGED <<pend, arr>>
    \/ /\ ~Accepts(m, e)
       /\ expected' = [expected EXCEPT ![s] = e]
       /\ pend' = IF pend = None THEN m ELSE pend
       /\ arr' = [arr EXCEPT ![pend'] = Append(@, m)]
       /\ Goto(m, "buffered")

BeginWarm(m) ==
    /\ pc[m] = "idle"
    /\ entry # None
    /\ TryDecrypt(m, entry, expected[entry])
    /\ UNCHANGED <<entry, stored, held, shown, recovered, faultVars, forked, retryVars>>

BeginCold(m) ==
    /\ pc[m] = "idle"
    /\ entry = None
    /\ Goto(m, "loading")
    /\ UNCHANGED <<entry, expected, stored, pend, arr, held, shown, recovered, faultVars,
                   forked, retryVars>>

LoadRead(m) ==
    /\ pc[m] = "loading"
    /\ Goto(m, IF stored THEN "restoring" ELSE "fetchKey")
    /\ UNCHANGED <<entry, expected, stored, pend, arr, held, shown, recovered, faultVars,
                   forked, retryVars>>

\* sessions.set by call m, whatever the map holds by then.
Install(m) ==
    /\ entry' = m
    /\ forked' = (forked \/ entry # None)

\* Mutant: a call that finds the map filled meanwhile drops its own session,
\* and never resolves.
RestoreOnce(m) ==
    /\ pc[m] = "restoring"
    /\ entry = None
    /\ Install(m)
    /\ TryDecrypt(m, m, 0)
    /\ UNCHANGED <<stored, held, shown, recovered, faultVars, retryVars>>

\* fromState: the receive chain of the restored session starts at 0, whatever
\* recvCounter says.  The call then decrypts with it.
Restore(m) ==
    /\ pc[m] = "restoring"
    /\ Install(m)
    /\ TryDecrypt(m, m, 0)
    /\ UNCHANGED <<stored, held, shown, recovered, faultVars, retryVars>>

\* decryptAtRest or fromState throws: as if nothing had been stored.
RestoreFails(m) ==
    /\ pc[m] = "restoring"
    /\ faults < MaxFaults /\ faults' = faults + 1
    /\ Goto(m, "fetchKey")
    /\ UNCHANGED <<entry, expected, stored, pend, arr, held, shown, recovered, reloads,
                   dropped, forked, retryVars>>

\* No record: RatchetSession.create, then getSession awaits a first saveSession.
Create(m) ==
    /\ pc[m] = "fetchKey"
    /\ Install(m)
    /\ expected' = [expected EXCEPT ![m] = 0]
    /\ held' = [held EXCEPT ![m] = m]
    /\ Goto(m, "creating")
    /\ UNCHANGED <<stored, pend, arr, shown, recovered, faultVars, retryVars>>

Created(m) ==
    /\ pc[m] = "creating"
    /\ stored' = TRUE
    /\ TryDecrypt(m, held[m], expected[held[m]])
    /\ held' = [held EXCEPT ![m] = None]
    /\ UNCHANGED <<entry, shown, recovered, faultVars, forked, retryVars>>

-----------------------------------------------------------------------------
(* saveSession, retryPending                                               *)

Retrying(m) == pc[m] = "retrySave"

\* The ciphertext whose save a retry awaits.
Current(m) == arr[list[m]][idx[m] - 1]

\* Mutant: remaining is started afresh after each recovered ciphertext.
ScanResets(m, s, a, i, done) ==
    LET hits == {k \in i..Len(arr[a]) : Accepts(arr[a][k], expected[s])} IN
    \/ \E k \in hits :
           /\ arr' = [arr EXCEPT ![m] = SubSeq(arr[a], i, k - 1)]
           /\ list' = [list EXCEPT ![m] = a]
           /\ idx' = [idx EXCEPT ![m] = k + 1]
           /\ held' = [held EXCEPT ![m] = s]
           /\ expected' = [expected EXCEPT ![s] = @ + 1]
           /\ Goto(m, "retrySave")
           /\ UNCHANGED <<pend, shown>>
    \/ /\ hits = {}
       /\ arr' = [arr EXCEPT ![m] = done \o SubSeq(arr[a], i, Len(arr[a]))]
       /\ pend' = IF arr'[m] = <<>> THEN None ELSE m
       /\ shown' = shown \cup {m}
       /\ Goto(m, "shown")
       /\ list' = [list EXCEPT ![m] = None]
       /\ idx' = [idx EXCEPT ![m] = 1]
       /\ held' = [held EXCEPT ![m] = None]
       /\ UNCHANGED expected

\* The loop of retryPending in call m, over array a from index i on session s,
\* with done moved to remaining so far.  Failures are moved to remaining until a
\* ciphertext decrypts, whose saveSession is awaited, or the array ends, whose
\* remaining then replaces the array in the map.  The iterator is live: it sees
\* what other calls push to the array while this one awaits.
Scan(m, s, a, i, done) ==
    LET hits == {k \in i..Len(arr[a]) : Accepts(arr[a][k], expected[s])} IN
    \/ \E k \in hits :
           /\ arr' = [arr EXCEPT ![m] = done \o SubSeq(arr[a], i, k - 1)]
           /\ list' = [list EXCEPT ![m] = a]
           /\ idx' = [idx EXCEPT ![m] = k + 1]
           /\ held' = [held EXCEPT ![m] = s]
           /\ expected' = [expected EXCEPT ![s] = @ + 1]
           /\ Goto(m, "retrySave")
           /\ UNCHANGED <<pend, shown>>
    \/ /\ hits = {}
       /\ arr' = [arr EXCEPT ![m] = done \o SubSeq(arr[a], i, Len(arr[a]))]
       /\ pend' = IF arr'[m] = <<>> THEN None ELSE m
       /\ shown' = shown \cup {m}
       /\ Goto(m, "shown")
       /\ list' = [list EXCEPT ![m] = None]
       /\ idx' = [idx EXCEPT ![m] = 1]
       /\ held' = [held EXCEPT ![m] = None]
       /\ UNCHANGED expected

\* saveSession has resolved: with nothing buffered the plaintext is returned,
\* otherwise retryPending takes the array and the session that are in the maps.
Saved(m) ==
    /\ pc[m] = "saving"
    /\ stored' = TRUE
    /\ \/ /\ Buffered = <<>>
          /\ shown' = shown \cup {m}
          /\ Goto(m, "shown")
          /\ UNCHANGED <<expected, pend, arr, held, list, idx, overlapped>>
       \/ /\ Buffered # <<>>
          /\ Scan(m, entry, pend, 1, <<>>)
          /\ overlapped' = (overlapped \/ \E o \in Msg : Retrying(o))
    /\ UNCHANGED <<entry, recovered, faultVars, forked>>

\* The saveSession of a recovered ciphertext has resolved: its event goes out,
\* and the loop goes on.
RetrySaved(m) ==
    /\ pc[m] = "retrySave"
    /\ recovered' = Append(recovered, Current(m))
    /\ Scan(m, held[m], list[m], idx[m], arr[m])
    /\ UNCHANGED <<entry, stored, faultVars, forked, overlapped>>

\* A transaction fails, and decryptMessage throws: before it has decrypted, and
\* the ciphertext is not buffered; or after it, and the plaintext is gone, with
\* that of the ciphertext a retry has just decrypted.  A failed retry leaves the
\* array as it is.
TxFails(m) ==
    /\ pc[m] \in {"loading", "creating", "saving", "retrySave"}
    /\ faults < MaxFaults /\ faults' = faults + 1
    /\ dropped' = dropped \cup (CASE pc[m] = "saving"    -> {m}
                                  [] pc[m] = "retrySave" -> {m, Current(m)}
                                  [] OTHER               -> {})
    /\ Goto(m, "failed")
    /\ UNCHANGED <<entry, expected, stored, pend, arr, held, shown, recovered, reloads,
                   forked, retryVars>>

\* Everything but the IndexedDB record is lost.
Reload ==
    /\ reloads < MaxReloads
    /\ reloads' = reloads + 1
    /\ entry' = None
    /\ pend' = None
    /\ arr' = [a \in Msg |-> <<>>]
    /\ expected' = [s \in Msg |-> 0]
    /\ held' = [m \in Msg |-> None]
    /\ list' = [m \in Msg |-> None]
    /\ idx' = [m \in Msg |-> 1]
    /\ pc' = [m \in Msg |-> IF pc[m] \in {"idle", "shown"} THEN pc[m] ELSE "lost"]
    /\ UNCHANGED <<stored, shown, recovered, faults, dropped, forked, overlapped>>

Arrive(m) == BeginWarm(m) \/ BeginCold(m)

Progress(m) ==
    \/ LoadRead(m) \/ Restore(m) \/ Create(m)
    \/ Created(m)  \/ Saved(m)   \/ RetrySaved(m)

Next == Reload \/ \E m \in Msg : Arrive(m) \/ Progress(m) \/ RestoreFails(m) \/ TxFails(m)

Spec == Init /\ [][Next]_vars

\* Only what is already under way is bound to go on: IndexedDB and WebCrypto
\* answer, and the event loop resumes the calls that await them.
FairSpec == Spec /\ \A m \in Msg : WF_vars(Progress(m))

-----------------------------------------------------------------------------
(* Properties                                                              *)

TypeOK ==
    /\ entry \in Msg \cup {None}
    /\ expected \in [Msg -> 0..N]
    /\ stored \in BOOLEAN
    /\ pend \in Msg \cup {None}
    /\ arr \in [Msg -> Seq(Msg)]
    /\ pc \in [Msg -> States]
    /\ held \in [Msg -> Msg \cup {None}]
    /\ list \in [Msg -> Msg \cup {None}]
    /\ idx \in [Msg -> Nat]
    /\ shown \subseteq Msg /\ recovered \in Seq(Msg)
    /\ reloads \in 0..MaxReloads /\ faults \in 0..MaxFaults /\ dropped \subseteq Msg
    /\ forked \in BOOLEAN /\ overlapped \in BOOLEAN

\* A ciphertext is decrypted once, by its own call or by one retry: no message is
\* processed twice, however calls and retries overlap and although overlapping
\* retries leave decrypted ciphertexts in the buffer.
DecryptedOnce ==
    /\ shown \cap ToSet(recovered) = {}
    /\ IsInjective(recovered)

\* crypto.ts:364-367: a ciphertext that fails "is queued and retried": while the
\* page lives it stays in the queue of the map until it has been decrypted.
BufferedUntilDecrypted ==
    \A m \in Msg : pc[m] = "buffered" => m \in ToSet(Buffered) \cup ToSet(recovered) \cup dropped

\* Only retries that overlap can drop a ciphertext from the queue, whatever arrives
\* while a retry awaits a save.
BufferLossNeedsOverlap == overlapped \/ BufferedUntilDecrypted

\* What decryptMessage and the retries hand over has no holes: behind a position
\* that was handed over, every earlier one was too, or its save is under way, or
\* an error or the end of the page has taken it.
ShownWithoutHoles == \A m \in shown \cup ToSet(recovered) : \A k \in 0..(m - 1) :
    \/ k \in shown \cup ToSet(recovered) \cup dropped
    \/ pc[k] \in {"saving", "retrySave", "lost"}
    \/ \E r \in Msg : Retrying(r) /\ Current(r) = k

AllHandled == \A m \in Msg : pc[m] \in {"shown", "buffered"}

\* crypto.ts:102-105: after a reload messages fail to decrypt "until
\* WebShieldCrypto's pending-message retry loop resolves them": once every call
\* has ended and none was cut off by the reload, nothing is left undecrypted.
\* The code does not meet it: the restored chain starts at 0, and the retry loop
\* runs only behind a decryption that succeeds.  (For calls that share one session
\* object: a fork has defects of its own.)
RestoredChainResolves == AllHandled /\ ~forked => shown \cup ToSet(recovered) = Msg

\* Every call settles, retries included: the live iterator reaches its end.
\* (There are finitely many calls, so it comes to the same that again and again
\* none is under way.)
EveryCallSettles == []<>(\A m \in Msg : pc[m] \in {"idle"} \cup Terminal)

\* What decryptMessage promises in every state, whatever its calls, retries and a
\* reload are doing: the variables have their types, nothing is decrypted twice,
\* and nothing is handed over with a hole before it.
ReceiveInv == /\ TypeOK /\ DecryptedOnce /\ ShownWithoutHoles
=============================================================================
