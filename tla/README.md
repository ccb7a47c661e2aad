# ArkAChat in TLA+

A verification development of ArkAChat, the end-to-end encrypted messenger of
this repository.  It models the protocol and the state of the web client, of its
relay, of the assistant behind it and of its desktop shell, checks them with TLC
on small instances, and proves what matters most for every instance with TLAPS.

Contents: [the system](#the-system) · [the modules](#the-modules) ·
[the runs](#the-runs) · [bounds](#bounds) · [fairness](#fairness) ·
[what is proved](#what-is-proved) · [what was found](#what-was-found) ·
[what is not modelled](#what-is-not-modelled) · [the plan](#the-plan) ·
[running it](#running-it)

Paths are relative to the root of the repository.  `web/` stands for
`arkachat-web/src/`, `android/` for
`arkachat-android/app/src/main/java/ai/dikestra/arkachat/`.

## The system

ArkAChat is several programs that share one protocol.  Two users pair with a QR
code, which holds a shared key and the addresses of two one-way message queues.
Every message is then encrypted with a ratchet session ("Shield") and sent to
the contact's queue ("SimpleX").  A group is a set of such pairwise
conversations, over which group keys and group messages travel.

```
   web client                                            web client
 +---------------------+                            +---------------------+
 | dialogs  (Pairing)  |                            |                     |
 | chat/groupStore     |--EncryptedStore, DeviceKeys|                     |
 | ShieldSimplexBridge |<-- Messaging, FileTransfer, -> ShieldSimplexBridge|
 |                     |    GroupControl            |                     |
 |  WebShieldCrypto    |--ShieldSession, -Receive---|  WebShieldCrypto    |
 |  LocalRelayClient   |<--Relay--> relay <--Relay->|  LocalRelayClient   |
 |  WebSimplexClient   |<--SmpClient--> SMP servers |                     |
 +---------------------+                            +---------------------+
   runs in a browser or                Telegram --+
   in Desktop (Electron)               SimpleX  --+-- Assistant
```

### Inventory

For each part: the state it keeps, its operations, what makes it hard, and what
it has to get right.

**Pairwise ratchet sessions** (`web/lib/shield/crypto.ts`).
State: the map `sessions` of RatchetSession objects, the map `pendingDecrypt` of
ciphertexts that could not be decrypted, and the session records (root key,
send and receive counter) in IndexedDB.  Operations: `getSession`,
`encryptMessage`, `decryptMessage`, `retryPending`, `saveSession`, key import
and generation.  The send chain gives every ciphertext a position; the receive
chain accepts the next position and no other.  Hard: every operation awaits
IndexedDB and WebCrypto several times, calls for one contact overlap, the page
is reloaded between any two awaits.  Correct if no position is used twice,
stored counters never fall behind what was sent, nothing is decrypted twice,
and no ciphertext is forgotten.

**Relay** (`arkachat-web/relay/index.mjs`).
State: the maps `queues` (subscriber, pending messages) and `messages`, in
memory.  Operations: NEW, SUB, SEND, ACK, the push of pending messages, the
closing of a socket.  Hard: it learns late that a socket is dead, and what it
wrote to one is off the pending list.  Correct if each message is delivered at
most once and in order, and lost only with a socket.

**Relay client** (`LocalRelayClient` in `web/lib/simplex/client.ts`).
State: `ws`, `state`, `subscribedQueues`, `pending` RPCs, reconnection timers.
Operations: connect, RPCs with a timeout of ten seconds, subscribe, send,
acknowledge, createInvitation, acceptInvitation, disconnect.  Hard: answers
that come after their timeout, handlers of an old socket that run while a newer
one is open.  Correct if every call settles, and if what it believes of its
subscriptions is true.

**SMP client** (`WebSimplexClient`, `SmartSimplexClient`, same file).
State: `serverConnections`, `serverStates`, `globalState`, `reconnectTimers`,
`pendingResponses`, `subscribedQueues`.  Operations: connect to a list of servers,
commands with a timeout, createInvitation, acceptInvitation, subscribe, send,
acknowledge, disconnect, and the handlers of a socket.  Hard: sockets of one server
follow each other, and the handlers of an old one run late; the bridge registers its
callbacks when the sockets are already up.  Correct if what is shown is so, a lost
server is dialled again, no message is dropped, and every command settles.

**Adding a contact** (`web/components/AddContactModal.tsx`, `QRScanner.tsx`).
State: the dialog's mode, its invitation and the one it is asked to accept, the calls
of the bridge, the auto-close timer, the camera.  Hard: the dialog stays mounted while
it is closed, so calls, timers and cameras outlive an opening.  Correct if nothing is
connected that was not confirmed, and nothing is left covered or running.

**Conversation bridge** (`web/lib/bridge/shieldSimplexBridge.ts`,
`web/hooks/useChatBridge.ts`, message statuses in `web/lib/storage/chatStore.ts`).
State: the contacts and messages of the store, with a status per message; what
is under way.  Operations: createInvitation, acceptInvitation, sendTextMessage,
sendFile, delivery and read receipts, handleIncomingMessage and a handler per
kind of envelope, markAsRead.  Hard: two functions of one client send at the
same time, any await may fail, and a message that took a chain position and was
not sent blocks those behind it.  Correct if what is shown has no holes, the
ticks tell the truth, and sent messages are shown.

**Group control** (same file, `web/lib/storage/groupStore.ts`,
`web/lib/crypto/groupKeyManager.ts`, `web/hooks/useGroupChat.ts`).  State: groups, members with roles, group messages,
group keys (encrypted with a master key in IndexedDB).  Operations: create a
group, add, remove, promote and demote members, leave, rotate the key,
distribute it, send and receive group messages and receipts.  Hard: there is no
common order of the control messages, each member has its own roster, sends to
several members fail half way, a key is sealed with the session its envelope
takes.  Correct if a removed member never has the current key, rotations stay in
order, and a message is refused, a text left 'sending' or a group half left for a
cause only.

**Persisted stores** (`web/lib/storage/atRestCrypto.ts` with zustand's `persist`).
State: one encrypted blob per store in localStorage, the wrapping key in
IndexedDB, the store in memory.  Operations: getItem at page load, setItem at
every `set()`, the creation of the key.  Hard: nothing waits for setItem,
hydration is asynchronous, failures become `null`.  Correct if a blob always
opens and what was stored stays stored.

**Device and master keys** (`web/lib/storage/atRestCrypto.ts`, the master key in
`web/lib/crypto/groupKeyManager.ts`).  State: a device key in one IndexedDB, a master
key wrapped under it in another, both in the memory of each page, group keys sealed
under the master key.  Hard: several pages, overlapping first calls, requests that fail.
Correct if no group key is locked away and memory and disk agree.

**Encrypted file storage** (`web/lib/storage/encryptedFileStorage.ts`, with the file
messages of the bridge).  State: encrypted files in IndexedDB, file messages with a
status, media keys.  Operations: sendFile, sendEncryptedFile, requestFile and the answer
to it, the handlers of FILE and FILE_DATA.  Hard: what is stored and what is announced
are written over several awaits with a send between them, and a put that was answered
may not commit.  Correct if what is announced is there, arrives and opens.

**Desktop shell** (`arkachat-desktop/main`).  State: the window, tray and quit flag of
each process, the update check, keys in the OS keychain or, in development, in memory.
Hard: the load of the page is awaited before the handlers are registered, two processes
share the keychain, every IPC call races the quit.  Correct if an app that runs can be
seen, quits when told to, and never degrades its keys quietly.

**Traffic obfuscation, padding, relay optimizer** (`web/lib/network/`,
`web/lib/crypto/messagePadding.ts`, `web/lib/routing/`).  A timer per contact that sends
dummies, started by nothing in the application; two pure computations.

**Web interface and API routes, proxy, builds** (`web/app`, `web/components`,
`arkachat-proxy`).  Forms, forwards to other services, configuration templates.

**Android client** (`android/`).  The same protocol in Kotlin with Room: its own
session, group-key, bridge, network and sync-service classes.  It differs where
it matters: no persisted counter, receipts for every kind of envelope, two
consumers of one channel of incoming messages.

**Assistant** (`arkachat-assistant/src`).  A Telegram and ArkAChat bot that answers from
its owner's documents or drafts a reply the owner approves.  State: users and
businesses, drafts (pending, approved, sent, rejected), documents with embeddings, in
SQLite or Supabase; what Telegram and the SimpleX proxy still hold; handlers under way.
Hard: updates of a batch run concurrently, an error that leaves a handler ends the
process, Telegram delivers again what was not confirmed, a send fails between
`markApproved` and `markSent`.  Correct if every question is answered once, and no
draft, user or document is left half done.

**Nitrogen node** (`arkachat-nitrogen/app`).  An Erlang demo of the chat: ETS tables
with caps behind a gen_server, bots under a supervisor, pages.  The rest of that
directory is the vendored framework.

### How the parts interact

The hooks call the bridge; the bridge calls WebShieldCrypto, awaits, then calls
the client, awaits, and writes the store.  Pushed messages come up through the
client's callbacks, not awaited, into `handleIncomingMessage`, which decrypts,
writes the store, acknowledges and sends receipts.  Every `set()` of a store
starts a setItem nobody awaits.  The relay and the clients only share sockets.

So there are places where order is not what it looks like, and a module or two for
each of them: concurrent calls on one ratchet session (`ShieldSession`,
`ShieldReceive`), sockets that die while both ends act (`Relay`, `SmpClient`), functions
of several clients that interleave at their awaits (`Messaging`, `FileTransfer`,
`GroupControl`), writes nobody waits for and keys several pages make (`EncryptedStore`,
`DeviceKeys`), a dialog and a window that outlive what they wait for (`Pairing`,
`Desktop`), and handlers of one batch with a human in the middle (`Assistant`).

The modules of the upper layers take the lower ones by what those modules show of them:
`Messaging` takes queues that are FIFO and may lose a message (`Relay`), and a receiving
chain that accepts the next position only (`ShieldReceive`); `FileTransfer` and
`GroupControl` take carriers that arrive once and in order, or not at all, and a
receiver that is deaf behind a lost position of the chain (`Messaging`); `Pairing` takes the calls of the bridge as sequences of awaits that end or fail.

## The modules

`PROJECT.json` maps every definition to the lines it models.  All modules cut
an asynchronous function at its awaits: the code between two of them runs to
completion and is one action.

| module | models | lines of code behind it |
|---|---|---|
| `ShieldSession` | the sending half of WebShieldCrypto for one contact | `crypto.ts` `getSession`, `loadSession`, `saveSession…`, `encryptMessage` |
| `ShieldReceive` | its receiving half | `decryptMessage`, `retryPending`, `fromState` |
| `Relay` | relay and relay client, queues of an invitation | `relay/index.mjs`, `LocalRelayClient` |
| `MessageQueue` | what a queue promises, abstractly | refined by `Relay` |
| `Messaging` | the conversation of two bridges | `shieldSimplexBridge.ts`, `useChatBridge.ts`, `chatStore.ts`, `groupKeyManager.ts` |
| `MessageTicks` | what the ticks promise, abstractly | refined by `Messaging` |
| `EncryptedStore` | one persisted store over many page loads | `atRestCrypto.ts`, `chatStore.ts`/`groupStore.ts` persistence |
| `GroupControl` | one group on the devices of its creator and his contacts | the group half of `shieldSimplexBridge.ts`, `groupStore.ts`, `groupKeyManager.ts`, `useGroupChat.ts`, `GroupSettingsModal.tsx` |
| `SmpClient` | the client of the public SMP servers | `WebSimplexClient`, the bridge's initialize and shutdown |
| `FileTransfer` | the files of a conversation | `encryptedFileStorage.ts`, the media keys of `crypto.ts`, the file half of `shieldSimplexBridge.ts` |
| `DeviceKeys` | the keys of a browser profile on several pages | `atRestCrypto.ts`, the master key of `groupKeyManager.ts` |
| `Pairing` | the dialog that adds a contact | `AddContactModal.tsx`, `QRScanner.tsx`, the calls they start |
| `Assistant` | the assistant, its channels and its storage | `channels/`, `nanoclaw/orchestrator.ts`, `documents/`, `storage/`, `index.ts` |
| `Desktop` | the Electron shell | `main/index.js`, `updater.js`, `keystore.js`, `preload.js` |
| `ShieldSessionProofs`, `ShieldReceiveProofs`, `RelayProofs`, `MessagingProofs`, `EncryptedStoreProofs`, `DeviceKeysProofs`, `PairingProofs`, `GroupControlProofs` | theorems about the module of that name, and their proofs; those about `Desktop` are in `PairingProofs`, about `Assistant` in `EncryptedStoreProofs`, about `FileTransfer` in `MessagingProofs`, about `SmpClient` in `ShieldSessionProofs` | |
| `MC…` | constants for TLC | |

### ShieldSession

`entry` is `sessions.get(contactId)`; session objects are named after the call
that made them, and `chain[s]` is the send position of object `s`.  `record` is
the stored sendCounter and `txq` the object store's transactions, which
IndexedDB runs in the order they were opened.  A call goes

    idle -> (loading -> restoring | fetchKey -> initSave) -> presave -> save -> done

`BeginWarm`/`BeginCold` is the lookup in `getSession`; `LoadRead`, `Restore`,
`RestoreFails`, `Create`, `Created` are the rest of it; `Put`, `Encrypt`, `Return`
are `encryptMessage`: the counter is saved one ahead, the position is taken, the
counter is saved again, and only then the ciphertext is returned.  A save resolves in
`request.onsuccess` (`crypto.ts:583`), before its transaction has committed, and nothing
hears of an abort.  So `PutDone` lets the call go on and leaves its value in
`committing`; `Commit` writes the record later, `CommitFails` does not, and the next
transaction runs after either.  `TxFails` is a request that fails or is aborted, which
rejects; `CallFails` a call that throws between two of them (no shared key, the root
key cannot be wrapped); `Reload` a reload or crash: memory, unfinished transactions and
the uncommitted value are gone.  Three history variables name causes: `forked`
(`getSession` put a second session object next to a live or stored one), `lost` (saves
that resolved and were never committed) and `overlapped` (calls that were under way
together).  `Exposed(c)` says when lost saves uncover a ciphertext that was handed out:
the save behind its encryption is lost, and the one before it is lost too or was used
up by another call.

### ShieldReceive

The peer's ciphertexts are the positions `0..N-1`, in any order, one call of
`decryptMessage` each.  `expected[s]` is the position object `s` accepts.
JavaScript arrays have identity here (`arr[a]`, named after their creator),
because the code depends on it: `retryPending` iterates the array that other
calls push to and then replaces it in the map (`Scan`).  `shown` are calls that
resolved, `recovered` what a retry dispatched.  `TxFails` is any failed transaction:
before the decryption the ciphertext is gone, after it the plaintext is
(`dropped`), with that of the ciphertext a running retry had just decrypted.  Reads and writes of the session
record do not share a queue here, and a write is taken as committed when it is answered:
what the record says does not influence the receive chain, only whether there is one.

### Relay and MessageQueue

A WebSocket is a record with two ends that learn of its death separately, and a
stream of frames each way.  Relay actions are named after its commands
(`RelayNew`, `RelaySub`, `RelaySend`, `RelayAck`, `RelayClosed`); client actions
after its handlers (`Opens`, `DialFails`, `ClientClosed`, `GetsAnswer`, `GetsMsg`,
`TimesOut`, `TimerFires`).  The users of the client are there as far as they call
it: `Create` and `Accept` of a queue, `SendMessage`, `Acknowledge`, `Shutdown`.
Faults: `Cut` (the path breaks, both ends learn later), `Restart` of the relay,
and a shutdown of the bridge.

`MessageQueue` says what an observer may rely on: a message is taken once,
delivered at most once, never overtaken by a later one, and may be lost at any
time.  The refinement mapping reads the abstract queue off the concrete state:
what is on its way to the recipient's current socket, then what is pending.

### Messaging and MessageTicks

Two parties, `inviter` and `invitee`, and three kinds of message: a text, a file
and a group key (which of the messages are group keys, `keys`, is chosen initially).  An envelope is a message or one of its two receipts; `pc[e]`
says where the function that sends `e` is, `pos[e]` which chain position it was
encrypted at, `wire[p]` what is in `p`'s receive queue.  Here the layers below
are what the modules above show of them: a queue is FIFO and may lose messages,
one page's ciphertexts leave in chain order, and a receiving chain accepts the
next position only.

`Subscribe`, `SaveContact` are acceptInvitation, in the order of its awaits;
`Compose`, `Encrypt`, `Transmit`, `SendAnswered` are the sending functions;
`Receive` is handleIncomingMessage with the handler of the envelope's kind;
`Acknowledged` is the ACK after which a delivery receipt is sent; `MarkRead` is
the hook's markAsRead; `DistributeKey`, `Seal` are the distribution of a group
key.  Faults: `offline` (the client is not connected), `late` (a SEND that was
accepted is not answered in time), `cipher` (encryptMessage throws), `lost` (a
message is lost on its way), `unsaved` (the recipient decrypts a message and cannot
save the session, so decryptMessage throws), `ack` (an ACK is not answered), `reload`.

`MessageTicks` relates the status the author's store shows to the one the
recipient's shows: "delivered" only after the other side shows it, "read" only
after it was read, and the author's own "sent" or "failed" never over a receipt.
It permits what the code does permit: a late delivery receipt after a read
receipt takes the tick back from "read" to "delivered".

### EncryptedStore

The persisted part of a store is the set of updates made to it.  `Set` is any
`set()` of the store, with the setItem it starts: what it captured is appended
to `writes`.  `WriteEnds(i)` ends the i-th of the encryptions under way, in any
order, and writes localStorage.  `Load`, `Hydrate` are getItem and zustand's
hydration; `ReadKey`, `KeyStored`, `KeyFails` are getAtRestKey and
loadOrCreateKey.  zustand is outside the repository: it is modelled by what its
version 4.5.7 does, a setItem at each `set()`, the persisted part replaced once at
hydration.

Three history variables name the ways in which the code does lose what it
stored: `early` (a `set()` came before the hydration ended; its setItem writes
the empty store), `overtaken` (a later write ended first), `blinded` (a failure
was taken for an empty store).  All three are needed: without any one of them
TLC finds `StoredStaysStored` violated.

### GroupControl

Three kinds of state per device: its record of the group (`group`), its member list
(`roster`) and its keys, as `groupStore` and `groupKeyManager` keep them.  A contact id
is the pair of the device that made it and the contact, since ids are random and local
to a device; this is what makes a third member's id meaningless to a receiver.

An operation of a user (`CreateGroup`, `AddGroupMember`, `RemoveGroupMember`,
`ChangeRole`, `UpdateGroupName`, `LeaveGroup`, `SendGroupMessage`,
`SendGroupReadReceipt`) does what the code does before its first await, and becomes a
task: `Rotated` and `Encrypted` are its next steps, `SendsOne` and `SendFails` a turn of
the loop over the members, `LoopEnds` what comes behind the loop.  `GetsKey`/`Stored`
and `GetsCarrier`/`Applied` are handleGroupKeyDistribution and handleGroupMessage up to
and behind their await, with the checks of the roster in `Authorized`.  `Reload` loses
the tasks and keeps the stores.  `marks`, `out` and `dropped` are history: what has
happened, who was removed, which carriers a device refused and why.

Of the sessions below, `Accepted` and `GetsKey` keep what decides whether a carrier is
heard.  A group key is sealed with the pairwise session before its envelope is, so the
envelope is one position ahead of what the member's chain accepts: it waits there, and
the pair is in `stuck` from then on, as behind a send that took a position and failed.
Only over a session that `getSession` has forked can a key come, and then it may not
open (refused as `"sealed"`).  The handlers behind that are modelled as the code has
them, which is why the properties below speak of devices that do get keys.

### SmpClient

A socket is a record with a stream of commands up and a stream of answers and pushes
down.  `Start`, `Initialized` and `Shutdown` are the bridge's initialize and shutdown;
`Opens`, `DialFails`, `Closed`, `Receive` the socket handlers; `TimerFires` the
reconnection timer; `Create`, `Accept`, `Send`, `Acknowledge` the commands, `SomeCall`
their timeouts and rejections.  `ServerTakes`, `Cut`, `ServerCloses` and `TheirSend` are
the outside: a server answers in order, pushes to the last subscriber, and keeps what
was not acknowledged.  `heard`, `dropped`, `since` and `survivors` are history.  The
socket that is live and the one in the map are different things here, which is what the
properties are about.

### FileTransfer

Two devices with their file store, media keys, file messages and tasks, and one stream
of frames to each.  `StoreSharedKey`, `StoreMediaKey`, `AddContact` are the pairing in
the order of its writes; `SendFile`, `SendEncryptedFile`, `Request` the calls of the
user; `Store`, `Send`, `Keep` the steps of a task; `Receive` a frame with its handler,
`DropUnknown` a frame before the contact is saved; `Crash` a closed page.  A file key is
determined by the media key and the id it was derived for (`Data`), which is all that
decides whether a file opens.

`storeFile` returns when its put is answered: the id is in `committing` until `Commit`,
and `CommitFails` or a crash undoes it (`torn`).  `StoreFails` is a database that did not
open or a put that was refused.  Of the ratchet the model keeps the positions that never
come: a send that fails or is cut off behind its encryption leaves a `LOST` frame, a
message of an unknown sender is dropped undecrypted (`DropUnknown`), and the receiver is
`deaf` from then on (`Undecryptable`); so is a page that was loaded again, since nobody
subscribes again.

### DeviceKeys

`ReadDeviceKey`, `PutDeviceKey`, `DeviceKeyFails` are loadOrCreateKey behind the shared
promise of a page; `Ask`, `ReadMaster`, `Unwrap`, `MigrateWrap`, `MigratePut`,
`TakeLoaded`, `Make`, `Wrap`, `PutMaster` a call of getMasterKeyBytes, an await each,
and sealing or opening at its end.  `StoreAsks` is a persisted store that wants the
device key.  A master key is named after the call that made it.  `overlapped`, `raced`
and the two kinds of `faults` are the causes the properties name.

### Pairing

`ui` is the state of AddContactModal, `calls` what the bridge is doing for it,
`scanners` the QRScanner components that were ever mounted.  `Open`, `Close`, `Back`,
`ChooseScan`, `CancelConnect`, `GenerateQR`, `ConfirmConnect`, `Pastes`, `Decodes` are
the user's; `AutoClose` is the timer; `KeyGenerated`, `Subscribed`, `InvitationCreated`,
`InvitationAccepted` the awaits of a call, `StartsUp`, `StartFails`, `StopsNow`,
`Restarts` those of a camera; `Uploads` and `ImageRead` an image that is read in place of
the camera, whose result may come when the dialog has moved on.  The behaviour of
html5-qrcode is external.  `resets`
counts runs of handleClose, `confirmed` what the user has agreed to.

### Assistant

A task is a handler that waits, with the row of the user it has loaded and the place it
has got to.  `FindOrCreate`, `Route`, `Reply`, `AskOwner`, `Claim`, `CreateDocument`,
`InsertChunks`, `CheckPending`, `MarkApproved`, `SendAnswer`, `MarkSent`,
`MarkRejected`, `Report` are the steps of the handlers, `Fails` a call that rejects at
any of them.  `NextBatch` is Telegraf's polling, `Poll` the SimpleX bridge's,
`ExitsOnError`, `Shutdown`, `Starts` the life of the process; `Writes`, `Commands`,
`Taps` are the people.  The two storage backends differ in what is atomic (`backend`).
What the language models answer is open.

### Desktop

One record per process: its window, what it has registered so far, its quit flag, its
update check.  `Start`, `LoadEnds`, `LoadFails`, `Paints` are createWindow with its
await in the middle; `Close`, `TrayClick`, `Activate`, `Quit`, `QuitCloses`, `QuitExits`
the handlers of index.js, with those of Electron behind them; `UpdateAnswers` is
updater.js, `StoreKey`, `DeleteKey`, `Encrypt` are the IPC calls over keystore.js.
`Killed` ends a process anywhere.  `build` (packaged or not, platform) is chosen at the
start.

## The runs

| run | asks | answer |
|---|---|---|
| `session` | Do concurrent calls, failed transactions, saves that resolve and do not commit, failed restores and a reload ever reuse a chain position (`ReuseNeedsFork`), fall behind in the stored counter (`StoredCounterCoversReleased`), skip positions without a failed call (`HolesNeedACasualty`), or hang (`EveryCallSettles`)? | No, if getSession has not forked the session and the saves of the ciphertext were not lost after they resolved. |
| `receive` | Is anything decrypted twice or handed over with a hole before it (`ReceiveInv`), forgotten (`BufferLossNeedsOverlap`), or does a retry hang (`EveryCallSettles`)? | Nothing is decrypted twice; ciphertexts are forgotten only if two retries overlap, plaintexts only if a transaction fails. |
| `relay` | With cuts, restarts, reconnections, timeouts and repeated SUBs: once and in order, stored until delivered, no leak, no false belief about a subscription (`RelayInv`), lost only with a socket (`LostOnlyWithItsSocket`), an implementation of `MessageQueue` (`KeepsPromise`); does every RPC settle, does an accepted message arrive (`Served`)? | Yes, unless a socket of the recipient dies. |
| `messaging` | With a text or a group key one way, a file the other way and any one fault: no holes (`MessagingInv`), stuck only for a cause (`StuckNeedsCause`), an implementation of `MessageTicks` (`TicksTellTheTruth`); is what was sent shown (`SentIsShownOrStuck`), do authors learn of it and does sending end (`AuthorIsTold`)? | Yes, up to the causes the properties name. |
| `store` | Over four page loads with failures and crashes: does the blob open (`BlobOpens`), is what was stored kept (`StoredStaysStored`), is a settled page saved (`SettledIsSaved`), does a page get ready (`PageGetsReady`)? | Yes, up to the three named causes. |
| `group` | Whatever three devices do, over sessions that carry keys or are stuck with them: does a removed member stay without the current key (`RemovedLacksCurrentKey`), do rotations stay in order (`RotationsAreOrdered`), and (`GroupInv`) is anything refused without a cause, does a text stay on 'sending', is a group left by halves? | A removed member never has it. Rotations stay in order unless operations on keys overlap; the rest holds up to the causes named. |
| `smp` | Is there one live socket per server, is what is shown so, is a lost server dialled again (`SmpInv`); who survives a shutdown (`ConnectedAgainNeedsASurvivor`), is every push heard (`PushesAreHeard`), do commands settle and servers come back (`Recovers`)? | Yes, until a shutdown; pushes are heard while the socket of the subscription lives. |
| `files` | With puts that fail or do not commit and positions of the chain that are lost: do the media keys agree, is an announced file stored, which mishap loses one of the two halves of a transfer, do ticks tell the truth (`FilesInv`); is an announced file shown (`AnnouncedIsShown`)? | Yes: stored unless the browser undid a put after `storeFile` had returned, shown unless the receiver is deaf or a mishap hit it. |
| `assistant` | Is a client answered once (`AnsweredOnce`), never with a rejected draft (`RejectedIsUnsent`); which causes leave a draft, a question, an owner or a document half done (`AssistantInv`); does every text get an answer and every approval an end (`WorkEnds`)? | Yes, up to two taps at once and the named failures. |
| `keys` | When is a group key locked away (`LockedOutNeedsCause`), when do the keys in memory and on disk differ, is a failure remembered (`KeysInv`)? | Only after overlapping first calls, a race of two pages or a failed read. |
| `pairing` | Is anything connected that was not confirmed (`ConfirmedBeforeConnected`); when do calls overlap, when does a contact come twice, what leaves a dead end or a running camera (`PairingInv`)? | Never unconfirmed; the others only for the named causes. |
| `desktop` | Is a running app hidden without anybody hiding it (`HiddenNeedsCause`); is an update announced to a dead window, is a key only in memory, does a sealed text stop opening (`DesktopInv`)? | Only if the page painted before its load ended; only while quitting; only in development; only then. |

Each module states its invariants one by one, with a comment on each.  `ReceiveInv`,
`RelayInv` and the other names in `Inv` are the conjunction of the module's type
invariant and of those invariants that are not listed in the `.cfg` under a name of
their own; `Served`, `AuthorIsTold`, `PushesAreHeard`, `Recovers` and `WorkEnds` join
two temporal properties each.

Properties such as `ReuseNeedsFork`, `StuckNeedsCause` or `LockedOutNeedsCause` have
the form "cause or guarantee".  The cause is a history variable set at one line
of code, and the run shows that nothing else breaks the guarantee.  Where a
cause is a defect, [what was found](#what-was-found) says so.

Every property of a run has a mutant: a definition changed the way a plausible bug
would change it (a save that writes an old counter, a SUB that keeps what it pushed, a
key that goes to the members before the removal, a close handler that forgets its timer,
a draft marked without a look at it, a camera that is not told to stop), with which TLC
finds the property violated.  A conjunction has mutants for all of its parts.  The
mutated forms stand before the definitions they replace.

## Bounds

| constant | value | why it is enough |
|---|---|---|
| `session`: calls of encryptMessage, reloads, lost commits | 3, 1, 1 | one call forks, a second races it, a third observes what a reload or a lost commit left; a reload may lose one more save than `MaxLost`, so both saves of a ciphertext can go |
| `receive`: `N`, reloads, failures | 5, 1, 1 | two overlapping retries need two successes with two ciphertexts left over, and one more call that pushes meanwhile; with four positions nothing is ever forgotten |
| `relay`: messages, sockets, SUBs, SUB and SEND calls, faults | 2, 3, 2, 3, 1 | two messages have an order; one end reconnects, also with an old and a new socket open at once; one SUB may time out and be repeated.  Only Queue B: the queues share no state but the sockets |
| `messaging`: messages, faults | 2, 1 of seven kinds | a message each way, of each kind of envelope handling; receipts and a message of the same party race.  One fault is enough to make a hole, and what comes behind it is checked |
| `store`: updates, writes, loads, failures, keys | 2, 3, 4, 2, 6 | a lost update needs an older and a newer capture; three in flight overtake in every way; four loads: store, fail, overwrite, look; keys never run out |
| `group`: devices, operations and faults, at once, `KeepKeys` | 3, 3, 2, 1 | creation, then two operations (or one and a fault), overlapping or not, with two members: remove and add, remove and text, leave and rename.  With `KeepKeys` 1 the clean-up of old keys bites at the second rotation |
| `smp`: servers, sockets, messages, faults | 2, 4, 1 each way, 1 | a server is lost while the other lives; a reconnection and a late handler of the old socket; own and foreign messages on the one queue |
| `files`: files, requests, faults | 2, 1, 1 of five kinds | a file each way or two one way, one asked for; one crash, failing or uncommitted put, failed or late send or unsaved session anywhere.  One is enough to lose a position, and what comes behind it is checked |
| `assistant`: updates, unfinished at once, faults, claims | 3, 2, 1, 4 | a question, a tap and a second tap, or a claim between; two at once race; one failure or end of the process anywhere |
| `keys`: pages, calls, mishaps | 2, 3, 1 | two first calls on one page or on two, and a third that looks at what they stored; a failure or a reload anywhere |
| `pairing`: invitations, calls, openings, scanners, faults | 2, 3, 2, 2, 1 | a call left behind, a second in the next opening, and a third its end lets in; two different invitations or one twice |
| `desktop`: processes, starts, keys, failed loads | 2, 2, 2, 1 | two processes at once or one after the other; a key overwritten by another |

`MaxSockets`, `MaxTries`, `MaxCalls`, `MaxFaults`, `MaxMishaps`, `MaxReloads`, `MaxLost`, `MaxKeys`, `MaxWrites`,
`MaxLoads`, `MaxSteps`, `MaxTasks`, `MaxFiles`, `MaxRequests`, `MaxUpdates`,
`MaxAtOnce`, `MaxOpenings`, `MaxMounts`, `MaxStarts` occur in guards and bound the
behaviours only.  Deadlock is not checked (`CHECK_DEADLOCK FALSE`): when the calls,
messages and faults of an instance are used up, the system rightly stops.  That nothing
stops too early is what the liveness properties say.

## Fairness

Event loops go on: what has been started settles, since IndexedDB, WebCrypto and timers
answer, and a continuation of a resolved promise runs.  No caller has to call, no user
has to read, send, tap or accept, and no fault has to happen.  A failing step is never
needed for progress: every "settles" property holds though failures may never happen.

- `session`, `receive`, `store`: weak fairness per call and per page; in `session` also of
  the commit, which may be a failing one instead.
- `relay`: weak fairness of the relay, of the clients' handlers, of timers and of
  timeouts, each as a class, since an event loop serves all its sockets.  A dead socket
  is noticed by both ends in the end.  `Opens` has strong fairness: a dial may fail for
  a while, but a relay that runs is reached in the end.  `DialFails` is not forced.
- `messaging`: weak fairness of the steps under way, and of incoming messages and the
  end of an acceptance.
- `smp`: weak fairness of the end of initialize, of timeouts, of each timer, and of each
  socket's opening, input and server.
- `files`: weak fairness of each device's tasks, commits and input.  `assistant`: of the event
  loop as a whole; a process that is down need not be started again.
- `group`, `keys`, `pairing` and `desktop` state no liveness.  A group promises none that
  the code keeps: its keys do not arrive.

The properties of the form `[]<>(nothing under way)` say that every call ends,
because each instance has finitely many calls.

## What is proved

TLAPS proves every safety invariant the runs check, in all twelve models, for every value
of the constants: any number of calls, messages, sockets, pages, devices, faults and
reloads.  The theorems are about the same `Spec` and the same properties the runs check.  None of the properties is
inductive, so for each model there is an `IInv` that is, shows `Init => IInv` and
`IInv /\ [Next]_vars => IInv'`, and takes the properties from it.  TLC found no
counterexample to any `IInv` with the constants of the module's run (quantifiers over all
numbers or values restricted to those that occur).

| module | theorem | states |
|---|---|---|
| `ShieldSessionProofs` | `CounterReuseNeedsFork`, `StoredCounterStaysAhead`, `HolesOnlyBehindCasualties` | `ReuseNeedsFork`, `StoredCounterCoversReleased`, `HolesNeedACasualty` |
| `ShieldReceiveProofs` | `ReceivedOnceInOrder`, `ForgottenOnlyByOverlap` | `ReceiveInv`, `BufferLossNeedsOverlap` |
| `RelayProofs` | `RelayKeepsItsWord`, `LostOnlyWithASocket`, `RelayKeepsItsPromise` | `RelayInv`, `LostOnlyWithItsSocket`, the refinement `KeepsPromise` |
| `MessagingProofs` | `MessagingKeepsItsWord`, `StuckForACause`, `TicksAreTrue` | `MessagingInv`, `StuckNeedsCause`, `TicksTellTheTruth` |
| `EncryptedStoreProofs` | `BlobAlwaysOpens`, `StoredIsKept`, `SettledPageIsSaved` | `BlobOpens`, `StoredStaysStored`, `SettledIsSaved` |
| `DeviceKeysProofs` | `KeysAgree`, `LockedOutOnlyForCause` | `KeysInv`, `LockedOutNeedsCause` |
| `PairingProofs` | `OnlyConfirmedIsConnected`, `PairingSafe` | `ConfirmedBeforeConnected`, `PairingInv` |
| `PairingProofs`, of `Desktop` | `WindowIsFound`, `ShellKeepsItsWord` | `HiddenNeedsCause`, `DesktopInv` |
| `EncryptedStoreProofs`, of `Assistant` | `NothingIsHalfDone`, `AnswersGoOutOnce`, `RejectionStands` | `AssistantInv`, `AnsweredOnce`, `RejectedIsUnsent` |
| `MessagingProofs`, of `FileTransfer` | `FilesHold` | `FilesInv` |
| `ShieldSessionProofs`, of `SmpClient` | `ClientHolds`, `ComebacksAreSurvivors`, `PushesAreKept` | `SmpInv`, `ConnectedAgainNeedsASurvivor`, the action property `NoPushIsDropped` |
| `GroupControlProofs` | `RemovedStaysOut`, `GroupSafe`, `RotationsInOrder` | `RemovedLacksCurrentKey`, `GroupInv`, `RotationsAreOrdered` (`TypeCorrect`, `NothingHangsUnlessFault` are the parts of `GroupInv` that need no order) |

**ShieldSession.**  `QueueInv`: a transaction belongs to a call that waits for it, one
each.  `OneSession`: as long as nothing was forked, all calls work with the object in
the map, and what a call has read of an absent session is still so.  `SavingCovered`:
when a call's second save is in the queue, every write behind it is beyond the call's
counter, because the values are read off one chain that only grows and the queue is
first-in first-out.  So, when that save is answered and the ciphertext is released, all
queued writes are beyond it, and so is the stored counter or the write that is committing
(`ReleasedCovered`), and no later call takes its position (`Distinct`).  Answered is not
committed.  If the second save is lost, the first has stored a counter beyond the
ciphertext when it was committed and the call was alone (`Aided`): one that overlaps no
other is the only one under way (`AloneInv`), so what its first save writes is the
position behind the one it goes on to use (`AlonePut`).  What is left is `Exposed`.  For
the holes, every position of the chain that
was ever taken is accounted for by a call or by a reload.

**ShieldReceive.**  `RefInv` says where the map, the calls and the running retries
point, `PlaceInv` that what was decrypted and what waits in the arrays are apart, `FrontInv`
that position 0 is decrypted by its own call or never, so that of all the session objects
that were ever created only one gets further: what was decrypted are the positions that
one has passed.  `BufferKept` adds, for a single retry, that the array it iterates is
still the one in the map and that what it has passed is in `remaining` or was recovered;
that is what two overlapping retries destroy.

**Relay.**  What the ends of a socket know of each other (`SockInv`, `WsInv`), one socket
or one timer per client (`LiveInv`), which calls, frames and queue entries can exist
(`CallInv`, `QueueInv`, `NewInv`, `AnswerInv`), where the relay's subscriber is while a
client believes in a subscription (`SubInv`, `RealInv`), and, for the order, that the
messages of one sending socket are ascending in the stream up, in the pending list and
in the stream down, each behind those further on (`SendOrder`, `GetOrder`).

The refinement of `MessageQueue` is `RelayKeepsItsPromise`.  `Stored` and `InFront` say
which messages are in an observer's queue and which of them come first; by `GetOrder`
none is in it twice, and a sequence without repetitions is determined by its elements and
their order (`SameOrder`).  So a step is judged by what it does to the two: taking a
message appends it or loses it (`Accept`), the callback gets the first (`Deliver`), and
every other step leaves a subsequence (`Lose`).  What the filter `MsgsOf` returns is
proved by a smallest counterexample: of the prefixes of a stream for which the claim
fails there would be a shortest, by the well-foundedness of strict inclusion among
finite sets.  For that, `MsgsOf` is a recursive function, as the provers know no facts
about `SelectSeq`, and `Remains` is stated with a mapping of positions.

**Messaging.**  `ChainInv` ties the two ends of a conversation together: no position
is given out twice, a queue holds in chain order envelopes that were taken and not
received, and the receiving chain is as far as what was received.  `ReceiptInv` and
`StatusInv` relate a receipt under way to what the two stores show, and `CoverInv`
accounts for every position below the sending chain: received, on its way, or spoilt
for a cause.  The many actions are first brought to eight forms of what they do to the
chain (`Moves`: stand still, advance, seal, encrypt, transmit, discard, receive, reload),
and the invariant is proved for those.

The refinement is `TicksAreTrue`: initial states map to initial states, and under
`IInv` a step of the bridges is a step of `MessageTicks` or a stutter.  It needs the
invariant, because a receipt that arrives is one that was sent about a message the
other side shows.

**EncryptedStore.**  `KeyInv`: the page's key is the one in IndexedDB from the moment
anybody can use it.  `ChainInv`: what is stored, what the writes under way captured, in
the order of their calls, and what is in memory form a chain of inclusions; so a write
that overtakes no other only grows what is stored.  `HydrationInv`: nothing changes what
a hydrating page has read, unless a `set()` was early.  `SettledInv`: the last of that
chain is what the page shows.

**DeviceKeys.**  Unless two pages store a device key at once there is one device key, and
a record that was read is a record that opens (`DeviceInv`, `RecordInv`); unless a read
fails, a call that goes on to make a master key found none, and unless two calls make one
at once, whoever made one found nothing sealed (`OneKey`).

**Pairing.**  A call in flight keeps the dialog loading, and a contact stored keeps it in
success, or the dialog was reset since some call began (`CallInv`); so what begins
beside another call begins behind a reset.  `Cameras` counts the scanners that run.

**Desktop.**  In the second half of `PairingProofs`, stated about the instance `Shell` of
the module, whose assumptions on the constants are the hypothesis `ShellBounds`.  The
argument goes by process (`Runs`): what its window may look like follows from its phase
and from whether it quits.  A window that is painted and hidden was hidden by a close, or
painted before `ready-to-show` had a handler.  What the keychain and memory hold agrees
because a packaged app does not run without keytar (`KeychainInv`).

**Assistant.**  In the second half of `EncryptedStoreProofs`, about the instance `Bot`,
with the hypothesis `BotBounds`.  `LineInv`: an update is in one place, held by Telegram
behind the batch, waiting in the proxy or in the hands of one task, so that a task is known
by its message; the updates of the batch are the ones that are both held and handled.
`FormInv` says how far a task gets with an update of its kind.  `AskInv`: a draft is shown
by the task that made it, and nobody taps on it before.  `TapInv` and `SingleInv`: how far
the task of a tap has got says what the draft's status may be, and, as long as taps come
one at a time, whether the client has it; an answered draft that keeps its buttons is one
whose tap is about to take them away, or has met a failure.  `OnceInv`: a message that made
a draft is not handled again unless the process ended before Telegram heard of it.
`UserInv`: nobody has a business before the owner has, which makes `OwnerHasABusiness` and
`OwnerlessNeedsCause` inductive.  `ReplyInv` follows a message until it is replied to.

**FileTransfer.**  In the second half of `MessagingProofs`, about the instance `Files`,
with the hypothesis `FileBounds`.  An id is given to one file by one device, so no file's
message is about a later id (`TaskOK`, `AnnouncedInv`).  What a device stored it has, or it
was undone (`Had`), and a message goes out behind a put that was answered: this is
`AnnouncedIsStored`, which names `torn` because the code does not wait for the commit.  A
receipt is about a file its sender shows, wherever it is (`TaskOK`, `FrameOK`); frames that
are lost or dropped change no half of a transfer.  `FileStep` lists what a step may do to
each part of the state, among it that a task ends with its work done or a mishap; every
action is shown to be such a step, and such a step to keep the invariant.

**SmpClient.**  In the second half of `ShieldSessionProofs`, about the instance `Smp`, with
the hypothesis `SmpBounds`.  `LiveInv`: until the shutdown the two maps of a server follow
its one live socket, so `onclose` of an old socket cannot come behind the dial of a newer
one; after it, all that is left is `SurvivorInv`, that whatever may come back is in
`survivors`.  Each timer was left by a socket that is closed (`TimerInv`), which bounds
them.  `SubInv` says where the one SUB is, not yet sent, on its way up or with the server,
and that the subscriber stays once there is one, since nobody subscribes again; so pushes
and the answer to SUB come down on one socket only (`DownInv`, `HeardInv`).  `PushInv`: until the queue is listed its box is empty and no
SEND and no push is on any socket, not even when the SUB timed out, since the invitation
has failed then; with it a push is only thrown away before the bridge has registered or after
its shutdown.  The proof showed a weakness of the model: `GlobalState` was
written with overlapping CASE guards, where the order of the code decides.

**GroupControl.**  `Base` says what there can be at all: the shape of stores, rosters,
texts, handlers and carriers, and that a member knows himself and the creator as
an admin, nobody else; the ids in a carrier are its sender's, so a roster can grow by them
and still contain no admin it should not have.  `OutInv` says of a member who is off the
creator's roster that no handler is about to send him the current key, nor is it on its
way to him or about to be stored: a rotation makes a key that nobody has (keys are
numbered below `made`), and takes the member off before the rest of the roster is read.
`SendingHasALoop` is inductive; `LeaveInv` ties a farewell of the creator to his leaving.

Order has an invariant of its own, `OInv`, which holds beside that one (`Order`).  It
is conditional: on no overlap for the numbers of the keys (`AloneInv`, `KeyInv`), and for
what the creator and one member agree on (`OrderInv`) also on no fault and on neither of them
leaving.  `AloneInv`: an operation that makes or sends a key is alone under way, and
it and the creator's record work with the key made last, whose rotation number is one less
than its place among all keys; as many keys before it as a device keeps are still there.
`KeyInv` carries this to a member: the keys on the line from the creator ascend,
none is older than the one he stores or uses, and he stores one at a time.  This is
`RotationsAreOrdered`.  `Latest` says where the last key of a member of the roster is:
with a loop that has yet to send it to him, on the line, being stored, or in his record,
unless he missed it (`Missed`): the line to him is stuck, as it is behind every key that
waits, or a key came that he could not open (`KeyLost`).  For the refusals, `BehindInv`:
unless such a key came, whatever is on the line, or is yet to be sent over a line that is
not stuck, was sealed with a key the member holds, is storing, or gets before it
(`Covered`).  A carrier that he cannot open is then one that overtook the storing of its
key or whose key he no longer keeps, and the latter takes more rotations than `KeepKeys`
or his removal.  `Stranger` is what lets a roster grow: who was
never a member has nothing that a first key could contradict.

The assumptions are the named ones of the modules (`SessionAssumption`,
`RelayAssumption`, `MessagingAssumption` and so on): the constants have their types,
`None` is none of the things it stands beside, the creators and recipients of the
queues are clients.  TLC evaluates them in every run.

What stays with TLC are the liveness properties, since the proof system does not reason
about weak fairness through ENABLED.

No module uses RECURSIVE operators.

## What was found

Where the code does not do what its comments, tests or callers expect.  Eight such
expectations are defined as formulas beside the properties; they are in no `.cfg`, since
TLC refutes them.  To see a counterexample, put the formula into the configuration named.

| formula | in place of the properties of | shows |
|---|---|---|
| `ShieldSession!NoCounterReuse` | `MCShieldSession.cfg`, `MaxReloads = 0`, `MaxLost = 0` | `getSession` (`web/lib/shield/crypto.ts:322`) looks the session up, awaits, and sets the map entry without looking again.  Two overlapping first calls encrypt at the same position, which lines 353–356 want to exclude. |
| `ShieldReceive!RestoredChainResolves` | `ShieldReceive.cfg`, `N = 2` | `fromState` (`crypto.ts:106`) leaves the receive chain at 0; lines 102–105 expect the retry loop to resolve what fails, but that loop runs only after a success. |
| `Relay!ResubscribedAfterReconnect` | `MCRelay.cfg` | nobody subscribes again after a reconnection (`web/lib/simplex/client.ts:759`), which `tasks/testing/009-simplex-integration-tests.md` expects. |
| `Messaging!SentIsShown` | `MCMessaging.cfg`, `Message = {m1}`, `File = {}`, `GroupKey = {}`, `MaxFaults = 0` | `acceptInvitation` subscribes before it has saved the contact, and pending messages that the relay "deliver[s]" then are dropped (`shieldSimplexBridge.ts:285`, `667`). |
| `Messaging!MemberReceivesKey` | the same with `GroupKey = {m1}` | a group key is sealed with the same session as the envelope it travels in, so the envelope is one position ahead of what the member accepts (`shieldSimplexBridge.ts:1273`).  It never arrives, and the conversation with the member is stuck from then on. |
| `DeviceKeys!CreatedOnlyIfMissing` | `DeviceKeys.cfg` | a read of the master record that fails is answered like an empty database, and a new master key replaces the stored one (`groupKeyManager.ts:230`): group keys sealed under it are locked away. |
| `GroupControl!PromotedIsAdmin` | `MCGroupControl.cfg` | `promoteToAdmin` names the member in ADMIN_CHANGE by the creator's own id for her, which no other device knows: `handleAdminChange` finds nobody on her device, and she is no admin there, even over sessions that carry keys (12 states). |
| `FileTransfer!TransferredFileOpens` | `FileTransfer.cfg` | `encryptedFileStorage.ts:172` says that an encrypted file "can be transferred to another device".  `sendEncryptedFile` imports it under an id it was not encrypted for, so what is stored does not open on either side (9 states). |

What the properties and their causes say about the rest:

- **Saves.**  `saveSessionWithSendCounterOffset` (`crypto.ts:583`) and `storeFile`
  (`encryptedFileStorage.ts:515`) resolve in `request.onsuccess`, not when the transaction
  is complete, and have no `onabort`: a ciphertext is handed out, or a file announced,
  that a failed commit or a crash takes back (`Exposed`, `torn`).  `atRestCrypto.ts` waits
  for `tx.oncomplete`.
- **Groups.**  A group key does not arrive (above), unless `getSession` has forked the
  session, and the conversation with the member is stuck behind it.  Where keys do arrive:
  a promotion never reaches the promoted device, and the texts of a third member are never
  shown, because notices carry ids that are local to their sender; `MEMBER_ADDED` makes a
  member nobody knows.  The key is not rotated when a member leaves.  Overlapping removals
  and additions split the group into keys.  A notice that comes while a key is being
  stored is dropped.  The guard for the last admin counts admins who do not know of it.
- **SMP client.**  `resubscribeQueues` (comment at `client.ts:240`) does nothing: after a
  reconnection the page is deaf.  `disconnect()` leaves dials and timers, and a late
  `onclose` of an old socket deletes a newer one's entry.  After a close with code 1000
  nobody dials again.  An invitation made here has one queue: its maker hears her own
  messages, the invitee hears nothing.
- **Files.**  The answer to FILE_REQUEST has no `fileMetadata`, and its receiver drops
  such an envelope (`shieldSimplexBridge.ts:824` against `780`).  A send that fails or a
  message dropped before the contact is saved loses a position of the chain, and no later
  file is shown.  `openDatabase` keeps a rejected promise for good.
- **Assistant.**  Two taps on approve at once answer twice; `markRejected` looks at
  nothing.  A failure behind `markApproved` leaves the draft approved for ever.  Drafts
  of SimpleX clients have no buttons.  An owner who claims herself is not the owner any
  more, and nobody else is.  With Supabase the owner's first message is several calls,
  and a failure between them is never repaired.
- **Pairing.**  The timer of a success closes whatever is open when it fires.  A call left
  behind by a closed dialog writes into the next one; so one invitation can be accepted
  twice, which makes two contacts.  After a failed accept only closing is left.  A
  scanner left while its camera starts leaves it running.
- **Desktop.**  What happens to the window before the awaited load ends is lost: an early
  paint leaves it hidden, a failed load leaves a process with neither window nor tray.
  Nothing calls `downloadUpdate`, and `autoDownload` is off, so updates are announced and
  never fetched.

## What is not modelled

- The Shield library (WASM) and WebCrypto: a ciphertext is its chain position,
  decryption succeeds at the expected one.  Padding, timing and formats are left out.
- The SMP servers, html5-qrcode, Telegraf, Electron, keytar, zustand and IndexedDB are
  external: they are modelled by how the code uses them.
- Web: typing indicators, deletion of a contact, avatars, group files, delivery receipts
  of group messages, `deleteQueue`, safety numbers, development builds of the SMP
  client.  What nothing calls: `deleteKeysForContact`, `groupAdminKeyManager.ts`, the
  traffic obfuscator, `NewContactModal`, `saveEncryptedFromBytes`, `delete`, `listFiles`
  and `getStorageUsed` of the file store.
- Two pages share keys (`DeviceKeys`); that they also share the stores and the sessions
  is not modelled.
- Assistant: calendar, scripts, the coordinator, the HTTP server and pasted documents:
  one call of a service or of a process after another, with no state of their own.
- Desktop: Content-Security-Policy, navigation guard, checks of ids, packaging.
- Android and the Nitrogen node: other programs that share the protocol's idea, not its
  code.  API routes, the remaining interface, proxy and builds: no protocol state of
  their own.

`PROJECT.json` lists the components and the hazards at their lines.

## The plan

Done: the web client from the dialog down to the relay, the assistant and the desktop
shell, in the modules above; two abstract specifications with their refinements; the
proofs of the pairwise sessions in both directions, of relay, SMP client, conversation, persisted
stores, keys of a profile, pairing dialog, groups, files, assistant and desktop shell, with the
refinements of `MessageTicks` and `MessageQueue`.

Next, as models of programs of their own: the Android bridge as a variant of
`Messaging` (receipts for every envelope, two consumers of one channel), and the node's
capped tables, bots and gen_server.

## Running it

    tlc -config MCShieldSession.cfg MCShieldSession.tla
    tlapm ShieldSessionProofs.tla

Every run takes between a few seconds and about two minutes on two cores.  The proofs
take a few minutes per module from nothing, the longest about a quarter of an hour.
The slowest leaves name their prover and allow it a minute
(`ZenonT(60)`, `SMTT(60)`), so that the proofs also pass on a slow or busy machine:
`tlapm --stretch 0.4` still proves every module, with all eight running at once on four
cores.
