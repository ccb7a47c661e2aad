---------------------------- MODULE FileTransfer ----------------------------
(***************************************************************************)
(* Files of a web conversation: the encrypted file store                   *)
(* (arkachat-web/src/lib/storage/encryptedFileStorage.ts), the contact     *)
(* keys it derives file keys from (lib/shield/crypto.ts), and the bridge's *)
(* file messages (lib/bridge/shieldSimplexBridge.ts).                      *)
(*                                                                         *)
(* Two devices pair and send each other files.  An await splits a handler  *)
(* where something another step can see has changed: a task is a handler   *)
(* that waits.  A device's connection brings it the other's messages and   *)
(* the relay's answers in one stream.  Of the ratchet the model keeps the  *)
(* order: the receiving chain accepts the next position only, so behind a  *)
(* position that never comes, a LOST frame of the stream, a device is deaf *)
(* to the other.  What a user does with an opened file is left out.        *)
(***************************************************************************)
EXTENDS Naturals, Sequences

CONSTANTS
    Inviter, Invitee,
    MaxFiles,       \* bound: file ids ever drawn
    MaxRequests,    \* bound: requestFileDownload calls
    MaxFaults,      \* bound: faults
    Fault           \* which: subset of FaultKind

FaultKind == {"crash", "send", "late", "db", "unsaved"}

Device == {Inviter, Invitee}
File == 1..MaxFiles
Peer(d) == IF d = Inviter THEN Invitee ELSE Inviter

ASSUME FileAssumption ==
    /\ Inviter # Invitee
    /\ MaxFiles \in Nat /\ MaxRequests \in Nat /\ MaxFaults \in Nat
    /\ Fault \subseteq FaultKind

\* A file key is a function of the media key and the id a file is encrypted
\* for; big files are those of 64 KB and more.
Key  == {"none", "shared key's", "random 1", "random 2"}
Data == [of : File \cup {0}, key : Key, big : BOOLEAN]
Nothing == [of |-> 0, key |-> "none", big |-> FALSE]

Frame == [kind : {"FILE", "FILE_DATA", "FILE_REQUEST", "RECEIPT", "OK", "LOST"},
          file : File, data : Data, meta : BOOLEAN]
\* What a task is about to do: store its file, send the file's message, add that
\* message when the relay has answered; read a requested file; send another frame;
\* keep a received file.
Task == [do : {"store", "post", "wait", "read", "send", "keep"}, frame : Frame]

VARIABLES
    media,      \* the device's stored media key for its contact
    pairing,    \* how far generateSharedKey or importSharedKey has got
    db,         \* openDatabase's promise: "none", "open" or "rejected"
    files,      \* the IndexedDB store: id -> data
    committing, \* committing[d]: ids whose put was answered, not yet committed
    deaf,       \* devices whose chain waits for a lost position, or that do not listen
    sent,       \* outgoing messages: id -> status, "none" if there is no message
    shown,      \* ids of the incoming messages
    tasks,
    stream,     \* frames on their way to a device
    drawn,      \* file ids drawn so far
    requests,
    \* history
    owner,      \* who drew an id
    announced,  \* ids the relay has accepted a FILE or FILE_DATA of
    unsure,     \* ids whose SEND failed, or was given up after it was accepted
    taken,      \* taken[d]: ids of the file messages handed to d's handler
    mishap,     \* mishap[d]: ids a crash, a bad store or a bad session save cost d
    torn,       \* torn[d]: ids whose put was answered and then not committed
    faults

disk  == <<files, committing>>
store == <<media, pairing, db, disk, deaf>>
past  == <<owner, announced, unsure, taken, mishap, torn>>
vars  == <<store, sent, shown, tasks, stream, drawn, requests, past, faults>>

Init ==
    /\ media = [d \in Device |-> "none"]
    /\ pairing = [d \in Device |-> "none"]
    /\ db = [d \in Device |-> "none"]
    /\ files = [d \in Device |-> [f \in File |-> Nothing]]
    /\ committing = [d \in Device |-> {}]
    /\ deaf = {}
    /\ sent = [d \in Device |-> [f \in File |-> "none"]]
    /\ shown = [d \in Device |-> {}]
    /\ tasks = [d \in Device |-> {}]
    /\ stream = [d \in Device |-> <<>>]
    /\ drawn = 0 /\ requests = 0
    /\ owner = [f \in File |-> Inviter]
    /\ announced = {} /\ unsure = {}
    /\ taken = [d \in Device |-> {}] /\ mishap = [d \in Device |-> {}]
    /\ torn = [d \in Device |-> {}]
    /\ faults = 0

Fails(kind) == kind \in Fault /\ faults < MaxFaults /\ faults' = faults + 1

-----------------------------------------------------------------------------
(* Pairing: the keys of a contact                                          *)

\* Mutant: each side draws a media key of its own.
RandomMediaKey(d) == IF d = Inviter THEN "random 1" ELSE "random 2"

\* deriveMediaKey: a function of the shared key alone.
MediaKey(d) == "shared key's"

\* generateSharedKey or importSharedKey: the shared key is stored, then the
\* media key.  An invitation can be accepted once its creator has shown it.
StoreSharedKey(d) ==
    /\ pairing[d] = "none"
    /\ d = Invitee => pairing[Inviter] = "contact"
    /\ pairing' = [pairing EXCEPT ![d] = "shared key"]
    /\ UNCHANGED <<media, db, disk, deaf, sent, shown, tasks, stream, drawn, requests, past, faults>>

StoreMediaKey(d) ==
    /\ pairing[d] = "shared key"
    /\ pairing' = [pairing EXCEPT ![d] = "keys"]
    /\ media' = [media EXCEPT ![d] = MediaKey(d)]
    /\ UNCHANGED <<db, disk, deaf, sent, shown, tasks, stream, drawn, requests, past, faults>>

AddContact(d) ==
    /\ pairing[d] = "keys"
    /\ pairing' = [pairing EXCEPT ![d] = "contact"]
    /\ UNCHANGED <<media, db, disk, deaf, sent, shown, tasks, stream, drawn, requests, past, faults>>

Known(d) == pairing[d] = "contact"

-----------------------------------------------------------------------------
(* The store                                                               *)

\* openDatabase, before whatever follows it: the promise is made once, and a
\* rejected one is kept until the page is loaded again.
Opened(d) ==
    /\ db[d] \in {"none", "open"}
    /\ db' = [db EXCEPT ![d] = "open"]

OpenFails(d) ==
    \/ db[d] = "rejected" /\ UNCHANGED <<db, faults>>
    \/ db[d] = "none" /\ Fails("db") /\ db' = [db EXCEPT ![d] = "rejected"]

\* deriveFileKey, quickEncrypt and buildEncryptedFile.
Encrypted(d, f, big) == [of |-> f, key |-> media[d], big |-> big]

\* retrieveFile and downloadEncrypted: Nothing if there is no record.
Retrieved(d, f) == files[d][f]

\* parseAndDecrypt: the file key is derived again, from the id it is stored under.
Decrypts(d, f, data) == data.key = media[d] /\ data.of = f

\* loadDecrypted.
Opens(d, f) == Retrieved(d, f) # Nothing /\ Decrypts(d, f, Retrieved(d, f))

\* storeFile: the put is answered, which is all that is waited for ...
Stored(d, f, data) ==
    /\ files' = [files EXCEPT ![d][f] = data]
    /\ committing' = [committing EXCEPT ![d] = @ \cup {f}]

\* ... or refused, by a store that is full or did not open.
StoreFails(d) ==
    /\ OpenFails(d) \/ (Opened(d) /\ Fails("db"))
    /\ UNCHANGED disk

\* A read begins when the writes before it are complete.
Readable(d) == committing[d] = {}

Message(kind, f, data, meta) == [kind |-> kind, file |-> f, data |-> data, meta |-> meta]
Replace(d, t, new) == tasks' = [tasks EXCEPT ![d] = (@ \ {t}) \cup new]

Draw(d) ==
    /\ Known(d) /\ drawn < MaxFiles
    /\ drawn' = drawn + 1
    /\ owner' = [owner EXCEPT ![drawn + 1] = d]

\* sendFile: saveEncrypted draws an id and encrypts for it.
SendFile(d, big) ==
    /\ Draw(d)
    /\ tasks' = [tasks EXCEPT ![d] = @ \cup
           {[do |-> "store",
             frame |-> Message("FILE", drawn + 1, Encrypted(d, drawn + 1, big), TRUE)]}]
    /\ UNCHANGED <<store, sent, shown, stream, requests, announced, unsure, taken, mishap, torn, faults>>

\* Mutant: the number after the next.
NextImportId(data) == drawn + 2

\* importEncrypted without an id draws one.
ImportId(data) == drawn + 1

\* sendEncryptedFile with what downloadEncrypted returned for file f: it is
\* imported under a new id, and embedded when it is small.
SendEncryptedFile(d, f) ==
    LET data == Retrieved(d, f) IN
    /\ Draw(d) /\ db[d] = "open" /\ Readable(d) /\ data # Nothing
    /\ tasks' = [tasks EXCEPT ![d] = @ \cup
           {[do |-> "store",
             frame |-> Message(IF data.big THEN "FILE" ELSE "FILE_DATA",
                              ImportId(data), data, TRUE)]}]
    /\ UNCHANGED <<store, sent, shown, stream, requests, announced, unsure, taken, mishap, torn, faults>>

\* Mutant: the file's message is sent even if the store failed.
StoreOrNot(d, t) ==
    /\ t \in tasks[d] /\ t.do = "store"
    /\ \/ Opened(d) /\ Stored(d, t.frame.file, t.frame.data) /\ UNCHANGED faults
       \/ StoreFails(d)
    /\ Replace(d, t, {[t EXCEPT !.do = "post"]})
    /\ UNCHANGED <<media, pairing, deaf, sent, shown, stream, drawn, requests, past>>

\* storeFile, and then the file's message is sent.
Store(d, t) ==
    /\ t \in tasks[d] /\ t.do = "store"
    /\ \/ /\ Opened(d)
          /\ Stored(d, t.frame.file, t.frame.data)
          /\ Replace(d, t, {[t EXCEPT !.do = "post"]})
          /\ UNCHANGED <<mishap, faults>>
       \/ /\ StoreFails(d)
          /\ Replace(d, t, {})
          /\ mishap' = [mishap EXCEPT ![d] = @ \cup {t.frame.file}]
    /\ UNCHANGED <<media, pairing, deaf, sent, shown, stream, drawn, requests, owner, announced,
                   unsure, taken, torn>>

\* The transaction of a put ends, unheard: what comes of it is the browser's.
Commit(d) == \E f \in committing[d] :
    /\ committing' = [committing EXCEPT ![d] = @ \ {f}]
    /\ UNCHANGED <<media, pairing, db, files, deaf, sent, shown, tasks, stream, drawn, requests,
                   past, faults>>

\* Puts F of d are undone; no id is put twice.
Undone(d, F) ==
    /\ files' = [files EXCEPT ![d] = [f \in File |-> IF f \in F THEN Nothing ELSE @[f]]]
    /\ torn' = [torn EXCEPT ![d] = @ \cup F]

CommitFails(d) == \E f \in committing[d] :
    /\ Fails("db")
    /\ Undone(d, {f})
    /\ committing' = [committing EXCEPT ![d] = @ \ {f}]
    /\ UNCHANGED <<media, pairing, db, deaf, sent, shown, tasks, stream, drawn, requests, owner,
                   announced, unsure, taken, mishap>>

-----------------------------------------------------------------------------
(* Messages                                                                *)

\* What the recipient of a frame gets of it.
OnTheWire(frame) == IF frame.kind = "FILE_DATA" THEN frame ELSE [frame EXCEPT !.data = Nothing]
Answer(frame) == [frame EXCEPT !.kind = "OK"]

\* Mutant: the caller does not wait.
NeverWaits(t) == FALSE

Waits(t) == t.do = "post"

\* The position of a ciphertext that never reaches d.
Lost(d, frame) == stream' = [stream EXCEPT ![d] = Append(@, [frame EXCEPT !.kind = "LOST", !.data = Nothing])]

\* encryptMessage and sendMessage: the relay passes the frame on and answers, or it
\* is given up although it was passed on, or one of the two calls fails: it may have
\* taken a position of the chain by then.  Of the file messages the sender waits for
\* the answer with its own message.
Send(d, t) ==
    /\ t \in tasks[d] /\ t.do \in {"post", "send"}
    /\ \/ /\ stream' = [e \in Device |->
                IF e = d THEN IF Waits(t) THEN Append(stream[e], Answer(t.frame))
                                                ELSE stream[e]
                         ELSE Append(stream[e], OnTheWire(t.frame))]
          /\ Replace(d, t, IF Waits(t) THEN {[t EXCEPT !.do = "wait"]} ELSE {})
          /\ announced' = IF t.do = "post" THEN announced \cup {t.frame.file} ELSE announced
          /\ UNCHANGED <<unsure, faults>>
       \/ /\ Fails("late")
          /\ stream' = [stream EXCEPT ![Peer(d)] = Append(@, OnTheWire(t.frame))]
          /\ Replace(d, t, {})
          /\ announced' = IF t.do = "post" THEN announced \cup {t.frame.file} ELSE announced
          /\ unsure' = unsure \cup {t.frame.file}
       \/ /\ Fails("send")
          /\ Lost(Peer(d), t.frame) \/ UNCHANGED stream
          /\ Replace(d, t, {})
          /\ unsure' = unsure \cup {t.frame.file}
          /\ UNCHANGED announced
    /\ UNCHANGED <<store, sent, shown, drawn, requests, owner, taken, mishap, torn>>

Taken(d) == stream' = [stream EXCEPT ![d] = Tail(@)]
Add(d, do, frame) == tasks' = [tasks EXCEPT ![d] = @ \cup {[do |-> do, frame |-> frame]}]

\* The relay's OK: the sender's own message is added, as sent.
GetsAnswer(d, frame) ==
    /\ frame.kind = "OK"
    /\ \E t \in tasks[d] :
         /\ t.do = "wait" /\ t.frame.file = frame.file
         /\ Replace(d, t, {})
         /\ sent' = [sent EXCEPT ![d][frame.file] = "sent"]
    /\ UNCHANGED <<store, shown, drawn, requests, past, faults>>

\* An answer whose task a crash has ended.
StrayAnswer(d, frame) ==
    /\ frame.kind = "OK"
    /\ ~ \E t \in tasks[d] : t.do = "wait" /\ t.frame.file = frame.file
    /\ UNCHANGED <<store, sent, shown, tasks, drawn, requests, past, faults>>

\* handleFileMessage, and the delivery receipt.
HandleFile(d, frame) ==
    /\ frame.kind = "FILE"
    /\ shown' = [shown EXCEPT ![d] = @ \cup {frame.file}]
    /\ taken' = [taken EXCEPT ![d] = @ \cup {frame.file}]
    /\ Add(d, "send", Message("RECEIPT", frame.file, Nothing, FALSE))
    /\ UNCHANGED <<store, sent, drawn, requests, owner, announced, unsure, mishap, torn, faults>>

\* Mutant: there is a receipt, before the file is stored.
HandleFileDataEarly(d, frame) ==
    /\ frame.kind = "FILE_DATA"
    /\ tasks' = [tasks EXCEPT ![d] = @ \cup
           {[do |-> "keep", frame |-> frame],
            [do |-> "send", frame |-> Message("RECEIPT", frame.file, Nothing, FALSE)]}]
    /\ taken' = [taken EXCEPT ![d] = @ \cup {frame.file}]
    /\ UNCHANGED <<store, sent, shown, drawn, requests, owner, announced, unsure, mishap, torn, faults>>

\* handleFileDataMessage: without metadata nothing happens.  There is no receipt.
HandleFileData(d, frame) ==
    /\ frame.kind = "FILE_DATA"
    /\ IF frame.meta
         THEN /\ Add(d, "keep", frame)
              /\ taken' = [taken EXCEPT ![d] = @ \cup {frame.file}]
         ELSE UNCHANGED <<tasks, taken>>
    /\ UNCHANGED <<store, sent, shown, drawn, requests, owner, announced, unsure, mishap, torn, faults>>

\* handleFileRequest's response has no fileMetadata.
AnswerMeta == FALSE

\* handleFileRequest begins.
HandleFileRequest(d, frame) ==
    /\ frame.kind = "FILE_REQUEST"
    /\ Add(d, "read", frame)
    /\ UNCHANGED <<store, sent, shown, drawn, requests, past, faults>>

\* It answers if this device has the file and can read it.  A big file does not fit
\* in the argument list that uint8ArrayToBase64 builds, on some engines.
ReadFile(d, t) ==
    LET data == Retrieved(d, t.frame.file) IN
    /\ t \in tasks[d] /\ t.do = "read" /\ Readable(d)
    /\ \/ /\ Opened(d) /\ data # Nothing
          /\ Replace(d, t, {[do |-> "send",
                 frame |-> Message("FILE_DATA", t.frame.file, data, AnswerMeta)]})
          /\ UNCHANGED <<disk, faults>>
       \/ /\ Opened(d) /\ (data = Nothing \/ data.big)
          /\ Replace(d, t, {})
          /\ UNCHANGED <<disk, faults>>
       \/ StoreFails(d) /\ Replace(d, t, {})
    /\ UNCHANGED <<media, pairing, deaf, sent, shown, stream, drawn, requests, past>>

\* handleDeliveryReceipt: of a message that is there.
HandleReceipt(d, frame) ==
    /\ frame.kind = "RECEIPT"
    /\ sent' = [sent EXCEPT ![d][frame.file] = IF @ = "none" THEN @ ELSE "delivered"]
    /\ UNCHANGED <<store, shown, tasks, drawn, requests, past, faults>>

\* decryptMessage throws when the chain has moved on: its session is not saved.
Unsaved(d, frame) ==
    /\ frame.kind # "OK"
    /\ Fails("unsaved")
    /\ mishap' = [mishap EXCEPT ![d] = @ \cup {frame.file}]
    /\ UNCHANGED <<store, sent, shown, tasks, drawn, requests, owner, announced, unsure, taken, torn>>

\* A position never comes: what is behind it is put aside for ever.
Undecryptable(d, frame) ==
    /\ frame.kind = "LOST" \/ (frame.kind # "OK" /\ d \in deaf)
    /\ deaf' = deaf \cup {d}
    /\ UNCHANGED <<media, pairing, db, disk, sent, shown, tasks, drawn, requests, past, faults>>

\* The invitee is subscribed before its contact is added: a message that comes
\* in between is of an unknown sender, and its position is not taken.
DropUnknown(d) ==
    /\ stream[d] # <<>> /\ pairing[d] \in {"shared key", "keys"}
    /\ Taken(d)
    /\ deaf' = deaf \cup {d}
    /\ UNCHANGED <<media, pairing, db, disk, sent, shown, tasks, drawn, requests, past, faults>>

Receive(d) ==
    /\ stream[d] # <<>> /\ Known(d)
    /\ Taken(d)
    /\ LET frame == Head(stream[d])
       IN  \/ GetsAnswer(d, frame) \/ StrayAnswer(d, frame)
           \/ Undecryptable(d, frame)
           \/ /\ d \notin deaf
              /\ \/ HandleFile(d, frame) \/ HandleFileData(d, frame)
                 \/ HandleFileRequest(d, frame) \/ HandleReceipt(d, frame)
                 \/ Unsaved(d, frame)

\* Mutant: a store that is not open yet is not opened.
KeepIfOpen(d, t) ==
    /\ t \in tasks[d] /\ t.do = "keep"
    /\ Replace(d, t, {})
    /\ IF db[d] = "open"
         THEN /\ Stored(d, t.frame.file, t.frame.data)
              /\ shown' = [shown EXCEPT ![d] = @ \cup {t.frame.file}]
         ELSE UNCHANGED <<disk, shown>>
    /\ UNCHANGED <<media, pairing, db, deaf, sent, stream, drawn, requests, past, faults>>

\* importEncrypted of a received file, under the id it came with; then its
\* message is added.
Keep(d, t) ==
    /\ t \in tasks[d] /\ t.do = "keep"
    /\ Replace(d, t, {})
    /\ \/ /\ Opened(d)
          /\ Stored(d, t.frame.file, t.frame.data)
          /\ shown' = [shown EXCEPT ![d] = @ \cup {t.frame.file}]
          /\ UNCHANGED <<mishap, faults>>
       \/ /\ StoreFails(d)
          /\ mishap' = [mishap EXCEPT ![d] = @ \cup {t.frame.file}]
          /\ UNCHANGED shown
    /\ UNCHANGED <<media, pairing, deaf, sent, stream, drawn, requests, owner, announced, unsure,
                   taken, torn>>

\* requestFileDownload of a file whose message is shown.
Request(d, f) ==
    /\ f \in shown[d] /\ requests < MaxRequests
    /\ requests' = requests + 1
    /\ Add(d, "send", Message("FILE_REQUEST", f, Nothing, FALSE))
    /\ UNCHANGED <<store, sent, shown, stream, drawn, past, faults>>

\* The page is closed and loaded again: what waited is gone, a put that was not
\* committed may be, and so is a contact that was not added yet, whose keys nothing
\* will use.  No page subscribes to the queue of a stored contact again.  A call cut
\* off between encryptMessage and the SEND has taken its position for nothing.  An
\* answer of the old socket finds no task any more.
Crash(d) ==
    /\ Fails("crash")
    /\ tasks' = [tasks EXCEPT ![d] = {}]
    /\ mishap' = [mishap EXCEPT ![d] = @ \cup {t.frame.file : t \in tasks[d]}]
    /\ \E F \in SUBSET committing[d] : Undone(d, F)
    /\ committing' = [committing EXCEPT ![d] = {}]
    /\ \/ UNCHANGED stream
       \/ \E t \in tasks[d] : t.do \in {"post", "send"} /\ Lost(Peer(d), t.frame)
    /\ deaf' = IF Known(d) THEN deaf \cup {d} ELSE deaf
    /\ db' = [db EXCEPT ![d] = "none"]
    /\ pairing' = [pairing EXCEPT ![d] = IF @ = "contact" THEN @ ELSE "none"]
    /\ media' = [media EXCEPT ![d] = IF Known(d) THEN @ ELSE "none"]
    /\ UNCHANGED <<sent, shown, drawn, requests, owner, announced, unsure, taken>>

Next == \E d \in Device :
    \/ StoreSharedKey(d) \/ StoreMediaKey(d) \/ AddContact(d)
    \/ \E big \in BOOLEAN : SendFile(d, big)
    \/ \E f \in File : SendEncryptedFile(d, f) \/ Request(d, f)
    \/ \E t \in tasks[d] : Store(d, t) \/ Send(d, t) \/ ReadFile(d, t) \/ Keep(d, t)
    \/ Receive(d) \/ DropUnknown(d) \/ Commit(d) \/ CommitFails(d) \/ Crash(d)

\* The pages and their databases go on with what they have begun; users need not do
\* anything.
Progress(d) ==
    \/ Receive(d) \/ Commit(d)
    \/ \E t \in tasks[d] : Store(d, t) \/ Send(d, t) \/ ReadFile(d, t) \/ Keep(d, t)

Spec == Init /\ [][Next]_vars /\ \A d \in Device : WF_vars(Progress(d))

-----------------------------------------------------------------------------
(* Properties                                                              *)

TypeOK ==
    /\ media \in [Device -> Key]
    /\ pairing \in [Device -> {"none", "shared key", "keys", "contact"}]
    /\ db \in [Device -> {"none", "open", "rejected"}]
    /\ files \in [Device -> [File -> Data]] /\ deaf \subseteq Device
    /\ sent \in [Device -> [File -> {"none", "sent", "delivered"}]]
    /\ \A d \in Device : /\ tasks[d] \subseteq Task /\ stream[d] \in Seq(Frame)
                         /\ shown[d] \cup taken[d] \cup mishap[d] \subseteq File
                         /\ committing[d] \cup torn[d] \subseteq File
    /\ drawn \in 0..MaxFiles /\ requests \in 0..MaxRequests /\ faults \in 0..MaxFaults
    /\ owner \in [File -> Device] /\ announced \cup unsure \subseteq File

\* Once both sides have the contact they have the same media key, wherever a
\* crash interrupted the pairing.
MediaKeysAgree ==
    Known(Inviter) /\ Known(Invitee) => media[Inviter] = media[Invitee] /\ media[Inviter] # "none"

\* What encryptedFileStorage.ts promises ("can be transferred to another device"): a
\* device opens what it has stored.  TLC refutes it: a file sent encrypted is imported
\* under an id it was not encrypted for, and a requested one comes without metadata
\* and is dropped.
TransferredFileOpens ==
    \A d \in Device, f \in File : files[d][f] # Nothing => Opens(d, f)

\* A file whose message has gone out is in its sender's store, unless the browser
\* undid a put after storeFile had returned.
AnnouncedIsStored ==
    \A f \in announced : files[owner[f]][f] # Nothing \/ f \in torn[owner[f]]

\* A file the other party was told of is missing from the sender's own
\* conversation only if the call was given up or the page was closed.
UnseenBySenderNeedsMishap ==
    \A f \in announced :
        \/ sent[owner[f]][f] # "none"
        \/ f \in unsure \/ f \in mishap[owner[f]]
        \/ \E t \in tasks[owner[f]] : t.frame.file = f /\ t.do = "wait"

\* A file message that reached its handler is shown, unless the page was closed
\* in between or the file could not be stored: it was acknowledged to the relay
\* all the same, so then it is lost.
LostMessageNeedsMishap ==
    \A d \in Device : \A f \in taken[d] :
        \/ f \in shown[d] \/ f \in mishap[d]
        \/ \E t \in tasks[d] : t.do = "keep" /\ t.frame.file = f

\* "Delivered" is never shown to the sender before the recipient sees the message.
DeliveredIsShown ==
    \A d \in Device, f \in File : sent[d][f] = "delivered" => f \in shown[Peer(d)]

\* Whoever accepted the invitation sees, in the end, every file message that was sent,
\* but for the losses above, and unless it is deaf: a position of the other's chain was
\* lost on the way or dropped, or its page was loaded again.
AnnouncedIsShown ==
    \A f \in File : f \in announced ~>
        LET d == Peer(owner[f]) IN ~Known(d) \/ f \in shown[d] \/ f \in mishap[d] \/ d \in deaf

\* What holds of two devices in every state, wherever a crash or a failing call
\* strikes: their media keys agree, an announced file is stored, each side shows its
\* half of a transfer but for a mishap, and ticks tell the truth.
FilesInv ==
    /\ TypeOK
    /\ MediaKeysAgree
    /\ AnnouncedIsStored
    /\ UnseenBySenderNeedsMishap
    /\ LostMessageNeedsMishap
    /\ DeliveredIsShown
=============================================================================
