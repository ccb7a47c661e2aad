------------------------------ MODULE Messaging ------------------------------
(***************************************************************************)
(* A conversation between two web clients: ShieldSimplexBridge             *)
(* (arkachat-web/src/lib/bridge/shieldSimplexBridge.ts) and the message    *)
(* statuses in its chatStore, from the pairing to the read receipt; and    *)
(* the keys of groups, which travel between the same two clients.          *)
(*                                                                         *)
(* An envelope is a message, its delivery receipt or its read receipt.     *)
(* The steps of a sending function are cut at its awaits: encryptMessage,  *)
(* which takes the next position of the sender's ratchet chain, and the    *)
(* SEND RPC.  The parties below are abstracted by what Relay, ShieldSession*)
(* and ShieldReceive show of them: a queue is FIFO and may lose messages,  *)
(* the ciphertexts of one page leave in chain order, and the receiving     *)
(* chain accepts the next position only.  markAsRead is a series of        *)
(* MarkReads whose receipts are sent in a row, one case of their           *)
(* interleavings.                                                          *)
(***************************************************************************)
EXTENDS Naturals, Sequences, Functions

CONSTANTS
    inviter, invitee,
    Message,
    Author,             \* who composes each of the messages
    File,               \* the messages that are sent by sendFile
    GroupKey,           \* the messages that may be keys, sent by sendGroupKeyToMember
    None,
    MaxFaults,          \* bound: how many faults
    Fault               \* which: subset of FaultKind

FaultKind == {"offline", "late", "cipher", "lost", "unsaved", "ack", "reload"}

Party == {inviter, invitee}

ASSUME MessagingAssumption ==
    /\ inviter # invitee
    /\ Author \in [Message -> Party]
    /\ File \subseteq Message
    /\ GroupKey \subseteq Message \ File
    /\ None \notin Nat
    /\ MaxFaults \in Nat
    /\ Fault \subseteq FaultKind

VARIABLES
    keys,       \* the messages that are keys, chosen at the start
    paired,     \* has a party saved the contact: no, subscribed (only), paired
    listening,  \* is a party's page subscribed to its receive queue
    status,     \* status[p][m]: the status of m in the chat store of p
    pc,         \* pc[e]: where the function that sends envelope e is
    pos,        \* pos[e]: the chain position e was encrypted at
    sendPos,    \* sendPos[p]: next position of p's sending chain
    recvPos,    \* recvPos[p]: next position p's receiving chain accepts
    wire,       \* wire[p]: the envelopes in p's receive queue
    taken,      \* envelopes the relay has accepted
    handled,    \* envelopes their receiver has decrypted and handled
    early,      \* envelopes dropped because the contact was not saved yet
    unsaved,    \* envelopes dropped because the session could not be saved
    faults

vars == <<keys, paired, listening, status, pc, pos, sendPos, recvPos, wire, taken,
          handled, early, unsaved, faults>>

drops == <<early, unsaved>>

Kind == {"msg", "delivered", "read"}
Envelope == [kind : Kind, m : Message]
Env(k, m) == [kind |-> k, m |-> m]

Other(p) == IF p = inviter THEN invitee ELSE inviter
From(e)  == IF e.kind = "msg" THEN Author[e.m] ELSE Other(Author[e.m])
Reader(m) == Other(Author[m])

Init ==
    /\ keys \in SUBSET GroupKey
    /\ paired = [p \in Party |-> IF p = inviter THEN "paired" ELSE "no"]
    /\ listening = [p \in Party |-> p = inviter]
    /\ status = [p \in Party |-> [m \in Message |-> "absent"]]
    /\ pc = [e \in Envelope |-> "idle"]
    /\ pos = [e \in Envelope |-> None]
    /\ sendPos = [p \in Party |-> 0]
    /\ recvPos = [p \in Party |-> 0]
    /\ wire = [p \in Party |-> <<>>]
    /\ taken = {} /\ handled = {} /\ early = {} /\ unsaved = {}
    /\ faults = 0

Faulty(kind) == kind \in Fault /\ faults < MaxFaults /\ faults' = faults + 1

Goto(e, label) == pc' = [pc EXCEPT ![e] = label]

\* updateMessageStatus: of no effect if the store has no such message.
SetStatus(p, m, s) ==
    status' = [status EXCEPT ![p][m] = IF @ = "absent" THEN @ ELSE s]

\* addMessage: a message whose id the store has is left as it is.
AddMessage(p, m, s) ==
    status' = [status EXCEPT ![p][m] = IF @ = "absent" THEN s ELSE @]

-----------------------------------------------------------------------------
(* Pairing                                                                 *)

\* acceptInvitation: the SUB of Queue B is answered ...
Subscribe(p) ==
    /\ paired[p] = "no"
    /\ paired' = [paired EXCEPT ![p] = "subscribed"]
    /\ listening' = [listening EXCEPT ![p] = TRUE]
    /\ UNCHANGED <<keys, status, pc, pos, sendPos, recvPos, wire, taken, handled, drops, faults>>

\* ... then the key is imported, and then the contact is saved.
SaveContact(p) ==
    /\ paired[p] = "subscribed"
    /\ paired' = [paired EXCEPT ![p] = "paired"]
    /\ UNCHANGED <<keys, listening, status, pc, pos, sendPos, recvPos, wire, taken, handled,
                   drops, faults>>

-----------------------------------------------------------------------------
(* Sending                                                                 *)

Text == Message \ (File \cup keys)

\* sendTextMessage shows the message at once, sendFile only once it is sent.
Compose(m) ==
    /\ m \notin keys
    /\ paired[Author[m]] = "paired"
    /\ pc[Env("msg", m)] = "idle"
    /\ Goto(Env("msg", m), "encrypt")
    /\ IF m \in Text THEN AddMessage(Author[m], m, "sending") ELSE UNCHANGED status
    /\ UNCHANGED <<keys, paired, listening, pos, sendPos, recvPos, wire, taken, handled, drops,
                   faults>>

\* createGroup, addGroupMember or removeGroupMember has a key for the contact.
DistributeKey(m) ==
    /\ m \in keys
    /\ paired[Author[m]] = "paired"
    /\ pc[Env("msg", m)] = "idle"
    /\ Goto(Env("msg", m), "seal")
    /\ UNCHANGED <<keys, paired, listening, status, pos, sendPos, recvPos, wire, taken, handled,
                   drops, faults>>

\* encryptKeyForMember: the key becomes a ciphertext of the pairwise session,
\* inside the envelope that is to be encrypted next.
Seal(e) ==
    /\ pc[e] = "seal"
    /\ sendPos' = [sendPos EXCEPT ![From(e)] = @ + 1]
    /\ Goto(e, "encrypt")
    /\ UNCHANGED <<keys, paired, listening, status, pos, recvPos, wire, taken, handled, drops,
                   faults>>

\* The sending function ends: with the SEND answered, or with an error.
Sent(e) ==
    /\ Goto(e, "done")
    /\ IF e.kind # "msg" \/ e.m \in keys THEN UNCHANGED status
       ELSE IF e.m \in File THEN AddMessage(From(e), e.m, "sent")
                            ELSE SetStatus(From(e), e.m, "sent")

Failed(e) ==
    /\ Goto(e, "failed")
    /\ IF e.kind = "msg" THEN SetStatus(From(e), e.m, "failed") ELSE UNCHANGED status

TakePosition(e) ==
    /\ pos' = [pos EXCEPT ![e] = sendPos[From(e)]]
    /\ sendPos' = [sendPos EXCEPT ![From(e)] = @ + 1]

Encrypt(e) ==
    /\ pc[e] = "encrypt"
    /\ TakePosition(e)
    /\ Goto(e, "send")
    /\ UNCHANGED <<keys, paired, listening, status, recvPos, wire, taken, handled, drops, faults>>

\* encryptMessage throws once the chain has moved on (its second save fails).
EncryptFails(e) ==
    /\ pc[e] \in {"seal", "encrypt"}
    /\ Faulty("cipher")
    /\ TakePosition(e)
    /\ Failed(e)
    /\ UNCHANGED <<keys, paired, listening, recvPos, wire, taken, handled, drops>>

\* Mutant: no order among the ciphertexts that are ready.
AnyTurn(e) == pos[e] # None

\* Ciphertexts of a page leave in chain order.
MyTurn(e) == \A f \in Envelope :
    From(f) = From(e) /\ pc[f] = "send" => pos[e] <= pos[f]

\* The SEND is written and the relay takes it ...
Transmit(e) ==
    /\ pc[e] = "send" /\ MyTurn(e)
    /\ wire' = [wire EXCEPT ![Other(From(e))] = Append(@, e)]
    /\ taken' = taken \cup {e}
    /\ Goto(e, "wait")
    /\ UNCHANGED <<keys, paired, listening, status, pos, sendPos, recvPos, handled, drops, faults>>

\* ... or there is no connection, and it never leaves.
Offline(e) ==
    /\ pc[e] = "send" /\ MyTurn(e)
    /\ Faulty("offline")
    /\ Goto(e, "wait")
    /\ UNCHANGED <<keys, paired, listening, status, pos, sendPos, recvPos, wire, taken, handled, drops>>

SendAnswered(e) ==
    /\ pc[e] = "wait" /\ e \in taken
    /\ Sent(e)
    /\ UNCHANGED <<keys, paired, listening, pos, sendPos, recvPos, wire, taken, handled, drops, faults>>

\* Mutant: a request that was never written does not time out.
TimesOutIfTaken(e) ==
    /\ pc[e] = "wait" /\ e \in taken
    /\ Faulty("late")
    /\ Failed(e)
    /\ UNCHANGED <<keys, paired, listening, pos, sendPos, recvPos, wire, taken, handled, drops>>

\* The RPC times out: nobody took the envelope, or its OK comes too late.
SendTimesOut(e) ==
    /\ pc[e] = "wait"
    /\ IF e \in taken THEN Faulty("late") ELSE UNCHANGED faults
    /\ Failed(e)
    /\ UNCHANGED <<keys, paired, listening, pos, sendPos, recvPos, wire, taken, handled, drops>>

-----------------------------------------------------------------------------
(* Receiving                                                               *)

\* Mutant: a receipt may overtake the answer to the SEND it is about.
OkComesAnytime(e) == e \in taken

\* The relay answers a SEND before it can push any answer to it, on the same
\* socket, and the client handles that OK first.
OkComesFirst(e) == e.kind = "msg" \/ pc[Env("msg", e.m)] # "wait"

Arrives(p) ==
    /\ listening[p]
    /\ wire[p] # <<>>
    /\ OkComesFirst(Head(wire[p]))

\* handleIncomingMessage finds no contact for the queue.
Unknown(p) ==
    /\ Arrives(p) /\ paired[p] = "subscribed"
    /\ early' = early \cup {Head(wire[p])}
    /\ wire' = [wire EXCEPT ![p] = Tail(@)]
    /\ UNCHANGED <<keys, paired, listening, status, pc, pos, sendPos, recvPos, taken, handled,
                   unsaved, faults>>

\* A position that is not the next one is put aside for ever: the positions of
\* a FIFO queue only grow, so the ones in between were lost.
OutOfOrder(p) ==
    /\ Arrives(p) /\ paired[p] = "paired"
    /\ pos[Head(wire[p])] # recvPos[p]
    /\ wire' = [wire EXCEPT ![p] = Tail(@)]
    /\ UNCHANGED <<keys, paired, listening, status, pc, pos, sendPos, recvPos, taken, handled,
                   drops, faults>>

\* Mutant: the type of the envelope is stored as the status.
HandleKind(p, e) ==
    \/ /\ e.kind = "msg"
       /\ AddMessage(p, e.m, e.kind)
       /\ Goto(Env("delivered", e.m), "ack")
    \/ /\ e.kind # "msg"
       /\ SetStatus(p, e.m, e.kind)
       /\ UNCHANGED pc

\* Mutant: FILE envelopes are acknowledged but not shown.
HandleTextOnly(p, e) ==
    \/ /\ e.kind = "msg"
       /\ IF e.m \in File THEN UNCHANGED status ELSE AddMessage(p, e.m, "delivered")
       /\ Goto(Env("delivered", e.m), "ack")
    \/ /\ e.kind # "msg"
       /\ SetStatus(p, e.m, e.kind)
       /\ UNCHANGED pc

\* Mutant: delivery receipts are not handled.
HandleReadOnly(p, e) ==
    \/ /\ e.kind = "msg"
       /\ AddMessage(p, e.m, "delivered")
       /\ Goto(Env("delivered", e.m), "ack")
    \/ /\ e.kind # "msg"
       /\ IF e.kind = "read" THEN SetStatus(p, e.m, "read") ELSE UNCHANGED status
       /\ UNCHANGED pc

\* A message is shown as delivered, and handleIncomingMessage goes on to
\* acknowledge it; a receipt sets the status of the message it names.  The key
\* in a GROUP_KEY envelope is behind the chain by now and does not decrypt.
Handle(p, e) ==
    \/ /\ e.kind = "msg"
       /\ IF e.m \in keys THEN UNCHANGED status ELSE AddMessage(p, e.m, "delivered")
       /\ Goto(Env("delivered", e.m), "ack")
    \/ /\ e.kind # "msg"
       /\ SetStatus(p, e.m, e.kind)
       /\ UNCHANGED pc

\* Mutant: the chain skips to any later position.
ReceiveAhead(p) ==
    LET e == Head(wire[p]) IN
    /\ Arrives(p) /\ paired[p] = "paired"
    /\ pos[e] >= recvPos[p]
    /\ recvPos' = [recvPos EXCEPT ![p] = pos[e] + 1]
    /\ handled' = handled \cup {e}
    /\ Handle(p, e)
    /\ wire' = [wire EXCEPT ![p] = Tail(@)]
    /\ UNCHANGED <<keys, paired, listening, pos, sendPos, taken, drops, faults>>

Receive(p) ==
    LET e == Head(wire[p]) IN
    /\ Arrives(p) /\ paired[p] = "paired"
    /\ pos[e] = recvPos[p]
    /\ recvPos' = [recvPos EXCEPT ![p] = @ + 1]
    /\ handled' = handled \cup {e}
    /\ Handle(p, e)
    /\ wire' = [wire EXCEPT ![p] = Tail(@)]
    /\ UNCHANGED <<keys, paired, listening, pos, sendPos, taken, drops, faults>>

\* decryptMessage throws once the chain has moved on (its save fails): the
\* envelope is not handled, and nothing will bring it back.
ReceiveFails(p) ==
    /\ Arrives(p) /\ paired[p] = "paired"
    /\ pos[Head(wire[p])] = recvPos[p]
    /\ Faulty("unsaved")
    /\ recvPos' = [recvPos EXCEPT ![p] = @ + 1]
    /\ unsaved' = unsaved \cup {Head(wire[p])}
    /\ wire' = [wire EXCEPT ![p] = Tail(@)]
    /\ UNCHANGED <<keys, paired, listening, status, pc, pos, sendPos, taken, handled, early>>

\* acknowledgeMessage returns, and sendDeliveryReceipt begins.
Acknowledged(e) ==
    /\ pc[e] = "ack"
    /\ Goto(e, "encrypt")
    /\ UNCHANGED <<keys, paired, listening, status, pos, sendPos, recvPos, wire, taken, handled,
                   drops, faults>>

\* It times out: the delivery receipt is never sent.
AckTimesOut(e) ==
    /\ pc[e] = "ack"
    /\ Faulty("ack")
    /\ Goto(e, "failed")
    /\ UNCHANGED <<keys, paired, listening, status, pos, sendPos, recvPos, wire, taken, handled, drops>>

\* markMessageAsRead, when the message scrolls into view.
MarkRead(m) ==
    /\ status[Reader(m)][m] = "delivered"
    /\ SetStatus(Reader(m), m, "read")
    /\ Goto(Env("read", m), "encrypt")
    /\ UNCHANGED <<keys, paired, listening, pos, sendPos, recvPos, wire, taken, handled, drops, faults>>

-----------------------------------------------------------------------------
(* Faults below the bridge                                                 *)

\* A socket dies with the message the relay pushed to it.
Lose(p) ==
    /\ wire[p] # <<>>
    /\ Faulty("lost")
    /\ wire' = [wire EXCEPT ![p] = Tail(@)]
    /\ UNCHANGED <<keys, paired, listening, status, pc, pos, sendPos, recvPos, taken, handled, drops>>

Running == {"ack", "seal", "encrypt", "send", "wait"}

\* The page is reloaded: what was running is gone, the stores are not, and
\* nobody subscribes to the receive queues of the stored contacts again.  The
\* stored sendCounter may already count an encryption that was under way.
Reload(p) ==
    /\ Faulty("reload")
    /\ pc' = [e \in Envelope |-> IF From(e) = p /\ pc[e] \in Running THEN "gone" ELSE pc[e]]
    /\ \/ sendPos' = sendPos
       \/ /\ \E e \in Envelope : From(e) = p /\ pc[e] \in {"seal", "encrypt"}
          /\ sendPos' = [sendPos EXCEPT ![p] = @ + 1]
    /\ listening' = [listening EXCEPT ![p] = FALSE]
    /\ paired' = [paired EXCEPT ![p] = IF @ = "subscribed" THEN "no" ELSE @]
    /\ UNCHANGED <<keys, status, pos, recvPos, wire, taken, handled, drops>>

-----------------------------------------------------------------------------
Step(e) == Seal(e) \/ Encrypt(e) \/ Transmit(e) \/ SendAnswered(e) \/ SendTimesOut(e) \/ Acknowledged(e)

Incoming(p) == Unknown(p) \/ OutOfOrder(p) \/ Receive(p)

Next ==
    \/ \E p \in Party : Subscribe(p) \/ SaveContact(p) \/ Incoming(p)
    \/ \E p \in Party : ReceiveFails(p) \/ Lose(p) \/ Reload(p)
    \/ \E m \in Message : Compose(m) \/ DistributeKey(m) \/ MarkRead(m)
    \/ \E e \in Envelope : Step(e) \/ EncryptFails(e) \/ Offline(e) \/ AckTimesOut(e)

\* The event loops go on with some function that runs, and with some message that
\* was pushed.  Nobody has to compose, to read or to accept an invitation, and
\* faults never have to happen.
Fairness ==
    /\ WF_vars(\E e \in Envelope : Step(e))
    /\ WF_vars(\E p \in Party : Incoming(p) \/ SaveContact(p))

Spec == Init /\ [][Next]_vars
FairSpec == Spec /\ Fairness

-----------------------------------------------------------------------------
(* Properties                                                              *)

\* Every variable stays in its range.
TypeOK ==
    /\ keys \subseteq GroupKey
    /\ paired \in [Party -> {"no", "subscribed", "paired"}]
    /\ listening \in [Party -> BOOLEAN]
    /\ status \in [Party -> [Message ->
                    {"absent", "sending", "sent", "failed", "delivered", "read"}]]
    /\ pc \in [Envelope -> Running \cup {"idle", "done", "failed", "gone"}]
    /\ pos \in [Envelope -> Nat \cup {None}]
    /\ sendPos \in [Party -> Nat] /\ recvPos \in [Party -> Nat]
    /\ wire \in [Party -> Seq(Envelope)]
    /\ taken \subseteq Envelope /\ handled \subseteq Envelope /\ early \subseteq Envelope
    /\ unsaved \subseteq Envelope
    /\ faults \in 0..MaxFaults

Mine   == [m \in Message |-> status[Author[m]][m]]
Theirs == [m \in Message |-> status[Reader(m)][m]]

Ticks == INSTANCE MessageTicks WITH mine <- Mine, theirs <- Theirs

\* The ticks tell the truth: the author never sees "delivered" before the
\* recipient's side shows the message nor "read" before it was read, and the
\* author's own "sent" or "failed" never replaces what a receipt has said.
TicksTellTheTruth == Ticks!Spec

\* What a party has handled is all its contact sent up to some point: no
\* message is shown, and no receipt believed, beyond one that was lost, but for
\* one that was decrypted and not handled since the session could not be saved.
NoHoleInTheConversation == \A e \in handled, f \in Envelope :
    From(f) = From(e) /\ pos[f] # None /\ pos[f] < pos[e] => f \in handled \cup unsaved

\* The position p's receiving chain waits for will never arrive.
Stuck(p) ==
    /\ recvPos[p] < sendPos[Other(p)]
    /\ \A f \in Envelope :
          From(f) # p /\ pos[f] = recvPos[p] => pc[f] # "send" /\ f \notin Range(wire[p])

\* A conversation only gets stuck by a fault, by a message that came before
\* the invitee had saved the contact, or by a group key on its way: a key that
\* was sealed takes a position no ciphertext of the queue has.
StuckNeedsCause == \A p \in Party : Stuck(p) =>
    \/ faults > 0 \/ early # {}
    \/ \E g \in keys : Author[g] # p /\ pc[Env("msg", g)] \notin {"idle", "seal"}

\* A message its author sees as sent is shown to its recipient in the end,
\* unless the recipient's chain is stuck, its page has no subscription, or it
\* could not save the session with which it had decrypted the message.
SentIsShownOrStuck == \A m \in Message :
    pc[Env("msg", m)] = "done"
      ~> status[Reader(m)][m] # "absent" \/ Stuck(Reader(m)) \/ ~listening[Reader(m)]
         \/ Env("msg", m) \in unsaved

\* The author of a message that was shown learns of it, unless the delivery
\* receipt could not be sent or cannot be received, or a file message was
\* never stored by its own author because the SEND was not answered in time.
AuthorLearns == \A m \in Message :
    LET a == Author[m] IN
    status[Reader(m)][m] # "absent"
      ~> \/ status[a][m] \in {"delivered", "read", "absent"}
         \/ pc[Env("delivered", m)] \in {"failed", "gone"}
         \/ Stuck(a) \/ ~listening[a] \/ Env("delivered", m) \in unsaved

\* No message is shown as "sending" for ever, unless its page was reloaded.
SendingEnds == \A m \in Message :
    Mine[m] = "sending" ~> Mine[m] # "sending" \/ pc[Env("msg", m)] = "gone"

\* What the relay's comment "Deliver any pending messages" makes one expect: a
\* message that was sent is shown to a recipient whose page is subscribed, also
\* when it was sent before the invitation was accepted.  The code does not meet
\* it: acceptInvitation subscribes before it saves the contact.
SentIsShown == \A m \in Message :
    pc[Env("msg", m)] = "done" ~> status[Reader(m)][m] # "absent" \/ ~listening[Reader(m)]

\* groupKeyManager.ts:16 on the group key protocol: "Each member receives
\* encrypted key via their pairwise SimpleX queue".  The member's client gets
\* to handle the envelope, or its page has no subscription.  The code does not
\* meet it: sealing the key takes a position of the chain the envelope needs.
MemberReceivesKey == \A g \in GroupKey :
    g \in keys /\ pc[Env("msg", g)] = "done"
      ~> Env("msg", g) \in handled \/ ~listening[Reader(g)] \/ early # {}

\* What the two bridges promise in every state: the variables have their types,
\* and neither a message nor a receipt is handled beyond one that was lost.
MessagingInv == TypeOK /\ NoHoleInTheConversation

\* The author of a message is told what became of it: that it was shown, and
\* before that, that sending has ended, up to the causes the parts name.
AuthorIsTold == AuthorLearns /\ SendingEnds
=============================================================================
