----------------------------- MODULE Assistant -----------------------------
(***************************************************************************)
(* The assistant of a small business (arkachat-assistant/src): its         *)
(* Telegram bot (channels/telegram.ts), its SimpleX bridge                 *)
(* (channels/arkachat.ts), the routing of a message                        *)
(* (nanoclaw/orchestrator.ts), the owner's documents (documents/) and the  *)
(* users and drafts it keeps (storage/), on either storage backend.        *)
(*                                                                         *)
(* A client's question is answered from the documents, or a draft is made  *)
(* that the owner approves or rejects with a button.  Telegraf hands the   *)
(* bot a batch of updates, runs their handlers concurrently and asks for   *)
(* the next batch, which confirms this one, when all have ended; an error  *)
(* that leaves a handler ends the polling, and the process.  A task is a   *)
(* handler that waits; what the two language models say is left open.      *)
(***************************************************************************)
EXTENDS Naturals, Sequences, FiniteSets, SequencesExt

CONSTANTS
    Owner,              \* who writes from ADEL_ADMIN_TELEGRAM_ID
    Client,             \* a client who writes on Telegram
    Contact,            \* a client who writes over SimpleX
    Claims,             \* who is claimed, as what: the /claim commands tried
    MaxUpdates,         \* bound: messages, commands and taps
    MaxAtOnce,          \* bound: of those that nobody has finished with
    MaxFaults           \* bound: failing calls, and signals that end the process

Person == {Owner, Client, Contact}

ASSUME AssistantAssumption ==
    /\ Cardinality(Person) = 3
    /\ Claims \subseteq Person \X {"client", "employee"}
    /\ {MaxUpdates, MaxAtOnce, MaxFaults} \subseteq Nat

Id    == 1..MaxUpdates
Role  == {"none", "owner", "employee", "client"}
Kind  == {"text", "start", "claim", "document", "approve", "reject"}
\* "who" wrote it or, of a /claim, is claimed; "draft" is the button's draft.
Update == [id : Id, kind : Kind, who : Person, role : Role, draft : Nat]
Row    == [role : Role, business : BOOLEAN]
NoRow  == [role |-> "none", business |-> FALSE]
Place  == {"lookup", "insert", "business", "attach", "route", "reply", "ping",
           "claim", "ingest", "chunks", "approve", "send", "sent", "report"}
Task   == [of : Update, at : Place, user : Row, draft : Nat]

VARIABLES
    backend,        \* ADEL_STORAGE_BACKEND
    process,        \* "up", "ending" after an unhandled error, or "down"
    user,           \* adel_users: a person's row
    drafts,         \* adel_drafts: the message it answers, its client, its status
    document,       \* adel_documents: "none", "row", or "searchable" with chunks
    updates,        \* what Telegram has not been told is handled
    batch,          \* how many of them the bot is handling
    proxy,          \* messages the SimpleX proxy holds
    tasks,
    buttons,        \* drafts whose buttons the owner can tap
    budget,         \* what is left of each bound
    \* history
    written,        \* messages written
    replied,        \* ids of those whose writer got a reply
    answers,        \* answers[i]: times the client got draft i
    reported,       \* drafts whose outcome the owner was told
    hurt,           \* updates a failed call, or the end of the process, has met
    ownerless,      \* drafts for which no owner was found
    raced,          \* ids whose writer's row was inserted by another task
    crossed,        \* drafts tapped while another tap on them was unsettled
    stopped         \* ids that were not confirmed when the process ended

storage == <<backend, user, drafts, document>>
world   == <<updates, batch, proxy, buttons>>
past    == <<written, replied, answers, reported, hurt, ownerless, raced, crossed, stopped>>
vars    == <<process, storage, world, tasks, budget, past>>

\* A bot nobody has written to, or one whose owner has claimed the clients, where
\* the backends no longer differ.
Init ==
    /\ process = "up"
    /\ \/ /\ backend \in {"sqlite", "supabase"}
          /\ user = [p \in Person |-> NoRow]
       \/ /\ backend = "sqlite"
          /\ user = [p \in Person |-> [role |-> IF p = Owner THEN "owner" ELSE "client",
                                       business |-> TRUE]]
    /\ drafts = <<>> /\ document = "none"
    /\ updates = <<>> /\ batch = 0 /\ proxy = <<>>
    /\ tasks = {} /\ buttons = {}
    /\ budget = [updates |-> MaxUpdates, faults |-> MaxFaults]
    /\ written = {} /\ replied = {} /\ answers = <<>> /\ reported = {} /\ hurt = {}
    /\ ownerless = {} /\ raced = {} /\ crossed = {} /\ stopped = {}

Spend(what) == budget[what] > 0 /\ budget' = [budget EXCEPT ![what] = @ - 1]

-----------------------------------------------------------------------------
(* Tasks.                                                                  *)

NewTask(u, place) == [of |-> u, at |-> place, user |-> NoRow, draft |-> u.draft]
Put(t, new) == tasks' = (tasks \ {t}) \cup {new}
To(t, place) == Put(t, [t EXCEPT !.at = place])
End(t) == tasks' = tasks \ {t}

OnSimplex(u) == u.who = Contact /\ u.kind = "text"
Tap(u) == u.kind \in {"approve", "reject"}
OnDraft(d) == {t \in tasks : Tap(t.of) /\ t.of.draft = d}
\* Taps on d that Telegram holds, handled or not, or that a task handles.
Unsettled(d) == {u \in Range(updates) : Tap(u) /\ u.draft = d}
                    \cup {t.of : t \in OnDraft(d)}
LookingUp(t) == t.at \in {"lookup", "insert", "business"}

\* The loaded user's row goes with the task, and is not read again.
Loaded(t, row) ==
    Put(t, [t EXCEPT !.user = row,
                     !.at = CASE t.of.kind = "text" -> "route"
                              [] t.of.kind = "start" -> "reply"
                              [] t.of.kind = "claim" -> "claim"
                              [] OTHER -> "ingest"])

\* Mutant: an error before the message is routed is only logged.
RaiseSilently(t) ==
    \/ /\ t.of.kind = "text" /\ t.at = "route"
       /\ Put(t, [t EXCEPT !.at = "reply", !.user = NoRow, !.draft = 0])
       /\ UNCHANGED process
    \/ t.at # "route" /\ End(t) /\ UNCHANGED process

\* route and the text handler answer an error with an apology; the SimpleX bridge
\* logs it.  Telegraf passes on any other, that of sendChatAction before route
\* included: no batch follows, and launch rejects.
Raise(t) ==
    \/ /\ t.of.kind = "text"
       /\ t.at = "route" \/ (LookingUp(t) /\ ~OnSimplex(t.of))
       /\ Put(t, [t EXCEPT !.at = "reply", !.user = NoRow, !.draft = 0])
       /\ UNCHANGED process
    \/ /\ OnSimplex(t.of) /\ t.at # "route"
       /\ End(t)
       /\ UNCHANGED process
    \/ /\ ~OnSimplex(t.of)
       /\ t.of.kind = "text" => t.at \in {"route", "reply", "ping"}
       /\ End(t)
       /\ process' = "ending"

-----------------------------------------------------------------------------
(* findOrCreateByTelegram.                                                 *)

\* Who a message is from: the owner, for a command only the owner may give.
From(u) == IF u.kind \in {"claim", "document"} THEN Owner ELSE u.who
FirstRow(p) == [role |-> IF p = Owner THEN "owner" ELSE "client", business |-> FALSE]

Lookup(t) ==
    /\ t.at = "lookup"
    /\ user[From(t.of)] # NoRow
    /\ Loaded(t, user[From(t.of)])
    /\ UNCHANGED <<user, raced, process>>

\* Mutant: the owner's row is not given the new business.
CreateUnlinked(t) ==
    /\ t.at = "lookup" /\ backend = "sqlite"
    /\ user[From(t.of)] = NoRow
    /\ user' = [user EXCEPT ![From(t.of)] = FirstRow(From(t.of))]
    /\ Loaded(t, FirstRow(From(t.of)))
    /\ UNCHANGED <<raced, process>>

\* SQLite: the user, the owner's business and the link are one transaction.
CreateAtOnce(t) ==
    LET row == [FirstRow(From(t.of)) EXCEPT !.business = From(t.of) = Owner] IN
    /\ t.at = "lookup" /\ backend = "sqlite"
    /\ user[From(t.of)] = NoRow
    /\ user' = [user EXCEPT ![From(t.of)] = row]
    /\ Loaded(t, row)
    /\ UNCHANGED <<raced, process>>

\* Supabase: three calls; telegram_id is unique, and a second insert fails.
Missing(t) ==
    /\ t.at = "lookup" /\ backend = "supabase"
    /\ user[From(t.of)] = NoRow
    /\ To(t, "insert")
    /\ UNCHANGED <<user, raced, process>>

Insert(t) ==
    LET row == FirstRow(From(t.of)) IN
    /\ t.at = "insert"
    /\ user[From(t.of)] = NoRow
    /\ user' = [user EXCEPT ![From(t.of)] = row]
    /\ IF From(t.of) = Owner THEN To(t, "business") ELSE Loaded(t, row)
    /\ UNCHANGED <<raced, process>>

InsertRefused(t) ==
    /\ t.at = "insert"
    /\ user[From(t.of)] # NoRow
    /\ Raise(t)
    /\ raced' = raced \cup {t.of.id}
    /\ UNCHANGED user

InsertBusiness(t) ==
    /\ t.at = "business"
    /\ To(t, "attach")
    /\ UNCHANGED <<user, raced, process>>

\* Mutant: only the user that is returned gets the business.
LinkInMemory(t) ==
    /\ t.at = "attach"
    /\ Loaded(t, [FirstRow(Owner) EXCEPT !.business = TRUE])
    /\ UNCHANGED <<user, raced, process>>

\* The result of this update is not looked at.
LinkBusiness(t) ==
    /\ t.at = "attach"
    /\ user' = [user EXCEPT ![Owner].business = TRUE]
    /\ Loaded(t, [FirstRow(Owner) EXCEPT !.business = TRUE])
    /\ UNCHANGED <<raced, process>>

FindOrCreate(t) ==
    /\ \/ Lookup(t) \/ CreateAtOnce(t) \/ Missing(t) \/ Insert(t) \/ InsertRefused(t)
       \/ InsertBusiness(t) \/ LinkBusiness(t)
    /\ UNCHANGED <<backend, drafts, document, world, written, replied, answers, reported, hurt,
                   ownerless, crossed, stopped, budget>>

-----------------------------------------------------------------------------
(* A message: routed, answered, and its draft shown to the owner.          *)

\* A script or the language model answers the owner and employees.
RouteOwner(t) ==
    /\ t.user.role \in {"owner", "employee"}
    /\ To(t, "reply")
    /\ UNCHANGED drafts

\* Mutant: nothing is said to a SimpleX contact nobody claimed.
RouteUnclaimedClient(t) ==
    /\ t.user.role = "client" /\ ~t.user.business /\ t.of.who = Client
    /\ To(t, "reply")
    /\ UNCHANGED drafts

RouteUnclaimed(t) ==
    /\ t.user.role = "client" /\ ~t.user.business
    /\ To(t, "reply")
    /\ UNCHANGED drafts

\* Whether a chunk is similar enough to the question is left open.
MayBeGrounded == document = "searchable"

RouteGrounded(t) ==
    /\ t.user.role = "client" /\ t.user.business
    /\ MayBeGrounded
    /\ To(t, "reply")
    /\ UNCHANGED drafts

RouteDraft(t) ==
    /\ t.user.role = "client" /\ t.user.business
    /\ drafts' = Append(drafts, [of |-> t.of.id, client |-> t.of.who, status |-> "pending"])
    /\ Put(t, [t EXCEPT !.at = "reply", !.draft = Len(drafts) + 1])

Route(t) ==
    /\ t.at = "route"
    /\ RouteOwner(t) \/ RouteUnclaimed(t) \/ RouteGrounded(t) \/ RouteDraft(t)
    /\ answers' = IF Len(drafts') > Len(answers) THEN Append(answers, 0) ELSE answers
    /\ UNCHANGED <<backend, user, document, world, process, budget, written, replied, reported, hurt,
                   ownerless, raced, crossed, stopped>>

\* Mutant: the owner is asked about one draft at a time.
ReplyOneAtATime(t) ==
    /\ t.at = "reply"
    /\ replied' = replied \cup {t.of.id}
    /\ IF t.draft # 0 /\ t.user.business /\ ~OnSimplex(t.of) /\ buttons = {}
       THEN To(t, "ping") ELSE End(t)
    /\ UNCHANGED <<storage, world, process, budget, written, answers, reported, hurt,
                   ownerless, raced, crossed, stopped>>

\* Only the Telegram handler shows a draft to the owner.
Reply(t) ==
    /\ t.at = "reply"
    /\ replied' = replied \cup {t.of.id}
    /\ IF t.draft # 0 /\ t.user.business /\ ~OnSimplex(t.of) THEN To(t, "ping") ELSE End(t)
    /\ UNCHANGED <<storage, world, process, budget, written, answers, reported, hurt, ownerless,
                   raced, crossed, stopped>>

Owners == {p \in Person : user[p] = [role |-> "owner", business |-> TRUE]}

\* setOwnerMessageId follows; nothing reads what it writes.
AskOwner(t) ==
    /\ t.at = "ping"
    /\ IF Owners = {}
       THEN ownerless' = ownerless \cup {t.draft} /\ UNCHANGED buttons
       ELSE buttons' = buttons \cup {t.draft} /\ UNCHANGED ownerless
    /\ End(t)
    /\ UNCHANGED <<storage, updates, batch, proxy, process, budget, written, replied, answers,
                   reported, hurt, raced, crossed, stopped>>

-----------------------------------------------------------------------------
(* The owner's commands.                                                   *)

Claim(t) ==
    /\ t.at = "claim"
    /\ user' = IF t.user = [role |-> "owner", business |-> TRUE] /\ user[t.of.who] # NoRow
               THEN [user EXCEPT ![t.of.who] = [role |-> t.of.role, business |-> TRUE]]
               ELSE user
    /\ End(t)
    /\ UNCHANGED <<backend, drafts, document, world, process, budget, past>>

CreateDocument(t) ==
    /\ t.at = "ingest"
    /\ IF t.user = [role |-> "owner", business |-> TRUE]
       THEN /\ document' = IF document = "none" THEN "row" ELSE document
            /\ To(t, "chunks")
       ELSE End(t) /\ UNCHANGED document
    /\ UNCHANGED <<backend, user, drafts, world, process, budget, past>>

\* Mutant: an insert that fails is not noticed.
InsertChunksOrNot(t) ==
    /\ t.at = "chunks"
    /\ document' \in {document, "searchable"}
    /\ End(t)
    /\ UNCHANGED <<backend, user, drafts, world, process, budget, past>>

InsertChunks(t) ==
    /\ t.at = "chunks"
    /\ document' = "searchable"
    /\ End(t)
    /\ UNCHANGED <<backend, user, drafts, world, process, budget, past>>

-----------------------------------------------------------------------------
(* The buttons of a draft.                                                 *)

Status(d) == drafts[d].status
SetStatus(d, status) == drafts' = [drafts EXCEPT ![d].status = status]

\* getPendingDraft: a draft that is not pending is only reported as closed.
Pending(d) == Status(d) = "pending"

CheckPending(t) ==
    /\ t.at = "lookup" /\ t.of.kind = "approve"
    /\ IF Pending(t.draft) THEN To(t, "approve") ELSE End(t)
    /\ UNCHANGED <<storage, world, process, budget, past>>

\* Mutant: only markSent closes a draft.
MarkNothing(t) ==
    /\ t.at = "approve"
    /\ To(t, "send")
    /\ UNCHANGED <<storage, world, process, budget, past>>

MarkApproved(t) ==
    /\ t.at = "approve"
    /\ SetStatus(t.draft, "approved")
    /\ To(t, "send")
    /\ UNCHANGED <<backend, user, document, world, process, budget, past>>

\* Mutant: only a client's id is looked up.
IsAClient(p) == user[p].role = "client"

\* getUserTelegramId; without one the owner is told all the same.
HasTelegram(p) == user[p] # NoRow

SendAnswer(t) ==
    /\ t.at = "send"
    /\ IF HasTelegram(drafts[t.draft].client)
       THEN answers' = [answers EXCEPT ![t.draft] = @ + 1] /\ To(t, "sent")
       ELSE UNCHANGED answers /\ To(t, "report")
    /\ UNCHANGED <<storage, world, process, budget, written, replied, reported, hurt, ownerless,
                   raced, crossed, stopped>>

MarkSent(t) ==
    /\ t.at = "sent"
    /\ SetStatus(t.draft, "sent")
    /\ To(t, "report")
    /\ UNCHANGED <<backend, user, document, world, process, budget, past>>

\* A rejection does not look at the draft.
MarkRejected(t) ==
    /\ t.at = "lookup" /\ t.of.kind = "reject"
    /\ SetStatus(t.draft, "rejected")
    /\ To(t, "report")
    /\ UNCHANGED <<backend, user, document, world, process, budget, past>>

\* Mutant: the buttons stay.
ReportOnly(t) ==
    /\ t.at = "report"
    /\ End(t)
    /\ reported' = reported \cup {t.draft}
    /\ UNCHANGED <<storage, updates, batch, proxy, buttons, process, budget, written, replied,
                   answers, hurt, ownerless, raced, crossed, stopped>>

\* The buttons go, and the owner is told.  Telegram refuses an edit of a message
\* that has no buttons any more.
Report(t) ==
    /\ t.at = "report"
    /\ IF t.draft \in buttons
       THEN End(t) /\ UNCHANGED process
       ELSE Raise(t)
    /\ buttons' = buttons \ {t.draft}
    /\ reported' = IF t.draft \in buttons THEN reported \cup {t.draft} ELSE reported
    /\ UNCHANGED <<storage, updates, batch, proxy, budget, written, replied, answers, hurt,
                   ownerless, raced, crossed, stopped>>

-----------------------------------------------------------------------------
(* Failing calls, and the process.                                         *)

\* The call a task is at fails; a message may have got through all the same.  That
\* the new business could not be linked, or a log entry written, is not noticed.
Fails(t) ==
    /\ Spend("faults")
    /\ hurt' = hurt \cup {t.of}
    /\ IF t.at = "attach"
       THEN Loaded(t, [FirstRow(Owner) EXCEPT !.business = TRUE]) /\ UNCHANGED process
       ELSE Raise(t)
    /\ \/ UNCHANGED <<answers, buttons>>
       \/ /\ t.at = "send"
          /\ answers' = [answers EXCEPT ![t.draft] = @ + 1]
          /\ UNCHANGED buttons
       \/ /\ t.at = "ping" /\ Owners # {}
          /\ buttons' = buttons \cup {t.draft}
          /\ UNCHANGED answers
    /\ UNCHANGED <<storage, updates, batch, proxy, written, replied, reported, ownerless, raced, crossed, stopped>>

\* Mutant: a batch is asked for again.
NextBatchAgain ==
    /\ process = "up"
    /\ \A t \in tasks : OnSimplex(t.of)
    /\ Len(updates) > 0
    /\ batch' = Len(updates)
    /\ tasks' = tasks \cup {NewTask(u, "lookup") : u \in Range(updates)}
    /\ UNCHANGED <<process, storage, updates, proxy, buttons, budget, past>>

\* The next getUpdates confirms the batch and takes what there is.
NextBatch ==
    /\ process = "up"
    /\ \A t \in tasks : OnSimplex(t.of)
    /\ Len(updates) > 0
    /\ updates' = SubSeq(updates, batch + 1, Len(updates))
    /\ batch' = Len(updates')
    /\ tasks' = tasks \cup {NewTask(u, "lookup") : u \in Range(updates')}
    /\ UNCHANGED <<process, storage, proxy, buttons, budget, past>>

\* The bridge does not wait for the handlers it starts.
Poll ==
    /\ process # "down" /\ proxy # <<>>
    /\ tasks' = tasks \cup {NewTask(u, "lookup") : u \in Range(proxy)}
    /\ proxy' = <<>>
    /\ UNCHANGED <<process, storage, updates, batch, buttons, budget, past>>

Unconfirmed == {u.id : u \in Range(SubSeq(updates, 1, batch))}

\* Mutant: the new process believes it is handling the batch.
EndsInBatch(confirmed) ==
    /\ process' = "down"
    /\ updates' = IF confirmed THEN SubSeq(updates, batch + 1, Len(updates)) ELSE updates
    /\ tasks' = {}
    /\ hurt' = hurt \cup {t.of : t \in tasks}
    /\ stopped' = IF confirmed THEN stopped ELSE stopped \cup Unconfirmed
    /\ UNCHANGED <<storage, batch, proxy, buttons, written, replied, answers, reported,
                   ownerless, raced, crossed>>

Ends(confirmed) ==
    /\ process' = "down"
    /\ updates' = IF confirmed THEN SubSeq(updates, batch + 1, Len(updates)) ELSE updates
    /\ batch' = 0
    /\ tasks' = {}
    /\ hurt' = hurt \cup {t.of : t \in tasks}
    /\ stopped' = IF confirmed THEN stopped ELSE stopped \cup Unconfirmed
    /\ UNCHANGED <<storage, proxy, buttons, written, replied, answers, reported, ownerless,
                   raced, crossed>>

\* Telegraf stops polling, tries to confirm the batch, and launch's catch exits.
ExitsOnError ==
    /\ process = "ending"
    /\ \/ Ends(TRUE) /\ UNCHANGED budget
       \/ Ends(FALSE) /\ Spend("faults")

\* A signal: process.exit(0) waits for nothing.
Shutdown ==
    /\ process # "down"
    /\ Spend("faults")
    /\ Ends(FALSE)

Starts ==
    /\ process = "down"
    /\ process' = "up"
    /\ UNCHANGED <<storage, world, tasks, budget, past>>

-----------------------------------------------------------------------------
(* The people.                                                             *)

NextId == MaxUpdates + 1 - budget.updates
WithinBounds ==
    /\ Spend("updates")
    /\ Len(updates) + Len(proxy) + Cardinality({t \in tasks : OnSimplex(t.of)}) < MaxAtOnce
Arrives(u) == updates' = Append(updates, u) /\ UNCHANGED proxy
NewUpdate(kind, p, role, d) ==
    [id |-> NextId, kind |-> kind, who |-> p, role |-> role, draft |-> d]

Writes(p) ==
    LET u == NewUpdate("text", p, "none", 0) IN
    /\ WithinBounds
    /\ IF p = Contact THEN proxy' = Append(proxy, u) /\ UNCHANGED updates ELSE Arrives(u)
    /\ written' = written \cup {u}
    /\ UNCHANGED <<process, storage, batch, tasks, buttons, replied, answers, reported, hurt,
                   ownerless, raced, crossed, stopped>>

Commands ==
    /\ WithinBounds
    /\ \/ \E p \in {Owner, Client} : Arrives(NewUpdate("start", p, "none", 0))
       \/ \E c \in Claims : Arrives(NewUpdate("claim", c[1], c[2], 0))
       \/ Arrives(NewUpdate("document", Owner, "none", 0))
    /\ UNCHANGED <<process, storage, batch, tasks, buttons, past>>

Taps(d, kind) ==
    /\ WithinBounds
    /\ d \in buttons
    /\ Arrives(NewUpdate(kind, Owner, "none", d))
    /\ crossed' = IF Unsettled(d) = {} THEN crossed ELSE crossed \cup {d}
    /\ UNCHANGED <<process, storage, batch, tasks, buttons, written, replied, answers, reported,
                   hurt, ownerless, raced, stopped>>

-----------------------------------------------------------------------------
Handles(t) ==
    \/ ~Tap(t.of) /\ FindOrCreate(t)
    \/ Route(t) \/ Reply(t) \/ AskOwner(t)
    \/ Claim(t) \/ CreateDocument(t) \/ InsertChunks(t)
    \/ CheckPending(t) \/ MarkApproved(t) \/ SendAnswer(t) \/ MarkSent(t)
    \/ MarkRejected(t) \/ Report(t)

People ==
    \/ \E p \in Person : Writes(p)
    \/ Commands
    \/ \E d \in buttons, kind \in {"approve", "reject"} : Taps(d, kind)

Next ==
    \/ \E t \in tasks : Handles(t) \/ Fails(t)
    \/ NextBatch \/ Poll \/ ExitsOnError \/ Shutdown \/ Starts
    \/ People

\* The event loop goes on: some handler's awaited call settles, or the bot or the
\* bridge asks for more.  A process that is down need not be started again.
Fairness ==
    WF_vars((\E t \in tasks : Handles(t)) \/ NextBatch \/ Poll \/ ExitsOnError)

Spec == Init /\ [][Next]_vars /\ Fairness

-----------------------------------------------------------------------------
(* What holds.                                                             *)

\* Every variable has the values it is meant to have.
TypeOK ==
    /\ backend \in {"sqlite", "supabase"} /\ process \in {"up", "ending", "down"}
    /\ user \in [Person -> Row]
    /\ drafts \in Seq([of : Id, client : Person,
                       status : {"pending", "approved", "rejected", "sent"}])
    /\ document \in {"none", "row", "searchable"}
    /\ updates \in Seq(Update) /\ batch \in 0..Len(updates) /\ proxy \in Seq(Update)
    /\ tasks \subseteq Task
    /\ DOMAIN answers = DOMAIN drafts
    /\ buttons \cup reported \cup ownerless \cup crossed \subseteq DOMAIN drafts
    /\ hurt \cup written \subseteq Update /\ replied \cup raced \cup stopped \subseteq Id

Hurt(i) == \E u \in hurt : u.id = i
HurtTap(d) == \E u \in hurt : Tap(u) /\ u.draft = d

\* The client gets a draft once.  The check that it is pending and the mark that
\* it is approved are two calls, so two taps under way at once get past it; one
\* that comes back after a crash does not, whatever the first try got done.
AnsweredOnce == \A d \in DOMAIN drafts : answers[d] <= 1 \/ d \in crossed

\* A rejected draft has not gone to the client.  markRejected looks at nothing: it
\* is the buttons that are gone after an approval that stop it, unless the second
\* tap came before that, or the approval failed halfway and left them.
RejectedIsUnsent ==
    \A d \in DOMAIN drafts :
        Status(d) = "rejected" /\ answers[d] > 0 => d \in crossed \/ HurtTap(d)

\* A draft stays approved and unsent, which nothing will ever look at again, only
\* if the handling of a tap on it failed or was cut short.
StuckNeedsMishap ==
    \A d \in DOMAIN drafts :
        Status(d) = "approved" /\ Unsettled(d) = {} => HurtTap(d)

\* A pending draft that the owner has no buttons for, and nobody is about to show,
\* is a SimpleX client's, was cut off by a failure, or found no owner.
UnaskedNeedsCause ==
    \A d \in DOMAIN drafts :
        Status(d) = "pending" /\ d \notin buttons /\ (\A t \in tasks : t.draft # d)
            => drafts[d].client = Contact \/ Hurt(drafts[d].of) \/ d \in ownerless

\* A draft found no owner only after the owner claimed herself, as a client, or
\* when the link to her business failed unnoticed.
OwnerlessNeedsCause ==
    ownerless # {} => user[Owner].role # "owner" \/ \E u \in hurt : From(u) = Owner

\* The owner has a business, unless the calls that first make it were cut short:
\* no later message repairs that, and all her commands are refused.
OwnerHasABusiness ==
    user[Owner] = [role |-> "owner", business |-> FALSE]
        => \/ \E t \in tasks : t.at \in {"business", "attach"}
           \/ \E u \in hurt : From(u) = Owner

\* One message makes one draft, unless the process ended before Telegram heard
\* that the message was handled.
OneDraftPerMessage ==
    \A d, e \in DOMAIN drafts :
        d # e /\ drafts[d].of = drafts[e].of => drafts[d].of \in stopped

\* A message that has been taken and is in no handler's hands was replied to,
\* unless its handling failed or was cut short, or it is one of two first
\* messages of a SimpleX contact whose handlers created the same user.
SilenceNeedsCause ==
    \A u \in written :
        \/ u.id \in replied \/ u \in hurt
        \/ u \in Range(updates) \cup Range(proxy) \/ \E t \in tasks : t.of = u
        \/ u.who = Contact /\ u.id \in raced

\* A document without chunks, which answers nothing, is one whose upload failed or
\* was cut short: createDocument comes before the embeddings.
HalfStoredNeedsMishap ==
    document = "row" => \/ \E t \in tasks : t.at = "chunks"
                        \/ \E u \in hurt : u.kind = "document"

\* Every message is replied to in the end, unless its handling fails, a contact's
\* user was created twice, or the process ends.
TextIsAnswered ==
    []<>(process # "up"
         \/ \A u \in written : u.id \in replied \cup raced \/ u \in hurt)

\* No draft stays approved, unless that fails or the process ends.
ApprovedIsSettled ==
    []<>(process # "up"
         \/ \A d \in DOMAIN drafts : Status(d) = "approved" => HurtTap(d))

\* Nothing is left half done without a cause: no draft approved and unsent, pending
\* and unseen or made twice, no owner without her business, no message without a
\* reply and no document without chunks, unless a call failed, the process ended or
\* the cause is one the parts name.
AssistantInv ==
    /\ TypeOK
    /\ StuckNeedsMishap
    /\ UnaskedNeedsCause
    /\ OwnerlessNeedsCause
    /\ OwnerHasABusiness
    /\ OneDraftPerMessage
    /\ SilenceNeedsCause
    /\ HalfStoredNeedsMishap

\* The assistant finishes what it began: every text is replied to and no draft stays
\* approved, unless that fails or the process ends.
WorkEnds == TextIsAnswered /\ ApprovedIsSettled
=============================================================================
