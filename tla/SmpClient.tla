------------------------------ MODULE SmpClient ------------------------------
(***************************************************************************)
(* The client of the public SMP servers: WebSimplexClient of               *)
(* arkachat-web/src/lib/simplex/client.ts, as SmartSimplexClient uses it   *)
(* in a production build and ShieldSimplexBridge starts and stops it.      *)
(*                                                                         *)
(* A WebSocket handler runs to completion, with the continuations of the   *)
(* promises it settles, before the next event: one action.  The page has   *)
(* one invitation of its own, hence one queue; as createInvitation makes   *)
(* no reply queue here, both parties send to it.  The servers are          *)
(* external: they answer commands in order, push a queue's messages to its *)
(* last subscriber, and keep a message until it is acknowledged.           *)
(***************************************************************************)
EXTENDS Integers, Sequences, FiniteSets, SequencesExt

CONSTANTS
    Servers,        \* the list connect() is given
    Mine, Theirs,   \* the messages the page and the other party send
    MaxSockets,     \* bound: WebSockets ever opened
    MaxFaults,      \* bound: faults
    Fault           \* which: subset of {"cut", "close", "dial", "throw", "refuse", "late"}

Server == Range(Servers)
Socket == 1..MaxSockets
Message == Mine \cup Theirs
None == 0

ASSUME SmpAssumption ==
    /\ Servers \in Seq(Range(Servers)) /\ IsInjective(Servers) /\ Servers # <<>>
    /\ Message \subseteq Nat \ {None} /\ Mine \cap Theirs = {}
    /\ MaxSockets \in Nat /\ MaxSockets >= Len(Servers)
    /\ MaxFaults \in Nat
    /\ Fault \subseteq {"cut", "close", "dial", "throw", "refuse", "late"}

VARIABLES
    sock,       \* the WebSockets, and the frames under way on each
    conn,       \* serverConnections (None: no entry)
    state,      \* serverStates ("none": no entry)
    global,     \* globalState
    timers,     \* reconnect timers that are running
    calls,      \* pendingResponses
    subscribed, \* whether the queue is in subscribedQueues
    phase,      \* ShieldSimplexBridge.initialize: "off", "starting", "done"
    registered, \* whether the bridge's two callbacks are registered
    shown,      \* the connection state the interface was last given
    invitation, \* createInvitation: "none", "new", "sub", "made", "failed"
    outcome,    \* what sendMessage told its caller
    accepted,   \* whether another party's invitation has been accepted
    handled,    \* messages the bridge has processed but not acknowledged yet
    \* the servers
    home,       \* the server that holds the queue
    subscriber, \* the socket it is pushed to
    box,        \* its unacknowledged messages
    \* history
    heard,      \* [msg, via]: a message and the socket it was heard on
    dropped,    \* [msg, cause]: pushed to the page and thrown away
    since,      \* the socket the queue's subscription was confirmed on
    told,       \* servers that closed with 1000, or could not be dialled at all
    posted,     \* messages the other party has sent
    stopped, survivors,  \* shutdown was called; servers that may come back after it
    faults

client == <<conn, state, global, timers, shown>>
bridge == <<phase, registered>>
users  == <<calls, subscribed, invitation, outcome, accepted, handled>>
server == <<home, subscriber, box, posted>>
past   == <<heard, dropped, since>>
vars == <<sock, client, bridge, users, server, past, told, stopped, survivors, faults>>

Call  == [cmd : {"NEW", "SUB"}, msg : {None}] \cup [cmd : {"SEND", "ACK"}, msg : Message]
\* An answer carries the call it answers; a push, the message.
Frame == [cmd : {"OK", "ERR", "MSG"}, of : Call]

\* A WebSocket of server s with no frame under way.
Silent(s, st) == [server |-> s, st |-> st, up |-> <<>>, down |-> <<>>]
Unused == Silent(None, "unused")

Init ==
    /\ sock = [k \in Socket |-> Unused]
    /\ conn = [s \in Server |-> None]
    /\ state = [s \in Server |-> "none"]
    /\ global = "disconnected" /\ shown = "disconnected"
    /\ timers = [s \in Server |-> 0]
    /\ calls = {} /\ subscribed = FALSE
    /\ phase = "off" /\ registered = FALSE
    /\ invitation = "none"
    /\ outcome = [m \in Mine |-> "none"]
    /\ accepted = FALSE /\ handled = {}
    /\ home = None /\ subscriber = None /\ box = <<>> /\ posted = {}
    /\ heard = {} /\ dropped = {} /\ since = None
    /\ told = {} /\ stopped = FALSE /\ survivors = {}
    /\ faults = 0

Fails(kind) == kind \in Fault /\ faults < MaxFaults /\ faults' = faults + 1

-----------------------------------------------------------------------------
(* Connections                                                             *)

\* Mutant: one server is not enough.
GlobalStateOfAll(st) ==
    LET states == {st[s] : s \in {x \in Server : st[x] # "none"}}
    IN  IF states \subseteq {"connected"} THEN "connected"
        ELSE IF states \subseteq {"error"} THEN "error"
        ELSE IF "connecting" \in states THEN "connecting"
        ELSE "disconnected"

\* updateGlobalState
GlobalState(st) ==
    LET states == {st[s] : s \in {x \in Server : st[x] # "none"}}
    IN  IF "connected" \in states THEN "connected"
        ELSE IF states \subseteq {"error"} THEN "error"
        ELSE IF "connecting" \in states THEN "connecting"
        ELSE "disconnected"

\* The callbacks of a change of the global state: the bridge's, once it has
\* registered it, forwards to the interface.
Announce(st) ==
    /\ global' = GlobalState(st)
    /\ shown' = IF registered THEN GlobalState(st) ELSE shown

SetState(s, to) == state' = [state EXCEPT ![s] = to] /\ Announce(state')

Fresh == {k \in Socket : sock[k].st = "unused"}
Next1 == CHOOSE k \in Fresh : TRUE

\* Mutant: a dial under way does not count.
BusyOnceOpen(s) == state[s] = "connected"

\* connectToServer's guard.
Busy(s) == state[s] \in {"connecting", "connected"}

\* connectToServer: the socket starts to dial, or its constructor throws and
\* nothing will ever try again.
Dial(s) ==
    \/ /\ Busy(s)
       /\ UNCHANGED <<sock, state, global, shown, told, faults>>
    \/ /\ ~Busy(s) /\ Fresh # {}
       /\ sock' = [sock EXCEPT ![Next1] = Silent(s, "dialing")]
       /\ SetState(s, "connecting")
       /\ UNCHANGED <<told, faults>>
    \/ /\ ~Busy(s) /\ Fails("throw")
       /\ SetState(s, "error")
       /\ told' = told \cup {s}
       /\ UNCHANGED sock

\* SmartSimplexClient.connect and WebSimplexClient.connect, called by the
\* bridge's initialize: every server is dialled.  The interface reads the state
\* right after.
Start ==
    /\ phase = "off"
    /\ phase' = "starting"
    /\ sock' = [k \in Socket |-> IF k <= Len(Servers)
                                   THEN Silent(Servers[k], "dialing")
                                   ELSE Unused]
    /\ state' = [s \in Server |-> "connecting"]
    /\ global' = "connecting" /\ shown' = "connecting"
    /\ UNCHANGED <<conn, timers, registered, users, server, past, told,
                   stopped, survivors, faults>>

\* Every first dial has opened or failed, and the probes have ended: connect
\* returns, and initialize registers the bridge's callbacks.
Initialized ==
    /\ phase = "starting"
    /\ \A k \in 1..Len(Servers) : sock[k].st # "dialing"
    /\ phase' = "done"
    /\ registered' = TRUE
    /\ shown' = global
    /\ UNCHANGED <<sock, conn, state, global, timers, users, server, past, told,
                   stopped, survivors, faults>>

\* Mutant: only a connection that was lost after it opened is dialled again.
OnCloseAfterOpen(k, code) ==
    LET s == sock[k].server IN
    /\ sock' = [sock EXCEPT ![k] = Silent(s, "closed")]
    /\ conn' = [conn EXCEPT ![s] = None]
    /\ SetState(s, "disconnected")
    /\ timers' = IF code # 1000 /\ conn[s] = k THEN [timers EXCEPT ![s] = @ + 1] ELSE timers

\* Mutant: the close code is not looked at.
OnCloseAnyCode(k, code) ==
    LET s == sock[k].server IN
    /\ sock' = [sock EXCEPT ![k] = Silent(s, "closed")]
    /\ conn' = [conn EXCEPT ![s] = None]
    /\ SetState(s, "disconnected")
    /\ timers' = [timers EXCEPT ![s] = @ + 1]

\* onclose, and onerror before it when the socket failed: whatever socket the
\* entry holds, it goes.
OnClose(k, code) ==
    LET s == sock[k].server IN
    /\ sock' = [sock EXCEPT ![k] = Silent(s, "closed")]
    /\ conn' = [conn EXCEPT ![s] = None]
    /\ SetState(s, "disconnected")
    /\ timers' = IF code # 1000 THEN [timers EXCEPT ![s] = @ + 1] ELSE timers

DialFails(k) ==
    /\ sock[k].st = "dialing" /\ Fails("dial")
    /\ OnClose(k, 1006)
    /\ UNCHANGED <<bridge, users, server, past, told, stopped, survivors>>

Cut(k) ==
    /\ sock[k].st \in {"open", "closing"} /\ Fails("cut")
    /\ OnClose(k, 1006)
    /\ survivors' = IF sock[k].st = "closing" THEN survivors \cup {sock[k].server} ELSE survivors
    /\ UNCHANGED <<bridge, users, server, past, told, stopped>>

ServerCloses(k) ==
    /\ sock[k].st = "open" /\ Fails("close")
    /\ told' = told \cup {sock[k].server}
    /\ OnClose(k, 1000)
    /\ UNCHANGED <<bridge, users, server, past, stopped, survivors>>

\* The close handshake that disconnect() began is over.
Closed(k) ==
    /\ sock[k].st = "closing"
    /\ OnClose(k, 1000)
    /\ UNCHANGED <<bridge, users, server, past, told, stopped, survivors, faults>>

\* Mutant: only a server in error is dialled again.
TimerFiresOnError(s) ==
    /\ timers[s] > 0
    /\ timers' = [timers EXCEPT ![s] = @ - 1]
    /\ IF state[s] = "error" THEN Dial(s)
         ELSE UNCHANGED <<sock, state, global, shown, told, faults>>
    /\ UNCHANGED <<conn, bridge, users, server, past, stopped, survivors>>

\* scheduleReconnect's timer.
TimerFires(s) ==
    /\ timers[s] > 0
    /\ timers' = [timers EXCEPT ![s] = @ - 1]
    /\ Dial(s)
    /\ UNCHANGED <<conn, bridge, users, server, past, stopped, survivors>>

\* The bridge's shutdown: it drops its callbacks, then disconnect() closes the
\* sockets that have opened.  Dials and timers go on.
Shutdown ==
    /\ phase # "off" /\ ~stopped
    /\ stopped' = TRUE
    /\ survivors' = {s \in Server : timers[s] > 0
                        \/ \E k \in Socket : sock[k].server = s /\ sock[k].st = "dialing"}
    /\ registered' = FALSE
    /\ sock' = [k \in Socket |-> IF \E s \in Server : conn[s] = k
                                   THEN [sock[k] EXCEPT !.st = "closing"] ELSE sock[k]]
    /\ conn' = [s \in Server |-> None]
    /\ state' = [s \in Server |-> "none"]
    /\ global' = "disconnected"
    /\ UNCHANGED <<timers, shown, phase, users, server, past, told, faults>>

-----------------------------------------------------------------------------
(* Commands                                                                *)

\* sendCommandWithResponse, once it has found the server's socket.
Request(sk, k, cmd, msg) ==
    [sk EXCEPT ![k].up = Append(@, [cmd |-> cmd, msg |-> msg])]

Waiting(cmd, msg) == calls' = calls \cup {[cmd |-> cmd, msg |-> msg]}

\* subscribeToQueue returns at once for a queue that is listed.
Listed == subscribed

\* onopen, with resubscribeQueues.
Opens(k) ==
    LET s == sock[k].server
        opened == [sock EXCEPT ![k].st = "open"]
    IN  /\ sock[k].st = "dialing"
        /\ SetState(s, "connected")
        /\ conn' = [conn EXCEPT ![s] = k]
        /\ IF subscribed /\ home = s /\ ~Listed
             THEN sock' = Request(opened, k, "SUB", None) /\ Waiting("SUB", None)
             ELSE sock' = opened /\ UNCHANGED calls
        /\ UNCHANGED <<timers, bridge, subscribed, invitation, outcome, accepted, handled,
                       server, past, told, stopped, survivors, faults>>

\* selectServer: a connected one.  Which one the optimizer's order decides, and
\* that order may be any: selectAndOptimizeRelays returns what a service answers.
Selected == {s \in Server : conn[s] # None /\ state[s] = "connected"}

\* createInvitation: createQueue's NEW, whose answer goes on to the SUB.
Create ==
    /\ phase # "off" /\ invitation = "none"
    /\ \E s \in Selected :
         /\ home' = s
         /\ sock' = Request(sock, conn[s], "NEW", None)
    /\ Waiting("NEW", None)
    /\ invitation' = "new"
    /\ UNCHANGED <<client, bridge, subscribed, outcome, accepted, handled, subscriber, box,
                   posted, past, told, stopped, survivors, faults>>

\* acceptInvitation of another queue, on a server of the allow-list: the server
\* is dialled if it has no socket.
Accept(s) ==
    /\ phase # "off" /\ ~accepted /\ conn[s] = None
    /\ accepted' = TRUE
    /\ Dial(s)
    /\ survivors' = IF stopped THEN survivors \cup {s} ELSE survivors
    /\ UNCHANGED <<conn, timers, bridge, calls, subscribed, invitation, outcome, handled,
                   server, past, stopped>>

\* sendMessage to the invitation's only queue.
Send(m) ==
    LET k == conn[home] IN
    /\ invitation = "made" /\ outcome[m] = "none"
    /\ IF k = None
         THEN outcome' = [outcome EXCEPT ![m] = "failed"] /\ UNCHANGED <<sock, calls>>
         ELSE /\ outcome' = [outcome EXCEPT ![m] = "sending"]
              /\ sock' = Request(sock, k, "SEND", m)
              /\ Waiting("SEND", m)
    /\ UNCHANGED <<client, bridge, subscribed, invitation, accepted, handled, server, past,
                   told, stopped, survivors, faults>>

\* The bridge has processed a message: acknowledgeMessage.
Acknowledge(m) ==
    /\ m \in handled
    /\ handled' = handled \ {m}
    /\ IF conn[home] = None
         THEN UNCHANGED <<sock, calls>>
         ELSE sock' = Request(sock, conn[home], "ACK", m) /\ Waiting("ACK", m)
    /\ UNCHANGED <<client, bridge, subscribed, invitation, outcome, accepted, server, past,
                   told, stopped, survivors, faults>>

\* Mutant: a NEW or SUB that fails tells createInvitation nothing.
RejectedQuietly(c) ==
    /\ invitation' = invitation
    /\ outcome' = [m \in Mine |-> IF c.msg = m THEN "rejected" ELSE outcome[m]]

\* What the caller of a command learns when it fails.
Rejected(c) ==
    /\ invitation' = IF c.cmd \in {"NEW", "SUB"} /\ invitation # "made"
                       THEN "failed" ELSE invitation
    /\ outcome' = [m \in Mine |-> IF c.cmd = "SEND" /\ c.msg = m THEN "failed" ELSE outcome[m]]

Answered(f, c) == f.cmd # "MSG" /\ f.of = c
UnderWay(c) ==
    \E k \in Socket :
        /\ sock[k].st = "open"
        /\ c \in Range(sock[k].up) \/ \E f \in Range(sock[k].down) : Answered(f, c)

\* Mutant: the answer of a server that is gone is waited for.
TimesOutConnected(c) ==
    /\ c \in calls /\ conn[home] # None
    /\ IF UnderWay(c) THEN Fails("late") ELSE UNCHANGED faults
    /\ calls' = calls \ {c}
    /\ Rejected(c)
    /\ UNCHANGED <<sock, client, bridge, subscribed, accepted, handled, server, heard, dropped,
                   since, told, stopped, survivors>>

\* The timer of sendCommandWithResponse: the answer is lost, or more than 30 s late.
TimesOut(c) ==
    /\ c \in calls
    /\ IF UnderWay(c) THEN Fails("late") ELSE UNCHANGED faults
    /\ calls' = calls \ {c}
    /\ Rejected(c)
    /\ UNCHANGED <<sock, client, bridge, subscribed, accepted, handled, server, heard, dropped,
                   since, told, stopped, survivors>>

-----------------------------------------------------------------------------
(* handleServerMessage                                                     *)

Down(k) == Head(sock[k].down)
Took(k) == [sock EXCEPT ![k].down = Tail(@)]

\* An answer nobody waits for any more is ignored.
LateAnswer(k) ==
    /\ Down(k).cmd # "MSG" /\ Down(k).of \notin calls
    /\ sock' = Took(k)
    /\ UNCHANGED <<client, bridge, users, server, past>>

\* NEW's OK: createQueue subscribes.
Created(k) ==
    /\ Down(k).cmd = "OK" /\ Down(k).of.cmd = "NEW" /\ Down(k).of \in calls
    /\ IF conn[home] = None
         THEN /\ invitation' = "failed"
              /\ sock' = Took(k) /\ calls' = calls \ {Down(k).of}
         ELSE /\ invitation' = "sub"
              /\ sock' = Request(Took(k), conn[home], "SUB", None)
              /\ calls' = (calls \ {Down(k).of}) \cup {[cmd |-> "SUB", msg |-> None]}
    /\ UNCHANGED <<client, bridge, subscribed, outcome, accepted, handled, server, past>>

\* Mutant: the queue is not listed.
SubscribedUnlisted(k) ==
    /\ Down(k).cmd = "OK" /\ Down(k).of.cmd = "SUB" /\ Down(k).of \in calls
    /\ calls' = calls \ {Down(k).of}
    /\ invitation' = "made"
    /\ since' = IF since = None THEN k ELSE since
    /\ sock' = Took(k)
    /\ UNCHANGED <<client, bridge, subscribed, outcome, accepted, handled, server, heard, dropped>>

\* SUB's OK: the queue is listed, and createInvitation returns.
Subscribed(k) ==
    /\ Down(k).cmd = "OK" /\ Down(k).of.cmd = "SUB" /\ Down(k).of \in calls
    /\ calls' = calls \ {Down(k).of}
    /\ subscribed' = TRUE
    /\ invitation' = "made"
    /\ since' = IF since = None THEN k ELSE since
    /\ sock' = Took(k)
    /\ UNCHANGED <<client, bridge, outcome, accepted, handled, server, heard, dropped>>

Sent(k) ==
    /\ Down(k).cmd = "OK" /\ Down(k).of.cmd \in {"SEND", "ACK"} /\ Down(k).of \in calls
    /\ calls' = calls \ {Down(k).of}
    /\ outcome' = [m \in Mine |-> IF Down(k).of.cmd = "SEND" /\ Down(k).of.msg = m
                                     THEN "sent" ELSE outcome[m]]
    /\ sock' = Took(k)
    /\ UNCHANGED <<client, bridge, subscribed, invitation, accepted, handled, server, past>>

Refused(k) ==
    /\ Down(k).cmd = "ERR" /\ Down(k).of \in calls
    /\ calls' = calls \ {Down(k).of}
    /\ Rejected(Down(k).of)
    /\ sock' = Took(k)
    /\ UNCHANGED <<client, bridge, subscribed, accepted, handled, server, heard, dropped, since>>

\* A push: only of a listed queue, and only to callbacks that are registered.
Pushed(k) ==
    LET m == Down(k).of.msg IN
    /\ Down(k).cmd = "MSG"
    /\ sock' = Took(k)
    /\ IF subscribed /\ registered
         THEN /\ heard' = heard \cup {[msg |-> m, via |-> k]}
              /\ handled' = handled \cup {m}
              /\ UNCHANGED dropped
         ELSE /\ dropped' = dropped \cup
                   {[msg |-> m, cause |-> IF subscribed THEN "unregistered" ELSE "unlisted"]}
              /\ UNCHANGED <<heard, handled>>
    /\ UNCHANGED <<client, bridge, calls, subscribed, invitation, outcome, accepted, server,
                   since>>

Receive(k) ==
    /\ sock[k].st = "open" /\ sock[k].down # <<>>
    /\ LateAnswer(k) \/ Created(k) \/ Subscribed(k) \/ Sent(k) \/ Refused(k) \/ Pushed(k)
    /\ UNCHANGED <<told, stopped, survivors, faults>>

-----------------------------------------------------------------------------
(* The servers and the other party                                         *)

Reply(cmd, call) == [cmd |-> cmd, of |-> call]
PushOf(m) == [cmd |-> "MSG", of |-> [cmd |-> "SEND", msg |-> m]]

\* Frames reach a page whose socket is open.
Deliver(sk, k, frames) ==
    IF k # None /\ sk[k].st = "open" THEN [sk EXCEPT ![k].down = @ \o frames] ELSE sk

\* The server holds a message once.
Without(b, m) ==
    IF m \in Range(b) THEN RemoveAt(b, CHOOSE i \in DOMAIN b : b[i] = m) ELSE b

ServerTakes(k) ==
    LET c == Head(sock[k].up)
        taken == [sock EXCEPT ![k].up = Tail(@)]
    IN  /\ sock[k].st \in {"open", "closing"} /\ sock[k].up # <<>>
        /\ \/ /\ c.cmd \in {"NEW", "SEND"} /\ Fails("refuse")
              /\ sock' = Deliver(taken, k, <<Reply("ERR", c)>>)
              /\ UNCHANGED <<subscriber, box>>
           \/ /\ c.cmd = "NEW"
              /\ sock' = Deliver(taken, k, <<Reply("OK", c)>>)
              /\ UNCHANGED <<subscriber, box, faults>>
           \/ /\ c.cmd = "SUB"
              /\ subscriber' = k
              /\ sock' = Deliver(taken, k, <<Reply("OK", c)>>
                                   \o [i \in DOMAIN box |-> PushOf(box[i])])
              /\ UNCHANGED <<box, faults>>
           \/ /\ c.cmd = "SEND"
              /\ box' = Append(box, c.msg)
              /\ sock' = Deliver(Deliver(taken, k, <<Reply("OK", c)>>),
                                 subscriber, <<PushOf(c.msg)>>)
              /\ UNCHANGED <<subscriber, faults>>
           \/ /\ c.cmd = "ACK"
              /\ box' = Without(box, c.msg)
              /\ sock' = Deliver(taken, k, <<Reply("OK", c)>>)
              /\ UNCHANGED <<subscriber, faults>>
        /\ UNCHANGED <<client, bridge, users, home, posted, past, told, stopped, survivors>>

\* The other party, who was shown the invitation, sends to its queue.
TheirSend(m) ==
    /\ invitation = "made" /\ m \notin posted
    /\ posted' = posted \cup {m}
    /\ box' = Append(box, m)
    /\ sock' = Deliver(sock, subscriber, <<PushOf(m)>>)
    /\ UNCHANGED <<client, bridge, users, home, subscriber, past, told, stopped,
                   survivors, faults>>

SomeCall == \E c \in calls : TimesOut(c)

Next ==
    \/ Start \/ Initialized \/ Shutdown \/ Create
    \/ \E s \in Server : TimerFires(s) \/ Accept(s)
    \/ \E k \in Socket : \/ Opens(k) \/ DialFails(k) \/ Cut(k) \/ ServerCloses(k)
                         \/ Closed(k) \/ Receive(k) \/ ServerTakes(k)
    \/ \E m \in Mine : Send(m)
    \/ \E m \in Theirs : TheirSend(m)
    \/ \E m \in handled : Acknowledge(m)
    \/ SomeCall

\* Timers fire, the network and the servers answer, and events are handled; no
\* user has to do anything.
Fairness ==
    /\ WF_vars(Initialized) /\ WF_vars(SomeCall)
    /\ \A s \in Server : WF_vars(TimerFires(s))
    /\ \A k \in Socket : WF_vars(Opens(k)) /\ WF_vars(Receive(k)) /\ WF_vars(ServerTakes(k))

Spec == Init /\ [][Next]_vars /\ Fairness

-----------------------------------------------------------------------------
(* Properties                                                              *)

TypeOK ==
    /\ sock \in [Socket -> [server : Server \cup {None},
                            st : {"unused", "dialing", "open", "closing", "closed"},
                            up : Seq(Call), down : Seq(Frame)]]
    /\ conn \in [Server -> Socket \cup {None}]
    /\ state \in [Server -> {"none", "connecting", "connected", "error", "disconnected"}]
    /\ {global, shown} \subseteq {"connecting", "connected", "error", "disconnected"}
    /\ timers \in [Server -> 0..MaxSockets]
    /\ calls \subseteq Call
    /\ phase \in {"off", "starting", "done"}
    /\ invitation \in {"none", "new", "sub", "made", "failed"}
    /\ outcome \in [Mine -> {"none", "sending", "sent", "failed"}]
    /\ handled \subseteq Message /\ box \in Seq(Message)
    /\ {subscribed, registered, accepted, stopped} \subseteq BOOLEAN
    /\ home \in Server \cup {None} /\ {subscriber, since} \subseteq Socket \cup {None}
    /\ heard \subseteq [msg : Message, via : Socket]

Live(s) == {k \in Socket : sock[k].server = s /\ sock[k].st \in {"dialing", "open"}}

\* A server never has two live sockets, and the one that is open is the one
\* commands are sent on, unless the bridge was shut down: its disconnect()
\* forgets sockets that have not closed yet, and their late onclose deletes
\* the entry of a newer one.
OneLiveSocketPerServer ==
    ~stopped => \A s \in Server :
        /\ Cardinality(Live(s)) <= 1
        /\ conn[s] # None <=> \E k \in Live(s) : sock[k].st = "open" /\ conn[s] = k
        /\ state[s] = "connected" <=> conn[s] # None

\* Between initialize and shutdown the interface shows the client's state, and
\* "connected" is shown exactly while some server can take a command.
ShownIsTrue ==
    registered => /\ shown = global
                  /\ ~stopped => (shown = "connected" <=> \E s \in Server : conn[s] # None)

\* A server that was lost is always being dialled again, or has a timer that
\* will: only a close with code 1000, a constructor that throws, or a shutdown
\* ends that.
LostServerHasATimer ==
    phase # "off" /\ ~stopped => \A s \in Server :
        s \in told \/ timers[s] > 0 \/ Live(s) # {}

\* After a shutdown a server is connected again only if it was being dialled or
\* had a timer, which disconnect() leaves alone, if its socket was lost in the
\* middle of the close handshake, or if an invitation on it was accepted.
ConnectedAgainNeedsASurvivor ==
    stopped => \A s \in Server : state[s] = "connected" => s \in survivors

\* Once initialize has returned, and until shutdown, no push is thrown away: the
\* queue is listed before a message of it can come.  Before that a message is
\* lost to the page: its server holds it but will not push it again.
NoPushIsDropped ==
    [][dropped' # dropped => phase = "starting" \/ stopped]_vars

Held(m) == m \in Range(box)
Deaf(m) == \/ since = None \/ sock[since].st # "open" \/ ~registered
           \/ [msg |-> m, cause |-> "unregistered"] \in dropped

\* Whatever the queue accepts reaches the page while the socket of its
\* subscription lives, the page's own messages included: an invitation made here
\* has one queue, so the page hears itself and the other party hears nothing.
AcceptedIsHeard ==
    \A m \in Message : Held(m) ~> (Deaf(m) \/ \E h \in heard : h.msg = m)

\* Once initialize has returned every push is heard: none is thrown away, and
\* what the queue accepts gets through while its subscription's socket lives.
PushesAreHeard == NoPushIsDropped /\ AcceptedIsHeard

\* Every command is answered or given up.
EveryCommandSettles == []<>(calls = {})

\* Every server is connected in the end, whatever was lost on the way.
Reconnected ==
    \A s \in Server : <>[](phase = "off" \/ stopped \/ s \in told \/ state[s] = "connected")

\* What holds of the client in every state, whatever old sockets still do: the
\* variables have their types, a server has one live socket, the interface shows
\* what is so, and a lost server is dialled again.
SmpInv ==
    /\ TypeOK
    /\ OneLiveSocketPerServer
    /\ ShownIsTrue
    /\ LostServerHasATimer

\* Whatever is lost, every command settles and every server is connected again, up
\* to the causes that Reconnected names.
Recovers == EveryCommandSettles /\ Reconnected
=============================================================================
