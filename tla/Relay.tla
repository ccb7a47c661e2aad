-------------------------------- MODULE Relay --------------------------------
(***************************************************************************)
(* The local relay (arkachat-web/relay/index.mjs) and its browser client,  *)
(* LocalRelayClient (arkachat-web/src/lib/simplex/client.ts): queues,      *)
(* subscriptions, messages pushed and kept pending, RPCs with a timeout,   *)
(* reconnection.                                                           *)
(*                                                                         *)
(* A WebSocket is two ends that learn of its death separately, and two     *)
(* ordered streams of frames.  A handler of the relay or of the client     *)
(* runs to completion, with the continuations its promise resolves, before *)
(* the next event, so each is one action.  An invitation's two queues are  *)
(* ordinary queues here: Queue A is created by its recipient, Queue B by   *)
(* the other party.  A message is acknowledged twice: by the client as     *)
(* soon as its callbacks returned (an ACK without an id, whose answer the  *)
(* client ignores and the model leaves out), and later by the bridge with  *)
(* an RPC.                                                                 *)
(***************************************************************************)
EXTENDS Integers, Sequences, FiniteSets, SequencesExt

CONSTANTS
    Client, Queue, Message,         \* messages are numbered in sending order
    Creator, Recipient, Sender,     \* the clients at a queue's ends
    Target,                         \* Target[m]: the queue m is sent to
    None,
    MaxSockets,     \* bound: sockets opened over all the clients' lives
    MaxTries,       \* bound: SUB calls the users of a queue start
    MaxCalls,       \* bound: SUB and SEND calls altogether
    MaxFaults,      \* bound: faults and shutdowns
    Fault           \* which of them: subset of {"cut", "restart", "shutdown"}

ASSUME RelayAssumption ==
    /\ Creator \in [Queue -> Client]
    /\ Recipient \in [Queue -> Client]
    /\ Sender \in [Queue -> Client]
    /\ Message \subseteq Nat
    /\ Target \in [Message -> Queue]
    /\ None \notin Client /\ None \notin Nat
    /\ MaxSockets \in Nat /\ MaxTries \in Nat /\ MaxCalls \in Nat /\ MaxFaults \in Nat
    /\ Fault \subseteq {"cut", "restart", "shutdown"}

Socket == 1..MaxSockets

VARIABLES
    sock,       \* the WebSockets: both ends, and the frames under way
    \* the relay
    queue,      \* queueId -> subscriber, pending (None: no such queue)
    messages,   \* the relay's messages map
    \* the clients
    ws, state,  \* this.ws and this.state
    subscribed, \* this.subscribedQueues
    calls,      \* this.pending: the RPCs that wait for an answer
    timers,     \* reconnect timers that are running
    bridge,     \* the bridge on top: off, starting, on, or stopped for good
    \* the users of a queue
    address,    \* what has become of createInvitation for a queue
    tries,      \* SUB calls started for a queue
    outcome,    \* what sendMessage has told its caller
    acked,      \* messages the bridge has acknowledged
    \* history
    accepted,   \* messages the relay has answered OK for
    wiped,      \* those of them that a restart of the relay forgot
    via,        \* via[m]: the sockets m was sent on and pushed to
    late,       \* queues one of whose SUBs was given up without an answer
    delivered,  \* delivered[q]: messages handed to the callbacks, in order
    faults

clientVars  == <<ws, state, subscribed, calls, timers, bridge>>
relayVars   == <<queue, messages>>
userVars    == <<address, tries, outcome, acked>>
history     == <<accepted, wiped, via, late>>
vars == <<sock, relayVars, clientVars, userVars, history, delivered, faults>>

Call == [cmd : {"NEW", "SUB", "SEND", "ACK"}, queue : Queue, n : Nat]

Frame == [cmd : {"NEW", "SUB", "SEND", "ACK", "CLOSE", "OK", "ERR", "MSG"},
          call : Call \cup {None}, msg : Message \cup {None}]

\* A queue that the relay has.
Record == [subscriber : Socket \cup {None}, pending : Seq(Message)]

\* None stands for what is not there, so it is none of the records either.
ASSUME NoneAssumption == None \notin Call \cup Record

Closed == [owner |-> None, client |-> "none", relay |-> "none", cut |-> FALSE,
           up |-> <<>>, down |-> <<>>]

Init ==
    /\ sock = [s \in Socket |-> Closed]
    /\ queue = [q \in Queue |-> None]
    /\ messages = {}
    /\ ws = [c \in Client |-> None]
    /\ state = [c \in Client |-> "disconnected"]
    /\ subscribed = [c \in Client |-> {}]
    /\ calls = [c \in Client |-> {}]
    /\ timers = [c \in Client |-> 0]
    /\ bridge = [c \in Client |-> "off"]
    /\ address = [q \in Queue |-> "none"]
    /\ tries = [q \in Queue |-> 0]
    /\ outcome = [m \in Message |-> "none"]
    /\ acked = {}
    /\ accepted = {} /\ wiped = {} /\ late = {}
    /\ via = [m \in Message |-> [sent |-> None, pushed |-> None]]
    /\ delivered = [q \in Queue |-> <<>>]
    /\ faults = 0

-----------------------------------------------------------------------------
(* Frames.  A cut socket swallows what is written to it.                   *)

Request(call) == [cmd |-> call.cmd, call |-> call,
                  msg |-> IF call.cmd \in {"SEND", "ACK"} THEN call.n ELSE None]
Answer(cmd, call) == [cmd |-> cmd, call |-> call, msg |-> None]
Msg(m)     == [cmd |-> "MSG", call |-> None, msg |-> m]
Ack(m)     == [cmd |-> "ACK", call |-> None, msg |-> m]
CloseFrame == [cmd |-> "CLOSE", call |-> None, msg |-> None]

\* send() of the relay: only an OPEN socket is written to.
Push(sk, s, frames) ==
    IF sk[s].relay = "open" /\ ~sk[s].cut
      THEN [sk EXCEPT ![s].down = @ \o frames]
      ELSE sk

\* send() of the client: on this.ws, if that is OPEN.
Write(sk, c, frame) ==
    IF ws[c] # None /\ sk[ws[c]].client = "open" /\ ~sk[ws[c]].cut
      THEN [sk EXCEPT ![ws[c]].up = Append(@, frame)]
      ELSE sk

-----------------------------------------------------------------------------
(* The relay's handlers, for the first frame of socket s.                  *)

Reads(s, cmd) ==
    /\ sock[s].relay = "open"
    /\ sock[s].up # <<>>
    /\ Head(sock[s].up).cmd = cmd

\* The frame is consumed, and answered when the handler answers it.
Consume(s) == [sock EXCEPT ![s].up = Tail(@)]
Reply(sk, s, cmd) == Push(sk, s, <<Answer(cmd, Head(sock[s].up).call)>>)

Asked(s) == Head(sock[s].up).call.queue

NotFound(s) ==
    /\ Reads(s, "SUB") \/ Reads(s, "SEND")
    /\ queue[Asked(s)] = None
    /\ sock' = Reply(Consume(s), s, "ERR")
    /\ UNCHANGED <<relayVars, clientVars, userVars, history, delivered, faults>>

RelayNew(s) ==
    /\ Reads(s, "NEW")
    /\ IF queue[Asked(s)] # None
         THEN sock' = Reply(Consume(s), s, "ERR") /\ UNCHANGED queue
         ELSE /\ queue' = [queue EXCEPT ![Asked(s)] = [subscriber |-> None, pending |-> <<>>]]
              /\ sock' = Reply(Consume(s), s, "OK")
    /\ UNCHANGED <<messages, clientVars, userVars, history, delivered, faults>>

\* Mutant: pending is not emptied once it has been pushed.
RelaySubKeeps(s) ==
    LET q == Asked(s)
        flush == queue[q].pending
    IN
    /\ Reads(s, "SUB") /\ queue[q] # None
    /\ queue' = [queue EXCEPT ![q].subscriber = s]
    /\ sock' = Push(Reply(Consume(s), s, "OK"), s, [i \in DOMAIN flush |-> Msg(flush[i])])
    /\ via' = [m \in Message |->
                 IF m \in Range(flush) THEN [via[m] EXCEPT !.pushed = s] ELSE via[m]]
    /\ UNCHANGED <<messages, clientVars, userVars, accepted, wiped, late, delivered, faults>>

\* Mutant: pending messages wait for the next message to be sent.
RelaySubSilent(s) ==
    /\ Reads(s, "SUB") /\ queue[Asked(s)] # None
    /\ queue' = [queue EXCEPT ![Asked(s)].subscriber = s]
    /\ sock' = Reply(Consume(s), s, "OK")
    /\ UNCHANGED <<messages, clientVars, userVars, history, delivered, faults>>

\* Mutant: the pending messages are pushed before the OK.
RelaySubLate(s) ==
    LET q == Asked(s)
        flush == queue[q].pending
    IN
    /\ Reads(s, "SUB") /\ queue[q] # None
    /\ queue' = [queue EXCEPT ![q] = [subscriber |-> s, pending |-> <<>>]]
    /\ sock' = Push(Push(Consume(s), s, [i \in DOMAIN flush |-> Msg(flush[i])]),
                    s, <<Answer("OK", Head(sock[s].up).call)>>)
    /\ via' = [m \in Message |->
                 IF m \in Range(flush) THEN [via[m] EXCEPT !.pushed = s] ELSE via[m]]
    /\ UNCHANGED <<messages, clientVars, userVars, accepted, wiped, late, delivered, faults>>

\* The socket becomes the subscriber; after the OK it gets what was pending.
RelaySub(s) ==
    LET q == Asked(s)
        flush == queue[q].pending
    IN
    /\ Reads(s, "SUB") /\ queue[q] # None
    /\ queue' = [queue EXCEPT ![q] = [subscriber |-> s, pending |-> <<>>]]
    /\ sock' = Push(Reply(Consume(s), s, "OK"), s, [i \in DOMAIN flush |-> Msg(flush[i])])
    /\ via' = [m \in Message |->
                 IF m \in Range(flush) THEN [via[m] EXCEPT !.pushed = s] ELSE via[m]]
    /\ UNCHANGED <<messages, clientVars, userVars, accepted, wiped, late, delivered, faults>>

Keep(m) == messages' = messages \cup {m} /\ accepted' = accepted \cup {m}

PushTo(s, t, m) ==
    /\ sock' = Reply(Push(Consume(s), t, <<Msg(m)>>), s, "OK")
    /\ via' = [via EXCEPT ![m].pushed = t]
    /\ UNCHANGED queue

\* Mutant: the newest message goes to the front.
KeepPendingFront(s, q, m) ==
    /\ queue' = [queue EXCEPT ![q].pending = <<m>> \o @]
    /\ sock' = Reply(Consume(s), s, "OK")
    /\ UNCHANGED via

KeepPending(s, q, m) ==
    /\ queue' = [queue EXCEPT ![q].pending = Append(@, m)]
    /\ sock' = Reply(Consume(s), s, "OK")
    /\ UNCHANGED via

RelaySend(s) ==
    LET m == Head(sock[s].up).msg
        t == queue[Target[m]].subscriber
    IN
    /\ Reads(s, "SEND") /\ queue[Target[m]] # None
    /\ Keep(m)
    /\ IF t # None /\ sock[t].relay = "open"
         THEN PushTo(s, t, m)
         ELSE KeepPending(s, Target[m], m)
    /\ UNCHANGED <<clientVars, userVars, wiped, late, delivered, faults>>

\* Mutant: only an ACK that wants an answer is looked at.
RelayAckAnswered(s) ==
    /\ Reads(s, "ACK")
    /\ IF Head(sock[s].up).call = None
         THEN sock' = Consume(s) /\ UNCHANGED messages
         ELSE /\ messages' = messages \ {Head(sock[s].up).msg}
              /\ sock' = Reply(Consume(s), s, "OK")
    /\ UNCHANGED <<queue, clientVars, userVars, history, delivered, faults>>

RelayAck(s) ==
    /\ Reads(s, "ACK")
    /\ messages' = messages \ {Head(sock[s].up).msg}
    /\ sock' = IF Head(sock[s].up).call = None THEN Consume(s) ELSE Reply(Consume(s), s, "OK")
    /\ UNCHANGED <<queue, clientVars, userVars, history, delivered, faults>>

\* The client's close frame: readyState is CLOSING from now on.
RelayClosing(s) ==
    /\ Reads(s, "CLOSE")
    /\ sock' = [Consume(s) EXCEPT ![s].relay = "closing"]
    /\ UNCHANGED <<relayVars, clientVars, userVars, history, delivered, faults>>

\* Mutant: not only the closed socket's own subscriptions are cleared.
UnsubscribeAll(s) ==
    queue' = [q \in Queue |-> IF queue[q] # None
                                THEN [queue[q] EXCEPT !.subscriber = None] ELSE queue[q]]

Unsubscribe(s) ==
    queue' = [q \in Queue |-> IF queue[q] # None /\ queue[q].subscriber = s
                                THEN [queue[q] EXCEPT !.subscriber = None] ELSE queue[q]]

\* The 'close' event.
RelayClosed(s) ==
    /\ sock[s].relay = "closing" \/ (sock[s].relay = "open" /\ sock[s].cut)
    /\ sock' = [sock EXCEPT ![s].relay = "closed", ![s].up = <<>>]
    /\ Unsubscribe(s)
    /\ UNCHANGED <<messages, clientVars, userVars, history, delivered, faults>>

-----------------------------------------------------------------------------
(* LocalRelayClient: connection                                            *)

\* connect(), past its early return: a new WebSocket.
Dial(c) ==
    \E s \in Socket :
        /\ sock[s].owner = None
        /\ \A t \in Socket : sock[t].owner = None => s <= t
        /\ sock' = [sock EXCEPT ![s].owner = c, ![s].client = "connecting"]
        /\ state' = [state EXCEPT ![c] = "connecting"]

Busy(c) == state[c] \in {"connected", "connecting"}

\* bridge.initialize(), once, by the provider when it mounts.
Initialize(c) ==
    /\ bridge[c] = "off"
    /\ ~Busy(c)
    /\ Dial(c)
    /\ bridge' = [bridge EXCEPT ![c] = "starting"]
    /\ UNCHANGED <<relayVars, ws, subscribed, calls, timers, userVars, history, delivered, faults>>

TimerFires(c) ==
    /\ timers[c] > 0
    /\ timers' = [timers EXCEPT ![c] = @ - 1]
    /\ IF Busy(c) THEN UNCHANGED <<sock, state>> ELSE Dial(c)
    /\ UNCHANGED <<relayVars, ws, subscribed, calls, bridge, userVars, history, delivered, faults>>

Opens(s) ==
    LET c == sock[s].owner IN
    /\ sock[s].client = "connecting"
    /\ sock' = [sock EXCEPT ![s].client = "open", ![s].relay = "open"]
    /\ ws' = [ws EXCEPT ![c] = s]
    /\ state' = [state EXCEPT ![c] = "connected"]
    /\ bridge' = [bridge EXCEPT ![c] = IF @ = "starting" THEN "on" ELSE @]
    /\ UNCHANGED <<relayVars, subscribed, calls, timers, userVars, history, delivered, faults>>

\* onclose, whichever of the client's sockets it is.
OnClose(c) ==
    /\ ws' = [ws EXCEPT ![c] = None]
    /\ state' = [state EXCEPT ![c] = "disconnected"]
    /\ timers' = [timers EXCEPT ![c] = @ + 1]

\* Mutant: onclose does not follow onerror.
DialErrors(s) ==
    /\ sock[s].client = "connecting"
    /\ state' = [state EXCEPT ![sock[s].owner] = "error"]
    /\ sock' = [sock EXCEPT ![s] = Closed]
    /\ bridge' = [bridge EXCEPT ![sock[s].owner] = IF @ = "starting" THEN "stopped" ELSE @]
    /\ UNCHANGED <<relayVars, ws, timers, subscribed, calls, userVars, history, delivered, faults>>

\* onerror and onclose of a socket that never opened.  If it was the first, the
\* smart client goes over to the public servers and leaves this one alone.
DialFails(s) ==
    /\ sock[s].client = "connecting"
    /\ OnClose(sock[s].owner)
    /\ sock' = [sock EXCEPT ![s] = Closed]
    /\ bridge' = [bridge EXCEPT ![sock[s].owner] = IF @ = "starting" THEN "stopped" ELSE @]
    /\ UNCHANGED <<relayVars, subscribed, calls, userVars, history, delivered, faults>>

ClientClosed(s) ==
    /\ sock[s].client \in {"open", "closing"}
    /\ sock[s].cut \/ sock[s].relay \in {"closing", "closed"}
    /\ OnClose(sock[s].owner)
    /\ sock' = [sock EXCEPT ![s].client = "closed", ![s].down = <<>>]
    /\ UNCHANGED <<relayVars, subscribed, calls, bridge, userVars, history, delivered, faults>>

-----------------------------------------------------------------------------
(* LocalRelayClient: RPCs, and the callers that wait for them              *)

\* rpc(): the call is registered and written, or dropped if there is no socket.
\* `done` is the call whose continuation makes this one, if any.
Rpc(sk, c, done, call) ==
    /\ calls' = [calls EXCEPT ![c] = (@ \ done) \cup {call}]
    /\ sock' = Write(sk, c, Request(call))

Finish(sk, c, call) ==
    /\ calls' = [calls EXCEPT ![c] = @ \ {call}]
    /\ sock' = sk

New(q)    == [cmd |-> "NEW", queue |-> q, n |-> 0]
Sub(q, n) == [cmd |-> "SUB", queue |-> q, n |-> n]
AckOf(m)  == [cmd |-> "ACK", queue |-> Target[m], n |-> m]
Send(m)   == [cmd |-> "SEND", queue |-> Target[m], n |-> m]

Settles(q, how) == address' = [address EXCEPT ![q] = IF @ = "creating" THEN how ELSE @]

\* The promise of `call` resolves.  createQueue goes on to subscribe;
\* createQueueOnly is over, and so is the invitation.
Resolves(sk, c, call) ==
    \/ /\ call.cmd = "NEW" /\ Recipient[call.queue] = c
       /\ Rpc(sk, c, {call}, Sub(call.queue, 0))
       /\ UNCHANGED <<subscribed, address, outcome>>
    \/ /\ call.cmd = "NEW" /\ Recipient[call.queue] # c
       /\ Finish(sk, c, call)
       /\ Settles(call.queue, "shared")
       /\ UNCHANGED <<subscribed, outcome>>
    \/ /\ call.cmd = "SUB"
       /\ Finish(sk, c, call)
       /\ subscribed' = [subscribed EXCEPT ![c] = @ \cup {call.queue}]
       /\ Settles(call.queue, "shared")
       /\ UNCHANGED outcome
    \/ /\ call.cmd = "ACK"
       /\ Finish(sk, c, call)
       /\ UNCHANGED <<subscribed, address, outcome>>
    \/ /\ call.cmd = "SEND"
       /\ Finish(sk, c, call)
       /\ outcome' = [outcome EXCEPT ![call.n] = "sent"]
       /\ UNCHANGED <<subscribed, address>>

\* It rejects: on an ERR, or after 10 s without an answer.
Rejects(sk, c, call) ==
    /\ Finish(sk, c, call)
    /\ outcome' = IF call.cmd = "SEND" THEN [outcome EXCEPT ![call.n] = "failed"] ELSE outcome
    /\ IF call.cmd \in {"NEW", "SUB"} THEN Settles(call.queue, "failed") ELSE UNCHANGED address
    /\ UNCHANGED subscribed

\* Mutant: no timer while the socket is down.
TimesOutConnected(c) == \E call \in calls[c] :
    /\ ws[c] # None
    /\ Rejects(sock, c, call)
    /\ late' = IF call.cmd = "SUB" THEN late \cup {call.queue} ELSE late
    /\ UNCHANGED <<relayVars, ws, state, timers, bridge, tries, acked, accepted, wiped, via,
                   delivered, faults>>

TimesOut(c) == \E call \in calls[c] :
    /\ Rejects(sock, c, call)
    /\ late' = IF call.cmd = "SUB" THEN late \cup {call.queue} ELSE late
    /\ UNCHANGED <<relayVars, ws, state, timers, bridge, tries, acked, accepted, wiped, via,
                   delivered, faults>>

-----------------------------------------------------------------------------
(* LocalRelayClient: handleMessage, on the first frame of socket s         *)

Hears(s) == sock[s].client = "open" /\ sock[s].down # <<>>

Take(s) == [sock EXCEPT ![s].down = Tail(@)]

GetsAnswer(s) ==
    LET c == sock[s].owner
        frame == Head(sock[s].down)
    IN
    /\ Hears(s) /\ frame.cmd \in {"OK", "ERR"}
    /\ \/ /\ frame.call \in calls[c] /\ frame.cmd = "OK"
          /\ Resolves(Take(s), c, frame.call)
       \/ /\ frame.call \in calls[c] /\ frame.cmd = "ERR"
          /\ Rejects(Take(s), c, frame.call)
       \/ /\ frame.call \notin calls[c]     \* the RPC timed out before
          /\ sock' = Take(s)
          /\ UNCHANGED <<calls, subscribed, address, outcome>>
    /\ UNCHANGED <<relayVars, ws, state, timers, bridge, tries, acked, history, delivered, faults>>

\* Mutant: the message is acknowledged before its queue is looked up.
GetsMsgAcksFirst(s) ==
    LET c == sock[s].owner
        m == Head(sock[s].down).msg
        q == Target[m]
    IN
    /\ Hears(s) /\ Head(sock[s].down).cmd = "MSG"
    /\ delivered' = IF q \in subscribed[c]
                      THEN [delivered EXCEPT ![q] = Append(@, m)] ELSE delivered
    /\ sock' = Write(Take(s), c, Ack(m))
    /\ UNCHANGED <<relayVars, clientVars, userVars, history, faults>>

\* A MSG of a queue that is not in subscribedQueues is dropped.  Otherwise the
\* callbacks get it, and it is acknowledged on this.ws.
GetsMsg(s) ==
    LET c == sock[s].owner
        m == Head(sock[s].down).msg
        q == Target[m]
    IN
    /\ Hears(s) /\ Head(sock[s].down).cmd = "MSG"
    /\ IF q \in subscribed[c]
         THEN /\ delivered' = [delivered EXCEPT ![q] = Append(@, m)]
              /\ sock' = Write(Take(s), c, Ack(m))
         ELSE /\ sock' = Take(s)
              /\ UNCHANGED delivered
    /\ UNCHANGED <<relayVars, clientVars, userVars, history, faults>>

-----------------------------------------------------------------------------
(* What the users of a queue do                                            *)

Delivered(m) == m \in Range(delivered[Target[m]])

\* The bound on the calls of the users.
CallLeft ==
    Cardinality({x \in Queue \X (1..MaxTries) : x[2] <= tries[x[1]]})
      + Cardinality({m \in Message : outcome[m] # "none"}) < MaxCalls

\* createInvitation.
Create(q) ==
    /\ bridge[Creator[q]] = "on" /\ address[q] = "none"
    /\ address' = [address EXCEPT ![q] = "creating"]
    /\ Rpc(sock, Creator[q], {}, New(q))
    /\ UNCHANGED <<relayVars, ws, state, subscribed, timers, bridge, tries, outcome, acked,
                   history, delivered, faults>>

\* acceptInvitation, which a user may repeat; a queue that is already in
\* subscribedQueues is not subscribed to again.
Accept(q) ==
    /\ bridge[Recipient[q]] = "on" /\ address[q] = "shared"
    /\ Recipient[q] # Creator[q]
    /\ q \notin subscribed[Recipient[q]]
    /\ tries[q] < MaxTries /\ CallLeft
    /\ tries' = [tries EXCEPT ![q] = @ + 1]
    /\ Rpc(sock, Recipient[q], {}, Sub(q, tries[q] + 1))
    /\ UNCHANGED <<relayVars, ws, state, subscribed, timers, bridge, address, outcome, acked,
                   history, delivered, faults>>

\* sendMessage; messages are numbered in the order they are sent in.
SendMessage(m) ==
    LET c == Sender[Target[m]] IN
    /\ bridge[c] = "on" /\ address[Target[m]] = "shared"
    /\ outcome[m] = "none" /\ CallLeft
    /\ \A n \in Message : n < m /\ Target[n] = Target[m] => outcome[n] # "none"
    /\ outcome' = [outcome EXCEPT ![m] = "waiting"]
    /\ via' = [via EXCEPT ![m].sent = ws[c]]
    /\ Rpc(sock, c, {}, Send(m))
    /\ UNCHANGED <<relayVars, ws, state, subscribed, timers, bridge, address, tries, acked,
                   accepted, wiped, late, delivered, faults>>

\* acknowledgeMessage, once the bridge has decrypted and stored the message.
Acknowledge(m) ==
    LET c == Recipient[Target[m]] IN
    /\ Delivered(m) /\ m \notin acked
    /\ acked' = acked \cup {m}
    /\ Rpc(sock, c, {}, AckOf(m))
    /\ UNCHANGED <<relayVars, ws, state, subscribed, timers, bridge, address, tries, outcome,
                   history, delivered, faults>>

-----------------------------------------------------------------------------
(* Faults, and the shutdown of a bridge                                    *)

Faulty(kind) == kind \in Fault /\ faults < MaxFaults /\ faults' = faults + 1

\* The path breaks: what is under way is lost, and neither end knows yet.
Cut(s) ==
    /\ Faulty("cut")
    /\ sock[s].client = "open" /\ ~sock[s].cut
    /\ sock' = [sock EXCEPT ![s].cut = TRUE, ![s].up = <<>>, ![s].down = <<>>]
    /\ UNCHANGED <<relayVars, clientVars, userVars, history, delivered>>

\* The relay process restarts; its queues and messages were in memory.
Restart ==
    /\ Faulty("restart")
    /\ queue' = [q \in Queue |-> None]
    /\ messages' = {}
    /\ wiped' = accepted
    /\ sock' = [s \in Socket |->
                  IF sock[s].relay \in {"open", "closing"}
                    THEN [sock[s] EXCEPT !.relay = "closed", !.cut = TRUE,
                                         !.up = <<>>, !.down = <<>>]
                    ELSE sock[s]]
    /\ UNCHANGED <<clientVars, userVars, accepted, via, late, delivered>>

\* bridge.shutdown(), with the client's disconnect().
Shutdown(c) ==
    /\ Faulty("shutdown")
    /\ bridge[c] = "on"
    /\ bridge' = [bridge EXCEPT ![c] = "stopped"]
    /\ state' = [state EXCEPT ![c] = "disconnected"]
    /\ ws' = [ws EXCEPT ![c] = None]
    /\ sock' = LET sk == Write(sock, c, CloseFrame) IN
               IF ws[c] = None THEN sk ELSE [sk EXCEPT ![ws[c]].client = "closing"]
    /\ UNCHANGED <<relayVars, subscribed, calls, timers, userVars, history, delivered>>

-----------------------------------------------------------------------------
RelayStep(s) ==
    \/ NotFound(s) \/ RelayNew(s) \/ RelaySub(s) \/ RelaySend(s) \/ RelayAck(s)
    \/ RelayClosing(s) \/ RelayClosed(s)

ClientStep(s) == Opens(s) \/ DialFails(s) \/ ClientClosed(s) \/ GetsAnswer(s) \/ GetsMsg(s)

Next ==
    \/ \E s \in Socket : RelayStep(s) \/ ClientStep(s) \/ Cut(s)
    \/ \E c \in Client : Initialize(c) \/ TimerFires(c) \/ TimesOut(c) \/ Shutdown(c)
    \/ \E q \in Queue : Create(q) \/ Accept(q)
    \/ \E m \in Message : SendMessage(m) \/ Acknowledge(m)
    \/ Restart

\* The event loops go on with some step of theirs: sockets that can open do, what
\* was sent is read, a dead socket is noticed by both its ends, and timers fire.
\* Users, faults and DialFails are not forced.
Fairness ==
    /\ WF_vars(\E s \in Socket : RelayStep(s))
    /\ WF_vars(\E s \in Socket : ClientClosed(s) \/ GetsAnswer(s) \/ GetsMsg(s))
    /\ SF_vars(\E s \in Socket : Opens(s))
    /\ WF_vars(\E c \in Client : TimerFires(c)) /\ WF_vars(\E c \in Client : TimesOut(c))

Spec == Init /\ [][Next]_vars
FairSpec == Spec /\ Fairness

-----------------------------------------------------------------------------
(* Properties                                                              *)

\* Every variable stays in its range.
TypeOK ==
    /\ sock \in [Socket -> [owner : Client \cup {None},
                            client : {"none", "connecting", "open", "closing", "closed"},
                            relay : {"none", "open", "closing", "closed"},
                            cut : BOOLEAN, up : Seq(Frame), down : Seq(Frame)]]
    /\ queue \in [Queue -> Record \cup {None}]
    /\ messages \subseteq Message /\ accepted \subseteq Message
    /\ ws \in [Client -> Socket \cup {None}]
    /\ state \in [Client -> {"disconnected", "connecting", "connected"}]
    /\ subscribed \in [Client -> SUBSET Queue]
    /\ calls \in [Client -> SUBSET Call]
    /\ timers \in [Client -> Nat]
    /\ bridge \in [Client -> {"off", "starting", "on", "stopped"}]
    /\ address \in [Queue -> {"none", "creating", "shared", "failed"}]
    /\ tries \in [Queue -> 0..MaxTries]
    /\ outcome \in [Message -> {"none", "waiting", "sent", "failed"}]
    /\ via \in [Message -> [sent : Socket \cup {None}, pushed : Socket \cup {None}]]
    /\ acked \subseteq Message
    /\ delivered \in [Queue -> Seq(Message)]
    /\ faults \in 0..MaxFaults

Pending(m)   == queue[Target[m]] # None /\ m \in Range(queue[Target[m]].pending)
InFlight(m)  == \E s \in Socket : sock[s].client = "open" /\ Msg(m) \in Range(sock[s].down)

Dead(s) == sock[s].cut \/ sock[s].client \in {"closing", "closed"}

\* A message is handed to the callbacks at most once, and two messages of a
\* queue that were sent over the same socket arrive in the order they were
\* sent in, whatever closes, reconnects and subscribes again in between.
OnceAndInOrder == \A q \in Queue : \A i, j \in DOMAIN delivered[q] : i < j =>
    LET m == delivered[q][i]
        n == delivered[q][j]
    IN  m # n /\ (via[m].sent = via[n].sent => m < n)

\* The relay keeps a message in its map until a client's callbacks had it: an
\* ACK is never written for a message that was dropped.
StoredUntilDelivered == \A m \in accepted \ wiped : Delivered(m) \/ m \in messages

\* The relay's map does not grow with the messages that were delivered: one
\* is only kept behind its ACK, or if a socket of the recipient died with it.
KeptNeedsLostAck == \A m \in messages : Delivered(m) =>
    \E s \in Socket :
        /\ sock[s].owner = Recipient[Target[m]]
        /\ Dead(s) \/ \E f \in Range(sock[s].up) : f.cmd = "ACK" /\ f.msg = m

\* A message that the relay answered OK for is pending, on its way, or was
\* delivered, unless the socket it was pushed to died, or a SUB of its queue
\* was given up before the relay's answer came.
LostOnlyWithItsSocket == \A m \in accepted \ wiped :
    \/ Delivered(m) \/ Pending(m) \/ InFlight(m)
    \/ via[m].pushed # None /\ Dead(via[m].pushed)
    \/ Target[m] \in late

\* What the client believes of a subscription is what the relay holds, as
\* long as the client's only socket has not died.
BelievedSubscriptionIsReal == \A c \in Client : \A q \in subscribed[c] :
    (\A s \in Socket : sock[s].owner = c => s = ws[c] /\ ~sock[s].cut)
        => queue[q] # None /\ queue[q].subscriber = ws[c]

\* The messages of queue q among the frames of t, in their order.
MsgsOf(t, q) ==
    LET msgs[i \in 0..Len(t)] ==
          IF i = 0 THEN <<>>
          ELSE IF t[i].cmd = "MSG" /\ Target[t[i].msg] = q THEN Append(msgs[i - 1], t[i].msg)
          ELSE msgs[i - 1]
    IN  msgs[Len(t)]

\* The queue an outside observer sees: what is under way to the recipient's
\* current socket, then what the relay keeps pending.
Arriving(q) ==
    LET s == ws[Recipient[q]] IN IF s = None THEN <<>> ELSE MsgsOf(sock[s].down, q)
Store(q) == Arriving(q) \o (IF queue[q] = None THEN <<>> ELSE queue[q].pending)

Promise == INSTANCE MessageQueue WITH
    used <- accepted, store <- [q \in Queue |-> Store(q)], got <- delivered

\* The relay and its client implement MessageQueue: one FIFO queue that takes
\* a message once, delivers it at most once and never out of order, across
\* cut connections, reconnections and restarts of the relay.
KeepsPromise == Promise!Spec

\* Every RPC settles: its caller never waits for ever, not even for a request
\* that was dropped because the socket was down.  (There are finitely many, so
\* it comes to the same that again and again none is under way.)
EveryCallSettles == []<>(\A c \in Client : calls[c] = {})

\* A message the relay answered OK for is delivered once its recipient has
\* subscribed, unless a socket of the recipient dies, the relay restarts or a
\* SUB of the queue was given up before its answer came.
AcceptedIsDelivered == \A m \in Message :
    LET q == Target[m] IN
    m \in accepted /\ q \in subscribed[Recipient[q]]
      ~> \/ Delivered(m) \/ q \in late
         \/ \E s \in Socket : sock[s].owner = Recipient[q] /\ Dead(s)

\* What the test plan expects: a client that is connected again is subscribed
\* again to the queues in its subscribedQueues.  The code does not meet it:
\* subscribeToQueue returns at once for a queue that is in the set.
ResubscribedAfterReconnect == \A c \in Client : \A q \in Queue :
    q \in subscribed[c] /\ state[c] = "connected"
      ~> \/ state[c] # "connected"
         \/ queue[q] # None /\ queue[q].subscriber = ws[c]

\* What relay and client promise in every state: the variables have their types,
\* the relay keeps a message until it was delivered and hardly longer, messages
\* arrive once and in order, and a subscription the client believes in is real.
RelayInv ==
    /\ TypeOK
    /\ KeptNeedsLostAck
    /\ OnceAndInOrder
    /\ StoredUntilDelivered
    /\ BelievedSubscriptionIsReal

\* Every RPC settles, and what was accepted is delivered, up to the causes that
\* AcceptedIsDelivered names.
Served == EveryCallSettles /\ AcceptedIsDelivered
=============================================================================
