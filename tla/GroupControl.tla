---------------------------- MODULE GroupControl ----------------------------
(***************************************************************************)
(* Groups of the web client: the group half of ShieldSimplexBridge, the    *)
(* group keys of groupKeyManager.ts and the group store they write to, on  *)
(* the device of the user who creates one group and on the devices of the  *)
(* people invited.  Every handler is cut where it awaits; whatever else    *)
(* the device does may come in between.                                    *)
(*                                                                         *)
(* A contact id is a random UUID made by the device that uses it, so the   *)
(* id device p has for q is the pair <<p, q>>, and nobody else's id is     *)
(* equal to it.  The empty contact id, the user himself, is <<>>.          *)
(*                                                                         *)
(* The pairwise layer is the environment here: a carrier it accepted is    *)
(* delivered once and in order.  A pair is stuck once its session has lost *)
(* a position of the chain: by a send that failed, and by every group key, *)
(* which is sealed with the session its own envelope takes, and before it. *)
(* Only where getSession has made two sessions of a pair (the fork that    *)
(* ShieldSession is about) a key can come.  So of the receiving handlers   *)
(* the program makes little use; they are here as the code has them.       *)
(***************************************************************************)
EXTENDS Naturals, Sequences, FiniteSets, SequencesExt

CONSTANTS
    Creator,     \* the device whose user creates the group
    Others,      \* the devices of his contacts
    KeepKeys,    \* MAX_OLD_KEYS_TO_KEEP
    Invitations, \* the member lists a group may be created with
    MaxSteps,    \* bound: operations begun and faults, together
    MaxTasks     \* bound: operations under way at once on one device

ASSUME GroupAssumption ==
    /\ Creator \notin Others /\ IsFiniteSet(Others)
    /\ Invitations \subseteq UNION {{s \in [1..n -> Others] : IsInjective(s)} :
                                       n \in 1..Cardinality(Others)}
    /\ {KeepKeys, MaxSteps, MaxTasks} \subseteq Nat

Devices == {Creator} \cup Others
Self == <<>>
Ids == {Self} \cup (Devices \X Devices)

VARIABLES
    group,    \* p's records of the group: current key, rotation number, name
    roster,   \* p's member list: id and role, in the order of the array
    keys,     \* p's stored group keys
    texts,    \* p's messages of the group: sender id and status by message id
    tasks,    \* the handlers of p that are waiting for something
    chan,     \* chan[p][q]: accepted carriers from p to q, oldest first
    stuck,    \* pairs whose pairwise session no longer delivers
    ops, made, faults, \* operations begun, keys made, faults so far
    marks,    \* history: <<"fault">>, <<"race">> (two operations overlapped of
              \* which one makes or sends a key), <<"removed", q>>, <<"left", q>>
    out,      \* history: the members removed and not added again
    dropped   \* history: the kinds of carriers a device refused, and why

hvars == <<marks, out, dropped>>
gvars == <<group, roster, keys, texts, tasks, chan, stuck, ops, made, faults, hvars>>

None == [t \in {} |-> Self]
Init ==
    /\ group = [p \in Devices |-> <<>>]
    /\ roster = [p \in Devices |-> <<>>]
    /\ keys = [p \in Devices |-> {}]
    /\ texts = [p \in Devices |-> None]
    /\ tasks = [p \in Devices |-> {}]
    /\ chan = [p \in Devices |-> [q \in Devices |-> <<>>]]
    /\ stuck = {}
    /\ ops = 0 /\ made = 0 /\ faults = 0
    /\ marks = {} /\ out = {} /\ dropped = {}

-----------------------------------------------------------------------------
(* The store                                                               *)

InGroup(p) == group[p] # <<>>
Record(p) == Head(group[p])
HasKey(p, k) == \E key \in keys[p] : key.id = k
Admins(p) == {m \in ToSet(roster[p]) : m.role = "admin"}
IsMember(p, id) == \E m \in ToSet(roster[p]) : m.id = id
IsAdminAt(p, id) == \E m \in Admins(p) : m.id = id
IsAdmin(p) == IsAdminAt(p, Self)
WithMember(ms, id) ==
    IF \E m \in ToSet(ms) : m.id = id THEN ms ELSE Append(ms, [id |-> id, role |-> "member"])
\* The elements of ms that are in S, in their order.
Filter(ms, S) ==
    LET kept == {i \in DOMAIN ms : ms[i] \in S}
        Rank(i) == Cardinality({j \in kept : j <= i})
    IN  [n \in 1..Cardinality(kept) |-> ms[CHOOSE i \in kept : Rank(i) = n]]
WithoutMember(ms, id) == Filter(ms, {m \in ToSet(ms) : m.id # id})
WithRole(ms, id, role) ==
    [i \in DOMAIN ms |-> IF ms[i].id = id THEN [ms[i] EXCEPT !.role = role] ELSE ms[i]]
\* updateGroup changes every record that has the group's id.
WithKey(rs, k, rot) == [i \in DOMAIN rs |-> [rs[i] EXCEPT !.key = k, !.rot = rot]]
WithName(rs, name) == [i \in DOMAIN rs |-> [rs[i] EXCEPT !.name = name]]
AddText(log, t, from, status) ==
    [u \in DOMAIN log \cup {t} |->
        IF u \in DOMAIN log THEN log[u] ELSE [from |-> from, status |-> status]]
WithStatus(log, t, status) ==
    IF t \in DOMAIN log THEN [log EXCEPT ![t].status = status] ELSE log
\* The status sendGroupMessage ends with.
DeliveredNever(log, t) == log
Delivered(log, t) == WithStatus(log, t, "sent")
NextRotationStays(rec) == rec.rot
NextRotation(rec) == rec.rot + 1
WithoutOldKeysOffByOne(ks, rot) == {k \in ks : k.rot + KeepKeys > rot}
\* The clean-up of rotateKey: keepAfter is the new rotation number - KeepKeys.
WithoutOldKeys(ks, rot) == {k \in ks : k.rot + KeepKeys >= rot}
\* Whom a fan-out loop sends to: the members with a contact behind their id.
Contacts(p, ms) ==
    LET known == Filter(ms, {m \in ToSet(ms) : m.id \in {p} \X (Devices \ {p})})
    IN  [i \in DOMAIN known |-> known[i].id[2]]

-----------------------------------------------------------------------------
(* Handlers in progress                                                    *)

Own(p) == {t \in tasks[p] : t.do \in {"rotate", "encrypt", "send"}}
CarriesKey(t) == t.do = "rotate" \/ (t.do = "send" /\ t.body.type = "key")
Begin(p, new) ==
    /\ ops + faults < MaxSteps
    /\ Cardinality(Own(p)) < MaxTasks
    /\ ops' = ops + 1
    /\ tasks' = [tasks EXCEPT ![p] = @ \cup new]
    /\ marks' = IF Own(p) # {} /\ \E t \in Own(p) \cup new : CarriesKey(t)
                THEN marks \cup {<<"race">>} ELSE marks
    /\ UNCHANGED <<chan, stuck, faults, dropped>>
Swap(p, t, new) == tasks' = [tasks EXCEPT ![p] = (@ \ {t}) \cup new]
Send(n, to, body, then) ==
    {[do |-> "send", n |-> n, to |-> to, body |-> body, then |-> then]}
\* sendGroupMessage, sendGroupSystemMessage: the record and its current key are
\* read at once, the member list only when the encryption is done.
Sealed(body, key) ==
    [f \in DOMAIN body \cup {"with"} |-> IF f = "with" THEN key ELSE body[f]]
Encrypt(p, n, body, then) ==
    IF InGroup(p) /\ HasKey(p, Record(p).key)
    THEN {[do |-> "encrypt", n |-> n, body |-> Sealed(body, Record(p).key), then |-> then]}
    ELSE {}
KeyBody(rec) == [type |-> "key", key |-> rec.key, rot |-> rec.rot, name |-> rec.name]
RemovalOfSelf(id) == [type |-> "removed", id |-> Self]
Removal(id) == [type |-> "removed", id |-> id]
Nothing == [type |-> "nothing"]

-----------------------------------------------------------------------------
(* Operations of the user                                                  *)

\* createGroupKey
FirstKey == [id |-> 1, rot |-> 0]

\* createGroup: key, record and members are stored, then the key is sent to
\* each member in turn; a failure ends the loop and is swallowed.
CreateGroup(p, invited) ==
    LET rec == [key |-> 1, rot |-> 0, name |-> "old"] IN
    /\ made = 0
    /\ made' = 1
    /\ keys' = [keys EXCEPT ![p] = {FirstKey}]
    /\ group' = [group EXCEPT ![p] = <<rec>>]
    /\ roster' = [roster EXCEPT ![p] = <<[id |-> Self, role |-> "admin"]>> \o
                     [i \in DOMAIN invited |-> [id |-> <<p, invited[i]>>, role |-> "member"]]]
    /\ Begin(p, Send(ops + 1, invited, KeyBody(rec), Nothing))
    /\ UNCHANGED <<texts, out>>

\* addGroupMember: the member, then the current key, then the announcement.
AddGroupMember(p, q) ==
    /\ IsAdmin(p) /\ InGroup(p)
    /\ roster' = [roster EXCEPT ![p] = WithMember(@, <<p, q>>)]
    /\ Begin(p, IF HasKey(p, Record(p).key)
                THEN Send(ops + 1, <<q>>, KeyBody(Record(p)), [type |-> "added", id |-> <<p, q>>])
                ELSE {})
    /\ out' = out \ {q}
    /\ UNCHANGED <<group, keys, texts, made>>

\* removeGroupMember up to the end of rotateKey, which works on the record as
\* it was when the removal began.
RemoveGroupMember(p, id) ==
    /\ IsAdmin(p) /\ InGroup(p)
    /\ Begin(p, {[do |-> "rotate", n |-> ops + 1, id |-> id, rot |-> NextRotation(Record(p))]})
    /\ UNCHANGED <<group, roster, keys, texts, made, out>>

SendGroupMessage(p) ==
    /\ InGroup(p)
    /\ Begin(p, Encrypt(p, ops + 1, [type |-> "text", t |-> ops + 1], [type |-> "text"]))
    /\ UNCHANGED <<group, roster, keys, texts, made, out>>

LeaveGroup(p) ==
    /\ InGroup(p)
    /\ Begin(p, Encrypt(p, ops + 1, Removal(Self), [type |-> "leave"]))
    /\ UNCHANGED <<group, roster, keys, texts, made, out>>

\* promoteToAdmin and demoteToMember; the last admin cannot demote himself.
ChangeRole(p, id, role) ==
    /\ IsAdmin(p)
    /\ role = "member" /\ id = Self => Cardinality(Admins(p)) > 1
    /\ roster' = [roster EXCEPT ![p] = WithRole(@, id, role)]
    /\ Begin(p, Encrypt(p, ops + 1, [type |-> "role", id |-> id, role |-> role], Nothing))
    /\ UNCHANGED <<group, keys, texts, made, out>>

UpdateGroupName(p) ==
    /\ IsAdmin(p) /\ InGroup(p)
    /\ group' = [group EXCEPT ![p] = WithName(@, "new")]
    /\ Begin(p, Encrypt(p, ops + 1, [type |-> "name", name |-> "new"], Nothing))
    /\ UNCHANGED <<roster, keys, texts, made, out>>

\* sendGroupReadReceipt: to the author of a text that is not one's own.
SendGroupReadReceipt(p, t) ==
    /\ InGroup(p) /\ t \in DOMAIN texts[p]
    /\ texts[p][t].from # Self
    /\ Begin(p, Encrypt(p, ops + 1, [type |-> "read", t |-> t, to |-> texts[p][t].from[2]], Nothing))
    /\ UNCHANGED <<group, roster, keys, texts, made, out>>

-----------------------------------------------------------------------------
(* The rest of an operation, one await after the other                     *)

RemainingBefore(p, id) == Contacts(p, roster[p])
Remaining(p, id) == Contacts(p, WithoutMember(roster[p], id))
\* The new key is stored, old ones deleted, the member removed, the record
\* updated and the members read; then the key is distributed.
Rotated(p, t) ==
    LET k == made + 1 IN
    /\ t.do = "rotate"
    /\ made' = k
    /\ keys' = [keys EXCEPT ![p] = WithoutOldKeys(@ \cup {[id |-> k, rot |-> t.rot]}, t.rot)]
    /\ roster' = [roster EXCEPT ![p] = WithoutMember(@, t.id)]
    /\ group' = [group EXCEPT ![p] = WithKey(@, k, t.rot)]
    /\ Swap(p, t, IF InGroup(p)
                  THEN Send(t.n, Remaining(p, t.id),
                            KeyBody([Record(p) EXCEPT !.key = k, !.rot = t.rot]), Removal(t.id))
                  ELSE {})
    /\ out' = out \cup {t.id[2]}
    /\ marks' = marks \cup {<<"removed", t.id[2]>>}
    /\ UNCHANGED <<texts, chan, stuck, ops, faults, dropped>>

Encrypted(p, t) ==
    /\ t.do = "encrypt"
    /\ texts' = [texts EXCEPT ![p] =
          IF t.then.type = "text" THEN AddText(@, t.body.t, Self, "sending") ELSE @]
    /\ Swap(p, t, Send(t.n, IF t.body.type = "read" THEN <<t.body.to>> ELSE Contacts(p, roster[p]),
                       t.body, t.then))
    /\ UNCHANGED <<group, roster, keys, chan, stuck, ops, made, faults, hvars>>

\* A carrier that takes its position is delivered.  The envelope of a key is one
\* position ahead of what the member's chain accepts, for that is the sealed key
\* inside it: it waits there, and whatever comes after it.
Accepted(p, t) ==
    LET q == Head(t.to) IN
    \/ /\ <<p, q>> \notin stuck
       /\ chan' = [chan EXCEPT ![p][q] = Append(@, t.body)]
       /\ UNCHANGED stuck
    \/ /\ <<p, q>> \in stuck \/ t.body.type = "key"
       /\ stuck' = stuck \cup {<<p, q>>}
       /\ UNCHANGED chan

SendsOne(p, t) ==
    /\ t.do = "send" /\ t.to # <<>>
    /\ Accepted(p, t)
    /\ Swap(p, t, {[t EXCEPT !.to = Tail(@)]})
    /\ UNCHANGED <<group, roster, keys, texts, ops, made, faults, hvars>>

\* The promise of a send rejects, with the carrier delivered, lost on the way or not
\* even encrypted: the loop is over, and only a text shows it.
SendFails(p, t) ==
    /\ t.do = "send" /\ t.to # <<>>
    /\ ops + faults < MaxSteps
    /\ faults' = faults + 1
    /\ marks' = marks \cup {<<"fault">>}
    /\ \/ Accepted(p, t)
       \/ UNCHANGED <<chan, stuck>>
       \/ stuck' = stuck \cup {<<p, Head(t.to)>>} /\ UNCHANGED chan
    /\ texts' = [texts EXCEPT ![p] =
          IF t.then.type = "text" THEN WithStatus(@, t.body.t, "failed") ELSE @]
    /\ Swap(p, t, {})
    /\ UNCHANGED <<group, roster, keys, ops, made, out, dropped>>

\* removeGroup takes the record, the members, the messages and the keys.
RemoveGroup(p) ==
    /\ group' = [group EXCEPT ![p] = <<>>]
    /\ roster' = [roster EXCEPT ![p] = <<>>]
    /\ texts' = [texts EXCEPT ![p] = None]
    /\ keys' = [keys EXCEPT ![p] = {}]

LoopEnds(p, t) ==
    /\ t.do = "send" /\ t.to = <<>>
    /\ Swap(p, t, IF t.then.type \in {"added", "removed"}
                  THEN Encrypt(p, t.n, t.then, Nothing) ELSE {})
    /\ IF t.then.type = "leave"
       THEN RemoveGroup(p) /\ marks' = marks \cup {<<"left", p>>}
       ELSE /\ texts' = [texts EXCEPT ![p] =
                  IF t.then.type = "text" THEN Delivered(@, t.body.t) ELSE @]
            /\ UNCHANGED <<group, roster, keys, marks>>
    /\ UNCHANGED <<chan, stuck, ops, made, faults, out, dropped>>

-----------------------------------------------------------------------------
(* What arrives                                                            *)

Storing(q, k) == \E t \in tasks[q] : t.do = "store" /\ t.body.key = k
Arrives(p, q) ==
    /\ chan[p][q] # <<>>
    /\ chan' = [chan EXCEPT ![p][q] = Tail(@)]
    /\ UNCHANGED <<group, roster, keys, texts, stuck, ops, made, faults, out>>
Refused(q, body, why) == dropped' = dropped \cup {<<body.type, q, why>>}

\* handleGroupKeyDistribution up to storeReceivedKey: an unknown group is to be
\* created, a known one takes keys from its admins only.  Where the session is forked
\* the sealed key has the position behind the envelope's, or one that is taken.
GetsKey(p, q) ==
    LET body == Head(chan[p][q])
        fresh == ~InGroup(q)
    IN
    /\ Arrives(p, q)
    /\ body.type = "key"
    /\ \/ /\ tasks' = IF fresh \/ IsAdminAt(q, <<q, p>>)
                      THEN [tasks EXCEPT ![q] = @ \cup
                               {[do |-> "store", from |-> p, body |-> body, fresh |-> fresh]}]
                      ELSE tasks
          /\ UNCHANGED dropped
       \/ Refused(q, body, "sealed") /\ UNCHANGED tasks
    /\ marks' = marks \cup {<<"race">> : t \in {t \in tasks[q] : t.do = "store"}}

\* addGroup starts the member and message lists again; setMembers fills one.
AddGroup(q, rec, from) ==
    /\ group' = [group EXCEPT ![q] = Append(@, rec)]
    /\ texts' = [texts EXCEPT ![q] = None]
    /\ roster' = [roster EXCEPT ![q] = <<[id |-> Self, role |-> "member"],
                                         [id |-> <<q, from>>, role |-> "admin"]>>]

Stored(q, t) ==
    LET rec == [key |-> t.body.key, rot |-> t.body.rot, name |-> t.body.name] IN
    /\ t.do = "store"
    /\ keys' = [keys EXCEPT ![q] = @ \cup {[id |-> rec.key, rot |-> rec.rot]}]
    /\ IF t.fresh THEN AddGroup(q, rec, t.from)
       ELSE /\ group' = [group EXCEPT ![q] = WithKey(@, rec.key, rec.rot)]
            /\ UNCHANGED <<texts, roster>>
    /\ Swap(q, t, {})
    /\ UNCHANGED <<chan, stuck, ops, made, faults, hvars>>

\* handleGroupMessage up to the decryption: without the group, or without the
\* key, the carrier is dropped.
GetsCarrier(p, q) ==
    LET body == Head(chan[p][q])
        known == InGroup(q) /\ HasKey(q, body.with)
    IN
    /\ Arrives(p, q)
    /\ body.type # "key"
    /\ tasks' = IF known
                THEN [tasks EXCEPT ![q] = @ \cup {[do |-> "apply", from |-> p, body |-> body]}]
                ELSE tasks
    /\ IF known THEN UNCHANGED dropped
       ELSE Refused(q, body, IF Storing(q, body.with) THEN "storing" ELSE "nokey")
    /\ UNCHANGED marks

AdminOnly == {"added", "removed", "name", "role"}
\* The sender must be on the roster, and an admin unless the notice is of a
\* kind open to all or says that he himself left.
Authorized(q, from, body) ==
    /\ IsMember(q, from)
    /\ body.type \in AdminOnly =>
          IsAdminAt(q, from) \/ (body.type = "removed" /\ body.id = Self)

RosterAfter(ms, from, body) ==
    CASE body.type = "added" -> WithMember(ms, body.id)
      [] body.type = "removed" -> WithoutMember(ms, IF body.id = Self THEN from ELSE body.id)
      [] body.type = "role" /\ body.id # Self -> WithRole(ms, body.id, body.role)
      [] OTHER -> ms
NameAfter(rs, body) == IF body.type = "name" THEN WithName(rs, body.name) ELSE rs
TextsAfter(log, from, body) ==
    CASE body.type = "text" -> AddText(log, body.t, from, "delivered")
      [] body.type = "read" -> WithStatus(log, body.t, "read")
      [] OTHER -> log

Applied(q, t) ==
    LET from == <<q, t.from>> IN
    /\ t.do = "apply"
    /\ IF Authorized(q, from, t.body)
       THEN /\ roster' = [roster EXCEPT ![q] = RosterAfter(@, from, t.body)]
            /\ group' = [group EXCEPT ![q] = NameAfter(@, t.body)]
            /\ texts' = [texts EXCEPT ![q] = TextsAfter(@, from, t.body)]
            /\ UNCHANGED dropped
       ELSE Refused(q, t.body, "stranger") /\ UNCHANGED <<roster, group, texts>>
    /\ Swap(q, t, {})
    /\ UNCHANGED <<keys, chan, stuck, ops, made, faults, marks, out>>

\* The page is reloaded: the stores are read back, the handlers are gone.
Reload(p) ==
    /\ tasks[p] # {}
    /\ ops + faults < MaxSteps
    /\ faults' = faults + 1
    /\ marks' = marks \cup {<<"fault">>}
    /\ tasks' = [tasks EXCEPT ![p] = {}]
    /\ UNCHANGED <<group, roster, keys, texts, chan, stuck, ops, made, out, dropped>>

-----------------------------------------------------------------------------

UserStep(p) ==
    \/ \E invited \in Invitations : p = Creator /\ CreateGroup(p, invited)
    \/ \E q \in Devices \ {p} : ~IsMember(p, <<p, q>>) /\ AddGroupMember(p, q)
    \/ \E m \in ToSet(roster[p]) : m.id # Self /\ RemoveGroupMember(p, m.id)
    \/ SendGroupMessage(p)
    \/ LeaveGroup(p)
    \/ \E m \in ToSet(roster[p]), role \in {"admin", "member"} :
          m.role # role /\ ChangeRole(p, m.id, role)
    \/ UpdateGroupName(p)
    \/ \E t \in DOMAIN texts[p] : SendGroupReadReceipt(p, t)

HandlerStep(p) ==
    \/ \E t \in tasks[p] : \/ Rotated(p, t) \/ Encrypted(p, t)
                           \/ SendsOne(p, t) \/ LoopEnds(p, t)
                           \/ Stored(p, t) \/ Applied(p, t)
    \/ \E q \in Devices : GetsKey(q, p) \/ GetsCarrier(q, p)

Fault(p) == Reload(p) \/ \E t \in tasks[p] : SendFails(p, t)

Next == \E p \in Devices : UserStep(p) \/ HandlerStep(p) \/ Fault(p)

Spec == Init /\ [][Next]_gvars

-----------------------------------------------------------------------------
(* Properties                                                              *)

Roster == Seq([id : Ids, role : {"admin", "member"}])
Status == {"sending", "sent", "failed", "delivered", "read"}
\* The state of every device has the shape its stores declare, and no
\* member is listed twice (addMember).
TypeOK ==
    /\ \A p \in Devices :
          /\ \A r \in ToSet(group[p]) : r \in [key : 1..made, rot : Nat, name : {"old", "new"}]
          /\ roster[p] \in Roster
          /\ \A i, j \in DOMAIN roster[p] : roster[p][i].id = roster[p][j].id => i = j
          /\ keys[p] \subseteq [id : 1..made, rot : Nat]
          /\ \A t \in DOMAIN texts[p] : t \in 1..ops /\ texts[p][t] \in [from : Ids, status : Status]
    /\ stuck \subseteq Devices \X Devices
    /\ out \subseteq Devices
    /\ ops + faults <= MaxSteps

Loops(p, type) == {t \in tasks[p] : t.do = "send" /\ t.then.type = type}
Happened(m) == <<m>> \in marks
Leaves(p) == <<"left", p>> \in marks \/ Loops(p, "leave") # {}
CreatorsMembers == {q \in Others : InGroup(Creator) /\ IsMember(Creator, <<Creator, q>>)}

\* Whatever overlaps: a member who was removed, and not added again, never
\* holds or is sent the key that the creator encrypts with (rotateKey before
\* removeMember before distributeGroupKey).
RemovedLacksCurrentKey ==
    InGroup(Creator) =>
        \A q \in out \ CreatorsMembers :
            LET k == Record(Creator).key IN
            /\ ~HasKey(q, k)
            /\ ~Storing(q, k)
            /\ \A c \in ToSet(chan[Creator][q]) : c.type = "key" => c.key # k

\* A text or a notice is refused by a device only when it overtakes the storing of its
\* key there, when a key came that could not be opened, when operations overlapped or a
\* fault left the device without the key, when one of the two had been removed or had
\* left (a read receipt goes to an author whoever he is by now), or when more rotations
\* than a device keeps keys of came before it (handleGroupMessage drops it without a
\* word, the sender sees 'sent').
RefusalNeedsCause ==
    \A d \in dropped :
        \/ d[3] \in {"storing", "sealed"}
        \/ d[3] = "nokey" /\ (made > KeepKeys + 1 \/ <<"removed", d[2]>> \in marks)
        \/ d[3] = "nokey" /\ <<"key", d[2], "sealed">> \in dropped
        \/ Happened("fault") \/ Happened("race")
        \/ \E p \in Devices : Leaves(p)
        \/ d[3] = "stranger" /\ \E q \in Others : <<"removed", q>> \in marks

\* What promoteToAdmin says, on the device of the member it is about.  TLC refutes it:
\* the id in ADMIN_CHANGE is the creator's own for that member, so handleAdminChange
\* finds nobody.
PromotedIsAdmin ==
    \A q \in CreatorsMembers :
        /\ IsAdminAt(Creator, <<Creator, q>>) /\ InGroup(q)
        /\ ~Happened("fault") /\ ~Happened("race") /\ dropped = {} /\ stuck = {}
        /\ \A p \in Devices : tasks[p] = {} /\ chan[Creator][p] = <<>>
        => IsAdmin(q) \/ Leaves(q)

\* A text stays on 'sending' only while its loop is running, or for good when
\* the page was reloaded in the middle (sendGroupMessage).
SendingHasALoop ==
    \A p \in Devices : \A t \in DOMAIN texts[p] :
        texts[p][t].status = "sending" =>
            Happened("fault") \/ \E u \in Loops(p, "text") : u.n = t

\* A member who no longer counts the creator as one is facing a creator who is
\* gone, is on his way out, or failed in the middle of it (leaveGroup).
HalfLeftNeedsFault ==
    \A q \in Others :
        InGroup(q) /\ ~IsMember(q, <<q, Creator>>) =>
            Leaves(Creator) \/ Happened("fault")

\* The keys the creator made carry different rotation numbers, and the record
\* of a member never goes back to an earlier rotation, unless operations on
\* keys overlapped (rotateKey, storeReceivedKey).
RotationsAreOrdered ==
    [][\A p \in Devices : Happened("race")' \/
          /\ \A k, l \in keys'[p] : k.rot = l.rot => k = l
          /\ InGroup(p) /\ InGroup(p)' => Record(p)'.rot >= Record(p).rot]_gvars

\* What holds of a group in every state, whatever operations overlap and fail: the
\* stores have their shape, a device refuses a carrier for a cause only, and only a fault
\* leaves a text 'sending' or a group half left.
GroupInv ==
    /\ TypeOK
    /\ RefusalNeedsCause
    /\ SendingHasALoop
    /\ HalfLeftNeedsFault
=============================================================================
