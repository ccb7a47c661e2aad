-------------------------- MODULE GroupControlProofs --------------------------
(***************************************************************************)
(* Proofs about GroupControl, for any number of devices, operations and    *)
(* faults and whatever of it overlaps: a member who was removed never gets *)
(* hold of the current key, a carrier is refused for a cause, and, unless  *)
(* operations overlap, keys are taken up in the order they were made in.   *)
(*                                                                         *)
(* The argument about who was removed: whoever is not on the creator's     *)
(* roster is sent no key, and a rotation makes a key that nobody has       *)
(* before it reads the roster without the member removed.  What the others *)
(* can say is little, since their own rosters make none of them an admin   *)
(* (RosterInv): none of it makes a key or a member.                        *)
(*                                                                         *)
(* The argument about order, below (OInv): the creator works with the key  *)
(* he made last, so the keys on a line ascend, a member stores them one by *)
(* one, and what comes sealed was sealed with a key he has or that is on   *)
(* the line before it: a key that found no way onto the line has closed it *)
(* for everything after, and one that could not be opened is a cause.      *)
(***************************************************************************)
EXTENDS GroupControl, FiniteSetTheorems, FunctionTheorems, SequenceTheorems, TLAPS

-----------------------------------------------------------------------------
(* The inductive invariant                                                 *)

IsSeq(s) == s \in Seq(ToSet(s))

\* The ids p has for the others.
Peers(p) == {p} \X (Devices \ {p})
\* Whom p ever sends to: the creator and the others talk to each other.
Hearers(p) == IF p = Creator THEN Others ELSE {Creator}

Member == [id : Ids, role : {"admin", "member"}]
TextRec == [from : Ids, status : Status]

\* Records and keys, when m keys were made.
GroupOK(rs, m) == IsSeq(rs) /\ ToSet(rs) \subseteq [key : 1..m, rot : Nat, name : {"old", "new"}]
KeysOK(ks, m) == ks \subseteq [id : 1..m, rot : Nat]

StoreInv ==
  /\ made \in Nat /\ ops \in Nat /\ faults \in Nat /\ ops + faults <= MaxSteps
  /\ DOMAIN group = Devices /\ DOMAIN roster = Devices
  /\ DOMAIN keys = Devices /\ DOMAIN texts = Devices
  /\ \A p \in Devices : GroupOK(group[p], made) /\ KeysOK(keys[p], made)

\* Members are listed once.  The creator lists contacts of his; the others list him,
\* as an admin, themselves as none, and besides only ids that mean nothing to them.
ListedBy(p) == IF p = Creator THEN {Self} \cup Peers(p) ELSE {Self, <<p, Creator>>} \cup Peers(Creator)
RoleOK(p, m) == (m.id = Self => m.role = "member") /\ (m.id = <<p, Creator>> => m.role = "admin")
RosterOK(p, ms) ==
  /\ IsSeq(ms) /\ ToSet(ms) \subseteq Member
  /\ \A i, j \in DOMAIN ms : ms[i].id = ms[j].id => i = j
  /\ \A m \in ToSet(ms) : m.id \in ListedBy(p) /\ (p # Creator => RoleOK(p, m))

RosterInv == \A p \in Devices : RosterOK(p, roster[p])

\* Texts are p's own or from somebody he knows, when o operations were begun.
TextsOK(p, log, o) == \A t \in DOMAIN log :
  /\ t \in 1..o /\ log[t] \in TextRec
  /\ log[t].from \in {Self} \cup (IF p = Creator THEN Peers(p) ELSE {<<p, Creator>>})

TextInv == \A p \in Devices : TextsOK(p, texts[p], ops)

\* What p may say: all but the creator send texts, receipts and their farewell.
Carrier(p, b, m, o) ==
  /\ b.type \in {"key", "text", "read", "added", "removed", "role", "name"}
  /\ b.type = "key" => b.key \in 1..m /\ b.rot \in Nat /\ b.name \in {"old", "new"}
  /\ b.type # "key" => b.with \in 1..m
  /\ b.type = "text" => b.t \in 1..o
  /\ b.type = "read" => b.to \in Hearers(p)
  /\ b.type = "added" => b.id \in Peers(p)
  /\ b.type = "removed" => b.id \in {Self} \cup Peers(p)
  /\ b.type = "role" => b.role \in {"admin", "member"} /\ b.id \in {Self} \cup Peers(p)
  /\ b.type = "name" => b.name = "new"
  /\ p # Creator => b.type \in {"text", "read", "removed"} /\ (b.type = "removed" => b.id = Self)

Farewell(b) == b.type = "removed" /\ b.id = Self

\* What p does when the loop of n that sends b is over.
Notices(p) == UNION {{[type |-> "added", id |-> i], Removal(i)} : i \in Peers(p)}
Follows(p, n, b, then) ==
  /\ then \in {Nothing, [type |-> "text"], [type |-> "leave"]} \/ (p = Creator /\ then \in Notices(p))
  /\ then.type = "text" => b.type = "text" /\ b.t = n
  /\ Farewell(b) => then.type = "leave"

Handler(p, t, m, o) ==
  \/ t.do = "rotate" /\ p = Creator /\ t.id \in Peers(p) /\ t.rot \in Nat
  \/ t.do = "encrypt" /\ Carrier(p, t.body, m, o) /\ t.body.type # "key" /\ Follows(p, t.n, t.body, t.then)
  \/ /\ t.do = "send" /\ Carrier(p, t.body, m, o) /\ Follows(p, t.n, t.body, t.then)
     /\ t \in Send(t.n, t.to, t.body, t.then)
     /\ IsSeq(t.to) /\ ToSet(t.to) \subseteq Hearers(p)
  \/ t.do = "store" /\ p # Creator /\ t.from = Creator /\ Carrier(Creator, t.body, m, o) /\ t.body.type = "key"
  \/ t.do = "apply" /\ t.from \in Hearers(p) /\ Carrier(t.from, t.body, m, o)

TaskInv == DOMAIN tasks = Devices /\ \A p \in Devices : \A t \in tasks[p] : Handler(p, t, made, ops)

ChanInv ==
  /\ DOMAIN chan = Devices /\ \A p \in Devices : DOMAIN chan[p] = Devices
  /\ \A p, q \in Devices : IsSeq(chan[p][q])
  /\ \A p, q \in Devices : \A b \in ToSet(chan[p][q]) : q \in Hearers(p) /\ Carrier(p, b, made, ops)
  /\ stuck \subseteq Devices \X Devices

\* q has key k neither stored nor on the way to it.
Lacks(q, k) ==
  /\ ~HasKey(q, k) /\ ~Storing(q, k)
  /\ \A b \in ToSet(chan[Creator][q]) : b.type = "key" => b.key # k
  /\ \A t \in tasks[Creator] :
       t.do = "send" /\ t.body.type = "key" /\ q \in ToSet(t.to) => t.body.key # k

OutInv ==
  /\ out \subseteq Others /\ (made = 0 => out = {})
  /\ InGroup(Creator) =>
       \A q \in out : ~IsMember(Creator, <<Creator, q>>) /\ Lacks(q, Record(Creator).key)

\* A farewell of the creator's is only on its way when he leaves.
Gone == Leaves(Creator) \/ Happened("fault")
LeaveInv ==
  /\ \A q \in Others : InGroup(q) => IsMember(q, <<q, Creator>>) \/ Gone
  /\ \A q \in Others : \A b \in ToSet(chan[Creator][q]) : Farewell(b) => Gone
  /\ \A q \in Others : \A t \in tasks[q] : t.do = "apply" /\ t.from = Creator /\ Farewell(t.body) => Gone

Base == StoreInv /\ RosterInv /\ TextInv /\ TaskInv /\ ChanInv
IInv == Base /\ OutInv /\ LeaveInv /\ SendingHasALoop

-----------------------------------------------------------------------------
(* Sequences, as Array.push, shift and filter have them                    *)

LEMMA EmptyOf == IsSeq(<<>>) /\ ToSet(<<>>) = {}
BY EmptySeq DEF IsSeq, ToSet

LEMMA SingleOf == ASSUME NEW x PROVE IsSeq(<<x>>) /\ ToSet(<<x>>) = {x} /\ DOMAIN <<x>> = {1}
<1>1. ToSet(<<x>>) = {x} /\ DOMAIN <<x>> = {1}
  BY DEF ToSet
<1>2. QED
  BY <1>1 DEF IsSeq

LEMMA FromSeq == ASSUME NEW S, NEW s \in Seq(S) PROVE IsSeq(s) /\ ToSet(s) \subseteq S
<1>1. s \in [1..Len(s) -> S] /\ Len(s) \in Nat /\ DOMAIN s = 1..Len(s)
  BY LenProperties
<1>2. \A i \in 1..Len(s) : s[i] \in ToSet(s)
  BY <1>1 DEF ToSet
<1>3. s \in Seq(ToSet(s))
  BY <1>1, <1>2, IsASeq
<1>4. QED
  BY <1>1, <1>3 DEF IsSeq, ToSet

LEMMA LenOf == ASSUME NEW s, IsSeq(s)
               PROVE  Len(s) \in Nat /\ DOMAIN s = 1..Len(s) /\ s \in [1..Len(s) -> ToSet(s)]
BY LenProperties DEF IsSeq

LEMMA AppendOf ==
  ASSUME NEW s, IsSeq(s), NEW x
  PROVE  /\ IsSeq(Append(s, x)) /\ ToSet(Append(s, x)) = ToSet(s) \cup {x}
         /\ DOMAIN Append(s, x) = 1..(Len(s) + 1)
         /\ Append(s, x)[Len(s) + 1] = x /\ \A i \in DOMAIN s : Append(s, x)[i] = s[i]
<1>1. s \in Seq(ToSet(s) \cup {x})
  BY SeqMonotonic DEF IsSeq
<1>2. /\ Append(s, x) \in Seq(ToSet(s) \cup {x}) /\ Len(Append(s, x)) = Len(s) + 1
      /\ \A i \in 1..Len(s) : Append(s, x)[i] = s[i]
      /\ Append(s, x)[Len(s) + 1] = x
  BY <1>1, AppendProperties
<1>3. /\ Len(s) \in Nat /\ DOMAIN s = 1..Len(s) /\ DOMAIN Append(s, x) = 1..(Len(s) + 1)
  BY <1>1, <1>2, LenProperties
<1>4. ToSet(Append(s, x)) = ToSet(s) \cup {x}
  <2>1. ASSUME NEW y \in ToSet(s) \cup {x} PROVE y \in ToSet(Append(s, x))
    <3>1. CASE y = x
      BY <1>2, <1>3, <3>1 DEF ToSet
    <3>2. CASE y \in ToSet(s)
      BY <1>2, <1>3, <3>2 DEF ToSet
    <3>3. QED
      BY <3>1, <3>2
  <2>2. QED
    BY <1>2, <2>1, FromSeq
<1>5. QED
  BY <1>2, <1>3, <1>4, FromSeq

LEMMA TailOf ==
  ASSUME NEW s, IsSeq(s), s # <<>>
  PROVE  /\ Head(s) \in ToSet(s) /\ IsSeq(Tail(s)) /\ ToSet(Tail(s)) \subseteq ToSet(s)
         /\ ToSet(s) = {Head(s)} \cup ToSet(Tail(s))
<1>1. /\ s \in Seq(ToSet(s)) /\ Head(s) = s[1] /\ Tail(s) \in Seq(ToSet(s)) /\ Len(Tail(s)) = Len(s) - 1
      /\ \A i \in 1..Len(Tail(s)) : Tail(s)[i] = s[i + 1]
  BY HeadTailProperties DEF IsSeq
<1>2. Len(s) \in Nat \ {0} /\ DOMAIN s = 1..Len(s) /\ DOMAIN Tail(s) = 1..(Len(s) - 1)
  BY <1>1, LenProperties, EmptySeq
<1>3. Head(s) \in ToSet(s)
  BY <1>1, <1>2 DEF ToSet
<1>4. \A x \in ToSet(s) : x = Head(s) \/ x \in ToSet(Tail(s))
  <2>1. TAKE x \in ToSet(s)
  <2>2. PICK i \in 1..Len(s) : s[i] = x
    BY <1>2 DEF ToSet
  <2>3. i = 1 \/ (i - 1 \in DOMAIN Tail(s) /\ Tail(s)[i - 1] = x)
    BY <1>1, <1>2, <2>2
  <2>4. QED
    BY <1>1, <2>2, <2>3 DEF ToSet
<1>5. IsSeq(Tail(s)) /\ ToSet(Tail(s)) \subseteq ToSet(s)
  BY <1>1, FromSeq
<1>6. QED
  BY <1>3, <1>4, <1>5

\* What filter returns are the elements of S, each from a place of its own.
LEMMA FilterOf ==
  ASSUME NEW ms, IsSeq(ms), NEW S
  PROVE  /\ IsSeq(Filter(ms, S)) /\ ToSet(Filter(ms, S)) = ToSet(ms) \cap S
         /\ \A i, j \in DOMAIN Filter(ms, S) : i # j =>
              \E k, l \in DOMAIN ms : k # l /\ Filter(ms, S)[i] = ms[k] /\ Filter(ms, S)[j] = ms[l]
<1> DEFINE kept == {i \in DOMAIN ms : ms[i] \in S}
           c == Cardinality(kept)
           Below(i) == {j \in kept : j <= i}
           Rank(i) == Cardinality(Below(i))
           At(n) == CHOOSE i \in kept : Rank(i) = n
           f == [i \in kept |-> Rank(i)]
<1> HIDE DEF f, At
<1>1. kept \subseteq 1..Len(ms) /\ Len(ms) \in Nat /\ DOMAIN ms = 1..Len(ms)
  BY LenOf
<1>2. IsFiniteSet(kept) /\ c \in Nat
  <2>1. IsFiniteSet(1..Len(ms))
    BY <1>1, FS_Interval
  <2>2. QED
    BY <1>1, <2>1, FS_Subset, FS_CardinalityType
<1>3. \A i \in kept : IsFiniteSet(Below(i)) /\ Rank(i) \in 1..c
  <2>1. TAKE i \in kept
  <2>2. IsFiniteSet(Below(i)) /\ Rank(i) <= c
    BY <1>2, FS_Subset
  <2>3. i \in Below(i)
    BY <1>1
  <2>4. Rank(i) \in Nat /\ Rank(i) # 0
    BY <2>2, <2>3, FS_CardinalityType, FS_EmptySet
  <2>5. QED
    BY <1>2, <2>2, <2>4
<1>4. \A i, j \in kept : i # j => Rank(i) # Rank(j)
  <2>1. ASSUME NEW i \in kept, NEW j \in kept, i < j PROVE Rank(i) # Rank(j)
    <3>1. Below(i) \subseteq Below(j)
      BY <1>1, <2>1
    <3>2. j \in Below(j) /\ j \notin Below(i)
      BY <1>1, <2>1
    <3>3. QED
      BY <1>3, <3>1, <3>2, FS_Subset
  <2>2. \A i, j \in kept : i # j => i < j \/ j < i
    BY <1>1
  <2>3. QED
    BY <2>1, <2>2
<1>5. f \in Injection(kept, 1..c)
  BY <1>3, <1>4 DEF f, Injection, IsInjective
<1>6. f \in Surjection(kept, 1..c)
  <2>1. IsFiniteSet(1..c) /\ Cardinality(1..c) = c
    BY <1>2, FS_Interval
  <2>2. QED
    BY <1>5, <2>1, FS_Injection
<1>7. \A n \in 1..c : At(n) \in kept /\ Rank(At(n)) = n
  <2>1. TAKE n \in 1..c
  <2>2. \E i \in kept : Rank(i) = n
    BY <1>6 DEF f, Surjection
  <2>3. QED
    BY <2>2 DEF At
<1>8. Filter(ms, S) = [n \in 1..c |-> ms[At(n)]]
  BY DEF Filter, At
<1>9. \A i \in kept : At(Rank(i)) = i
  BY <1>3, <1>4, <1>7
<1> HIDE DEF Rank, c
<1>10. Filter(ms, S) \in Seq(ToSet(ms) \cap S)
  <2>1. \A n \in 1..c : ms[At(n)] \in ToSet(ms) \cap S
    BY <1>7 DEF ToSet
  <2>2. QED
    BY <1>2, <1>8, <2>1, IsASeq
<1>11. \A x \in ToSet(ms) \cap S : x \in ToSet(Filter(ms, S))
  <2>1. TAKE x \in ToSet(ms) \cap S
  <2>2. PICK i \in kept : ms[i] = x
    BY DEF ToSet
  <2>3. Rank(i) \in 1..c /\ ms[At(Rank(i))] = x
    BY <1>3, <1>9, <2>2
  <2>4. QED
    BY <1>8, <2>3 DEF ToSet
<1>12. \A i, j \in 1..c : i # j => At(i) # At(j)
  BY <1>7
<1>13. QED
  <2>1. IsSeq(Filter(ms, S)) /\ ToSet(Filter(ms, S)) = ToSet(ms) \cap S
    BY <1>10, <1>11, FromSeq
  <2>2. \A i, j \in DOMAIN Filter(ms, S) : i # j =>
          \E k, l \in DOMAIN ms : k # l /\ Filter(ms, S)[i] = ms[k] /\ Filter(ms, S)[j] = ms[l]
    <3>1. SUFFICES ASSUME NEW i \in 1..c, NEW j \in 1..c, i # j
                   PROVE  \E k, l \in DOMAIN ms : k # l /\ Filter(ms, S)[i] = ms[k] /\ Filter(ms, S)[j] = ms[l]
      BY <1>8
    <3>2. /\ At(i) \in DOMAIN ms /\ At(j) \in DOMAIN ms /\ At(i) # At(j)
          /\ Filter(ms, S)[i] = ms[At(i)] /\ Filter(ms, S)[j] = ms[At(j)]
      BY <1>7, <1>8, <1>12, <3>1
    <3>3. QED
      BY <3>2
  <2>3. QED
    BY <2>1, <2>2

-----------------------------------------------------------------------------
(* Devices and ids                                                         *)

LEMMA ConstantTypes ==
  /\ Creator \in Devices /\ Creator \notin Others /\ Others \subseteq Devices
  /\ \A p \in Devices : p # Creator => p \in Others
  /\ \A s \in Invitations : /\ IsSeq(s) /\ ToSet(s) \subseteq Others
                            /\ \A i, j \in DOMAIN s : s[i] = s[j] => i = j
<1>1. ASSUME NEW s \in Invitations
      PROVE  IsSeq(s) /\ ToSet(s) \subseteq Others /\ \A i, j \in DOMAIN s : s[i] = s[j] => i = j
  <2>1. Cardinality(Others) \in Nat
    BY GroupAssumption, FS_CardinalityType
  <2>2. PICK n \in 1..Cardinality(Others) : s \in [1..n -> Others] /\ IsInjective(s)
    BY GroupAssumption
  <2>3. s \in Seq(Others)
    BY <2>1, <2>2
  <2>4. QED
    BY <2>2, <2>3, FromSeq DEF IsInjective
<1>2. QED
  BY <1>1, GroupAssumption DEF Devices

LEMMA IdTypes ==
  /\ Self \in Ids /\ \A p \in Devices : Peers(p) \subseteq Ids /\ ListedBy(p) \subseteq Ids
  /\ \A p, q : <<p, q>> # Self
  /\ \A p, q, r, s : <<p, q>> = <<r, s>> <=> p = r /\ q = s
  /\ \A p, i : i \in Peers(p) => i # Self /\ i[2] \in Devices \ {p} /\ i = <<p, i[2]>>
  /\ \A p \in Devices : \A q \in Devices \ {p} : <<p, q>> \in Peers(p)
  /\ \A p \in Others : \A q : <<p, q>> \in ListedBy(p) => q = Creator
  /\ \A p, q \in Devices : q \in Hearers(p) <=> p # q /\ (p = Creator \/ q = Creator)
  /\ \A p \in Devices : Hearers(p) \subseteq Devices \ {p}
  /\ \A p \in Devices : \A q \in Hearers(p) : p # Creator => q = Creator
<1>1. \A p, q : <<p, q>> # Self
  BY DEF Self
<1>2. QED
  BY <1>1, ConstantTypes DEF Ids, Peers, ListedBy, Hearers

-----------------------------------------------------------------------------
(* The roster                                                              *)

IdsOf(ms) == {m.id : m \in ToSet(ms)}

LEMMA WithMemberOf ==
  ASSUME NEW p \in Devices, NEW ms, RosterOK(p, ms), NEW id \in ListedBy(p), id # Self,
         p # Creator => id # <<p, Creator>>
  PROVE  RosterOK(p, WithMember(ms, id)) /\ IdsOf(WithMember(ms, id)) = IdsOf(ms) \cup {id}
<1>1. CASE \E m \in ToSet(ms) : m.id = id
  BY <1>1 DEF WithMember, IdsOf
<1>2. CASE ~\E m \in ToSet(ms) : m.id = id
  <2> DEFINE new == [id |-> id, role |-> "member"]
             r == Append(ms, new)
  <2>1. IsSeq(ms) /\ ToSet(ms) \subseteq Member
    BY DEF RosterOK
  <2>2. /\ IsSeq(r) /\ ToSet(r) = ToSet(ms) \cup {new} /\ DOMAIN r = 1..(Len(ms) + 1)
        /\ r[Len(ms) + 1] = new /\ \A i \in DOMAIN ms : r[i] = ms[i]
    BY <2>1, AppendOf
  <2>3. Len(ms) \in Nat /\ DOMAIN ms = 1..Len(ms) /\ \A i \in DOMAIN ms : ms[i] \in ToSet(ms)
    BY <2>1, LenOf
  <2>4. new \in Member
    BY IdTypes DEF Member
  <2>5. ASSUME NEW i \in DOMAIN r, NEW j \in DOMAIN r, r[i].id = r[j].id PROVE i = j
    <3>1. \A k \in DOMAIN ms : r[k].id # id
      BY <1>2, <2>2, <2>3
    <3>2. \A k \in DOMAIN r : k \in DOMAIN ms \/ k = Len(ms) + 1
      BY <2>2, <2>3
    <3>3. r[Len(ms) + 1].id = id
      BY <2>2
    <3>4. \A k, l \in DOMAIN ms : r[k].id = r[l].id => k = l
      BY <2>2 DEF RosterOK
    <3>5. QED
      BY <2>5, <3>1, <3>2, <3>3, <3>4
  <2>6. WithMember(ms, id) = r
    BY <1>2 DEF WithMember
  <2>7. RosterOK(p, r)
    <3>1. new.id = id /\ (p # Creator => RoleOK(p, new))
      BY DEF RoleOK
    <3> HIDE DEF new, r
    <3>2. QED
      BY <2>1, <2>2, <2>4, <2>5, <3>1 DEF RosterOK
  <2> HIDE DEF r
  <2>8. IdsOf(r) = IdsOf(ms) \cup {id}
    BY <2>2 DEF IdsOf
  <2>9. QED
    BY <2>6, <2>7, <2>8
<1>3. QED
  BY <1>1, <1>2

LEMMA WithoutMemberOf ==
  ASSUME NEW p \in Devices, NEW ms, RosterOK(p, ms), NEW id
  PROVE  RosterOK(p, WithoutMember(ms, id)) /\ IdsOf(WithoutMember(ms, id)) = IdsOf(ms) \ {id}
<1> DEFINE S == {m \in ToSet(ms) : m.id # id}
           r == Filter(ms, S)
<1> HIDE DEF S
<1>1. IsSeq(ms) /\ ToSet(ms) \subseteq Member
  BY DEF RosterOK
<1>2. /\ IsSeq(r) /\ ToSet(r) = ToSet(ms) \cap S
      /\ \A i, j \in DOMAIN r : i # j => \E k, l \in DOMAIN ms : k # l /\ r[i] = ms[k] /\ r[j] = ms[l]
  BY <1>1, FilterOf
<1> HIDE DEF r
<1>3. RosterOK(p, r)
  BY <1>1, <1>2 DEF RosterOK
<1>4. IdsOf(r) = IdsOf(ms) \ {id}
  BY <1>2 DEF IdsOf, S
<1>5. QED
  BY <1>3, <1>4 DEF WithoutMember, r, S

LEMMA WithRoleOf ==
  ASSUME NEW p \in Devices, NEW ms, RosterOK(p, ms), NEW id, NEW role \in {"admin", "member"},
         p # Creator => id # Self /\ id # <<p, Creator>>
  PROVE  RosterOK(p, WithRole(ms, id, role)) /\ IdsOf(WithRole(ms, id, role)) = IdsOf(ms)
<1> DEFINE Of(m) == IF m.id = id THEN [m EXCEPT !.role = role] ELSE m
           r == WithRole(ms, id, role)
<1>1. IsSeq(ms) /\ ToSet(ms) \subseteq Member
  BY DEF RosterOK
<1>2. Len(ms) \in Nat /\ DOMAIN ms = 1..Len(ms) /\ \A i \in DOMAIN ms : ms[i] \in ToSet(ms)
  BY <1>1, LenOf
<1>3. r = [i \in 1..Len(ms) |-> Of(ms[i])]
  BY <1>2 DEF WithRole
<1>4. \A m \in Member : /\ Of(m) \in Member /\ Of(m).id = m.id
                        /\ Of(m).role = m.role \/ (Of(m).role = role /\ m.id = id)
  BY DEF Member
<1> HIDE DEF Of
<1>5. \A i \in DOMAIN ms : r[i] = Of(ms[i]) /\ r[i] \in Member /\ r[i].id = ms[i].id
  BY <1>1, <1>2, <1>3, <1>4
<1>6. r \in Seq(Member) /\ DOMAIN r = DOMAIN ms
  BY <1>2, <1>3, <1>5
<1>7. \A m \in ToSet(r) : \E i \in DOMAIN ms : m = r[i]
  BY <1>6 DEF ToSet
<1>8. RosterOK(p, r)
  <2>1. IsSeq(r) /\ ToSet(r) \subseteq Member
    BY <1>6, FromSeq
  <2>2. \A i, j \in DOMAIN r : r[i].id = r[j].id => i = j
    BY <1>5, <1>6 DEF RosterOK
  <2>3. ASSUME NEW m \in ToSet(r)
        PROVE  m.id \in ListedBy(p) /\ (p # Creator => RoleOK(p, m))
    <3>1. PICK i \in DOMAIN ms : m = r[i]
      BY <1>7
    <3>2. ms[i] \in ToSet(ms) /\ ms[i] \in Member /\ m = Of(ms[i])
      BY <1>1, <1>2, <1>5, <3>1
    <3>3. ms[i].id \in ListedBy(p) /\ (p # Creator => RoleOK(p, ms[i]))
      BY <3>2 DEF RosterOK
    <3>4. QED
      BY <1>4, <3>2, <3>3 DEF RoleOK
  <2>4. QED
    BY <2>1, <2>2, <2>3 DEF RosterOK
<1>9. IdsOf(r) = IdsOf(ms)
  <2>1. \A m \in ToSet(r) : \E l \in ToSet(ms) : l.id = m.id
    BY <1>2, <1>5, <1>7
  <2>2. \A l \in ToSet(ms) : \E m \in ToSet(r) : l.id = m.id
    <3>1. TAKE l \in ToSet(ms)
    <3>2. PICK i \in DOMAIN ms : l = ms[i]
      BY DEF ToSet
    <3>3. r[i] \in ToSet(r) /\ r[i].id = l.id
      BY <1>5, <1>6, <3>2 DEF ToSet
    <3>4. QED
      BY <3>3
  <2>3. QED
    BY <2>1, <2>2 DEF IdsOf
<1>10. QED
  BY <1>8, <1>9

\* A loop goes to the members that have a device.
LEMMA ContactsOf ==
  ASSUME NEW p \in Devices, NEW ms, RosterOK(p, ms)
  PROVE  /\ IsSeq(Contacts(p, ms)) /\ ToSet(Contacts(p, ms)) \subseteq Hearers(p)
         /\ \A q \in Hearers(p) : q \in ToSet(Contacts(p, ms)) <=> <<p, q>> \in IdsOf(ms)
<1> DEFINE S == {m \in ToSet(ms) : m.id \in {p} \X (Devices \ {p})}
           known == Filter(ms, S)
<1>1. IsSeq(ms)
  BY DEF RosterOK
<1>0. \A m \in ToSet(ms) : m.id \in ListedBy(p)
  BY DEF RosterOK
<1>a. \A m \in S : m.id[2] \in Hearers(p) /\ m.id = <<p, m.id[2]>> /\ m.id \in IdsOf(ms)
  <2>1. TAKE m \in S
  <2>2. m.id \in Peers(p) /\ m.id \in ListedBy(p) /\ m \in ToSet(ms)
    BY <1>0 DEF Peers
  <2>3. m.id[2] \in Devices \ {p} /\ m.id = <<p, m.id[2]>>
    BY <2>2, IdTypes
  <2>4. p # Creator => m.id[2] = Creator
    BY <2>2, <2>3, IdTypes, ConstantTypes
  <2>5. QED
    BY <2>2, <2>3, <2>4, ConstantTypes DEF Hearers, IdsOf, Devices
<1>b. \A m \in ToSet(ms) : \A q \in Hearers(p) : m.id = <<p, q>> => m \in S
  <2>1. \A q \in Hearers(p) : q \in Devices \ {p}
    BY IdTypes
  <2>2. QED
    BY <2>1
<1> HIDE DEF S
<1>2. IsSeq(known) /\ ToSet(known) = ToSet(ms) \cap S
  BY <1>1, FilterOf
<1>3. Contacts(p, ms) = [i \in DOMAIN known |-> known[i].id[2]]
  BY DEF Contacts, S
<1> HIDE DEF known
<1>4. Len(known) \in Nat /\ DOMAIN known = 1..Len(known) /\ \A i \in DOMAIN known : known[i] \in ToSet(known)
  BY <1>2, LenOf
<1>5. \A m \in ToSet(known) : m.id[2] \in Hearers(p) /\ m.id = <<p, m.id[2]>> /\ m.id \in IdsOf(ms)
  BY <1>2, <1>a
<1>6. Contacts(p, ms) \in Seq(Hearers(p))
  BY <1>3, <1>4, <1>5
<1>7. \A q \in ToSet(Contacts(p, ms)) : \E i \in DOMAIN known : q = known[i].id[2]
  BY <1>3 DEF ToSet
<1>8. ASSUME NEW q \in Hearers(p), <<p, q>> \in IdsOf(ms) PROVE q \in ToSet(Contacts(p, ms))
  <2>1. PICK m \in ToSet(ms) : m.id = <<p, q>>
    BY <1>8 DEF IdsOf
  <2>2. m \in ToSet(known)
    BY <1>2, <1>b, <2>1
  <2>3. PICK i \in DOMAIN known : known[i] = m
    BY <2>2 DEF ToSet
  <2>4. Contacts(p, ms)[i] = q /\ i \in DOMAIN Contacts(p, ms)
    BY <1>3, <2>1, <2>3
  <2>5. QED
    BY <2>4 DEF ToSet
<1>9. IsSeq(Contacts(p, ms)) /\ ToSet(Contacts(p, ms)) \subseteq Hearers(p)
  BY <1>6, FromSeq
<1>10. \A q \in ToSet(Contacts(p, ms)) : <<p, q>> \in IdsOf(ms)
  BY <1>4, <1>5, <1>7
<1>11. QED
  BY <1>8, <1>9, <1>10

-----------------------------------------------------------------------------
(* Records, texts and carriers                                             *)

LEMMA RekeyOf ==
  ASSUME NEW m \in Nat, NEW n \in Nat, NEW x \in [key : 1..m, rot : Nat, name : {"old", "new"}],
         NEW k \in 1..n, NEW rot \in Nat
  PROVE  /\ [x EXCEPT !.key = k, !.rot = rot] \in [key : 1..n, rot : Nat, name : {"old", "new"}]
         /\ [x EXCEPT !.key = k, !.rot = rot].key = k
         /\ [x EXCEPT !.key = k, !.rot = rot].rot = rot /\ [x EXCEPT !.key = k, !.rot = rot].name = x.name
<1> DEFINE y == [x EXCEPT !.key = k]
           z == [x EXCEPT !.key = k, !.rot = rot]
<1>1. y = [key |-> k, rot |-> x.rot, name |-> x.name]
  OBVIOUS
<1>2. z = [y EXCEPT !.rot = rot]
  OBVIOUS
<1> HIDE DEF y, z
<1>3. z = [key |-> k, rot |-> rot, name |-> x.name] /\ x.name \in {"old", "new"}
  BY <1>1, <1>2
<1>4. z \in [key : 1..n, rot : Nat, name : {"old", "new"}] /\ z.key = k /\ z.rot = rot /\ z.name = x.name
  BY <1>3
<1>5. QED
  BY <1>4 DEF z

LEMMA WithKeyOf ==
  ASSUME NEW m \in Nat, NEW n \in Nat, m <= n, NEW rs, GroupOK(rs, m), NEW k \in 1..n, NEW rot \in Nat
  PROVE  /\ GroupOK(WithKey(rs, k, rot), n) /\ (WithKey(rs, k, rot) = <<>> <=> rs = <<>>)
         /\ rs # <<>> => /\ Head(WithKey(rs, k, rot)).key = k /\ Head(WithKey(rs, k, rot)).rot = rot
                         /\ Head(WithKey(rs, k, rot)).name = Head(rs).name
<1> DEFINE Recs(i) == [key : 1..i, rot : Nat, name : {"old", "new"}]
           r == WithKey(rs, k, rot)
           Of(x) == [x EXCEPT !.key = k, !.rot = rot]
<1>1. rs \in Seq(Recs(m)) /\ Len(rs) \in Nat /\ DOMAIN rs = 1..Len(rs) /\ \A i \in 1..Len(rs) : rs[i] \in Recs(m)
  BY LenOf, SeqMonotonic DEF GroupOK, IsSeq
<1>2. r = [i \in 1..Len(rs) |-> Of(rs[i])]
  BY <1>1 DEF WithKey
<1>0. \A x \in Recs(m) : Of(x) \in Recs(n) /\ Of(x).key = k /\ Of(x).rot = rot /\ Of(x).name = x.name
  BY RekeyOf
<1> HIDE DEF Of
<1>3. \A i \in 1..Len(rs) : r[i] \in Recs(n) /\ r[i].key = k /\ r[i].rot = rot /\ r[i].name = rs[i].name
  BY <1>0, <1>1, <1>2
<1>4. r \in Seq(Recs(n)) /\ Len(r) = Len(rs)
  BY <1>1, <1>2, <1>3
<1>5. r = <<>> <=> rs = <<>>
  BY <1>1, <1>4, EmptySeq
<1>6. rs # <<>> => Head(r) = r[1] /\ Head(rs) = rs[1] /\ 1 \in 1..Len(rs)
  BY <1>1, <1>4, <1>5, HeadTailProperties, EmptySeq
<1>7. QED
  BY <1>3, <1>4, <1>5, <1>6, FromSeq DEF GroupOK

LEMMA WithNameOf ==
  ASSUME NEW m \in Nat, NEW rs, GroupOK(rs, m), NEW name \in {"old", "new"}
  PROVE  /\ GroupOK(WithName(rs, name), m) /\ (WithName(rs, name) = <<>> <=> rs = <<>>)
         /\ rs # <<>> => /\ Head(WithName(rs, name)).key = Head(rs).key
                         /\ Head(WithName(rs, name)).rot = Head(rs).rot /\ Head(WithName(rs, name)).name = name
<1> DEFINE Recs == [key : 1..m, rot : Nat, name : {"old", "new"}]
           r == WithName(rs, name)
<1>1. rs \in Seq(Recs) /\ Len(rs) \in Nat /\ DOMAIN rs = 1..Len(rs) /\ \A i \in 1..Len(rs) : rs[i] \in Recs
  BY LenOf, SeqMonotonic DEF GroupOK, IsSeq
<1>2. r = [i \in 1..Len(rs) |-> [rs[i] EXCEPT !.name = name]]
  BY <1>1 DEF WithName
<1>3. \A i \in 1..Len(rs) : r[i] \in Recs /\ r[i].key = rs[i].key /\ r[i].rot = rs[i].rot /\ r[i].name = name
  BY <1>1, <1>2
<1>4. r \in Seq(Recs) /\ Len(r) = Len(rs)
  BY <1>1, <1>2, <1>3
<1>5. r = <<>> <=> rs = <<>>
  BY <1>1, <1>4, EmptySeq
<1>6. rs # <<>> => Head(r) = r[1] /\ Head(rs) = rs[1] /\ 1 \in 1..Len(rs)
  BY <1>1, <1>4, <1>5, HeadTailProperties, EmptySeq
<1>7. QED
  BY <1>3, <1>4, <1>5, <1>6, FromSeq DEF GroupOK

LEMMA AddTextOf ==
  ASSUME NEW p \in Devices, NEW o, NEW log, TextsOK(p, log, o), NEW t \in 1..o, NEW status \in Status,
         NEW from \in {Self} \cup (IF p = Creator THEN Peers(p) ELSE {<<p, Creator>>})
  PROVE  TextsOK(p, AddText(log, t, from, status), o)
<1>1. from \in Ids
  BY IdTypes, ConstantTypes DEF Ids
<1>2. [from |-> from, status |-> status] \in TextRec
  BY <1>1 DEF TextRec
<1>3. QED
  BY <1>2 DEF AddText, TextsOK

LEMMA WithStatusOf ==
  ASSUME NEW p, NEW o, NEW log, TextsOK(p, log, o), NEW t, NEW status \in Status
  PROVE  TextsOK(p, WithStatus(log, t, status), o)
BY DEF WithStatus, TextsOK, TextRec

LEMMA CalmStatus ==
  ASSUME NEW log, \A v \in DOMAIN log : log[v] \in TextRec, NEW t,
         NEW status, status # "sending", NEW u \in DOMAIN WithStatus(log, t, status)
  PROVE  /\ u \in DOMAIN log
         /\ WithStatus(log, t, status)[u].status = "sending" => log[u].status = "sending" /\ u # t
<1>1. CASE t \notin DOMAIN log
  BY <1>1 DEF WithStatus
<1>2. CASE t \in DOMAIN log
  <2> DEFINE x == [log[t] EXCEPT !.status = status]
             l == WithStatus(log, t, status)
  <2>1. l = [log EXCEPT ![t].status = status]
    BY <1>2 DEF WithStatus
  <2>2. x.status = status
    BY <1>2 DEF TextRec
  <2> HIDE DEF x
  <2>3. DOMAIN l = DOMAIN log /\ \A v \in DOMAIN log : l[v] = IF v = t THEN x ELSE log[v]
    BY <1>2, <2>1 DEF x
  <2>4. QED
    BY <2>2, <2>3
<1>3. QED
  BY <1>1, <1>2

LEMMA FollowsOf ==
  ASSUME NEW p, NEW n, NEW b, NEW then, Follows(p, n, b, then)
  PROVE  /\ then.type \in {"nothing", "text", "leave", "added", "removed"}
         /\ then.type \in {"added", "removed"} => p = Creator /\ \E i \in Peers(p) : then \in {[type |-> "added", id |-> i], Removal(i)}
BY DEF Follows, Notices, Nothing, Removal

\* What was so stays so while keys are made and operations begun.
LEMMA Grown ==
  ASSUME NEW m \in Nat, NEW n \in Nat, m <= n, NEW o \in Nat, NEW u \in Nat, o <= u
  PROVE  /\ \A p, b : Carrier(p, b, m, o) => Carrier(p, b, n, u)
         /\ \A p, t : Handler(p, t, m, o) => Handler(p, t, n, u)
         /\ \A p, log : TextsOK(p, log, o) => TextsOK(p, log, u)
         /\ \A rs : GroupOK(rs, m) => GroupOK(rs, n)
         /\ \A ks : KeysOK(ks, m) => KeysOK(ks, n)
<1>1. 1..m \subseteq 1..n /\ 1..o \subseteq 1..u
  OBVIOUS
<1>2. \A p, b : Carrier(p, b, m, o) => Carrier(p, b, n, u)
  BY <1>1 DEF Carrier
<1>3. \A p, t : Handler(p, t, m, o) => Handler(p, t, n, u)
  BY <1>2 DEF Handler
<1>4. \A p, log : TextsOK(p, log, o) => TextsOK(p, log, u)
  BY <1>1 DEF TextsOK
<1>5. \A rs : GroupOK(rs, m) => GroupOK(rs, n)
  BY <1>1 DEF GroupOK
<1>6. \A ks : KeysOK(ks, m) => KeysOK(ks, n)
  BY <1>1 DEF KeysOK
<1>7. QED
  BY <1>2, <1>3, <1>4, <1>5, <1>6

LEMMA SealedOf ==
  ASSUME NEW b, NEW k
  PROVE  \A f \in DOMAIN b : f # "with" => Sealed(b, k)[f] = b[f]
BY DEF Sealed

\* What the operations seal.
LEMMA SealedText ==
  ASSUME NEW p \in Devices, NEW m \in Nat, NEW k \in 1..m, NEW o, NEW t \in 1..o
  PROVE  LET b == Sealed([type |-> "text", t |-> t], k) IN Carrier(p, b, m, o) /\ b.type = "text" /\ b.t = t
<1> DEFINE b == Sealed([type |-> "text", t |-> t], k)
<1>1. b.type = "text" /\ b.t = t /\ b.with = k
  BY DEF Sealed
<1> HIDE DEF b
<1>2. Carrier(p, b, m, o)
  BY <1>1 DEF Carrier
<1>3. QED
  BY <1>1, <1>2 DEF b

LEMMA SealedReceipt ==
  ASSUME NEW p \in Devices, NEW m \in Nat, NEW k \in 1..m, NEW o, NEW t, NEW q \in Hearers(p)
  PROVE  LET b == Sealed([type |-> "read", t |-> t, to |-> q], k) IN Carrier(p, b, m, o) /\ b.type = "read"
<1> DEFINE b == Sealed([type |-> "read", t |-> t, to |-> q], k)
<1>1. b.type = "read" /\ b.to = q /\ b.with = k
  BY DEF Sealed
<1> HIDE DEF b
<1>2. Carrier(p, b, m, o)
  BY <1>1 DEF Carrier
<1>3. QED
  BY <1>1, <1>2 DEF b

LEMMA SealedRemoval ==
  ASSUME NEW p \in Devices, NEW m \in Nat, NEW k \in 1..m, NEW o, NEW i, i = Self \/ (p = Creator /\ i \in Peers(p))
  PROVE  LET b == Sealed(Removal(i), k) IN Carrier(p, b, m, o) /\ b.type = "removed" /\ b.id = i
<1> DEFINE b == Sealed(Removal(i), k)
<1>1. b.type = "removed" /\ b.id = i /\ b.with = k
  BY DEF Sealed, Removal
<1> HIDE DEF b
<1>2. Carrier(p, b, m, o)
  BY <1>1 DEF Carrier
<1>3. QED
  BY <1>1, <1>2 DEF b

LEMMA SealedAdded ==
  ASSUME NEW p \in Devices, NEW m \in Nat, NEW k \in 1..m, NEW o, NEW i \in Peers(p), p = Creator
  PROVE  LET b == Sealed([type |-> "added", id |-> i], k) IN Carrier(p, b, m, o) /\ b.type = "added"
<1> DEFINE b == Sealed([type |-> "added", id |-> i], k)
<1>1. b.type = "added" /\ b.id = i /\ b.with = k
  BY DEF Sealed
<1> HIDE DEF b
<1>2. Carrier(p, b, m, o)
  BY <1>1 DEF Carrier
<1>3. QED
  BY <1>1, <1>2 DEF b

LEMMA SealedRole ==
  ASSUME NEW p \in Devices, NEW m \in Nat, NEW k \in 1..m, NEW o, NEW id \in {Self} \cup Peers(p), NEW role \in {"admin", "member"}, p = Creator
  PROVE  LET b == Sealed([type |-> "role", id |-> id, role |-> role], k) IN Carrier(p, b, m, o) /\ b.type = "role"
<1> DEFINE b == Sealed([type |-> "role", id |-> id, role |-> role], k)
<1>1. b.type = "role" /\ b.role = role /\ b.id = id /\ b.with = k
  BY DEF Sealed
<1> HIDE DEF b
<1>2. Carrier(p, b, m, o)
  BY <1>1 DEF Carrier
<1>3. QED
  BY <1>1, <1>2 DEF b

LEMMA SealedName ==
  ASSUME NEW p \in Devices, NEW m \in Nat, NEW k \in 1..m, NEW o, p = Creator
  PROVE  LET b == Sealed([type |-> "name", name |-> "new"], k) IN Carrier(p, b, m, o) /\ b.type = "name"
<1> DEFINE b == Sealed([type |-> "name", name |-> "new"], k)
<1>1. b.type = "name" /\ b.name = "new" /\ b.with = k
  BY DEF Sealed
<1> HIDE DEF b
<1>2. Carrier(p, b, m, o)
  BY <1>1 DEF Carrier
<1>3. QED
  BY <1>1, <1>2 DEF b

LEMMA SendOf ==
  ASSUME NEW p, NEW n, NEW to, NEW body, NEW then, NEW m, NEW o,
         Carrier(p, body, m, o), Follows(p, n, body, then), IsSeq(to), ToSet(to) \subseteq Hearers(p)
  PROVE  \A t \in Send(n, to, body, then) :
           /\ Handler(p, t, m, o) /\ t.do = "send" /\ t.n = n /\ t.to = to /\ t.body = body /\ t.then = then
BY DEF Send, Handler

LEMMA KeyCarrier ==
  ASSUME NEW m, NEW o, NEW rec \in [key : 1..m, rot : Nat, name : {"old", "new"}]
  PROVE  Carrier(Creator, KeyBody(rec), m, o) /\ KeyBody(rec).type = "key" /\ KeyBody(rec).key = rec.key
         /\ KeyBody(rec).rot = rec.rot /\ KeyBody(rec).name = rec.name
<1>1. /\ KeyBody(rec).type = "key" /\ KeyBody(rec).key = rec.key /\ KeyBody(rec).rot = rec.rot /\ KeyBody(rec).name = rec.name
      /\ KeyBody(rec).rot = rec.rot /\ KeyBody(rec).name = rec.name
  BY DEF KeyBody
<1>2. QED
  BY <1>1 DEF Carrier

-----------------------------------------------------------------------------
(* What a step of device p does to the stores and to the handlers          *)

\* p changes what is its own, and keeps it in order.
Acts(p) ==
  /\ made' \in Nat /\ made <= made' /\ ops' \in Nat /\ ops <= ops'
  /\ faults' \in Nat /\ ops' + faults' <= MaxSteps
  /\ DOMAIN group' = Devices /\ DOMAIN roster' = Devices /\ DOMAIN keys' = Devices
  /\ DOMAIN texts' = Devices /\ DOMAIN tasks' = Devices
  /\ \A r \in Devices \ {p} : /\ group'[r] = group[r] /\ roster'[r] = roster[r] /\ keys'[r] = keys[r]
                              /\ texts'[r] = texts[r] /\ tasks'[r] = tasks[r]
  /\ GroupOK(group'[p], made') /\ RosterOK(p, roster'[p]) /\ KeysOK(keys'[p], made')
  /\ TextsOK(p, texts'[p], ops')
  /\ \A t \in tasks'[p] : Handler(p, t, made', ops')

LEMMA ActsKeep ==
  ASSUME Base, NEW p \in Devices, Acts(p)
  PROVE  StoreInv' /\ RosterInv' /\ TextInv' /\ TaskInv'
<1>1. made \in Nat /\ ops \in Nat
  BY DEF Base, StoreInv
<1>2. \A r \in Devices : GroupOK(group'[r], made') /\ KeysOK(keys'[r], made')
  <2>1. TAKE r \in Devices
  <2>2. CASE r = p
    BY <2>2 DEF Acts
  <2>3. CASE r # p
    BY <1>1, <2>3, Grown DEF Acts, Base, StoreInv
  <2>4. QED
    BY <2>2, <2>3
<1>3. StoreInv'
  BY <1>2 DEF StoreInv, Acts
<1>4. RosterInv'
  BY DEF RosterInv, Acts, Base
<1>5. TextInv'
  <2>1. \A r \in Devices : TextsOK(r, texts'[r], ops')
    <3>1. TAKE r \in Devices
    <3>2. CASE r = p
      BY <3>2 DEF Acts
    <3>3. CASE r # p
      BY <1>1, <3>3, Grown DEF Acts, Base, TextInv
    <3>4. QED
      BY <3>2, <3>3
  <2>2. QED
    BY <2>1 DEF TextInv
<1>6. TaskInv'
  <2>1. \A r \in Devices : \A t \in tasks'[r] : Handler(r, t, made', ops')
    <3>1. TAKE r \in Devices
    <3>2. CASE r = p
      BY <3>2 DEF Acts
    <3>3. CASE r # p
      BY <1>1, <3>3, Grown DEF Acts, Base, TaskInv
    <3>4. QED
      BY <3>2, <3>3
  <2>2. QED
    BY <2>1 DEF TaskInv, Acts
<1>7. QED
  BY <1>3, <1>4, <1>5, <1>6

\* What p has is in order.
LEMMA AtHome ==
  ASSUME Base, NEW p \in Devices
  PROVE  /\ made \in Nat /\ ops \in Nat /\ faults \in Nat /\ ops + faults <= MaxSteps
         /\ DOMAIN group = Devices /\ DOMAIN roster = Devices /\ DOMAIN keys = Devices
         /\ DOMAIN texts = Devices /\ DOMAIN tasks = Devices
         /\ GroupOK(group[p], made) /\ RosterOK(p, roster[p]) /\ KeysOK(keys[p], made)
         /\ TextsOK(p, texts[p], ops)
         /\ \A t \in tasks[p] : Handler(p, t, made, ops)
BY DEF Base, StoreInv, RosterInv, TextInv, TaskInv

LEMMA RecordOf ==
  ASSUME Base, NEW p \in Devices, InGroup(p)
  PROVE  Record(p) \in [key : 1..made, rot : Nat, name : {"old", "new"}]
<1>1. IsSeq(group[p]) /\ ToSet(group[p]) \subseteq [key : 1..made, rot : Nat, name : {"old", "new"}]
  BY DEF Base, StoreInv, GroupOK
<1>2. QED
  BY <1>1, TailOf DEF InGroup, Record

LEMMA EncryptOf ==
  ASSUME Base, NEW p \in Devices, NEW n, NEW body, NEW then, NEW m \in Nat, NEW o, made <= m,
         \A k \in 1..m : LET b == Sealed(body, k) IN Carrier(p, b, m, o) /\ b.type # "key" /\ Follows(p, n, b, then)
  PROVE  \A t \in Encrypt(p, n, body, then) :
           /\ Handler(p, t, m, o) /\ t.do = "encrypt" /\ t.then = then /\ t.n = n
           /\ InGroup(p) /\ t.body = Sealed(body, Record(p).key) /\ t.body.with = Record(p).key
<1>1. SUFFICES ASSUME NEW t \in Encrypt(p, n, body, then)
               PROVE  /\ Handler(p, t, m, o) /\ t.do = "encrypt" /\ t.then = then /\ t.n = n
                      /\ InGroup(p) /\ t.body = Sealed(body, Record(p).key) /\ t.body.with = Record(p).key
  OBVIOUS
<1> DEFINE b == Sealed(body, Record(p).key)
<1>2. InGroup(p) /\ t = [do |-> "encrypt", n |-> n, body |-> b, then |-> then]
  BY DEF Encrypt
<1>3. Record(p).key \in 1..m
  <2>1. Record(p).key \in 1..made /\ made \in Nat
    BY <1>2, RecordOf DEF Base, StoreInv
  <2>2. QED
    BY <2>1
<1>4. Carrier(p, b, m, o) /\ b.type # "key" /\ Follows(p, n, b, then)
  BY <1>3
<1>5. b.with = Record(p).key
  BY DEF Sealed
<1> HIDE DEF b
<1>6. QED
  BY <1>2, <1>4, <1>5 DEF Handler, b

LEMMA AdminIsCreator ==
  ASSUME Base, NEW p \in Devices, IsAdmin(p)
  PROVE  p = Creator
<1>1. PICK m \in ToSet(roster[p]) : m.role = "admin" /\ m.id = Self
  BY DEF IsAdmin, IsAdminAt, Admins
<1>2. RosterOK(p, roster[p])
  BY AtHome
<1>3. QED
  BY <1>1, <1>2 DEF RosterOK, RoleOK

LEMMA BeginOf ==
  ASSUME Base, NEW p \in Devices, NEW new, Begin(p, new),
         UNCHANGED <<group, roster, keys, texts, made>>,
         \A t \in new : Handler(p, t, made, ops + 1)
  PROVE  Acts(p)
<1>1. /\ ops' = ops + 1 /\ faults' = faults /\ ops + faults < MaxSteps
      /\ tasks' = [tasks EXCEPT ![p] = @ \cup new]
  BY DEF Begin
<1>2. MaxSteps \in Nat
  BY GroupAssumption
<1>3. \A t \in tasks[p] : Handler(p, t, made, ops + 1)
  BY AtHome, Grown
<1>4. \A t \in tasks'[p] : Handler(p, t, made', ops')
  BY <1>1, <1>3, AtHome
<1>5. TextsOK(p, texts'[p], ops')
  BY <1>1, AtHome, Grown
<1> HIDE DEF Base
<1>6. QED
  BY <1>1, <1>2, <1>4, <1>5, AtHome DEF Acts

LEMMA FirstRoster ==
  ASSUME NEW invited \in Invitations
  PROVE  LET r == <<[id |-> Self, role |-> "admin"]>> \o
                      [i \in DOMAIN invited |-> [id |-> <<Creator, invited[i]>>, role |-> "member"]]
         IN  RosterOK(Creator, r) /\ IdsOf(r) = {Self} \cup {<<Creator, q>> : q \in ToSet(invited)}
<1> DEFINE me == [id |-> Self, role |-> "admin"]
           Of(q) == [id |-> <<Creator, q>>, role |-> "member"]
           t == [i \in DOMAIN invited |-> Of(invited[i])]
           r == <<me>> \o t
<1>1. /\ IsSeq(invited) /\ ToSet(invited) \subseteq Others
      /\ \A i, j \in DOMAIN invited : invited[i] = invited[j] => i = j
  BY ConstantTypes
<1>2. /\ Len(invited) \in Nat /\ DOMAIN invited = 1..Len(invited)
      /\ \A i \in DOMAIN invited : invited[i] \in ToSet(invited)
  BY <1>1, LenOf
<1>3. \A q \in Others : Of(q) \in Member /\ Of(q).id = <<Creator, q>> /\ Of(q).id \in Peers(Creator) /\ Of(q).id # Self
  BY IdTypes, ConstantTypes DEF Member, Peers
<1>4. me \in Member /\ me.id = Self
  BY IdTypes DEF Member
<1> HIDE DEF me, Of
<1>5. t \in Seq(Member) /\ Len(t) = Len(invited)
  BY <1>1, <1>2, <1>3
<1>6. <<me>> \in Seq(Member) /\ Len(<<me>>) = 1 /\ <<me>>[1] = me
  BY <1>4
<1>7. /\ r \in Seq(Member) /\ Len(r) = 1 + Len(invited)
      /\ \A i \in 1..(1 + Len(invited)) : r[i] = IF i = 1 THEN me ELSE t[i - 1]
  BY <1>2, <1>5, <1>6, ConcatProperties
<1>8. \A i \in 1..(1 + Len(invited)) : i # 1 => i - 1 \in DOMAIN invited /\ r[i] = Of(invited[i - 1])
  BY <1>2, <1>7
<1>9. DOMAIN r = 1..(1 + Len(invited)) /\ r[1] = me
  BY <1>2, <1>7, LenProperties
<1> HIDE DEF r, t
<1>10. \A m \in ToSet(r) : m = me \/ \E q \in ToSet(invited) : m = Of(q)
  <2>1. \A m \in ToSet(r) : \E i \in 1..(1 + Len(invited)) : m = r[i]
    BY <1>9 DEF ToSet
  <2>2. QED
    BY <2>1, <1>2, <1>8, <1>9
<1>11. me \in ToSet(r) /\ \A q \in ToSet(invited) : Of(q) \in ToSet(r)
  <2>1. me \in ToSet(r)
    BY <1>2, <1>9 DEF ToSet
  <2>2. ASSUME NEW q \in ToSet(invited) PROVE Of(q) \in ToSet(r)
    <3>1. PICK i \in DOMAIN invited : q = invited[i]
      BY DEF ToSet
    <3>2. i + 1 \in 1..(1 + Len(invited)) /\ i + 1 # 1 /\ (i + 1) - 1 = i
      BY <1>2, <3>1
    <3>3. r[i + 1] = Of(q)
      BY <1>8, <3>1, <3>2
    <3>4. QED
      BY <1>9, <3>2, <3>3 DEF ToSet
  <2>3. QED
    BY <2>1, <2>2
<1>12. \A i, j \in DOMAIN r : r[i].id = r[j].id => i = j
  <2>1. SUFFICES ASSUME NEW i \in DOMAIN r, NEW j \in DOMAIN r, r[i].id = r[j].id PROVE i = j
    OBVIOUS
  <2>2. \A k \in DOMAIN r : k # 1 => r[k].id # Self /\ r[k].id = <<Creator, invited[k - 1]>> /\ k - 1 \in DOMAIN invited
    BY <1>1, <1>2, <1>3, <1>8, <1>9
  <2>3. CASE i = 1 \/ j = 1
    BY <1>4, <1>9, <2>1, <2>2, <2>3
  <2>4. CASE i # 1 /\ j # 1
    <3>1. invited[i - 1] = invited[j - 1] /\ i - 1 \in DOMAIN invited /\ j - 1 \in DOMAIN invited
      BY <2>1, <2>2, <2>4, IdTypes
    <3>2. i - 1 = j - 1
      BY <1>1, <3>1
    <3>3. QED
      BY <1>2, <1>9, <3>2
  <2>5. QED
    BY <2>3, <2>4
<1>13. IsSeq(r) /\ ToSet(r) \subseteq Member
  BY <1>7, FromSeq
<1>14. RosterOK(Creator, r)
  <2>1. me.id \in ListedBy(Creator) /\ \A q \in Others : Of(q).id \in ListedBy(Creator)
    BY <1>3, <1>4 DEF ListedBy
  <2>2. \A m \in ToSet(r) : m.id \in ListedBy(Creator)
    BY <1>1, <1>10, <2>1
  <2>3. QED
    BY <1>12, <1>13, <2>2 DEF RosterOK
<1>15. IdsOf(r) = {Self} \cup {<<Creator, q>> : q \in ToSet(invited)}
  <2>1. \A q \in ToSet(invited) : Of(q).id = <<Creator, q>>
    BY <1>1, <1>3
  <2>2. QED
    BY <1>4, <1>10, <1>11, <2>1 DEF IdsOf
<1>16. QED
  BY <1>14, <1>15 DEF r, t, me, Of

LEMMA CreateActs ==
  ASSUME Base, NEW invited \in Invitations, CreateGroup(Creator, invited)
  PROVE  Acts(Creator)
<1> DEFINE p == Creator
           rec == [key |-> 1, rot |-> 0, name |-> "old"]
           new == Send(ops + 1, invited, KeyBody(rec), Nothing)
<1>1. /\ made = 0 /\ made' = 1 /\ keys' = [keys EXCEPT ![p] = {FirstKey}]
      /\ group' = [group EXCEPT ![p] = <<rec>>] /\ texts' = texts
      /\ Begin(p, new)
      /\ roster' = [roster EXCEPT ![p] = <<[id |-> Self, role |-> "admin"]>> \o
                     [i \in DOMAIN invited |-> [id |-> <<p, invited[i]>>, role |-> "member"]]]
  BY DEF CreateGroup
<1>2. /\ ops' = ops + 1 /\ faults' = faults /\ ops + faults < MaxSteps
      /\ tasks' = [tasks EXCEPT ![p] = @ \cup new]
  BY <1>1 DEF Begin
<1>3. p \in Devices /\ MaxSteps \in Nat
  BY ConstantTypes, GroupAssumption
<1>4. rec \in [key : 1..1, rot : Nat, name : {"old", "new"}]
  OBVIOUS
<1>5. \A t \in new : Handler(p, t, 1, ops + 1)
  <2>1. Carrier(p, KeyBody(rec), 1, ops + 1) /\ KeyBody(rec).type = "key"
    BY <1>4, KeyCarrier
  <2>2. Follows(p, ops + 1, KeyBody(rec), Nothing)
    BY <2>1 DEF Follows, Nothing, Farewell
  <2>3. IsSeq(invited) /\ ToSet(invited) \subseteq Hearers(p)
    BY ConstantTypes DEF Hearers
  <2>4. QED
    BY <2>1, <2>2, <2>3, SendOf
<1>6. \A t \in tasks[p] : Handler(p, t, 1, ops + 1)
  BY <1>1, <1>3, AtHome, Grown
<1>7. GroupOK(<<rec>>, 1)
  BY <1>4, SingleOf DEF GroupOK
<1>8. KeysOK({FirstKey}, 1)
  BY DEF KeysOK, FirstKey
<1>9. TextsOK(p, texts'[p], ops')
  BY <1>1, <1>2, <1>3, AtHome, Grown
<1>10. RosterOK(p, roster'[p])
  BY <1>1, <1>3, FirstRoster, AtHome
<1> HIDE DEF new, rec, Base
<1>11. \A t \in tasks'[p] : Handler(p, t, made', ops')
  BY <1>1, <1>2, <1>3, <1>5, <1>6, AtHome
<1>12. GroupOK(group'[p], made') /\ KeysOK(keys'[p], made')
  BY <1>1, <1>3, <1>7, <1>8, AtHome
<1>13. QED
  BY <1>1, <1>2, <1>3, <1>9, <1>10, <1>11, <1>12, AtHome DEF Acts

LEMMA AddActs ==
  ASSUME Base, NEW p \in Devices, NEW q \in Devices \ {p}, AddGroupMember(p, q)
  PROVE  Acts(p)
<1> DEFINE new == IF HasKey(p, Record(p).key)
                  THEN Send(ops + 1, <<q>>, KeyBody(Record(p)), [type |-> "added", id |-> <<p, q>>])
                  ELSE {}
<1>1. /\ IsAdmin(p) /\ InGroup(p) /\ roster' = [roster EXCEPT ![p] = WithMember(@, <<p, q>>)]
      /\ Begin(p, new) /\ UNCHANGED <<group, keys, texts, made>>
  BY DEF AddGroupMember
<1>2. /\ ops' = ops + 1 /\ faults' = faults /\ ops + faults < MaxSteps
      /\ tasks' = [tasks EXCEPT ![p] = @ \cup new]
  BY <1>1 DEF Begin
<1>3. p = Creator /\ MaxSteps \in Nat
  BY <1>1, AdminIsCreator, GroupAssumption
<1>4. <<p, q>> \in Peers(p) /\ <<p, q>> \in ListedBy(p) /\ <<p, q>> # Self
  BY <1>3, IdTypes DEF ListedBy
<1>5. \A t \in new : Handler(p, t, made, ops + 1)
  <2>1. Carrier(p, KeyBody(Record(p)), made, ops + 1) /\ KeyBody(Record(p)).type = "key"
    BY <1>1, <1>3, RecordOf, KeyCarrier
  <2>2. Follows(p, ops + 1, KeyBody(Record(p)), [type |-> "added", id |-> <<p, q>>])
    BY <1>3, <1>4, <2>1 DEF Follows, Notices, Farewell
  <2>3. IsSeq(<<q>>) /\ ToSet(<<q>>) \subseteq Hearers(p)
    BY <1>3, SingleOf, IdTypes
  <2>4. QED
    BY <2>1, <2>2, <2>3, SendOf
<1>6. \A t \in tasks[p] : Handler(p, t, made, ops + 1)
  BY AtHome, Grown
<1>7. RosterOK(p, roster'[p])
  BY <1>1, <1>3, <1>4, AtHome, WithMemberOf
<1>8. TextsOK(p, texts'[p], ops')
  BY <1>1, <1>2, AtHome, Grown
<1> HIDE DEF new, Base
<1>9. \A t \in tasks'[p] : Handler(p, t, made', ops')
  BY <1>1, <1>2, <1>5, <1>6, AtHome
<1>10. QED
  BY <1>1, <1>2, <1>3, <1>7, <1>8, <1>9, AtHome DEF Acts

LEMMA RemoveActs ==
  ASSUME Base, NEW p \in Devices, NEW m \in ToSet(roster[p]), m.id # Self, RemoveGroupMember(p, m.id)
  PROVE  Acts(p)
<1> DEFINE t == [do |-> "rotate", n |-> ops + 1, id |-> m.id, rot |-> NextRotation(Record(p))]
<1>1. p = Creator
  BY AdminIsCreator DEF RemoveGroupMember
<1>2. m.id \in Peers(p)
  BY <1>1, AtHome DEF RosterOK, ListedBy
<1>3. NextRotation(Record(p)) \in Nat
  BY RecordOf DEF RemoveGroupMember, NextRotation
<1>4. Handler(p, t, made, ops + 1)
  BY <1>1, <1>2, <1>3 DEF Handler
<1>5. Begin(p, {t}) /\ UNCHANGED <<group, roster, keys, texts, made>>
  BY DEF RemoveGroupMember
<1> HIDE DEF t
<1>6. QED
  BY <1>4, <1>5, BeginOf

\* An operation that only seals something.
LEMMA SealActs ==
  ASSUME Base, NEW p \in Devices, NEW body, NEW then,
         Begin(p, Encrypt(p, ops + 1, body, then)), UNCHANGED <<group, roster, keys, texts, made>>,
         \A k \in 1..made : LET b == Sealed(body, k) IN
                Carrier(p, b, made, ops + 1) /\ b.type # "key" /\ Follows(p, ops + 1, b, then)
  PROVE  Acts(p)
<1>1. \A t \in Encrypt(p, ops + 1, body, then) : Handler(p, t, made, ops + 1)
  BY EncryptOf, AtHome
<1>2. QED
  BY <1>1, BeginOf

LEMMA MessageActs ==
  ASSUME Base, NEW p \in Devices, SendGroupMessage(p)
  PROVE  Acts(p)
<1> DEFINE body == [type |-> "text", t |-> ops + 1]
<1>1. made \in Nat /\ ops \in Nat /\ ops + 1 \in 1..(ops + 1)
  BY AtHome
<1>2. \A k \in 1..made : LET b == Sealed(body, k) IN Carrier(p, b, made, ops + 1) /\ b.type = "text" /\ b.t = ops + 1
  BY <1>1, SealedText
<1>3. Begin(p, Encrypt(p, ops + 1, body, [type |-> "text"])) /\ UNCHANGED <<group, roster, keys, texts, made>>
  BY DEF SendGroupMessage
<1> HIDE DEF body
<1>4. \A k \in 1..made : LET b == Sealed(body, k) IN Follows(p, ops + 1, b, [type |-> "text"])
  BY <1>2 DEF Follows, Farewell
<1>5. QED
  BY <1>2, <1>3, <1>4, SealActs

LEMMA LeaveActs ==
  ASSUME Base, NEW p \in Devices, LeaveGroup(p)
  PROVE  Acts(p)
<1> DEFINE body == Removal(Self)
<1>1. made \in Nat /\ ops \in Nat
  BY AtHome
<1>2. \A k \in 1..made : LET b == Sealed(body, k) IN Carrier(p, b, made, ops + 1) /\ b.type = "removed"
  BY <1>1, SealedRemoval
<1>3. Begin(p, Encrypt(p, ops + 1, body, [type |-> "leave"])) /\ UNCHANGED <<group, roster, keys, texts, made>>
  BY DEF LeaveGroup
<1> HIDE DEF body
<1>4. \A k \in 1..made : LET b == Sealed(body, k) IN Follows(p, ops + 1, b, [type |-> "leave"])
  BY <1>2 DEF Follows, Farewell
<1>5. QED
  BY <1>2, <1>3, <1>4, SealActs

LEMMA ReceiptActs ==
  ASSUME Base, NEW p \in Devices, NEW t, SendGroupReadReceipt(p, t)
  PROVE  Acts(p)
<1> DEFINE q == texts[p][t].from[2]
           body == [type |-> "read", t |-> t, to |-> q]
<1>1. made \in Nat /\ ops \in Nat
  BY AtHome
<1>2. q \in Hearers(p)
  <2>1. t \in DOMAIN texts[p] /\ texts[p][t].from # Self
    BY DEF SendGroupReadReceipt
  <2>2. texts[p][t].from \in (IF p = Creator THEN Peers(p) ELSE {<<p, Creator>>})
    BY <2>1, AtHome DEF TextsOK
  <2>3. texts[p][t].from \in Peers(p)
    BY <2>2, IdTypes, ConstantTypes
  <2>4. q \in Devices \ {p} /\ (p # Creator => q = Creator)
    BY <2>2, <2>3, IdTypes
  <2>5. QED
    BY <2>4, ConstantTypes, IdTypes
<1>3. Begin(p, Encrypt(p, ops + 1, body, Nothing)) /\ UNCHANGED <<group, roster, keys, texts, made>>
  BY DEF SendGroupReadReceipt
<1> HIDE DEF q
<1>4. \A k \in 1..made : LET b == Sealed(body, k) IN Carrier(p, b, made, ops + 1) /\ b.type = "read"
  BY <1>1, <1>2, SealedReceipt
<1> HIDE DEF body
<1>5. \A k \in 1..made : LET b == Sealed(body, k) IN Follows(p, ops + 1, b, Nothing)
  BY <1>4 DEF Follows, Farewell, Nothing
<1>6. QED
  BY <1>3, <1>4, <1>5, SealActs

LEMMA RoleActs ==
  ASSUME Base, NEW p \in Devices, NEW m \in ToSet(roster[p]), NEW role \in {"admin", "member"},
         ChangeRole(p, m.id, role)
  PROVE  Acts(p)
<1> DEFINE body == [type |-> "role", id |-> m.id, role |-> role]
           new == Encrypt(p, ops + 1, body, Nothing)
<1>1. p = Creator
  BY AdminIsCreator DEF ChangeRole
<1>2. /\ roster' = [roster EXCEPT ![p] = WithRole(@, m.id, role)] /\ Begin(p, new)
      /\ UNCHANGED <<group, keys, texts, made>>
  BY DEF ChangeRole
<1>3. /\ ops' = ops + 1 /\ faults' = faults /\ ops + faults < MaxSteps
      /\ tasks' = [tasks EXCEPT ![p] = @ \cup new]
  BY <1>2 DEF Begin
<1>4. \A t \in new : Handler(p, t, made, ops + 1)
  <2>1. made \in Nat /\ ops \in Nat
    BY AtHome
  <2>2. \A k \in 1..made : LET b == Sealed(body, k) IN Carrier(p, b, made, ops + 1) /\ b.type = "role"
    <3>1. m.id \in {Self} \cup Peers(p)
      BY <1>1, AtHome DEF RosterOK, ListedBy
    <3>2. QED
      BY <1>1, <2>1, <3>1, SealedRole
  <2> HIDE DEF body
  <2>3. \A k \in 1..made : LET b == Sealed(body, k) IN Follows(p, ops + 1, b, Nothing)
    BY <2>2 DEF Follows, Farewell, Nothing
  <2>4. QED
    BY <2>1, <2>2, <2>3, EncryptOf, AtHome, Grown, SMTT(60)
<1>5. RosterOK(p, roster'[p])
  BY <1>1, <1>2, AtHome, WithRoleOf
<1>6. TextsOK(p, texts'[p], ops') /\ \A t \in tasks[p] : Handler(p, t, made, ops + 1)
  BY <1>2, <1>3, AtHome, Grown
<1>7. MaxSteps \in Nat
  BY GroupAssumption
<1> HIDE DEF new, Base
<1>8. \A t \in tasks'[p] : Handler(p, t, made', ops')
  BY <1>2, <1>3, <1>4, <1>6, AtHome
<1>9. QED
  BY <1>2, <1>3, <1>5, <1>6, <1>7, <1>8, AtHome DEF Acts

LEMMA NameActs ==
  ASSUME Base, NEW p \in Devices, UpdateGroupName(p)
  PROVE  Acts(p)
<1> DEFINE body == [type |-> "name", name |-> "new"]
           new == Encrypt(p, ops + 1, body, Nothing)
<1>1. p = Creator
  BY AdminIsCreator DEF UpdateGroupName
<1>2. /\ group' = [group EXCEPT ![p] = WithName(@, "new")] /\ Begin(p, new)
      /\ UNCHANGED <<roster, keys, texts, made>>
  BY DEF UpdateGroupName
<1>3. /\ ops' = ops + 1 /\ faults' = faults /\ ops + faults < MaxSteps
      /\ tasks' = [tasks EXCEPT ![p] = @ \cup new]
  BY <1>2 DEF Begin
<1>4. \A t \in new : Handler(p, t, made, ops + 1)
  <2>1. made \in Nat /\ made <= made
    BY AtHome
  <2>2. \A k \in 1..made : LET b == Sealed(body, k) IN Carrier(p, b, made, ops + 1) /\ b.type = "name"
    BY <1>1, <2>1, AtHome, SealedName
  <2> HIDE DEF body
  <2>3. \A k \in 1..made : LET b == Sealed(body, k) IN Follows(p, ops + 1, b, Nothing)
    BY <2>2 DEF Follows, Farewell, Nothing
  <2>4. \A t \in Encrypt(p, ops + 1, body, Nothing) : Handler(p, t, made, ops + 1)
    BY <2>1, <2>2, <2>3, EncryptOf
  <2>5. QED
    BY <2>4
<1>5. GroupOK(group'[p], made)
  BY <1>2, AtHome, WithNameOf
<1>6. TextsOK(p, texts'[p], ops') /\ \A t \in tasks[p] : Handler(p, t, made, ops + 1)
  BY <1>2, <1>3, AtHome, Grown
<1>7. MaxSteps \in Nat
  BY GroupAssumption
<1> HIDE DEF new, Base
<1>8. \A t \in tasks'[p] : Handler(p, t, made', ops')
  BY <1>2, <1>3, <1>4, <1>6, AtHome
<1>9. QED
  BY <1>2, <1>3, <1>5, <1>6, <1>7, <1>8, AtHome DEF Acts

-----------------------------------------------------------------------------
(* The same for the steps behind an await                                  *)

LEMMA SwapOf ==
  ASSUME Base, NEW p \in Devices, NEW t, NEW new, Swap(p, t, new), made' \in Nat, made <= made',
         ops' = ops, \A u \in new : Handler(p, u, made', ops)
  PROVE  /\ DOMAIN tasks' = Devices /\ \A r \in Devices \ {p} : tasks'[r] = tasks[r]
         /\ tasks'[p] = (tasks[p] \ {t}) \cup new
         /\ \A u \in tasks'[p] : Handler(p, u, made', ops')
<1>1. tasks' = [tasks EXCEPT ![p] = (@ \ {t}) \cup new]
  BY DEF Swap
<1>2. \A u \in tasks[p] : Handler(p, u, made', ops)
  BY AtHome, Grown
<1>3. QED
  BY <1>1, <1>2, AtHome

LEMMA RotatedActs ==
  ASSUME Base, NEW p \in Devices, NEW t \in tasks[p], Rotated(p, t)
  PROVE  /\ Acts(p) /\ p = Creator /\ t.id \in Peers(p)
         /\ InGroup(p)' <=> InGroup(p)
         /\ InGroup(p)' => /\ Record(p)'.key = made + 1 /\ Record(p)'.rot = t.rot
                           /\ Record(p)'.name = Record(p).name
         /\ IdsOf(roster'[p]) = IdsOf(roster[p]) \ {t.id}
         /\ \A u \in tasks'[p] : u \in tasks[p] \/
              /\ u.do = "send" /\ \A q \in ToSet(u.to) : <<p, q>> \in IdsOf(roster'[p])
         /\ ~InGroup(p) => tasks'[p] = tasks[p] \ {t}
         /\ InGroup(p) => \E u :
              /\ tasks'[p] = (tasks[p] \ {t}) \cup {u} /\ u.do = "send" /\ u.then = Removal(t.id)
              /\ u.body.type = "key" /\ u.body.key = made + 1 /\ u.body.rot = t.rot
              /\ u.body.name = Record(p).name
              /\ \A q \in Hearers(p) : q \in ToSet(u.to) <=> <<p, q>> \in IdsOf(roster'[p])
<1> DEFINE k == made + 1
           to == Remaining(p, t.id)
           body == KeyBody([Record(p) EXCEPT !.key = k, !.rot = t.rot])
           new == IF InGroup(p) THEN Send(t.n, to, body, Removal(t.id)) ELSE {}
<1>1. /\ t.do = "rotate" /\ made' = k
      /\ keys' = [keys EXCEPT ![p] = WithoutOldKeys(@ \cup {[id |-> k, rot |-> t.rot]}, t.rot)]
      /\ roster' = [roster EXCEPT ![p] = WithoutMember(@, t.id)]
      /\ group' = [group EXCEPT ![p] = WithKey(@, k, t.rot)]
      /\ Swap(p, t, new) /\ UNCHANGED <<texts, ops, faults>>
  BY DEF Rotated
<1>2. Handler(p, t, made, ops) /\ made \in Nat /\ k \in Nat /\ k \in 1..k /\ made <= k /\ ops \in Nat
  BY AtHome
<1>3. p = Creator /\ t.id \in Peers(p) /\ t.rot \in Nat
  BY <1>1, <1>2 DEF Handler
<1>4. /\ RosterOK(p, WithoutMember(roster[p], t.id))
      /\ IdsOf(WithoutMember(roster[p], t.id)) = IdsOf(roster[p]) \ {t.id}
  BY AtHome, WithoutMemberOf
<1>5. roster'[p] = WithoutMember(roster[p], t.id) /\ \A r \in Devices \ {p} : roster'[r] = roster[r]
  BY <1>1, AtHome
<1>6. /\ IsSeq(to) /\ ToSet(to) \subseteq Hearers(p)
      /\ \A q \in Hearers(p) : q \in ToSet(to) <=> <<p, q>> \in IdsOf(roster'[p])
  BY <1>4, <1>5, ContactsOf DEF Remaining
<1>7. /\ GroupOK(WithKey(group[p], k, t.rot), k) /\ (WithKey(group[p], k, t.rot) = <<>> <=> group[p] = <<>>)
      /\ group[p] # <<>> => /\ Head(WithKey(group[p], k, t.rot)).key = k
                            /\ Head(WithKey(group[p], k, t.rot)).rot = t.rot
                            /\ Head(WithKey(group[p], k, t.rot)).name = Head(group[p]).name
  <2>1. GroupOK(group[p], made)
    BY AtHome
  <2> DEFINE rs == group[p]  rot == t.rot
  <2>2. GroupOK(rs, made) /\ rot \in Nat /\ made \in Nat /\ k \in Nat /\ made <= k /\ k \in 1..k
    BY <1>2, <1>3, <2>1
  <2> HIDE DEF k, rs, rot, Base
  <2>3. /\ GroupOK(WithKey(rs, k, rot), k) /\ (WithKey(rs, k, rot) = <<>> <=> rs = <<>>)
        /\ rs # <<>> => /\ Head(WithKey(rs, k, rot)).key = k /\ Head(WithKey(rs, k, rot)).rot = rot
                        /\ Head(WithKey(rs, k, rot)).name = Head(rs).name
    BY <2>2, WithKeyOf
  <2>4. QED
    BY <2>3 DEF rs, rot
<1>8. \A u \in new : Handler(p, u, k, ops) /\ u.do = "send" /\ u.to = to /\ u.then = Removal(t.id) /\ u.body = body
  <2>1. SUFFICES ASSUME InGroup(p)
                 PROVE  \A u \in Send(t.n, to, body, Removal(t.id)) :
                          Handler(p, u, k, ops) /\ u.do = "send" /\ u.to = to /\ u.then = Removal(t.id) /\ u.body = body
    OBVIOUS
  <2>2. [Record(p) EXCEPT !.key = k, !.rot = t.rot] \in [key : 1..k, rot : Nat, name : {"old", "new"}]
    BY <1>2, <1>3, <2>1, RecordOf, RekeyOf
  <2>3. Carrier(p, body, k, ops) /\ body.type = "key"
    BY <1>3, <2>2, KeyCarrier
  <2> HIDE DEF body
  <2>4. Follows(p, t.n, body, Removal(t.id))
    BY <1>3, <2>3 DEF Follows, Notices, Farewell, Removal
  <2>5. QED
    BY <1>6, <2>3, <2>4, SendOf
<1>9. KeysOK(keys'[p], k)
  <2>1. keys[p] \subseteq [id : 1..k, rot : Nat]
    BY <1>2, AtHome, Grown DEF KeysOK
  <2>2. keys'[p] = WithoutOldKeys(keys[p] \cup {[id |-> k, rot |-> t.rot]}, t.rot)
    BY <1>1, AtHome
  <2>3. keys'[p] \subseteq keys[p] \cup {[id |-> k, rot |-> t.rot]}
    BY <2>2 DEF WithoutOldKeys
  <2>4. QED
    BY <1>2, <1>3, <2>1, <2>3 DEF KeysOK
<1>10. group'[p] = WithKey(group[p], k, t.rot)
  BY <1>1, AtHome
<1> HIDE DEF new, body, to
<1>11. /\ DOMAIN tasks' = Devices /\ \A r \in Devices \ {p} : tasks'[r] = tasks[r]
       /\ tasks'[p] = (tasks[p] \ {t}) \cup new
       /\ \A u \in tasks'[p] : Handler(p, u, made', ops')
  BY <1>1, <1>2, <1>8, SwapOf
<1> HIDE DEF Base
<1>12. Acts(p)
  BY <1>1, <1>2, <1>4, <1>5, <1>7, <1>9, <1>10, <1>11, AtHome DEF Acts
<1>13. QED
  <2>1. ~InGroup(p) => new = {}
    BY DEF new
  <2>2. InGroup(p) => \E u : new = {u}
    BY DEF new, Send
  <2>3. InGroup(p) => /\ body.type = "key" /\ body.key = k /\ body.rot = t.rot
                      /\ body.name = Record(p).name
    <3>1. SUFFICES ASSUME InGroup(p)
                   PROVE  body.type = "key" /\ body.key = k /\ body.rot = t.rot /\ body.name = Record(p).name
      OBVIOUS
    <3> DEFINE rec == [Record(p) EXCEPT !.key = k, !.rot = t.rot]
    <3>2. /\ rec \in [key : 1..k, rot : Nat, name : {"old", "new"}]
          /\ rec.key = k /\ rec.rot = t.rot /\ rec.name = Record(p).name
      BY <1>2, <1>3, <3>1, RecordOf, RekeyOf
    <3> HIDE DEF rec
    <3>3. KeyBody(rec).type = "key" /\ KeyBody(rec).key = k /\ KeyBody(rec).rot = t.rot /\ KeyBody(rec).name = Record(p).name
      BY <3>2, KeyCarrier
    <3>4. QED
      BY <3>3 DEF body, rec
  <2>4. (InGroup(p)' <=> InGroup(p)) /\
        (InGroup(p)' => Record(p)'.key = k /\ Record(p)'.rot = t.rot /\ Record(p)'.name = Record(p).name)
    BY <1>7, <1>10 DEF InGroup, Record
  <2>5. \A u \in tasks'[p] : u \in tasks[p] \/
              /\ u.do = "send" /\ \A q \in ToSet(u.to) : <<p, q>> \in IdsOf(roster'[p])
    BY <1>6, <1>8, <1>11
  <2>6. InGroup(p) => \E u :
              /\ tasks'[p] = (tasks[p] \ {t}) \cup {u} /\ u.do = "send" /\ u.then = Removal(t.id)
              /\ u.body.type = "key" /\ u.body.key = k /\ u.body.rot = t.rot
              /\ u.body.name = Record(p).name
              /\ \A q \in Hearers(p) : q \in ToSet(u.to) <=> <<p, q>> \in IdsOf(roster'[p])
    BY <1>6, <1>8, <1>11, <2>2, <2>3
  <2>7. QED
    BY <1>1, <1>3, <1>4, <1>5, <1>11, <1>12, <2>1, <2>4, <2>5, <2>6

LEMMA EncryptedActs ==
  ASSUME Base, NEW p \in Devices, NEW t \in tasks[p], Encrypted(p, t)
  PROVE  /\ Acts(p)
         /\ \E to : tasks'[p] = (tasks[p] \ {t}) \cup Send(t.n, to, t.body, t.then)
         /\ Carrier(p, t.body, made, ops) /\ t.body.type # "key" /\ Follows(p, t.n, t.body, t.then)
<1> DEFINE to == IF t.body.type = "read" THEN <<t.body.to>> ELSE Contacts(p, roster[p])
           new == Send(t.n, to, t.body, t.then)
<1>1. /\ t.do = "encrypt" /\ Swap(p, t, new)
      /\ texts' = [texts EXCEPT ![p] =
           IF t.then.type = "text" THEN AddText(@, t.body.t, Self, "sending") ELSE @]
      /\ UNCHANGED <<group, roster, keys, ops, made, faults>>
  BY DEF Encrypted
<1>2. Handler(p, t, made, ops) /\ made \in Nat /\ ops \in Nat
  BY AtHome
<1>3. Carrier(p, t.body, made, ops) /\ t.body.type # "key" /\ Follows(p, t.n, t.body, t.then)
  BY <1>1, <1>2 DEF Handler
<1>4. IsSeq(to) /\ ToSet(to) \subseteq Hearers(p)
  <2>1. CASE t.body.type = "read"
    BY <1>3, <2>1, SingleOf DEF Carrier
  <2>2. CASE t.body.type # "read"
    BY <2>2, AtHome, ContactsOf
  <2>3. QED
    BY <2>1, <2>2
<1>5. TextsOK(p, texts'[p], ops)
  <2>1. TextsOK(p, texts[p], ops)
    BY AtHome
  <2>2. CASE t.then.type = "text"
    <3>1. t.body.t \in 1..ops
      BY <1>3, <2>2 DEF Follows, Carrier
    <3>2. texts'[p] = AddText(texts[p], t.body.t, Self, "sending")
      BY <1>1, <2>2, AtHome
    <3>3. "sending" \in Status
      BY DEF Status
    <3>4. QED
      BY <2>1, <3>1, <3>2, <3>3, AddTextOf
  <2>3. CASE t.then.type # "text"
    BY <1>1, <2>1, <2>3, AtHome
  <2>4. QED
    BY <2>2, <2>3
<1> HIDE DEF to
<1>6. \A u \in new : Handler(p, u, made, ops)
  BY <1>3, <1>4, SendOf
<1> HIDE DEF new
<1>7. /\ DOMAIN tasks' = Devices /\ \A r \in Devices \ {p} : tasks'[r] = tasks[r]
      /\ tasks'[p] = (tasks[p] \ {t}) \cup new
      /\ \A u \in tasks'[p] : Handler(p, u, made', ops')
  BY <1>1, <1>2, <1>6, SwapOf
<1> HIDE DEF Base
<1>8. Acts(p)
  BY <1>1, <1>2, <1>5, <1>7, AtHome DEF Acts
<1>9. QED
  BY <1>3, <1>7, <1>8 DEF new

\* A turn of the loop: the device whose turn it is gets the carrier, or nothing.
LEMMA AcceptedOf ==
  ASSUME Base, NEW p \in Devices, NEW t \in tasks[p], t.do = "send", t.to # <<>>,
         Accepted(p, t) \/ UNCHANGED chan
  PROVE  /\ DOMAIN chan' = Devices /\ \A r \in Devices : DOMAIN chan'[r] = Devices
         /\ \A r, q \in Devices : IsSeq(chan'[r][q])
         /\ \A r, q \in Devices : \A b \in ToSet(chan'[r][q]) :
              b \in ToSet(chan[r][q]) \/ (r = p /\ q \in ToSet(t.to) /\ q \in Hearers(p) /\ b = t.body)
         /\ Carrier(p, t.body, made, ops)
<1>1. DOMAIN chan = Devices /\ \A r \in Devices : DOMAIN chan[r] = Devices /\ \A q \in Devices : IsSeq(chan[r][q])
  BY DEF Base, ChanInv
<1>2. Carrier(p, t.body, made, ops) /\ IsSeq(t.to) /\ ToSet(t.to) \subseteq Hearers(p)
  BY AtHome DEF Handler
<1>3. Head(t.to) \in ToSet(t.to) /\ Head(t.to) \in Hearers(p) /\ Head(t.to) \in Devices \ {p}
  BY <1>2, TailOf, IdTypes
<1>4. CASE chan' = chan
  BY <1>1, <1>2, <1>4
<1>5. CASE chan' = [chan EXCEPT ![p][Head(t.to)] = Append(@, t.body)]
  <2> DEFINE h == Head(t.to)
  <2>1. /\ DOMAIN chan' = Devices /\ \A r \in Devices : DOMAIN chan'[r] = Devices
        /\ \A r, q \in Devices : chan'[r][q] = IF r = p /\ q = h THEN Append(chan[p][h], t.body) ELSE chan[r][q]
    BY <1>1, <1>3, <1>5
  <2>2. /\ IsSeq(Append(chan[p][h], t.body))
        /\ ToSet(Append(chan[p][h], t.body)) = ToSet(chan[p][h]) \cup {t.body}
    BY <1>1, <1>3, AppendOf
  <2>3. QED
    BY <1>1, <1>2, <1>3, <2>1, <2>2
<1>6. QED
  BY <1>4, <1>5 DEF Accepted

LEMMA HeadIsDevice ==
  ASSUME Base, NEW p \in Devices, NEW t \in tasks[p], t.do = "send", t.to # <<>>
  PROVE  Head(t.to) \in Devices
<1>1. IsSeq(t.to) /\ ToSet(t.to) \subseteq Hearers(p)
  BY AtHome DEF Handler
<1>2. QED
  BY <1>1, TailOf, IdTypes

LEMMA SendsActs ==
  ASSUME Base, NEW p \in Devices, NEW t \in tasks[p], SendsOne(p, t)
  PROVE  /\ Acts(p)
         /\ \E u : /\ tasks'[p] = (tasks[p] \ {t}) \cup {u} /\ u.do = "send"
                   /\ u.n = t.n /\ u.body = t.body /\ u.then = t.then /\ ToSet(u.to) \subseteq ToSet(t.to)
                   /\ ToSet(t.to) = {Head(t.to)} \cup ToSet(u.to)
<1> DEFINE u == [t EXCEPT !.to = Tail(@)]
<1>1. /\ t.do = "send" /\ t.to # <<>> /\ Swap(p, t, {u})
      /\ UNCHANGED <<group, roster, keys, texts, ops, made, faults>>
  BY DEF SendsOne
<1>2. Handler(p, t, made, ops) /\ made \in Nat /\ ops \in Nat
  BY AtHome
<1>3. /\ Carrier(p, t.body, made, ops) /\ Follows(p, t.n, t.body, t.then)
      /\ t = [do |-> "send", n |-> t.n, to |-> t.to, body |-> t.body, then |-> t.then]
      /\ IsSeq(t.to) /\ ToSet(t.to) \subseteq Hearers(p)
  BY <1>1, <1>2 DEF Handler, Send
<1>4. u = [do |-> "send", n |-> t.n, to |-> Tail(t.to), body |-> t.body, then |-> t.then]
  <2> DEFINE n == t.n  to == t.to  body == t.body  then == t.then
  <2>1. t = [do |-> "send", n |-> n, to |-> to, body |-> body, then |-> then]
    BY <1>3
  <2> HIDE DEF n, to, body, then
  <2>2. u = [do |-> "send", n |-> n, to |-> Tail(to), body |-> body, then |-> then]
    <3> DEFINE rest == Tail(t.to)
    <3>1. u = [t EXCEPT !.to = rest]
      OBVIOUS
    <3>2. t.to = to
      BY <2>1
    <3> HIDE DEF rest, u
    <3>3. [t EXCEPT !.to = rest] = [do |-> "send", n |-> n, to |-> rest, body |-> body, then |-> then]
      BY <2>1
    <3>4. rest = Tail(to)
      BY <3>2 DEF rest
    <3>5. QED
      BY <3>1, <3>3, <3>4
  <2>3. QED
    BY <2>2 DEF n, to, body, then
<1>5. u.do = "send" /\ u.n = t.n /\ u.body = t.body /\ u.then = t.then /\ u.to = Tail(t.to)
  BY <1>4
<1>6. IsSeq(Tail(t.to)) /\ ToSet(Tail(t.to)) \subseteq ToSet(t.to) /\ ToSet(t.to) = {Head(t.to)} \cup ToSet(Tail(t.to))
  BY <1>1, <1>3, TailOf
<1> HIDE DEF u
<1>7. Handler(p, u, made, ops)
  BY <1>3, <1>4, <1>5, <1>6 DEF Handler, Send
<1>8. /\ DOMAIN tasks' = Devices /\ \A r \in Devices \ {p} : tasks'[r] = tasks[r]
      /\ tasks'[p] = (tasks[p] \ {t}) \cup {u}
      /\ \A v \in tasks'[p] : Handler(p, v, made', ops')
  BY <1>1, <1>2, <1>7, SwapOf
<1> HIDE DEF Base
<1>9. Acts(p)
  BY <1>1, <1>2, <1>8, AtHome DEF Acts
<1>10. QED
  BY <1>5, <1>6, <1>8, <1>9

LEMMA FailsActs ==
  ASSUME Base, NEW p \in Devices, NEW t \in tasks[p], SendFails(p, t)
  PROVE  Acts(p) /\ tasks'[p] = tasks[p] \ {t}
<1>1. /\ t.do = "send" /\ t.to # <<>> /\ Swap(p, t, {}) /\ ops + faults < MaxSteps /\ faults' = faults + 1
      /\ texts' = [texts EXCEPT ![p] =
           IF t.then.type = "text" THEN WithStatus(@, t.body.t, "failed") ELSE @]
      /\ UNCHANGED <<group, roster, keys, ops, made>>
  BY DEF SendFails
<1>2. made \in Nat /\ ops \in Nat /\ faults \in Nat /\ MaxSteps \in Nat /\ TextsOK(p, texts[p], ops)
  BY AtHome, GroupAssumption
<1>3. TextsOK(p, texts'[p], ops)
  <2>1. "failed" \in Status
    BY DEF Status
  <2>2. texts'[p] = texts[p] \/ texts'[p] = WithStatus(texts[p], t.body.t, "failed")
    BY <1>1, AtHome
  <2>3. QED
    BY <1>2, <2>1, <2>2, WithStatusOf
<1>4. /\ DOMAIN tasks' = Devices /\ \A r \in Devices \ {p} : tasks'[r] = tasks[r]
      /\ tasks'[p] = (tasks[p] \ {t}) \cup {}
      /\ \A v \in tasks'[p] : Handler(p, v, made', ops')
  BY <1>1, <1>2, SwapOf
<1> HIDE DEF Base
<1>5. QED
  BY <1>1, <1>2, <1>3, <1>4, AtHome DEF Acts

LEMMA ReloadActs ==
  ASSUME Base, NEW p \in Devices, Reload(p)
  PROVE  Acts(p) /\ tasks'[p] = {}
<1>1. /\ tasks' = [tasks EXCEPT ![p] = {}] /\ ops + faults < MaxSteps /\ faults' = faults + 1
      /\ UNCHANGED <<group, roster, keys, texts, ops, made>>
  BY DEF Reload
<1>2. MaxSteps \in Nat
  BY GroupAssumption
<1> HIDE DEF Base
<1>3. QED
  BY <1>1, <1>2, AtHome DEF Acts

\* A device that has left has no group any more.
LEMMA EmptyStores ==
  ASSUME NEW p \in Devices, NEW m, NEW o
  PROVE  GroupOK(<<>>, m) /\ RosterOK(p, <<>>) /\ KeysOK({}, m) /\ TextsOK(p, None, o)
<1>1. IsSeq(<<>>) /\ ToSet(<<>>) = {} /\ DOMAIN <<>> = {}
  BY EmptyOf
<1>2. QED
  BY <1>1 DEF GroupOK, RosterOK, KeysOK, TextsOK, None

LEMMA EndsActs ==
  ASSUME Base, NEW p \in Devices, NEW t \in tasks[p], LoopEnds(p, t)
  PROVE  /\ Acts(p) /\ Follows(p, t.n, t.body, t.then)
         /\ \A u \in tasks'[p] : (u \in tasks[p] /\ u # t) \/ (u.do = "encrypt" /\ u.then = Nothing)
         /\ \A u \in tasks[p] : u = t \/ u \in tasks'[p]
         /\ \/ tasks'[p] = tasks[p] \ {t}
            \/ \E u : /\ tasks'[p] = (tasks[p] \ {t}) \cup {u} /\ u.do = "encrypt" /\ InGroup(p) /\ p = Creator
                     /\ u.body.with = Record(p).key /\ u.body.type \in {"added", "removed"}
<1> DEFINE new == IF t.then.type \in {"added", "removed"} THEN Encrypt(p, t.n, t.then, Nothing) ELSE {}
<1>1. /\ t.do = "send" /\ Swap(p, t, new) /\ UNCHANGED <<ops, made, faults>>
      /\ \/ RemoveGroup(p)
         \/ /\ UNCHANGED <<group, roster, keys>>
            /\ texts' = [texts EXCEPT ![p] = IF t.then.type = "text" THEN Delivered(@, t.body.t) ELSE @]
  BY DEF LoopEnds
<1>2. Handler(p, t, made, ops) /\ made \in Nat /\ ops \in Nat /\ faults \in Nat
  BY AtHome
<1>3. Follows(p, t.n, t.body, t.then)
  BY <1>1, <1>2 DEF Handler
<1>4. \A u \in new : /\ Handler(p, u, made, ops) /\ u.do = "encrypt" /\ u.then = Nothing
                     /\ InGroup(p) /\ p = Creator /\ u.body.with = Record(p).key
                     /\ u.body.type \in {"added", "removed"}
  <2>1. SUFFICES ASSUME t.then.type \in {"added", "removed"}
                 PROVE  \A u \in Encrypt(p, t.n, t.then, Nothing) :
                          /\ Handler(p, u, made, ops) /\ u.do = "encrypt" /\ u.then = Nothing
                          /\ InGroup(p) /\ p = Creator /\ u.body.with = Record(p).key
                          /\ u.body.type \in {"added", "removed"}
    OBVIOUS
  <2>2. p = Creator /\ \E i \in Peers(p) : t.then \in {[type |-> "added", id |-> i], Removal(i)}
    BY <1>3, <2>1, FollowsOf
  <2>3. PICK i \in Peers(p) : t.then \in {[type |-> "added", id |-> i], Removal(i)}
    BY <2>2
  <2>4. i # Self
    BY <2>3, IdTypes
  <2>5. \A k \in 1..made : LET b == Sealed(t.then, k) IN Carrier(p, b, made, ops) /\ b.type \in {"added", "removed"} /\ ~Farewell(b)
    <3>1. CASE t.then = [type |-> "added", id |-> i]
      BY <1>2, <2>2, <3>1, SealedAdded DEF Farewell
    <3>2. CASE t.then = Removal(i)
      BY <1>2, <2>2, <2>4, <3>2, SealedRemoval DEF Farewell
    <3>3. QED
      BY <2>3, <3>1, <3>2
  <2>6. \A k \in 1..made : Follows(p, t.n, Sealed(t.then, k), Nothing)
    BY <2>5 DEF Follows, Nothing
  <2>7. /\ \A u \in Encrypt(p, t.n, t.then, Nothing) :
             /\ Handler(p, u, made, ops) /\ u.do = "encrypt" /\ u.then = Nothing
             /\ InGroup(p) /\ u.body = Sealed(t.then, Record(p).key) /\ u.body.with = Record(p).key
    BY <1>2, <2>5, <2>6, EncryptOf
  <2>8. InGroup(p) => Record(p).key \in 1..made
    BY RecordOf
  <2>9. QED
    BY <2>2, <2>5, <2>7, <2>8
<1>9. new = {} \/ \E u : new = {u}
  BY DEF Encrypt
<1> HIDE DEF new
<1>5. /\ DOMAIN tasks' = Devices /\ \A r \in Devices \ {p} : tasks'[r] = tasks[r]
      /\ tasks'[p] = (tasks[p] \ {t}) \cup new
      /\ \A v \in tasks'[p] : Handler(p, v, made', ops')
  BY <1>1, <1>2, <1>4, SwapOf
<1>10. \/ tasks'[p] = tasks[p] \ {t}
       \/ \E u : /\ tasks'[p] = (tasks[p] \ {t}) \cup {u} /\ u.do = "encrypt" /\ InGroup(p) /\ p = Creator
                /\ u.body.with = Record(p).key /\ u.body.type \in {"added", "removed"}
  BY <1>4, <1>5, <1>9
<1>6. CASE RemoveGroup(p)
  <2>1. /\ group' = [group EXCEPT ![p] = <<>>] /\ roster' = [roster EXCEPT ![p] = <<>>]
        /\ texts' = [texts EXCEPT ![p] = None] /\ keys' = [keys EXCEPT ![p] = {}]
    BY <1>6 DEF RemoveGroup
  <2>2. GroupOK(<<>>, made) /\ RosterOK(p, <<>>) /\ KeysOK({}, made) /\ TextsOK(p, None, ops)
    BY EmptyStores
  <2> HIDE DEF Base
  <2>3. Acts(p)
    BY <1>1, <1>2, <1>5, <2>1, <2>2, AtHome DEF Acts
  <2>4. QED
    BY <1>3, <1>4, <1>5, <1>10, <2>3
<1>7. CASE /\ UNCHANGED <<group, roster, keys>>
           /\ texts' = [texts EXCEPT ![p] = IF t.then.type = "text" THEN Delivered(@, t.body.t) ELSE @]
  <2>1. TextsOK(p, texts'[p], ops)
    <3>1. "sent" \in Status
      BY DEF Status
    <3>2. texts'[p] = texts[p] \/ texts'[p] = WithStatus(texts[p], t.body.t, "sent")
      BY <1>7, AtHome DEF Delivered
    <3>3. QED
      BY <3>1, <3>2, AtHome, WithStatusOf
  <2> HIDE DEF Base
  <2>2. Acts(p)
    BY <1>1, <1>2, <1>5, <1>7, <2>1, AtHome DEF Acts
  <2>3. QED
    BY <1>3, <1>4, <1>5, <1>10, <2>2
<1>8. QED
  BY <1>1, <1>6, <1>7

\* What arrives has been sent, by the one the receiver takes it to be from.
LEMMA ArrivesOf ==
  ASSUME Base, NEW p \in Devices, NEW q \in Devices, Arrives(p, q)
  PROVE  /\ p # q /\ q \in Hearers(p) /\ p \in Hearers(q) /\ Head(chan[p][q]) \in ToSet(chan[p][q])
         /\ Carrier(p, Head(chan[p][q]), made, ops)
         /\ DOMAIN chan' = Devices /\ \A r \in Devices : DOMAIN chan'[r] = Devices
         /\ \A r, s \in Devices : IsSeq(chan'[r][s]) /\ ToSet(chan'[r][s]) \subseteq ToSet(chan[r][s])
         /\ UNCHANGED <<group, roster, keys, texts, stuck, ops, made, faults, out>>
<1>1. /\ DOMAIN chan = Devices /\ \A r \in Devices : DOMAIN chan[r] = Devices
      /\ \A r, s \in Devices : IsSeq(chan[r][s])
      /\ \A r, s \in Devices : \A b \in ToSet(chan[r][s]) : s \in Hearers(r) /\ Carrier(r, b, made, ops)
  BY DEF Base, ChanInv
<1>2. /\ chan[p][q] # <<>> /\ chan' = [chan EXCEPT ![p][q] = Tail(@)]
      /\ UNCHANGED <<group, roster, keys, texts, stuck, ops, made, faults, out>>
  BY DEF Arrives
<1>3. /\ Head(chan[p][q]) \in ToSet(chan[p][q]) /\ IsSeq(Tail(chan[p][q]))
      /\ ToSet(Tail(chan[p][q])) \subseteq ToSet(chan[p][q])
  BY <1>1, <1>2, TailOf
<1>4. /\ DOMAIN chan' = Devices /\ \A r \in Devices : DOMAIN chan'[r] = Devices
      /\ \A r, s \in Devices : chan'[r][s] = IF r = p /\ s = q THEN Tail(chan[p][q]) ELSE chan[r][s]
  BY <1>1, <1>2
<1>5. p # q /\ q \in Hearers(p) /\ p \in Hearers(q)
  BY <1>1, <1>3, IdTypes
<1>6. QED
  BY <1>1, <1>2, <1>3, <1>4, <1>5

LEMMA GetsKeyActs ==
  ASSUME Base, NEW p \in Devices, NEW q \in Devices, GetsKey(p, q)
  PROVE  /\ Acts(q) /\ p = Creator /\ q # Creator /\ tasks[q] \subseteq tasks'[q]
         /\ \A u \in tasks'[q] : u \in tasks[q] \/
              (u.do = "store" /\ u.from = Creator /\ u.body = Head(chan[Creator][q]))
<1> DEFINE body == Head(chan[p][q])
           u == [do |-> "store", from |-> p, body |-> body, fresh |-> ~InGroup(q)]
<1>1. /\ Arrives(p, q) /\ body.type = "key"
      /\ tasks' = [tasks EXCEPT ![q] = @ \cup {u}] \/ tasks' = tasks
  BY DEF GetsKey
<1>2. /\ p # q /\ p \in Hearers(q) /\ Carrier(p, body, made, ops)
      /\ UNCHANGED <<group, roster, keys, texts, ops, made, faults>>
  BY <1>1, ArrivesOf
<1>3. p = Creator
  BY <1>1, <1>2 DEF Carrier
<1>4. u.do = "store" /\ u.from = p /\ u.body = body
  OBVIOUS
<1> HIDE DEF u
<1>5. Handler(q, u, made, ops)
  BY <1>1, <1>2, <1>3, <1>4 DEF Handler
<1>6. /\ DOMAIN tasks' = Devices /\ tasks[q] \subseteq tasks'[q] /\ tasks'[q] \subseteq tasks[q] \cup {u}
      /\ \A r \in Devices \ {q} : tasks'[r] = tasks[r]
  BY <1>1, AtHome
<1>7. Acts(q)
  BY <1>2, <1>5, <1>6, AtHome DEF Acts
<1>8. QED
  BY <1>2, <1>3, <1>4, <1>6, <1>7

LEMMA GetsCarrierActs ==
  ASSUME Base, NEW p \in Devices, NEW q \in Devices, GetsCarrier(p, q)
  PROVE  /\ Acts(q) /\ tasks[q] \subseteq tasks'[q]
         /\ \A u \in tasks'[q] : u \in tasks[q] \/
              (u.do = "apply" /\ u.from = p /\ u.body = Head(chan[p][q]))
<1> DEFINE body == Head(chan[p][q])
           u == [do |-> "apply", from |-> p, body |-> body]
<1>1. /\ Arrives(p, q)
      /\ tasks' = [tasks EXCEPT ![q] = @ \cup {u}] \/ tasks' = tasks
  BY DEF GetsCarrier
<1>2. /\ p # q /\ p \in Hearers(q) /\ Carrier(p, body, made, ops)
      /\ UNCHANGED <<group, roster, keys, texts, ops, made, faults>>
  BY <1>1, ArrivesOf
<1>3. u.do = "apply" /\ u.from = p /\ u.body = body
  OBVIOUS
<1> HIDE DEF u
<1>4. Handler(q, u, made, ops)
  BY <1>2, <1>3 DEF Handler
<1>5. /\ DOMAIN tasks' = Devices /\ tasks[q] \subseteq tasks'[q] /\ tasks'[q] \subseteq tasks[q] \cup {u}
      /\ \A r \in Devices \ {q} : tasks'[r] = tasks[r]
  BY <1>1, AtHome
<1>6. Acts(q)
  BY <1>2, <1>4, <1>5, AtHome DEF Acts
<1>7. QED
  BY <1>3, <1>5, <1>6

\* The roster a device starts a group with that it was invited to.
LEMMA GuestRoster ==
  ASSUME NEW q \in Others
  PROVE  LET r == <<[id |-> Self, role |-> "member"], [id |-> <<q, Creator>>, role |-> "admin"]>>
         IN  RosterOK(q, r) /\ <<q, Creator>> \in IdsOf(r)
<1> DEFINE a == [id |-> Self, role |-> "member"]
           b == [id |-> <<q, Creator>>, role |-> "admin"]
           r == <<a, b>>
<1>1. q \in Devices /\ q # Creator /\ Creator \in Devices
  BY ConstantTypes
<1>2. a \in Member /\ b \in Member /\ a.id = Self /\ b.id = <<q, Creator>> /\ a.role = "member" /\ b.role = "admin" /\ b.id # Self
  BY <1>1, IdTypes DEF Member
<1>3. a.id \in ListedBy(q) /\ b.id \in ListedBy(q)
  BY <1>1, <1>2 DEF ListedBy
<1> HIDE DEF a, b
<1>4. r \in Seq({a, b}) /\ DOMAIN r = 1..2 /\ r[1] = a /\ r[2] = b
  OBVIOUS
<1> HIDE DEF r
<1>5. ToSet(r) = {a, b}
  BY <1>4 DEF ToSet
<1>6. IsSeq(r)
  BY <1>4, FromSeq
<1>7. \A i, j \in DOMAIN r : r[i].id = r[j].id => i = j
  BY <1>2, <1>4
<1>8. RosterOK(q, r)
  BY <1>1, <1>2, <1>3, <1>5, <1>6, <1>7 DEF RosterOK, RoleOK
<1>9. <<q, Creator>> \in IdsOf(r)
  BY <1>2, <1>5 DEF IdsOf
<1>10. QED
  BY <1>8, <1>9 DEF r, a, b

LEMMA StoredActs ==
  ASSUME Base, NEW q \in Devices, NEW t \in tasks[q], Stored(q, t)
  PROVE  /\ Acts(q) /\ q # Creator /\ tasks'[q] = tasks[q] \ {t} /\ t.do = "store"
         /\ \A x \in keys'[q] : x \in keys[q] \/ x.id = t.body.key
         /\ \/ <<q, Creator>> \in IdsOf(roster'[q])
            \/ roster'[q] = roster[q] /\ (group'[q] = <<>> <=> group[q] = <<>>)
<1> DEFINE rec == [key |-> t.body.key, rot |-> t.body.rot, name |-> t.body.name]
           key == [id |-> t.body.key, rot |-> t.body.rot]
<1>1. /\ t.do = "store" /\ Swap(q, t, {}) /\ UNCHANGED <<ops, made, faults>>
      /\ keys' = [keys EXCEPT ![q] = @ \cup {[id |-> rec.key, rot |-> rec.rot]}]
      /\ IF t.fresh THEN AddGroup(q, rec, t.from)
         ELSE /\ group' = [group EXCEPT ![q] = WithKey(@, rec.key, rec.rot)]
              /\ UNCHANGED <<texts, roster>>
  BY DEF Stored
<1>2. Handler(q, t, made, ops) /\ made \in Nat /\ ops \in Nat /\ faults \in Nat
  BY AtHome
<1>3. /\ q # Creator /\ t.from = Creator
      /\ t.body.key \in 1..made /\ t.body.rot \in Nat /\ t.body.name \in {"old", "new"}
  BY <1>1, <1>2 DEF Handler, Carrier
<1>4. q \in Others
  BY <1>3, ConstantTypes
<1>5. /\ rec \in [key : 1..made, rot : Nat, name : {"old", "new"}] /\ key \in [id : 1..made, rot : Nat]
      /\ key.id = t.body.key /\ rec.key = t.body.key /\ rec.rot = t.body.rot
  BY <1>3
<1>6. keys'[q] = keys[q] \cup {key} /\ \A r \in Devices \ {q} : keys'[r] = keys[r]
  BY <1>1, <1>5, AtHome
<1>7. DOMAIN keys' = Devices
  BY <1>1, AtHome
<1> HIDE DEF key, rec
<1>8. KeysOK(keys'[q], made) /\ \A x \in keys'[q] : x \in keys[q] \/ x.id = t.body.key
  <2>1. keys[q] \subseteq [id : 1..made, rot : Nat]
    BY AtHome DEF KeysOK
  <2>2. QED
    BY <1>5, <1>6, <2>1 DEF KeysOK
<1>9. /\ DOMAIN tasks' = Devices /\ \A r \in Devices \ {q} : tasks'[r] = tasks[r]
      /\ tasks'[q] = tasks[q] \ {t}
      /\ \A v \in tasks'[q] : Handler(q, v, made', ops')
  BY <1>1, <1>2, SwapOf
<1>10. /\ DOMAIN group' = Devices /\ DOMAIN roster' = Devices /\ DOMAIN texts' = Devices
       /\ \A r \in Devices \ {q} : group'[r] = group[r] /\ roster'[r] = roster[r] /\ texts'[r] = texts[r]
       /\ GroupOK(group'[q], made) /\ RosterOK(q, roster'[q]) /\ TextsOK(q, texts'[q], ops)
       /\ \/ <<q, Creator>> \in IdsOf(roster'[q])
          \/ roster'[q] = roster[q] /\ (group'[q] = <<>> <=> group[q] = <<>>)
  <2>1. CASE t.fresh
    <3> DEFINE r0 == <<[id |-> Self, role |-> "member"], [id |-> <<q, Creator>>, role |-> "admin"]>>
    <3>1. /\ group' = [group EXCEPT ![q] = Append(@, rec)] /\ texts' = [texts EXCEPT ![q] = None]
          /\ roster' = [roster EXCEPT ![q] = r0]
      BY <1>1, <1>3, <2>1 DEF AddGroup
    <3>2. RosterOK(q, r0) /\ <<q, Creator>> \in IdsOf(r0)
      BY <1>4, GuestRoster
    <3>3. TextsOK(q, None, ops)
      BY EmptyStores
    <3>4. GroupOK(Append(group[q], rec), made)
      BY <1>5, AtHome, AppendOf DEF GroupOK
    <3> HIDE DEF r0
    <3>5. QED
      BY <3>1, <3>2, <3>3, <3>4, AtHome
  <2>2. CASE ~t.fresh
    <3>1. /\ group' = [group EXCEPT ![q] = WithKey(@, t.body.key, t.body.rot)]
          /\ UNCHANGED <<texts, roster>>
      BY <1>1, <1>5, <2>2
    <3>2. /\ GroupOK(WithKey(group[q], t.body.key, t.body.rot), made)
          /\ (WithKey(group[q], t.body.key, t.body.rot) = <<>> <=> group[q] = <<>>)
      <4>1. GroupOK(group[q], made) /\ made <= made
        BY <1>2, AtHome
      <4> DEFINE k == t.body.key  rot == t.body.rot  rs == group[q]
      <4>2. k \in 1..made /\ rot \in Nat /\ GroupOK(rs, made)
        BY <1>3, <4>1
      <4> HIDE DEF k, rot, rs, Base
      <4>3. GroupOK(WithKey(rs, k, rot), made) /\ (WithKey(rs, k, rot) = <<>> <=> rs = <<>>)
        BY <1>2, <4>1, <4>2, WithKeyOf
      <4>4. QED
        BY <4>3 DEF k, rot, rs
    <3>3. QED
      BY <3>1, <3>2, AtHome
  <2>3. QED
    BY <2>1, <2>2
<1> HIDE DEF Base
<1>11. Acts(q)
  BY <1>1, <1>2, <1>6, <1>7, <1>8, <1>9, <1>10, AtHome DEF Acts
<1>12. QED
  BY <1>1, <1>3, <1>8, <1>9, <1>10, <1>11

LEMMA RosterAfterOf ==
  ASSUME NEW q \in Devices, NEW from \in Devices \ {q}, q # Creator => from = Creator,
         NEW m, NEW o, NEW body, Carrier(from, body, m, o), NEW ms, RosterOK(q, ms)
  PROVE  /\ RosterOK(q, RosterAfter(ms, <<q, from>>, body))
         /\ q = Creator => IdsOf(RosterAfter(ms, <<q, from>>, body)) =
                            IF Farewell(body) THEN IdsOf(ms) \ {<<q, from>>} ELSE IdsOf(ms)
         /\ q # Creator /\ ~Farewell(body) /\ <<q, Creator>> \in IdsOf(ms) =>
              <<q, Creator>> \in IdsOf(RosterAfter(ms, <<q, from>>, body))
<1> DEFINE r == RosterAfter(ms, <<q, from>>, body)
<1>1. body.type \in {"key", "text", "read", "added", "removed", "role", "name"}
  BY DEF Carrier
<1>2. CASE body.type = "added"
  <2>1. r = WithMember(ms, body.id)
    BY <1>2 DEF RosterAfter
  <2>2. from = Creator /\ q # Creator /\ body.id \in Peers(Creator)
    BY <1>2 DEF Carrier
  <2>3. body.id \in ListedBy(q) /\ body.id # Self /\ body.id # <<q, Creator>>
    BY <2>2, IdTypes, ConstantTypes DEF ListedBy
  <2>4. QED
    BY <2>1, <2>2, <2>3, WithMemberOf
<1>3. CASE body.type = "removed"
  <2> DEFINE id == IF body.id = Self THEN <<q, from>> ELSE body.id
  <2>1. r = WithoutMember(ms, id)
    BY <1>3 DEF RosterAfter
  <2>2. RosterOK(q, r) /\ IdsOf(r) = IdsOf(ms) \ {id}
    BY <2>1, WithoutMemberOf
  <2>3. ASSUME q # Creator, ~Farewell(body) PROVE id # <<q, Creator>>
    <3>1. body.id \in Peers(Creator) /\ id = body.id
      BY <1>3, <2>3 DEF Carrier, Farewell
    <3>2. QED
      BY <2>3, <3>1 DEF Peers
  <2>4. q = Creator => Farewell(body) /\ id = <<q, from>>
    BY <1>3 DEF Carrier, Farewell
  <2>5. QED
    BY <2>2, <2>3, <2>4
<1>4. CASE body.type = "role" /\ body.id # Self
  <2>1. r = WithRole(ms, body.id, body.role)
    BY <1>4 DEF RosterAfter
  <2>2. /\ body.role \in {"admin", "member"} /\ from = Creator /\ q # Creator
        /\ body.id \in {Self} \cup Peers(Creator)
    BY <1>4 DEF Carrier
  <2>3. body.id # <<q, Creator>>
    <3>1. CASE body.id = Self
      BY <3>1 DEF Self
    <3>2. CASE body.id \in Peers(Creator)
      BY <2>2, <3>2 DEF Peers
    <3>3. QED
      BY <2>2, <3>1, <3>2
  <2>4. QED
    BY <1>4, <2>1, <2>2, <2>3, WithRoleOf
<1>5. CASE ~(body.type \in {"added", "removed"} \/ (body.type = "role" /\ body.id # Self))
  <2>1. r = ms
    BY <1>5 DEF RosterAfter
  <2>2. ~Farewell(body)
    BY <1>5 DEF Farewell
  <2>3. QED
    BY <2>1, <2>2
<1>6. QED
  BY <1>1, <1>2, <1>3, <1>4, <1>5

LEMMA TextsAfterOf ==
  ASSUME NEW q \in Devices, NEW from \in Devices \ {q}, q # Creator => from = Creator,
         NEW m, NEW o, NEW body, Carrier(from, body, m, o), NEW log, TextsOK(q, log, o)
  PROVE  LET l == TextsAfter(log, <<q, from>>, body) IN
         /\ TextsOK(q, l, o)
         /\ \A t \in DOMAIN l : l[t].status = "sending" => t \in DOMAIN log /\ log[t].status = "sending"
<1> DEFINE l == TextsAfter(log, <<q, from>>, body)
<1>1. "delivered" \in Status /\ "read" \in Status
  BY DEF Status
<1>2. CASE body.type = "text"
  <2>1. l = AddText(log, body.t, <<q, from>>, "delivered")
    BY <1>2 DEF TextsAfter
  <2>2. <<q, from>> \in {Self} \cup (IF q = Creator THEN Peers(q) ELSE {<<q, Creator>>})
    BY IdTypes
  <2>3. body.t \in 1..o
    BY <1>2 DEF Carrier
  <2>4. TextsOK(q, l, o)
    BY <1>1, <2>1, <2>2, <2>3, AddTextOf
  <2>5. \A t \in DOMAIN l : l[t].status = "sending" => t \in DOMAIN log /\ log[t].status = "sending"
    BY <2>1 DEF AddText
  <2>6. QED
    BY <2>4, <2>5
<1>3. CASE body.type = "read"
  <2>1. l = WithStatus(log, body.t, "read")
    BY <1>3 DEF TextsAfter
  <2>2. TextsOK(q, l, o)
    BY <1>1, <2>1, WithStatusOf
  <2>3. \A t \in DOMAIN l : l[t].status = "sending" => t \in DOMAIN log /\ log[t].status = "sending"
    BY <1>1, <2>1, CalmStatus DEF TextsOK
  <2>4. QED
    BY <2>2, <2>3
<1>4. CASE body.type \notin {"text", "read"}
  <2>1. l = log
    BY <1>4 DEF TextsAfter
  <2>2. QED
    BY <2>1
<1>5. QED
  BY <1>2, <1>3, <1>4

LEMMA AppliedActs ==
  ASSUME Base, NEW q \in Devices, NEW t \in tasks[q], Applied(q, t)
  PROVE  /\ Acts(q) /\ tasks'[q] = tasks[q] \ {t} /\ t.do = "apply"
         /\ group'[q] = <<>> <=> group[q] = <<>>
         /\ q = Creator => /\ IdsOf(roster'[q]) \subseteq IdsOf(roster[q])
                           /\ group[q] # <<>> => Head(group'[q]).key = Head(group[q]).key
         /\ \/ q = Creator \/ (t.from = Creator /\ Farewell(t.body))
            \/ <<q, Creator>> \in IdsOf(roster[q]) => <<q, Creator>> \in IdsOf(roster'[q])
         /\ \A u \in DOMAIN texts'[q] :
              texts'[q][u].status = "sending" => u \in DOMAIN texts[q] /\ texts[q][u].status = "sending"
<1> DEFINE from == <<q, t.from>>
<1>1. /\ t.do = "apply" /\ Swap(q, t, {}) /\ UNCHANGED <<keys, ops, made, faults>>
      /\ IF Authorized(q, from, t.body)
         THEN /\ roster' = [roster EXCEPT ![q] = RosterAfter(@, from, t.body)]
              /\ group' = [group EXCEPT ![q] = NameAfter(@, t.body)]
              /\ texts' = [texts EXCEPT ![q] = TextsAfter(@, from, t.body)]
         ELSE UNCHANGED <<roster, group, texts>>
  BY DEF Applied
<1>2. Handler(q, t, made, ops) /\ made \in Nat /\ ops \in Nat /\ faults \in Nat
  BY AtHome
<1>3. t.from \in Hearers(q) /\ Carrier(t.from, t.body, made, ops)
  BY <1>1, <1>2 DEF Handler
<1>4. /\ DOMAIN tasks' = Devices /\ \A r \in Devices \ {q} : tasks'[r] = tasks[r]
      /\ tasks'[q] = tasks[q] \ {t}
      /\ \A v \in tasks'[q] : Handler(q, v, made', ops')
  BY <1>1, <1>2, SwapOf
<1>5. CASE ~Authorized(q, from, t.body)
  <2>1. UNCHANGED <<roster, group, texts>>
    BY <1>1, <1>5
  <2> HIDE DEF Base
  <2>2. Acts(q)
    BY <1>1, <1>2, <1>4, <2>1, AtHome DEF Acts
  <2>3. QED
    BY <1>1, <1>4, <2>1, <2>2
<1>6. CASE Authorized(q, from, t.body)
  <2>1. /\ roster' = [roster EXCEPT ![q] = RosterAfter(@, from, t.body)]
        /\ group' = [group EXCEPT ![q] = NameAfter(@, t.body)]
        /\ texts' = [texts EXCEPT ![q] = TextsAfter(@, from, t.body)]
    BY <1>1, <1>6
  <2>2. t.from \in Devices \ {q} /\ (q # Creator => t.from = Creator)
    BY <1>3, IdTypes
  <2>3. /\ RosterOK(q, RosterAfter(roster[q], from, t.body))
        /\ q = Creator => IdsOf(RosterAfter(roster[q], from, t.body)) \subseteq IdsOf(roster[q])
        /\ q # Creator /\ ~Farewell(t.body) /\ <<q, Creator>> \in IdsOf(roster[q]) =>
             <<q, Creator>> \in IdsOf(RosterAfter(roster[q], from, t.body))
    <3> DEFINE ms == roster[q]  r == RosterAfter(ms, from, t.body)
    <3>1. RosterOK(q, ms)
      BY AtHome
    <3> HIDE DEF ms, Base
    <3>2. /\ RosterOK(q, r)
          /\ q = Creator => IdsOf(r) = IF Farewell(t.body) THEN IdsOf(ms) \ {from} ELSE IdsOf(ms)
          /\ q # Creator /\ ~Farewell(t.body) /\ <<q, Creator>> \in IdsOf(ms) => <<q, Creator>> \in IdsOf(r)
      BY <1>3, <2>2, <3>1, RosterAfterOf
    <3> HIDE DEF r, from
    <3>3. q = Creator => IdsOf(r) \subseteq IdsOf(ms)
      BY <3>2
    <3>4. QED
      BY <3>2, <3>3 DEF r, ms
  <2>4. /\ TextsOK(q, TextsAfter(texts[q], from, t.body), ops)
        /\ \A u \in DOMAIN TextsAfter(texts[q], from, t.body) :
             TextsAfter(texts[q], from, t.body)[u].status = "sending" =>
               u \in DOMAIN texts[q] /\ texts[q][u].status = "sending"
    BY <1>3, <2>2, AtHome, TextsAfterOf
  <2>5. /\ GroupOK(NameAfter(group[q], t.body), made) /\ (NameAfter(group[q], t.body) = <<>> <=> group[q] = <<>>)
        /\ q = Creator /\ group[q] # <<>> => Head(NameAfter(group[q], t.body)).key = Head(group[q]).key
    <3>1. CASE t.body.type = "name"
      <4>1. t.body.name \in {"old", "new"}
        BY <1>3, <3>1 DEF Carrier
      <4>2. QED
        BY <1>2, <3>1, <4>1, AtHome, WithNameOf DEF NameAfter
    <3>2. CASE t.body.type # "name"
      BY <3>2, AtHome DEF NameAfter
    <3>3. QED
      BY <3>1, <3>2
  <2> HIDE DEF Base, from
  <2>6. /\ DOMAIN group' = Devices /\ DOMAIN roster' = Devices /\ DOMAIN texts' = Devices
        /\ \A r \in Devices \ {q} : group'[r] = group[r] /\ roster'[r] = roster[r] /\ texts'[r] = texts[r]
        /\ roster'[q] = RosterAfter(roster[q], from, t.body)
        /\ group'[q] = NameAfter(group[q], t.body)
        /\ texts'[q] = TextsAfter(texts[q], from, t.body)
    BY <2>1, AtHome
  <2>7. Acts(q)
    BY <1>1, <1>2, <1>4, <2>3, <2>4, <2>5, <2>6, AtHome DEF Acts
  <2>8. QED
    BY <1>1, <1>4, <2>2, <2>3, <2>4, <2>5, <2>6, <2>7
<1>7. QED
  BY <1>5, <1>6

-----------------------------------------------------------------------------
(* What a step keeps                                                       *)

\* What is under way from the creator to q.
Said(q, b) == \E t \in tasks[Creator] : t.do = "send" /\ t.body = b /\ q \in ToSet(t.to)

\* Nothing arrives, and no key is stored, that was not under way; history only grows.
Flow ==
  /\ marks \subseteq marks'
  /\ \A q \in Others : \A b \in ToSet(chan'[Creator][q]) : b \in ToSet(chan[Creator][q]) \/ Said(q, b)
  /\ \A q \in Others : \A t \in tasks'[q] :
       t.do = "store" \/ (t.do = "apply" /\ t.from = Creator) => t \in tasks[q] \/ t.body \in ToSet(chan[Creator][q])
  /\ \A q \in Others : \A x \in keys'[q] : x \in keys[q] \/ \E t \in tasks[q] : t.do = "store" /\ t.body.key = x.id

\* A loop of p's goes on, unless something failed.
LoopsGoOn(p) == \A u \in tasks[p] : u.do = "send" =>
  Happened("fault")' \/ \E v \in tasks'[p] : v.do = "send" /\ v.n = u.n /\ v.then = u.then

\* No key is made, and who is out stays off the roster and is sent no key.
OutCalm ==
  /\ made' = made /\ out' \subseteq out
  /\ InGroup(Creator)' => InGroup(Creator) /\ Record(Creator)'.key = Record(Creator).key
  /\ \A q \in out' : <<Creator, q>> \in IdsOf(roster'[Creator]) => <<Creator, q>> \in IdsOf(roster[Creator])
  /\ \A q \in out' : \A t \in tasks'[Creator] :
       t.do = "send" /\ t.body.type = "key" /\ q \in ToSet(t.to) => Said(q, t.body)

LEMMA MemberOf == \A p, id : (IsMember(p, id) <=> id \in IdsOf(roster[p])) /\ (IsMember(p, id)' <=> id \in IdsOf(roster'[p]))
BY DEF IsMember, IdsOf

LEMMA LacksKept ==
  ASSUME Base, TaskInv', Flow, NEW q \in Others, NEW k, Lacks(q, k),
         \A t \in tasks'[Creator] : t.do = "send" /\ t.body.type = "key" /\ q \in ToSet(t.to) => Said(q, t.body)
  PROVE  /\ (\A x \in keys'[q] : x.id # k) /\ (\A t \in tasks'[q] : t.do = "store" => t.body.key # k)
         /\ \A b \in ToSet(chan'[Creator][q]) : b.type = "key" => b.key # k
         /\ \A t \in tasks'[Creator] :
              t.do = "send" /\ t.body.type = "key" /\ q \in ToSet(t.to) => t.body.key # k
<1>1. /\ \A x \in keys[q] : x.id # k
      /\ \A t \in tasks[q] : t.do = "store" => t.body.key # k
      /\ \A b \in ToSet(chan[Creator][q]) : b.type = "key" => b.key # k
      /\ \A b : Said(q, b) /\ b.type = "key" => b.key # k
  BY DEF Lacks, HasKey, Storing, Said
<1>2. \A x \in keys'[q] : x.id # k
  BY <1>1 DEF Flow
<1>3. \A t \in tasks'[q] : t.do = "store" => t.body.key # k
  <2>1. SUFFICES ASSUME NEW t \in tasks'[q], t.do = "store" PROVE t.body.key # k
    OBVIOUS
  <2>2. Handler(q, t, made', ops') /\ q \in Devices
    BY ConstantTypes DEF TaskInv
  <2>3. t.body.type = "key"
    BY <2>1, <2>2 DEF Handler
  <2>4. QED
    BY <1>1, <2>1, <2>3 DEF Flow
<1>4. QED
  BY <1>1, <1>2, <1>3 DEF Flow

LEMMA OutKept ==
  ASSUME Base, TaskInv', OutInv, Flow, OutCalm
  PROVE  OutInv'
<1>1. out' \subseteq Others /\ (made' = 0 => out' = {})
  BY DEF OutInv, OutCalm
<1>2. ASSUME InGroup(Creator)', NEW q \in out'
      PROVE  ~IsMember(Creator, <<Creator, q>>)' /\ Lacks(q, Record(Creator).key)'
  <2> DEFINE k == Record(Creator).key
  <2>1. InGroup(Creator) /\ Record(Creator)'.key = k /\ q \in out /\ q \in Others
    BY <1>1, <1>2 DEF OutCalm
  <2>2. ~IsMember(Creator, <<Creator, q>>) /\ Lacks(q, k)
    BY <2>1 DEF OutInv
  <2>3. ~IsMember(Creator, <<Creator, q>>)'
    BY <1>2, <2>2, MemberOf DEF OutCalm
  <2>4. \A t \in tasks'[Creator] : t.do = "send" /\ t.body.type = "key" /\ q \in ToSet(t.to) => Said(q, t.body)
    BY <1>2 DEF OutCalm
  <2> HIDE DEF k
  <2>5. /\ (\A x \in keys'[q] : x.id # k) /\ (\A t \in tasks'[q] : t.do = "store" => t.body.key # k)
        /\ \A b \in ToSet(chan'[Creator][q]) : b.type = "key" => b.key # k
        /\ \A t \in tasks'[Creator] :
              t.do = "send" /\ t.body.type = "key" /\ q \in ToSet(t.to) => t.body.key # k
    BY <2>1, <2>2, <2>4, LacksKept
  <2>6. QED
    BY <2>1, <2>3, <2>5 DEF Lacks, HasKey, Storing
<1>3. QED
  BY <1>1, <1>2 DEF OutInv

LEMMA GoneKept ==
  ASSUME Flow, LoopsGoOn(Creator), Gone
  PROVE  Gone'
<1>1. CASE \E m : m \in marks /\ m \in {<<"left", Creator>>, <<"fault">>}
  BY <1>1 DEF Flow, Gone, Leaves, Happened
<1>2. CASE \E u \in tasks[Creator] : u.do = "send" /\ u.then.type = "leave"
  BY <1>2 DEF LoopsGoOn, Gone, Leaves, Loops, Happened
<1>3. QED
  BY <1>1, <1>2 DEF Gone, Leaves, Loops, Happened

LEMMA LeaveKept ==
  ASSUME Base, LeaveInv, Flow, Gone => Gone',
         \A q \in Others : group'[q] # <<>> =>
            <<q, Creator>> \in IdsOf(roster'[q]) \/ Gone' \/
            (group[q] # <<>> /\ (<<q, Creator>> \in IdsOf(roster[q]) => <<q, Creator>> \in IdsOf(roster'[q])))
  PROVE  LeaveInv'
<1>1. \A q \in Others : InGroup(q)' => IsMember(q, <<q, Creator>>)' \/ Gone'
  BY MemberOf DEF LeaveInv, InGroup
<1>2. ASSUME NEW q \in Others, NEW b, Said(q, b), Farewell(b) PROVE Gone
  <2>1. PICK t \in tasks[Creator] : t.do = "send" /\ t.body = b
    BY <1>2 DEF Said
  <2>2. Handler(Creator, t, made, ops)
    BY AtHome, ConstantTypes
  <2>3. t.then.type = "leave"
    BY <1>2, <2>1, <2>2 DEF Handler, Follows
  <2>4. QED
    BY <2>1, <2>3 DEF Gone, Leaves, Loops
<1>3. \A q \in Others : \A b \in ToSet(chan[Creator][q])' : Farewell(b) => Gone'
  BY <1>2 DEF Flow, LeaveInv
<1>4. \A q \in Others : \A t \in tasks'[q] : t.do = "apply" /\ t.from = Creator /\ Farewell(t.body) => Gone'
  BY DEF Flow, LeaveInv
<1>5. QED
  BY <1>1, <1>3, <1>4 DEF LeaveInv

LEMMA SendingKept ==
  ASSUME SendingHasALoop, Flow, \A p \in Devices : LoopsGoOn(p),
         \A p \in Devices : \A t \in DOMAIN texts'[p] : texts'[p][t].status = "sending" =>
            (t \in DOMAIN texts[p] /\ texts[p][t].status = "sending") \/ \E u \in Loops(p, "text")' : u.n = t
  PROVE  SendingHasALoop'
<1>1. SUFFICES ASSUME NEW p \in Devices, NEW t \in DOMAIN texts'[p], texts'[p][t].status = "sending"
               PROVE  Happened("fault")' \/ \E u \in Loops(p, "text")' : u.n = t
  BY DEF SendingHasALoop
<1>2. SUFFICES ASSUME t \in DOMAIN texts[p], texts[p][t].status = "sending"
               PROVE  Happened("fault")' \/ \E u \in Loops(p, "text")' : u.n = t
  BY <1>1
<1>3. CASE Happened("fault")
  BY <1>3 DEF Happened, Flow
<1>4. CASE \E u \in Loops(p, "text") : u.n = t
  <2>1. PICK u \in tasks[p] : u.do = "send" /\ u.then.type = "text" /\ u.n = t
    BY <1>4 DEF Loops
  <2>2. QED
    BY <2>1 DEF LoopsGoOn, Loops
<1>5. QED
  BY <1>2, <1>3, <1>4 DEF SendingHasALoop

LEMMA ChanKept ==
  ASSUME Base, made' \in Nat, made <= made', ops' \in Nat, ops <= ops', stuck' \subseteq Devices \X Devices,
         DOMAIN chan' = Devices, \A r \in Devices : DOMAIN chan'[r] = Devices,
         \A r, q \in Devices : IsSeq(chan'[r][q]),
         \A r, q \in Devices : \A b \in ToSet(chan'[r][q]) :
            b \in ToSet(chan[r][q]) \/ (q \in Hearers(r) /\ Carrier(r, b, made, ops))
  PROVE  ChanInv'
<1>1. made \in Nat /\ ops \in Nat
  BY DEF Base, StoreInv
<1>2. \A r, q \in Devices : \A b \in ToSet(chan[r][q]) : q \in Hearers(r) /\ Carrier(r, b, made, ops)
  BY DEF Base, ChanInv
<1>3. \A r, b : Carrier(r, b, made, ops) => Carrier(r, b, made', ops')
  BY <1>1, Grown
<1>4. \A r, q \in Devices : \A b \in ToSet(chan'[r][q]) : q \in Hearers(r) /\ Carrier(r, b, made', ops')
  BY <1>2, <1>3
<1>5. QED
  BY <1>4 DEF ChanInv

\* A step of p's handlers that stores nothing and hears nothing.
LEMMA PlainFlow ==
  ASSUME Base, NEW p \in Devices, Acts(p), marks \subseteq marks',
         \A q \in Others : \A b \in ToSet(chan'[Creator][q]) : b \in ToSet(chan[Creator][q]) \/ Said(q, b),
         \A u \in tasks'[p] : u \in tasks[p] \/ u.do \in {"rotate", "encrypt", "send"},
         \A q \in Others : keys'[q] \subseteq keys[q]
  PROVE  Flow
<1>1. \A q \in Others : q \in Devices /\ (q # p => tasks'[q] = tasks[q])
  BY ConstantTypes DEF Acts
<1>2. \A q \in Others : \A t \in tasks'[q] :
        t.do = "store" \/ (t.do = "apply" /\ t.from = Creator) => t \in tasks[q] \/ t.body \in ToSet(chan[Creator][q])
  BY <1>1
<1>3. QED
  BY <1>2 DEF Flow

LEMMA Together ==
  ASSUME IInv, NEW p \in Devices, Acts(p), ChanInv', OutInv', LeaveInv', SendingHasALoop'
  PROVE  IInv'
BY ActsKeep DEF IInv, Base

LEMMA BegunFlow ==
  ASSUME Base, NEW p \in Devices, Acts(p), NEW new, Begin(p, new),
         \A u \in new : u.do \in {"rotate", "encrypt", "send"}, \A q \in Others : keys'[q] \subseteq keys[q]
  PROVE  /\ ChanInv' /\ Flow /\ \A r \in Devices : LoopsGoOn(r)
         /\ tasks'[p] = tasks[p] \cup new /\ \A r \in Devices \ {p} : tasks'[r] = tasks[r]
<1>1. chan' = chan /\ stuck' = stuck /\ marks \subseteq marks' /\ tasks' = [tasks EXCEPT ![p] = @ \cup new]
  BY DEF Begin
<1>2. tasks'[p] = tasks[p] \cup new /\ \A r \in Devices \ {p} : tasks'[r] = tasks[r]
  BY <1>1, AtHome
<1>3. \A u \in tasks'[p] : u \in tasks[p] \/ u.do \in {"rotate", "encrypt", "send"}
  BY <1>2
<1>4. Flow
  BY <1>1, <1>3, PlainFlow
<1>5. \A r \in Devices : LoopsGoOn(r)
  BY <1>2 DEF LoopsGoOn
<1>6. ChanInv
  BY DEF Base
<1>7. ChanInv'
  BY <1>1, <1>6, ChanKept DEF ChanInv, Acts
<1>8. QED
  BY <1>2, <1>4, <1>5, <1>7

\* Nothing changes but the handlers, names and roles.
LEMMA QuietBegun ==
  ASSUME IInv, NEW p \in Devices, Acts(p), NEW new, Begin(p, new), \A u \in new : u.do \in {"rotate", "encrypt"},
         UNCHANGED <<keys, texts, made, out>>,
         group'[Creator] # <<>> => group[Creator] # <<>> /\ Head(group'[Creator]).key = Head(group[Creator]).key,
         IdsOf(roster'[Creator]) \subseteq IdsOf(roster[Creator]),
         \A q \in Others : group'[q] = group[q] /\ roster'[q] = roster[q]
  PROVE  IInv'
<1>0. Base /\ OutInv /\ LeaveInv /\ SendingHasALoop
  BY DEF IInv
<1>1. /\ ChanInv' /\ Flow /\ \A r \in Devices : LoopsGoOn(r)
      /\ tasks'[p] = tasks[p] \cup new /\ \A r \in Devices \ {p} : tasks'[r] = tasks[r]
  BY <1>0, BegunFlow
<1>2. Creator \in Devices
  BY ConstantTypes
<1>3. OutCalm
  <2>1. \A t \in tasks'[Creator] : t.do = "send" => t \in tasks[Creator]
    BY <1>1, <1>2
  <2>2. QED
    BY <2>1 DEF OutCalm, InGroup, Record, Said
<1>4. TaskInv'
  BY <1>0, ActsKeep
<1>5. OutInv'
  BY <1>0, <1>1, <1>3, <1>4, OutKept
<1>6. LeaveInv'
  BY <1>0, <1>1, <1>2, GoneKept, LeaveKept
<1>7. SendingHasALoop'
  BY <1>0, <1>1, SendingKept
<1>8. QED
  BY <1>1, <1>5, <1>6, <1>7, Together

LEMMA SealKeeps ==
  ASSUME IInv, NEW p \in Devices, Acts(p), NEW body, NEW then, Begin(p, Encrypt(p, ops + 1, body, then)),
         UNCHANGED <<group, roster, keys, texts, made, out>>
  PROVE  IInv'
<1>1. \A u \in Encrypt(p, ops + 1, body, then) : u.do \in {"rotate", "encrypt"}
  BY DEF Encrypt
<1>2. QED
  BY <1>1, QuietBegun

LEMMA MessageKeeps == ASSUME IInv, NEW p \in Devices, SendGroupMessage(p) PROVE IInv'
<1>1. Acts(p)
  BY MessageActs DEF IInv
<1>2. QED
  BY <1>1, SealKeeps DEF SendGroupMessage

LEMMA LeaveKeeps == ASSUME IInv, NEW p \in Devices, LeaveGroup(p) PROVE IInv'
<1>1. Acts(p)
  BY LeaveActs DEF IInv
<1>2. QED
  BY <1>1, SealKeeps DEF LeaveGroup

LEMMA ReceiptKeeps == ASSUME IInv, NEW p \in Devices, NEW t, SendGroupReadReceipt(p, t) PROVE IInv'
<1>1. Acts(p)
  BY ReceiptActs DEF IInv
<1>2. QED
  BY <1>1, SealKeeps DEF SendGroupReadReceipt

LEMMA RemoveKeeps ==
  ASSUME IInv, NEW p \in Devices, NEW m \in ToSet(roster[p]), m.id # Self, RemoveGroupMember(p, m.id)
  PROVE  IInv'
<1> DEFINE u == [do |-> "rotate", n |-> ops + 1, id |-> m.id, rot |-> NextRotation(Record(p))]
<1>1. Acts(p)
  BY RemoveActs DEF IInv
<1>2. Begin(p, {u}) /\ UNCHANGED <<group, roster, keys, texts, made, out>>
  BY DEF RemoveGroupMember
<1>3. u.do = "rotate"
  OBVIOUS
<1> HIDE DEF u
<1>4. QED
  BY <1>1, <1>2, <1>3, QuietBegun

LEMMA RoleKeeps ==
  ASSUME IInv, NEW p \in Devices, NEW m \in ToSet(roster[p]), NEW role \in {"admin", "member"},
         ChangeRole(p, m.id, role)
  PROVE  IInv'
<1> DEFINE new == Encrypt(p, ops + 1, [type |-> "role", id |-> m.id, role |-> role], Nothing)
<1>1. Base /\ Acts(p) /\ p = Creator
  BY RoleActs, AdminIsCreator DEF IInv, ChangeRole
<1>2. /\ roster' = [roster EXCEPT ![p] = WithRole(@, m.id, role)] /\ Begin(p, new)
      /\ UNCHANGED <<group, keys, texts, made, out>>
  BY DEF ChangeRole
<1>3. IdsOf(WithRole(roster[p], m.id, role)) = IdsOf(roster[p])
  <2> DEFINE ms == roster[p]  id == m.id
  <2>1. RosterOK(p, ms) /\ (p # Creator => id # Self /\ id # <<p, Creator>>)
    BY <1>1, AtHome
  <2> HIDE DEF ms, id
  <2>2. IdsOf(WithRole(ms, id, role)) = IdsOf(ms)
    BY <2>1, WithRoleOf
  <2>3. QED
    BY <2>2 DEF ms, id
<1>4. roster'[p] = WithRole(roster[p], m.id, role) /\ \A q \in Others : roster'[q] = roster[q]
  BY <1>1, <1>2, AtHome, ConstantTypes
<1>5. \A u \in new : u.do \in {"rotate", "encrypt"}
  BY DEF Encrypt
<1> HIDE DEF new
<1>6. QED
  BY <1>1, <1>2, <1>3, <1>4, <1>5, QuietBegun

LEMMA NameKeeps == ASSUME IInv, NEW p \in Devices, UpdateGroupName(p) PROVE IInv'
<1> DEFINE new == Encrypt(p, ops + 1, [type |-> "name", name |-> "new"], Nothing)
<1>1. Base /\ Acts(p) /\ p = Creator
  BY NameActs, AdminIsCreator DEF IInv, UpdateGroupName
<1>2. /\ group' = [group EXCEPT ![p] = WithName(@, "new")] /\ Begin(p, new)
      /\ UNCHANGED <<roster, keys, texts, made, out>>
  BY DEF UpdateGroupName
<1>3. /\ WithName(group[p], "new") = <<>> <=> group[p] = <<>>
      /\ group[p] # <<>> => Head(WithName(group[p], "new")).key = Head(group[p]).key
  BY <1>1, AtHome, WithNameOf
<1>4. group'[p] = WithName(group[p], "new") /\ \A q \in Others : group'[q] = group[q]
  BY <1>1, <1>2, AtHome, ConstantTypes
<1>5. \A u \in new : u.do \in {"rotate", "encrypt"}
  BY DEF Encrypt
<1> HIDE DEF new
<1>6. QED
  BY <1>1, <1>2, <1>3, <1>4, <1>5, QuietBegun

LEMMA CreateKeeps ==
  ASSUME IInv, NEW invited \in Invitations, CreateGroup(Creator, invited)
  PROVE  IInv'
<1> DEFINE new == Send(ops + 1, invited, KeyBody([key |-> 1, rot |-> 0, name |-> "old"]), Nothing)
<1>0. Base /\ OutInv /\ LeaveInv /\ SendingHasALoop /\ Creator \in Devices
  BY ConstantTypes DEF IInv
<1>1. Acts(Creator)
  BY <1>0, CreateActs
<1>2. made = 0 /\ made' = 1 /\ out' = out /\ texts' = texts /\ Begin(Creator, new)
  BY DEF CreateGroup
<1>3. \A u \in new : u.do = "send"
  BY DEF Send
<1> HIDE DEF new
<1>4. \A q \in Others : group'[q] = group[q] /\ roster'[q] = roster[q] /\ keys'[q] = keys[q]
  BY <1>1, ConstantTypes DEF Acts
<1>5. ChanInv' /\ Flow /\ \A r \in Devices : LoopsGoOn(r)
  BY <1>0, <1>1, <1>2, <1>3, <1>4, BegunFlow
<1>6. out' = {}
  BY <1>0, <1>2 DEF OutInv
<1>7. OutInv'
  BY <1>2, <1>6 DEF OutInv
<1>8. LeaveInv'
  BY <1>0, <1>4, <1>5, GoneKept, LeaveKept
<1>9. SendingHasALoop'
  BY <1>0, <1>2, <1>5, SendingKept
<1>10. QED
  BY <1>0, <1>1, <1>5, <1>7, <1>8, <1>9, Together

LEMMA AddKeeps ==
  ASSUME IInv, NEW p \in Devices, NEW q \in Devices \ {p}, AddGroupMember(p, q)
  PROVE  IInv'
<1> DEFINE new == IF HasKey(p, Record(p).key)
                  THEN Send(ops + 1, <<q>>, KeyBody(Record(p)), [type |-> "added", id |-> <<p, q>>])
                  ELSE {}
<1>0. Base /\ OutInv /\ LeaveInv /\ SendingHasALoop /\ Creator \in Devices
  BY ConstantTypes DEF IInv
<1>1. Acts(p) /\ p = Creator
  BY <1>0, AddActs, AdminIsCreator DEF AddGroupMember
<1>2. /\ InGroup(p) /\ roster' = [roster EXCEPT ![p] = WithMember(@, <<p, q>>)]
      /\ Begin(p, new) /\ out' = out \ {q} /\ UNCHANGED <<group, keys, texts, made>>
  BY DEF AddGroupMember
<1>3. \A u \in new : u.do = "send" /\ ToSet(u.to) = {q}
  BY SingleOf DEF Send
<1> HIDE DEF new
<1>4. \A r \in Others : group'[r] = group[r] /\ roster'[r] = roster[r] /\ keys'[r] = keys[r]
  BY <1>1, ConstantTypes DEF Acts
<1>5. ChanInv' /\ Flow /\ (\A r \in Devices : LoopsGoOn(r)) /\ tasks'[p] = tasks[p] \cup new
  BY <1>0, <1>1, <1>2, <1>3, <1>4, BegunFlow
<1>6. IdsOf(roster'[p]) = IdsOf(roster[p]) \cup {<<p, q>>}
  <2>1. <<p, q>> \in ListedBy(p) /\ <<p, q>> # Self
    BY <1>1, IdTypes DEF ListedBy
  <2> DEFINE ms == roster[p]  id == <<p, q>>
  <2>2. RosterOK(p, ms) /\ (p # Creator => id # <<p, Creator>>) /\ id \in ListedBy(p) /\ id # Self
    BY <1>0, <1>1, <2>1, AtHome
  <2>3. roster'[p] = WithMember(ms, id)
    BY <1>0, <1>2, AtHome
  <2> HIDE DEF ms, id
  <2>4. IdsOf(WithMember(ms, id)) = IdsOf(ms) \cup {id}
    BY <2>2, WithMemberOf
  <2>5. QED
    BY <2>3, <2>4 DEF ms, id
<1>7. OutCalm
  <2>1. \A r \in out' : <<Creator, r>> \in IdsOf(roster'[Creator]) => <<Creator, r>> \in IdsOf(roster[Creator])
    BY <1>1, <1>2, <1>6, IdTypes
  <2>2. \A r \in out' : \A t \in tasks'[Creator] :
          t.do = "send" /\ t.body.type = "key" /\ r \in ToSet(t.to) => Said(r, t.body)
    BY <1>1, <1>2, <1>3, <1>5 DEF Said
  <2>3. QED
    BY <1>1, <1>2, <2>1, <2>2 DEF OutCalm, InGroup, Record
<1>8. TaskInv'
  BY <1>0, <1>1, ActsKeep
<1>9. OutInv'
  BY <1>0, <1>5, <1>7, <1>8, OutKept
<1>10. LeaveInv'
  BY <1>0, <1>4, <1>5, GoneKept, LeaveKept
<1>11. SendingHasALoop'
  BY <1>0, <1>2, <1>5, SendingKept
<1>12. QED
  BY <1>1, <1>5, <1>9, <1>10, <1>11, Together

-----------------------------------------------------------------------------
(* The same for the steps behind an await                                  *)

\* A new key is nobody's yet, and goes to those who are still members.
LEMMA RotatedKeeps ==
  ASSUME IInv, NEW p \in Devices, NEW t \in tasks[p], Rotated(p, t)
  PROVE  IInv'
<1> DEFINE gone == t.id[2]
<1>0. Base /\ OutInv /\ LeaveInv /\ SendingHasALoop /\ Creator \in Devices
  BY ConstantTypes DEF IInv
<1>1. /\ Acts(p) /\ p = Creator /\ t.id \in Peers(p)
      /\ InGroup(p)' <=> InGroup(p)
      /\ InGroup(p)' => Record(p)'.key = made + 1
      /\ IdsOf(roster'[p]) = IdsOf(roster[p]) \ {t.id}
      /\ \A u \in tasks'[p] : u \in tasks[p] \/
           /\ u.do = "send" /\ \A q \in ToSet(u.to) : <<p, q>> \in IdsOf(roster'[p])
  BY <1>0, RotatedActs
<1>2. /\ t.do = "rotate" /\ made' = made + 1 /\ out' = out \cup {gone} /\ marks \subseteq marks'
      /\ chan' = chan /\ stuck' = stuck /\ texts' = texts
      /\ \E new : tasks' = [tasks EXCEPT ![p] = (@ \ {t}) \cup new]
  BY DEF Rotated, Swap
<1>3. \A q \in Others : /\ group'[q] = group[q] /\ roster'[q] = roster[q] /\ keys'[q] = keys[q]
                        /\ tasks'[q] = tasks[q] /\ q \in Devices
  BY <1>1, ConstantTypes DEF Acts
<1>4. Flow
  BY <1>0, <1>1, <1>2, <1>3, PlainFlow
<1>5. ChanInv'
  BY <1>0, <1>1, <1>2, ChanKept DEF ChanInv, Acts, Base
<1>6. \A r \in Devices : LoopsGoOn(r)
  <2>1. \A r \in Devices : \A u \in tasks[r] : u.do = "send" => u \in tasks'[r]
    BY <1>0, <1>2, AtHome
  <2>2. QED
    BY <2>1 DEF LoopsGoOn
<1>7. gone \in Others /\ t.id = <<Creator, gone>>
  BY <1>1, IdTypes, ConstantTypes
<1>8. OutInv'
  <2>1. out' \subseteq Others /\ made' # 0
    BY <1>0, <1>2, <1>7, AtHome DEF OutInv
  <2>2. ASSUME InGroup(Creator)', NEW q \in out'
        PROVE  ~IsMember(Creator, <<Creator, q>>)' /\ Lacks(q, Record(Creator).key)'
    <3> DEFINE k == made + 1
    <3>1. made \in Nat /\ k \notin 1..made
      BY <1>0, AtHome
    <3>2. Record(Creator)'.key = k /\ InGroup(Creator) /\ q \in Others /\ q \in Devices
      BY <1>1, <2>1, <2>2, ConstantTypes
    <3>3. <<Creator, q>> \notin IdsOf(roster'[Creator])
      BY <1>0, <1>1, <1>2, <1>7, <2>2, <3>2, MemberOf DEF OutInv
    <3> HIDE DEF k
    <3>4. \A x \in keys'[q] : x.id # k
      BY <1>0, <1>3, <3>1, <3>2, AtHome DEF KeysOK
    <3>5. \A u \in tasks'[q] : u.do = "store" => u.body.key # k
      BY <1>0, <1>3, <3>1, <3>2, AtHome DEF Handler, Carrier
    <3>6. \A b \in ToSet(chan'[Creator][q]) : b.type = "key" => b.key # k
      BY <1>0, <1>2, <3>1, <3>2 DEF Base, ChanInv, Carrier
    <3>7. \A u \in tasks'[Creator] : u.do = "send" /\ u.body.type = "key" /\ q \in ToSet(u.to) => u.body.key # k
      <4>1. SUFFICES ASSUME NEW u \in tasks[Creator], u.do = "send", u.body.type = "key" PROVE u.body.key # k
        BY <1>1, <3>3
      <4>2. Handler(Creator, u, made, ops)
        BY <1>0, AtHome
      <4>3. QED
        BY <3>1, <4>1, <4>2 DEF Handler, Carrier
    <3>8. QED
      BY <3>2, <3>3, <3>4, <3>5, <3>6, <3>7, MemberOf DEF Lacks, HasKey, Storing
  <2>3. QED
    BY <2>1, <2>2 DEF OutInv
<1>9. LeaveInv'
  BY <1>0, <1>3, <1>4, <1>6, GoneKept, LeaveKept
<1>10. SendingHasALoop'
  BY <1>0, <1>2, <1>4, <1>6, SendingKept
<1>11. QED
  BY <1>1, <1>5, <1>8, <1>9, <1>10, Together

\* A step of a handler that makes no key and no group.
LEMMA QuietHandler ==
  ASSUME IInv, NEW p \in Devices, Acts(p), ChanInv', Flow, LeaveInv', SendingHasALoop',
         made' = made, out' = out,
         p = Creator /\ group'[p] # <<>> => group[p] # <<>> /\ Head(group'[p]).key = Head(group[p]).key,
         p = Creator => IdsOf(roster'[p]) \subseteq IdsOf(roster[p]),
         p = Creator => \A q \in Others : \A u \in tasks'[p] :
           u.do = "send" /\ u.body.type = "key" /\ q \in ToSet(u.to) => Said(q, u.body)
  PROVE  IInv'
<1>0. Base /\ OutInv /\ Creator \in Devices /\ out \subseteq Others
  BY ConstantTypes DEF IInv, OutInv
<1>1. p # Creator => /\ group'[Creator] = group[Creator] /\ roster'[Creator] = roster[Creator]
                     /\ tasks'[Creator] = tasks[Creator]
  BY <1>0 DEF Acts
<1>2. OutCalm
  <2>1. InGroup(Creator)' => InGroup(Creator) /\ Record(Creator)'.key = Record(Creator).key
    BY <1>1 DEF InGroup, Record
  <2>2. \A q \in out' : <<Creator, q>> \in IdsOf(roster'[Creator]) => <<Creator, q>> \in IdsOf(roster[Creator])
    BY <1>1
  <2>3. \A q \in out' : \A u \in tasks'[Creator] :
          u.do = "send" /\ u.body.type = "key" /\ q \in ToSet(u.to) => Said(q, u.body)
    BY <1>0, <1>1 DEF Said
  <2>4. QED
    BY <2>1, <2>2, <2>3 DEF OutCalm
<1>3. TaskInv'
  BY <1>0, ActsKeep
<1>4. OutInv'
  BY <1>0, <1>2, <1>3, OutKept
<1>5. QED
  BY <1>4, Together

LEMMA EncryptedKeeps ==
  ASSUME IInv, NEW p \in Devices, NEW t \in tasks[p], Encrypted(p, t)
  PROVE  IInv'
<1>0. Base /\ LeaveInv /\ SendingHasALoop
  BY DEF IInv
<1>1. /\ Acts(p) /\ t.body.type # "key" /\ Follows(p, t.n, t.body, t.then)
      /\ \E to : tasks'[p] = (tasks[p] \ {t}) \cup Send(t.n, to, t.body, t.then)
  BY <1>0, EncryptedActs
<1>2. PICK to : tasks'[p] = (tasks[p] \ {t}) \cup Send(t.n, to, t.body, t.then)
  BY <1>1
<1>3. /\ t.do = "encrypt" /\ UNCHANGED <<group, roster, keys, chan, stuck, ops, made, out, marks>>
      /\ texts' = [texts EXCEPT ![p] =
           IF t.then.type = "text" THEN AddText(@, t.body.t, Self, "sending") ELSE @]
  BY DEF Encrypted, hvars
<1> DEFINE new == Send(t.n, to, t.body, t.then)
<1>4. new # {} /\ \A u \in new : u.do = "send" /\ u.n = t.n /\ u.body = t.body /\ u.then = t.then
  BY DEF Send
<1> HIDE DEF new
<1>5. tasks'[p] = (tasks[p] \ {t}) \cup new /\ \A r \in Devices \ {p} : tasks'[r] = tasks[r]
  BY <1>1, <1>2 DEF Acts, new
<1>6. Flow
  BY <1>0, <1>1, <1>3, <1>4, <1>5, PlainFlow
<1>7. ChanInv'
  BY <1>0, <1>1, <1>3, ChanKept DEF ChanInv, Acts, Base
<1>8. \A r \in Devices : LoopsGoOn(r)
  <2>1. \A r \in Devices : \A u \in tasks[r] : u.do = "send" => u \in tasks'[r]
    BY <1>3, <1>5
  <2>2. QED
    BY <2>1 DEF LoopsGoOn
<1>9. LeaveInv'
  BY <1>0, <1>3, <1>6, <1>8, GoneKept, LeaveKept, ConstantTypes
<1>10. SendingHasALoop'
  <2>1. ASSUME NEW r \in Devices, NEW x \in DOMAIN texts'[r], texts'[r][x].status = "sending"
        PROVE  (x \in DOMAIN texts[r] /\ texts[r][x].status = "sending") \/ \E u \in Loops(r, "text")' : u.n = x
    <3>1. CASE r = p /\ t.then.type = "text"
      <4>1. texts'[p] = AddText(texts[p], t.body.t, Self, "sending")
        BY <1>0, <1>3, <3>1, AtHome
      <4>2. (x \in DOMAIN texts[p] /\ texts'[p][x] = texts[p][x]) \/ x = t.body.t
        BY <2>1, <3>1, <4>1 DEF AddText
      <4>3. t.body.t = t.n
        BY <1>1, <3>1 DEF Follows
      <4>4. \E u \in Loops(r, "text")' : u.n = t.n
        BY <1>4, <1>5, <3>1 DEF Loops
      <4>5. QED
        BY <2>1, <3>1, <4>2, <4>3, <4>4
    <3>2. CASE ~(r = p /\ t.then.type = "text")
      BY <1>0, <1>3, <2>1, <3>2, AtHome
    <3>3. QED
      BY <3>1, <3>2
  <2>2. QED
    BY <1>0, <1>6, <1>8, <2>1, SendingKept
<1>11. \A q \in Others : \A u \in tasks'[Creator] :
         p = Creator /\ u.do = "send" /\ u.body.type = "key" /\ q \in ToSet(u.to) => Said(q, u.body)
  BY <1>1, <1>4, <1>5 DEF Said
<1>12. QED
  BY <1>1, <1>3, <1>6, <1>7, <1>9, <1>10, <1>11, QuietHandler

LEMMA SendsKeeps ==
  ASSUME IInv, NEW p \in Devices, NEW t \in tasks[p], SendsOne(p, t)
  PROVE  IInv'
<1>0. Base /\ LeaveInv /\ SendingHasALoop
  BY DEF IInv
<1>1. Acts(p)
  BY <1>0, SendsActs
<1>2. PICK u : /\ tasks'[p] = (tasks[p] \ {t}) \cup {u} /\ u.do = "send"
               /\ u.n = t.n /\ u.body = t.body /\ u.then = t.then /\ ToSet(u.to) \subseteq ToSet(t.to)
  BY <1>0, SendsActs
<1>3. /\ t.do = "send" /\ t.to # <<>> /\ Accepted(p, t) /\ stuck' \in {stuck, stuck \cup {<<p, Head(t.to)>>}}
      /\ UNCHANGED <<group, roster, keys, texts, ops, made, out, marks>>
  BY DEF SendsOne, Accepted, hvars
<1>4. /\ DOMAIN chan' = Devices /\ \A r \in Devices : DOMAIN chan'[r] = Devices
      /\ \A r, q \in Devices : IsSeq(chan'[r][q])
      /\ \A r, q \in Devices : \A b \in ToSet(chan'[r][q]) :
           b \in ToSet(chan[r][q]) \/ (r = p /\ q \in ToSet(t.to) /\ q \in Hearers(p) /\ b = t.body)
      /\ Carrier(p, t.body, made, ops)
  BY <1>0, <1>3, AcceptedOf
<1>5. \A r \in Devices \ {p} : tasks'[r] = tasks[r]
  BY <1>1 DEF Acts
<1>6. Flow
  <2>1. \A q \in Others : \A b \in ToSet(chan'[Creator][q]) : b \in ToSet(chan[Creator][q]) \/ Said(q, b)
    BY <1>3, <1>4, ConstantTypes DEF Said
  <2>2. QED
    BY <1>0, <1>1, <1>2, <1>3, <2>1, PlainFlow
<1>7. ChanInv'
  <2>1. stuck' \subseteq Devices \X Devices
    BY <1>0, <1>3, HeadIsDevice DEF Base, ChanInv
  <2>2. \A r, q \in Devices : \A b \in ToSet(chan'[r][q]) :
          b \in ToSet(chan[r][q]) \/ (q \in Hearers(r) /\ Carrier(r, b, made, ops))
    BY <1>4
  <2>3. made \in Nat /\ ops \in Nat
    BY <1>0, AtHome
  <2>4. QED
    BY <1>0, <1>3, <1>4, <2>1, <2>2, <2>3, ChanKept
<1>8. \A r \in Devices : LoopsGoOn(r)
  <2>1. \A r \in Devices : \A v \in tasks[r] : v.do = "send" => v \in tasks'[r] \/ (r = p /\ v = t)
    BY <1>2, <1>5
  <2>2. QED
    BY <1>2, <2>1 DEF LoopsGoOn
<1>9. LeaveInv'
  BY <1>0, <1>3, <1>6, <1>8, GoneKept, LeaveKept, ConstantTypes
<1>10. SendingHasALoop'
  BY <1>0, <1>3, <1>6, <1>8, SendingKept
<1>11. \A q \in Others : \A v \in tasks'[p] :
         p = Creator /\ v.do = "send" /\ v.body.type = "key" /\ q \in ToSet(v.to) => Said(q, v.body)
  BY <1>2, <1>3 DEF Said
<1>12. QED
  BY <1>1, <1>3, <1>6, <1>7, <1>9, <1>10, <1>11, QuietHandler

LEMMA FailsKeeps ==
  ASSUME IInv, NEW p \in Devices, NEW t \in tasks[p], SendFails(p, t)
  PROVE  IInv'
<1>0. Base /\ LeaveInv /\ SendingHasALoop
  BY DEF IInv
<1>1. Acts(p) /\ tasks'[p] = tasks[p] \ {t}
  BY <1>0, FailsActs
<1>2. /\ t.do = "send" /\ t.to # <<>> /\ marks' = marks \cup {<<"fault">>}
      /\ UNCHANGED <<group, roster, keys, ops, made, out>>
      /\ Accepted(p, t) \/ UNCHANGED chan
      /\ stuck' \in {stuck, stuck \cup {<<p, Head(t.to)>>}}
  BY DEF SendFails, Accepted
<1>3. /\ DOMAIN chan' = Devices /\ \A r \in Devices : DOMAIN chan'[r] = Devices
      /\ \A r, q \in Devices : IsSeq(chan'[r][q])
      /\ \A r, q \in Devices : \A b \in ToSet(chan'[r][q]) :
           b \in ToSet(chan[r][q]) \/ (r = p /\ q \in ToSet(t.to) /\ q \in Hearers(p) /\ b = t.body)
      /\ Carrier(p, t.body, made, ops)
  BY <1>0, <1>2, AcceptedOf
<1>4. Flow
  <2>1. \A q \in Others : \A b \in ToSet(chan'[Creator][q]) : b \in ToSet(chan[Creator][q]) \/ Said(q, b)
    BY <1>2, <1>3, ConstantTypes DEF Said
  <2>2. QED
    BY <1>0, <1>1, <1>2, <2>1, PlainFlow
<1>5. ChanInv'
  <2>3. stuck' \subseteq Devices \X Devices
    BY <1>0, <1>2, HeadIsDevice DEF Base, ChanInv
  <2>4. \A r, q \in Devices : \A b \in ToSet(chan'[r][q]) :
          b \in ToSet(chan[r][q]) \/ (q \in Hearers(r) /\ Carrier(r, b, made, ops))
    BY <1>3
  <2>5. made \in Nat /\ ops \in Nat
    BY <1>0, AtHome
  <2>6. QED
    BY <1>0, <1>2, <1>3, <2>3, <2>4, <2>5, ChanKept
<1>6. Happened("fault")'
  BY <1>2 DEF Happened
<1>7. Gone'
  BY <1>6 DEF Gone
<1>8. LeaveInv'
  BY <1>0, <1>4, <1>7, LeaveKept
<1>9. SendingHasALoop'
  BY <1>6 DEF SendingHasALoop
<1>10. \A q \in Others : \A u \in tasks'[p] :
         p = Creator /\ u.do = "send" /\ u.body.type = "key" /\ q \in ToSet(u.to) => Said(q, u.body)
  BY <1>1 DEF Said
<1>11. QED
  BY <1>1, <1>2, <1>4, <1>5, <1>8, <1>9, <1>10, QuietHandler

LEMMA ReloadKeeps == ASSUME IInv, NEW p \in Devices, Reload(p) PROVE IInv'
<1>0. Base /\ LeaveInv
  BY DEF IInv
<1>1. Acts(p) /\ tasks'[p] = {}
  BY <1>0, ReloadActs
<1>2. marks' = marks \cup {<<"fault">>} /\ UNCHANGED <<group, roster, keys, chan, stuck, ops, made, out>>
  BY DEF Reload
<1>3. Flow
  BY <1>0, <1>1, <1>2, PlainFlow
<1>4. ChanInv'
  BY <1>0, <1>1, <1>2, ChanKept DEF ChanInv, Acts, Base
<1>5. Happened("fault")'
  BY <1>2 DEF Happened
<1>6. Gone'
  BY <1>5 DEF Gone
<1>7. LeaveInv'
  BY <1>0, <1>3, <1>6, LeaveKept
<1>8. SendingHasALoop'
  BY <1>5 DEF SendingHasALoop
<1>9. QED
  BY <1>1, <1>2, <1>3, <1>4, <1>7, <1>8, QuietHandler

LEMMA EndsKeeps ==
  ASSUME IInv, NEW p \in Devices, NEW t \in tasks[p], LoopEnds(p, t)
  PROVE  IInv'
<1>0. Base /\ LeaveInv /\ SendingHasALoop
  BY DEF IInv
<1>1. /\ Acts(p) /\ Follows(p, t.n, t.body, t.then)
      /\ \A u \in tasks'[p] : (u \in tasks[p] /\ u # t) \/ (u.do = "encrypt" /\ u.then = Nothing)
      /\ \A u \in tasks[p] : u = t \/ u \in tasks'[p]
  BY <1>0, EndsActs
<1>2. t.do = "send" /\ UNCHANGED <<chan, stuck, ops, made, out>> /\ marks \subseteq marks'
  BY DEF LoopEnds
<1>3. \/ t.then.type = "leave" /\ RemoveGroup(p) /\ <<"left", p>> \in marks'
      \/ /\ t.then.type # "leave" /\ UNCHANGED <<group, roster, keys, marks>>
         /\ texts' = [texts EXCEPT ![p] = IF t.then.type = "text" THEN Delivered(@, t.body.t) ELSE @]
  BY DEF LoopEnds
<1>4. RemoveGroup(p) => group'[p] = <<>> /\ roster'[p] = <<>> /\ keys'[p] = {} /\ texts'[p] = None
  BY <1>0, AtHome DEF RemoveGroup
<1>5. \A r \in Devices \ {p} : /\ tasks'[r] = tasks[r] /\ texts'[r] = texts[r] /\ group'[r] = group[r]
                               /\ roster'[r] = roster[r] /\ keys'[r] = keys[r]
  BY <1>1 DEF Acts
<1>6. Flow
  <2>1. \A q \in Others : keys'[q] \subseteq keys[q]
    BY <1>3, <1>4, <1>5, ConstantTypes
  <2>2. QED
    BY <1>0, <1>1, <1>2, <2>1, PlainFlow
<1>7. ChanInv'
  BY <1>0, <1>1, <1>2, ChanKept DEF ChanInv, Acts, Base
<1>8. Gone => Gone'
  <2>1. CASE \E m : m \in marks /\ m \in {<<"left", Creator>>, <<"fault">>}
    BY <1>2, <2>1 DEF Gone, Leaves, Happened
  <2>2. CASE \E u \in tasks[Creator] : u.do = "send" /\ u.then.type = "leave"
    <3>1. PICK u \in tasks[Creator] : u.do = "send" /\ u.then.type = "leave"
      BY <2>2
    <3>2. CASE u \in tasks'[Creator]
      BY <3>1, <3>2 DEF Gone, Leaves, Loops
    <3>3. CASE u \notin tasks'[Creator]
      <4>1. p = Creator /\ u = t
        BY <1>1, <1>5, <3>1, <3>3, ConstantTypes
      <4>2. QED
        BY <1>3, <3>1, <4>1 DEF Gone, Leaves
    <3>4. QED
      BY <3>2, <3>3
  <2>3. QED
    BY <2>1, <2>2 DEF Gone, Leaves, Loops, Happened
<1>9. LeaveInv'
  <2>1. \A q \in Others : group'[q] # <<>> => group'[q] = group[q] /\ roster'[q] = roster[q]
    BY <1>3, <1>4, <1>5, ConstantTypes
  <2>2. QED
    BY <1>0, <1>6, <1>8, <2>1, LeaveKept
<1>10. SendingHasALoop'
  <2>1. SUFFICES ASSUME NEW r \in Devices, NEW x \in DOMAIN texts'[r], texts'[r][x].status = "sending"
                 PROVE  Happened("fault")' \/ \E u \in Loops(r, "text")' : u.n = x
    BY DEF SendingHasALoop
  <2>2. /\ x \in DOMAIN texts[r] /\ texts[r][x].status = "sending"
        /\ r = p /\ t.then.type = "text" => x # t.n
    <3>1. CASE r # p
      BY <1>5, <2>1, <3>1
    <3>2. CASE r = p /\ RemoveGroup(p)
      BY <1>4, <2>1, <3>2 DEF None
    <3>3. CASE r = p /\ t.then.type = "text"
      <4>1. texts'[p] = WithStatus(texts[p], t.body.t, "sent") /\ t.body.t = t.n
        BY <1>0, <1>1, <1>3, <3>3, AtHome DEF Delivered, Follows
      <4>2. \A v \in DOMAIN texts[p] : texts[p][v] \in TextRec
        BY <1>0, AtHome DEF TextsOK
      <4>3. QED
        BY <2>1, <3>3, <4>1, <4>2, CalmStatus
    <3>4. CASE r = p /\ t.then.type # "text" /\ ~RemoveGroup(p)
      BY <1>0, <1>3, <2>1, <3>4, AtHome
    <3>5. QED
      BY <1>3, <3>1, <3>2, <3>3, <3>4
  <2>3. CASE Happened("fault")
    BY <1>2, <2>3 DEF Happened
  <2>4. CASE \E u \in Loops(r, "text") : u.n = x
    <3>1. PICK u \in tasks[r] : u.do = "send" /\ u.then.type = "text" /\ u.n = x
      BY <2>4 DEF Loops
    <3>2. u \in tasks'[r]
      BY <1>1, <1>5, <2>2, <3>1
    <3>3. QED
      BY <3>1, <3>2 DEF Loops
  <2>5. QED
    BY <1>0, <2>2, <2>3, <2>4 DEF SendingHasALoop
<1>11. /\ p = Creator /\ group'[p] # <<>> => group[p] # <<>> /\ Head(group'[p]).key = Head(group[p]).key
       /\ p = Creator => IdsOf(roster'[p]) \subseteq IdsOf(roster[p])
  BY <1>3, <1>4, EmptyOf DEF IdsOf
<1>12. \A q \in Others : \A u \in tasks'[p] :
         p = Creator /\ u.do = "send" /\ u.body.type = "key" /\ q \in ToSet(u.to) => Said(q, u.body)
  BY <1>1 DEF Said
<1>13. QED
  BY <1>1, <1>2, <1>6, <1>7, <1>9, <1>10, <1>11, <1>12, QuietHandler

LEMMA StoredKeeps ==
  ASSUME IInv, NEW q \in Devices, NEW t \in tasks[q], Stored(q, t)
  PROVE  IInv'
<1>0. Base /\ LeaveInv /\ SendingHasALoop
  BY DEF IInv
<1>1. /\ Acts(q) /\ q # Creator /\ tasks'[q] = tasks[q] \ {t} /\ t.do = "store"
      /\ \A x \in keys'[q] : x \in keys[q] \/ x.id = t.body.key
      /\ \/ <<q, Creator>> \in IdsOf(roster'[q])
         \/ roster'[q] = roster[q] /\ (group'[q] = <<>> <=> group[q] = <<>>)
  BY <1>0, StoredActs
<1>2. UNCHANGED <<chan, stuck, ops, made, marks, out>>
  BY DEF Stored, hvars
<1>3. \A r \in Devices \ {q} : /\ tasks'[r] = tasks[r] /\ texts'[r] = texts[r] /\ group'[r] = group[r]
                               /\ roster'[r] = roster[r] /\ keys'[r] = keys[r]
  BY <1>1 DEF Acts
<1>4. Flow
  <2>1. \A r \in Others : \A u \in tasks'[r] : u \in tasks[r]
    BY <1>1, <1>3, ConstantTypes
  <2>2. \A r \in Others : \A x \in keys'[r] : x \in keys[r] \/ \E u \in tasks[r] : u.do = "store" /\ u.body.key = x.id
    BY <1>1, <1>3, ConstantTypes
  <2>3. QED
    BY <1>2, <2>1, <2>2 DEF Flow
<1>5. ChanInv'
  BY <1>0, <1>1, <1>2, ChanKept DEF ChanInv, Acts, Base
<1>6. \A r \in Devices : LoopsGoOn(r)
  <2>1. \A r \in Devices : \A u \in tasks[r] : u.do = "send" => u \in tasks'[r]
    BY <1>1, <1>3
  <2>2. QED
    BY <2>1 DEF LoopsGoOn
<1>7. LeaveInv'
  <2>1. \A r \in Others : group'[r] # <<>> =>
          <<r, Creator>> \in IdsOf(roster'[r]) \/ (group[r] # <<>> /\ roster'[r] = roster[r])
    BY <1>1, <1>3, ConstantTypes
  <2>2. QED
    BY <1>0, <1>4, <1>6, <2>1, GoneKept, LeaveKept, ConstantTypes
<1>8. SendingHasALoop'
  <2>1. \A r \in Devices : \A x \in DOMAIN texts'[r] : x \in DOMAIN texts[r] /\ texts'[r] = texts[r]
    <3>1. t.fresh => texts'[q] = None
      BY <1>0, AtHome DEF Stored, AddGroup
    <3>2. ~t.fresh => texts'[q] = texts[q]
      BY DEF Stored
    <3>3. QED
      BY <1>3, <3>1, <3>2 DEF None
  <2>2. QED
    BY <1>0, <1>4, <1>6, <2>1, SendingKept
<1>9. QED
  BY <1>1, <1>2, <1>4, <1>5, <1>7, <1>8, QuietHandler

LEMMA AppliedKeeps ==
  ASSUME IInv, NEW q \in Devices, NEW t \in tasks[q], Applied(q, t)
  PROVE  IInv'
<1>0. Base /\ LeaveInv /\ SendingHasALoop
  BY DEF IInv
<1>1. /\ Acts(q) /\ tasks'[q] = tasks[q] \ {t} /\ t.do = "apply"
      /\ group'[q] = <<>> <=> group[q] = <<>>
      /\ q = Creator => /\ IdsOf(roster'[q]) \subseteq IdsOf(roster[q])
                        /\ group[q] # <<>> => Head(group'[q]).key = Head(group[q]).key
      /\ \/ q = Creator \/ (t.from = Creator /\ Farewell(t.body))
         \/ <<q, Creator>> \in IdsOf(roster[q]) => <<q, Creator>> \in IdsOf(roster'[q])
      /\ \A u \in DOMAIN texts'[q] :
           texts'[q][u].status = "sending" => u \in DOMAIN texts[q] /\ texts[q][u].status = "sending"
  BY <1>0, AppliedActs
<1>2. UNCHANGED <<keys, chan, stuck, ops, made, marks, out>>
  BY DEF Applied
<1>3. \A r \in Devices \ {q} : /\ tasks'[r] = tasks[r] /\ texts'[r] = texts[r] /\ group'[r] = group[r]
                               /\ roster'[r] = roster[r]
  BY <1>1 DEF Acts
<1>4. Flow
  BY <1>0, <1>1, <1>2, PlainFlow
<1>5. ChanInv'
  BY <1>0, <1>1, <1>2, ChanKept DEF ChanInv, Acts, Base
<1>6. \A r \in Devices : LoopsGoOn(r)
  <2>1. \A r \in Devices : \A u \in tasks[r] : u.do = "send" => u \in tasks'[r]
    BY <1>1, <1>3
  <2>2. QED
    BY <2>1 DEF LoopsGoOn
<1>7. LeaveInv'
  <2>1. Gone => Gone'
    BY <1>4, <1>6, GoneKept, ConstantTypes
  <2>2. q \in Others /\ t.from = Creator /\ Farewell(t.body) => Gone
    BY <1>0, <1>1 DEF LeaveInv
  <2>3. \A r \in Others : group'[r] # <<>> => Gone' \/
          (group[r] # <<>> /\ (<<r, Creator>> \in IdsOf(roster[r]) => <<r, Creator>> \in IdsOf(roster'[r])))
    BY <1>1, <1>3, <2>1, <2>2, ConstantTypes
  <2>4. QED
    BY <1>0, <1>4, <2>1, <2>3, LeaveKept
<1>8. SendingHasALoop'
  <2>1. \A r \in Devices : \A x \in DOMAIN texts'[r] :
          texts'[r][x].status = "sending" => x \in DOMAIN texts[r] /\ texts[r][x].status = "sending"
    BY <1>1, <1>3
  <2>2. QED
    BY <1>0, <1>4, <1>6, <2>1, SendingKept
<1>9. \A r \in Others : \A u \in tasks'[q] :
         q = Creator /\ u.do = "send" /\ u.body.type = "key" /\ r \in ToSet(u.to) => Said(r, u.body)
  BY <1>1 DEF Said
<1>10. QED
  BY <1>1, <1>2, <1>4, <1>5, <1>7, <1>8, <1>9, QuietHandler

LEMMA ArrivesKeeps ==
  ASSUME IInv, NEW p \in Devices, NEW q \in Devices, Arrives(p, q), Acts(q), marks \subseteq marks',
         tasks[q] \subseteq tasks'[q],
         \A u \in tasks'[q] : u \in tasks[q] \/
            (u.do \in {"store", "apply"} /\ (u.do = "store" => p = Creator) /\ u.from = p /\ u.body = Head(chan[p][q]))
  PROVE  IInv'
<1>0. Base /\ LeaveInv /\ SendingHasALoop /\ Creator \in Devices
  BY ConstantTypes DEF IInv
<1>1. /\ Head(chan[p][q]) \in ToSet(chan[p][q])
      /\ DOMAIN chan' = Devices /\ \A r \in Devices : DOMAIN chan'[r] = Devices
      /\ \A r, s \in Devices : IsSeq(chan'[r][s]) /\ ToSet(chan'[r][s]) \subseteq ToSet(chan[r][s])
      /\ UNCHANGED <<group, roster, keys, texts, stuck, ops, made, faults, out>>
  BY <1>0, ArrivesOf
<1>2. \A r \in Devices \ {q} : tasks'[r] = tasks[r]
  BY DEF Acts
<1>3. Flow
  <2>1. \A r \in Others : \A b \in ToSet(chan'[Creator][r]) : b \in ToSet(chan[Creator][r])
    BY <1>0, <1>1, ConstantTypes
  <2>2. \A r \in Others : \A u \in tasks'[r] :
          u.do = "store" \/ (u.do = "apply" /\ u.from = Creator) => u \in tasks[r] \/ u.body \in ToSet(chan[Creator][r])
    BY <1>1, <1>2, ConstantTypes
  <2>3. QED
    BY <1>1, <2>1, <2>2 DEF Flow
<1>4. ChanInv'
  <2>1. stuck' \subseteq Devices \X Devices /\ made \in Nat /\ ops \in Nat
    BY <1>0, <1>1, AtHome DEF Base, ChanInv
  <2>2. \A r, s \in Devices : IsSeq(chan'[r][s])
    BY <1>1
  <2>3. \A r, s \in Devices : \A b \in ToSet(chan'[r][s]) :
          b \in ToSet(chan[r][s]) \/ (s \in Hearers(r) /\ Carrier(r, b, made, ops))
    BY <1>1
  <2>4. made' \in Nat /\ made <= made' /\ ops' \in Nat /\ ops <= ops' /\ stuck' \subseteq Devices \X Devices
    BY <1>1, <2>1
  <2>5. QED
    BY <1>0, <1>1, <2>2, <2>3, <2>4, ChanKept
<1>5. \A r \in Devices : LoopsGoOn(r)
  <2>1. \A r \in Devices : tasks[r] \subseteq tasks'[r]
    BY <1>2
  <2>2. QED
    BY <2>1 DEF LoopsGoOn
<1>6. LeaveInv'
  BY <1>0, <1>1, <1>3, <1>5, GoneKept, LeaveKept
<1>7. SendingHasALoop'
  BY <1>0, <1>1, <1>3, <1>5, SendingKept
<1>8. \A r \in Others : \A u \in tasks'[q] :
         q = Creator /\ u.do = "send" /\ u.body.type = "key" /\ r \in ToSet(u.to) => Said(r, u.body)
  BY DEF Said
<1>9. QED
  BY <1>1, <1>3, <1>4, <1>6, <1>7, <1>8, QuietHandler

LEMMA GetsKeyKeeps == ASSUME IInv, NEW p \in Devices, NEW q \in Devices, GetsKey(p, q) PROVE IInv'
<1>1. /\ Acts(q) /\ p = Creator /\ tasks[q] \subseteq tasks'[q]
      /\ \A u \in tasks'[q] : u \in tasks[q] \/
           (u.do = "store" /\ u.from = Creator /\ u.body = Head(chan[Creator][q]))
  BY GetsKeyActs DEF IInv
<1>2. Arrives(p, q) /\ marks \subseteq marks'
  BY DEF GetsKey
<1>3. QED
  BY <1>1, <1>2, ArrivesKeeps

LEMMA GetsCarrierKeeps == ASSUME IInv, NEW p \in Devices, NEW q \in Devices, GetsCarrier(p, q) PROVE IInv'
<1>1. /\ Acts(q) /\ tasks[q] \subseteq tasks'[q]
      /\ \A u \in tasks'[q] : u \in tasks[q] \/ (u.do = "apply" /\ u.from = p /\ u.body = Head(chan[p][q]))
  BY GetsCarrierActs DEF IInv
<1>2. Arrives(p, q) /\ marks' = marks
  BY DEF GetsCarrier
<1>3. QED
  BY <1>1, <1>2, ArrivesKeeps

-----------------------------------------------------------------------------
(* The invariant, and what follows from it                                 *)

LEMMA InitIInv == Init => IInv
<1> SUFFICES ASSUME Init PROVE IInv
  OBVIOUS
<1>1. /\ group = [p \in Devices |-> <<>>] /\ roster = [p \in Devices |-> <<>>]
      /\ keys = [p \in Devices |-> {}] /\ texts = [p \in Devices |-> None]
      /\ tasks = [p \in Devices |-> {}] /\ chan = [p \in Devices |-> [q \in Devices |-> <<>>]]
      /\ stuck = {} /\ ops = 0 /\ made = 0 /\ faults = 0 /\ out = {}
  BY DEF Init
<1>2. Creator \in Devices /\ Others \subseteq Devices /\ MaxSteps \in Nat
  BY ConstantTypes, GroupAssumption
<1>3. \A p \in Devices : GroupOK(<<>>, 0) /\ RosterOK(p, <<>>) /\ KeysOK({}, 0) /\ TextsOK(p, None, 0)
  BY EmptyStores
<1>4. StoreInv
  BY <1>1, <1>2, <1>3 DEF StoreInv
<1>5. RosterInv /\ TextInv /\ TaskInv
  BY <1>1, <1>3 DEF RosterInv, TextInv, TaskInv
<1>6. \A p, q \in Devices : chan[p][q] = <<>>
  BY <1>1
<1>7. ChanInv
  BY <1>1, <1>6, EmptyOf DEF ChanInv
<1>8. OutInv
  BY <1>1 DEF OutInv
<1>9. LeaveInv
  BY <1>1, <1>2, <1>6, EmptyOf DEF LeaveInv, InGroup
<1>10. SendingHasALoop
  BY <1>1 DEF SendingHasALoop, None
<1>11. QED
  BY <1>4, <1>5, <1>7, <1>8, <1>9, <1>10 DEF IInv, Base

LEMMA NextIInv == IInv /\ [Next]_gvars => IInv'
<1> SUFFICES ASSUME IInv, [Next]_gvars PROVE IInv'
  OBVIOUS
<1>1. CASE UNCHANGED gvars
  <2>1. UNCHANGED <<group, roster, keys, texts, tasks, chan, stuck, ops, made, faults, marks, out, dropped>>
    BY <1>1 DEF gvars, hvars
  <2>2. (StoreInv /\ RosterInv /\ TextInv)' = (StoreInv /\ RosterInv /\ TextInv)
    BY <2>1 DEF StoreInv, RosterInv, TextInv
  <2>3. (TaskInv /\ ChanInv)' = (TaskInv /\ ChanInv)
    BY <2>1 DEF TaskInv, ChanInv
  <2>4. OutInv' = OutInv
    BY <2>1 DEF OutInv, InGroup, Record, IsMember, Lacks, HasKey, Storing
  <2>5. LeaveInv' = LeaveInv
    BY <2>1 DEF LeaveInv, InGroup, IsMember, Gone, Leaves, Loops, Happened
  <2>6. SendingHasALoop' = SendingHasALoop
    BY <2>1 DEF SendingHasALoop, Loops, Happened
  <2>7. QED
    BY <2>2, <2>3, <2>4, <2>5, <2>6 DEF IInv, Base
<1>2. ASSUME NEW p \in Devices, UserStep(p) PROVE IInv'
  <2>1. ASSUME NEW invited \in Invitations, p = Creator, CreateGroup(p, invited) PROVE IInv'
    BY <2>1, CreateKeeps
  <2>2. ASSUME NEW q \in Devices \ {p}, AddGroupMember(p, q) PROVE IInv'
    BY <2>2, AddKeeps
  <2>3. ASSUME NEW m \in ToSet(roster[p]), m.id # Self, RemoveGroupMember(p, m.id) PROVE IInv'
    BY <2>3, RemoveKeeps
  <2>4. ASSUME NEW m \in ToSet(roster[p]), NEW role \in {"admin", "member"}, ChangeRole(p, m.id, role) PROVE IInv'
    BY <2>4, RoleKeeps
  <2>5. ASSUME NEW t \in DOMAIN texts[p], SendGroupReadReceipt(p, t) PROVE IInv'
    BY <2>5, ReceiptKeeps
  <2>6. QED
    BY <1>2, <2>1, <2>2, <2>3, <2>4, <2>5, MessageKeeps, LeaveKeeps, NameKeeps DEF UserStep
<1>3. ASSUME NEW p \in Devices, HandlerStep(p) PROVE IInv'
  BY <1>3, RotatedKeeps, EncryptedKeeps, SendsKeeps, EndsKeeps, StoredKeeps, AppliedKeeps,
     GetsKeyKeeps, GetsCarrierKeeps DEF HandlerStep
<1>4. ASSUME NEW p \in Devices, Fault(p) PROVE IInv'
  BY <1>4, ReloadKeeps, FailsKeeps DEF Fault
<1>5. QED
  BY <1>1, <1>2, <1>3, <1>4 DEF Next

\* The inductive invariant holds in every state.
THEOREM Invariance == Spec => []IInv
<1>1. Init => IInv
  BY InitIInv
<1>2. IInv /\ [Next]_gvars => IInv'
  BY NextIInv
<1>3. QED
  BY <1>1, <1>2, PTL DEF Spec

\* The stores, handlers and carriers of every device have their shape, and no
\* member is listed twice (addMember, setMembers, updateGroup).
THEOREM TypeCorrect == Spec => []TypeOK
<1>1. IInv => TypeOK
  <2> SUFFICES ASSUME IInv PROVE TypeOK
    OBVIOUS
  <2>1. Base /\ out \subseteq Others
    BY DEF IInv, OutInv
  <2>2. ASSUME NEW p \in Devices
        PROVE  /\ \A r \in ToSet(group[p]) : r \in [key : 1..made, rot : Nat, name : {"old", "new"}]
               /\ roster[p] \in Roster
               /\ \A i, j \in DOMAIN roster[p] : roster[p][i].id = roster[p][j].id => i = j
               /\ keys[p] \subseteq [id : 1..made, rot : Nat]
               /\ \A t \in DOMAIN texts[p] : t \in 1..ops /\ texts[p][t] \in [from : Ids, status : Status]
    <3>1. GroupOK(group[p], made) /\ RosterOK(p, roster[p]) /\ KeysOK(keys[p], made) /\ TextsOK(p, texts[p], ops)
      BY <2>1, AtHome
    <3>2. roster[p] \in Roster
      BY <3>1, SeqMonotonic DEF RosterOK, Roster, Member, IsSeq
    <3>3. QED
      BY <3>1, <3>2 DEF GroupOK, RosterOK, KeysOK, TextsOK, TextRec
  <2>3. stuck \subseteq Devices \X Devices /\ out \subseteq Devices /\ ops + faults <= MaxSteps
    BY <2>1, ConstantTypes DEF Base, ChanInv, StoreInv
  <2>4. QED
    BY <2>2, <2>3 DEF TypeOK
<1>2. QED
  BY <1>1, Invariance, PTL

\* Whatever overlaps and fails, and for any number of devices: a member who was
\* removed, and not added again, neither holds nor is sent the key the creator
\* encrypts with (rotateKey before removeMember before distributeGroupKey).
THEOREM RemovedStaysOut == Spec => []RemovedLacksCurrentKey
<1>1. IInv => RemovedLacksCurrentKey
  BY DEF IInv, OutInv, Lacks, RemovedLacksCurrentKey
<1>2. QED
  BY <1>1, Invariance, PTL

\* A text is 'sending' for good only after a fault (sendGroupMessage), and a
\* member loses the creator from his list only when the creator leaves or
\* failed while leaving (leaveGroup).
THEOREM NothingHangsUnlessFault == Spec => [](SendingHasALoop /\ HalfLeftNeedsFault)
<1>1. IInv => SendingHasALoop /\ HalfLeftNeedsFault
  BY DEF IInv, LeaveInv, Gone, HalfLeftNeedsFault
<1>2. QED
  BY <1>1, Invariance, PTL

-----------------------------------------------------------------------------
(* Order: what holds as long as no two operations overlap of which one     *)
(* makes or sends a key                                                    *)

Calm == ~Happened("race")

Line(q) == chan[Creator][q]
Stores(q) == {t \in tasks[q] : t.do = "store"}
LineKeys(q) == {b \in ToSet(Line(q)) : b.type = "key"}
Ascending(s) == \A i, j \in DOMAIN s :
  i < j /\ s[i].type = "key" /\ s[j].type = "key" => s[i].key <= s[j].key

\* Of the operations under way one that makes or sends a key is the only one.
Busy(ts) == {t \in ts : t.do \in {"rotate", "encrypt", "send"}}
Alone(ts) == \A t \in Busy(ts) : CarriesKey(t) => Busy(ts) = {t}
\* What an operation works with, when m keys were made.
Current(t, m) ==
  /\ t.do = "rotate" => t.rot = m
  /\ t.do = "encrypt" => t.body.with = m
  /\ t.do = "send" /\ t.body.type = "key" => t.body.key = m /\ t.body.rot + 1 = m

\* The creator's keys are numbered as they were made; he works with the last.
AloneInv == Calm =>
  /\ Alone(tasks[Creator])
  /\ \A t \in tasks[Creator] : Current(t, made)
  /\ \A k \in keys[Creator] : k.rot + 1 = k.id
  /\ InGroup(Creator) =>
       /\ Record(Creator).key = made /\ Record(Creator).rot + 1 = made
       /\ \A i \in 1..made : i + KeepKeys >= made => HasKey(Creator, i)

\* A member's record is under a key he has.
HeldInv(q) == InGroup(q) => HasKey(q, Record(q).key)

\* The keys of a member are numbered like that, he stores one at a time, and
\* they come to him in that order.
KeyInv(q) == Calm =>
  /\ \A t, u \in Stores(q) : t = u
  /\ Ascending(Line(q))
  /\ \A b \in LineKeys(q) : b.rot + 1 = b.key
  /\ \A t \in Stores(q) : t.body.rot + 1 = t.body.key /\ \A b \in LineKeys(q) : t.body.key <= b.key
  /\ \A k \in keys[q] : k.rot + 1 = k.id
  /\ InGroup(q) =>
       /\ Record(q).rot + 1 = Record(q).key
       /\ \A b \in LineKeys(q) : Record(q).key <= b.key
       /\ \A t \in Stores(q) : Record(q).key <= t.body.key

-----------------------------------------------------------------------------
(* What the creator and one member agree on while nothing failed either    *)
(* and neither of the two leaves                                           *)

\* Not every key for q has come: its envelope waits ahead of what he accepts, and the
\* line with it, or he could not open it.
KeyLost(q) == <<"key", q, "sealed">> \in dropped
Missed(q) == <<Creator, q>> \in stuck \/ KeyLost(q)

Fine(q) == Calm /\ ~Happened("fault") /\ ~Leaves(Creator) /\ ~Leaves(q)

Removed(q) == <<"removed", q>> \in marks
Listed(q) == <<Creator, q>> \in IdsOf(roster[Creator])
KeyLoops(q) == {t \in tasks[Creator] : t.do = "send" /\ t.body.type = "key" /\ q \in ToSet(t.to)}
Held(q) == {k.id : k \in keys[q]} \cup {t.body.key : t \in Stores(q)}
KeysComing(q) == {b.key : b \in LineKeys(q)}

\* The creator has his group from createGroup until he leaves.
HomeInv ==
  /\ made = 0 => /\ roster[Creator] = <<>> /\ <<"left", Creator>> \notin marks
                 /\ \A t \in tasks[Creator] : t.do # "rotate"
  /\ InGroup(Creator) <=> made # 0 /\ <<"left", Creator>> \notin marks

\* A farewell of q's is only on its way when he leaves.
Departs(q) == Leaves(q) \/ Happened("fault")
FarewellInv(q) ==
  /\ \A b \in ToSet(chan[q][Creator]) : Farewell(b) => Departs(q)
  /\ \A t \in tasks[Creator] : t.do = "apply" /\ t.from = q /\ Farewell(t.body) => Departs(q)

\* Whoever was never a member has nothing to do with the group.
Stranger(q) ==
  /\ Line(q) = <<>> /\ chan[q][Creator] = <<>> /\ tasks[q] = {} /\ group[q] = <<>>
  /\ \A t \in tasks[Creator] : /\ t.do = "send" => q \notin ToSet(t.to)
                               /\ t.do = "encrypt" /\ t.body.type = "read" => t.body.to # q
                               /\ t.do = "apply" => t.from # q
  /\ \A x \in DOMAIN texts[Creator] : texts[Creator][x].from # <<Creator, q>>

\* A member with a key has the group.
GuestInv(q) ==
  /\ keys[q] # {} => InGroup(q)
  /\ \A t \in Stores(q) : t.fresh <=> ~InGroup(q)
  /\ \A t \in tasks[q] : t.do = "apply" => InGroup(q)

\* Where the current key of a member is: still to be sent, on the line, being
\* stored, or in use, unless it was missed.
Latest(q) ==
  \/ Missed(q)
  \/ KeyLoops(q) # {}
  \/ made \in KeysComing(q)
  \/ \E t \in Stores(q) : t.body.key = made
  \/ InGroup(q) /\ Record(q).key = made

\* Whatever of s is sealed is sealed with a key of K or one before it in s.
Covered(s, K) == \A i \in DOMAIN s : s[i].type # "key" =>
  s[i].with \in K \/ \E j \in DOMAIN s : j < i /\ s[j].type = "key" /\ s[j].key = s[i].with

BehindInv(q) ==
  \/ KeyLost(q)
  \/ /\ Covered(Line(q), Held(q))
     /\ \A t \in tasks[Creator] :
          t.do = "send" /\ t.body.type # "key" /\ q \in ToSet(t.to) =>
            <<Creator, q>> \in stuck \/ t.body.with \in Held(q) \cup KeysComing(q)

OrderInv(q) == Fine(q) =>
  /\ Listed(q) \/ Removed(q) \/ Stranger(q)
  /\ GuestInv(q)
  /\ Listed(q) => Latest(q)
  /\ Removed(q) \/ BehindInv(q)

MemberInv(q) == HeldInv(q) /\ KeyInv(q) /\ FarewellInv(q) /\ OrderInv(q)
OInv == AloneInv /\ HomeInv /\ RefusalNeedsCause /\ \A q \in Others : MemberInv(q)

-----------------------------------------------------------------------------
(* Lines and operations                                                    *)

LEMMA PlacesOf == ASSUME NEW s PROVE \A b \in ToSet(s) : \E i \in DOMAIN s : s[i] = b
BY DEF ToSet

LEMMA AscendingAppend ==
  ASSUME NEW s, IsSeq(s), Ascending(s), NEW x,
         x.type = "key" => \A b \in ToSet(s) : b.type = "key" => b.key <= x.key
  PROVE  Ascending(Append(s, x))
<1> DEFINE r == Append(s, x)
           n == Len(s) + 1
<1>1. /\ Len(s) \in Nat /\ DOMAIN s = 1..Len(s) /\ \A i \in DOMAIN s : s[i] \in ToSet(s)
  BY LenOf
<1>2. DOMAIN r = 1..n /\ r[n] = x /\ \A i \in DOMAIN s : r[i] = s[i]
  BY AppendOf
<1>3. \A i \in DOMAIN r : i \in DOMAIN s \/ i = n
  BY <1>1, <1>2
<1> HIDE DEF r
<1>4. SUFFICES ASSUME NEW i \in DOMAIN r, NEW j \in DOMAIN r, i < j, r[i].type = "key", r[j].type = "key"
               PROVE  r[i].key <= r[j].key
  BY DEF Ascending, r
<1>5. i \in DOMAIN s
  BY <1>1, <1>2, <1>4
<1>6. CASE j \in DOMAIN s
  BY <1>2, <1>4, <1>5, <1>6 DEF Ascending
<1>7. CASE j = n
  BY <1>1, <1>2, <1>4, <1>5, <1>7
<1>8. QED
  BY <1>3, <1>6, <1>7

LEMMA RestOf ==
  ASSUME NEW s, IsSeq(s), s # <<>>
  PROVE  /\ 1 \in DOMAIN s /\ Head(s) = s[1]
         /\ \A i \in DOMAIN Tail(s) : i \in Nat /\ i > 0 /\ i + 1 \in DOMAIN s /\ Tail(s)[i] = s[i + 1]
         /\ \A j \in DOMAIN s : j \in Nat /\ j > 0 /\ (j > 1 => j - 1 \in DOMAIN Tail(s))
<1>1. /\ Head(s) = s[1] /\ Tail(s) \in Seq(ToSet(s)) /\ Len(Tail(s)) = Len(s) - 1
      /\ \A i \in 1..Len(Tail(s)) : Tail(s)[i] = s[i + 1]
  BY HeadTailProperties DEF IsSeq
<1>2. Len(s) \in Nat \ {0} /\ DOMAIN s = 1..Len(s) /\ DOMAIN Tail(s) = 1..(Len(s) - 1)
  BY <1>1, LenProperties, EmptySeq DEF IsSeq
<1>3. QED
  BY <1>1, <1>2

LEMMA AscendingTail ==
  ASSUME NEW s, IsSeq(s), s # <<>>, Ascending(s)
  PROVE  /\ Ascending(Tail(s))
         /\ Head(s).type = "key" => \A b \in ToSet(Tail(s)) : b.type = "key" => Head(s).key <= b.key
<1> DEFINE r == Tail(s)
<1>1. /\ 1 \in DOMAIN s /\ Head(s) = s[1]
      /\ \A i \in DOMAIN r : i \in Nat /\ i > 0 /\ i + 1 \in DOMAIN s /\ r[i] = s[i + 1]
  BY RestOf
<1> HIDE DEF r
<1>2. Ascending(r)
  <2>1. SUFFICES ASSUME NEW i \in DOMAIN r, NEW j \in DOMAIN r, i < j, r[i].type = "key", r[j].type = "key"
                 PROVE  r[i].key <= r[j].key
    BY DEF Ascending
  <2>2. i + 1 \in DOMAIN s /\ j + 1 \in DOMAIN s /\ i + 1 < j + 1 /\ r[i] = s[i + 1] /\ r[j] = s[j + 1]
    BY <1>1, <2>1
  <2>3. QED
    BY <2>1, <2>2 DEF Ascending
<1>3. ASSUME Head(s).type = "key", NEW b \in ToSet(r), b.type = "key" PROVE Head(s).key <= b.key
  <2>1. PICK i \in DOMAIN r : r[i] = b
    BY PlacesOf
  <2>2. i + 1 \in DOMAIN s /\ 1 < i + 1 /\ s[i + 1] = b
    BY <1>1, <2>1
  <2>3. QED
    BY <1>1, <1>3, <2>2 DEF Ascending
<1>4. QED
  BY <1>2, <1>3 DEF r

LEMMA CoveredAppend ==
  ASSUME NEW s, IsSeq(s), NEW K, Covered(s, K), NEW x,
         x.type # "key" => x.with \in K \/ \E b \in ToSet(s) : b.type = "key" /\ b.key = x.with
  PROVE  Covered(Append(s, x), K)
<1> DEFINE r == Append(s, x)
           n == Len(s) + 1
<1>1. Len(s) \in Nat /\ DOMAIN s = 1..Len(s)
  BY LenOf
<1>2. DOMAIN r = 1..n /\ r[n] = x /\ \A i \in DOMAIN s : r[i] = s[i]
  BY AppendOf
<1>3. \A i \in DOMAIN r : i \in DOMAIN s \/ i = n
  BY <1>1, <1>2
<1>4. \A i \in DOMAIN s : i \in DOMAIN r /\ i < n
  BY <1>1, <1>2
<1> HIDE DEF r, n
<1>5. SUFFICES ASSUME NEW i \in DOMAIN r, r[i].type # "key"
               PROVE  r[i].with \in K \/ \E j \in DOMAIN r : j < i /\ r[j].type = "key" /\ r[j].key = r[i].with
  BY DEF Covered, r
<1>6. CASE i \in DOMAIN s
  <2>1. s[i].with \in K \/ \E j \in DOMAIN s : j < i /\ s[j].type = "key" /\ s[j].key = s[i].with
    BY <1>2, <1>5, <1>6 DEF Covered
  <2>2. QED
    BY <1>2, <1>4, <1>6, <2>1
<1>7. CASE i = n
  <2>1. x.with \in K \/ \E j \in DOMAIN s : s[j].type = "key" /\ s[j].key = x.with
    BY <1>2, <1>5, <1>7, PlacesOf
  <2>2. QED
    BY <1>2, <1>4, <1>7, <2>1
<1>8. QED
  BY <1>3, <1>6, <1>7

\* What comes first is gone, and if it was a key it is in K now.
LEMMA CoveredTail ==
  ASSUME NEW s, IsSeq(s), s # <<>>, NEW K, Covered(s, K), NEW L, K \subseteq L,
         Head(s).type = "key" => Head(s).key \in L
  PROVE  /\ Covered(Tail(s), L)
         /\ Head(s).type # "key" => Head(s).with \in K
<1> DEFINE r == Tail(s)
<1>1. /\ 1 \in DOMAIN s /\ Head(s) = s[1]
      /\ \A i \in DOMAIN r : i \in Nat /\ i > 0 /\ i + 1 \in DOMAIN s /\ r[i] = s[i + 1]
      /\ \A j \in DOMAIN s : j \in Nat /\ j > 0 /\ (j > 1 => j - 1 \in DOMAIN r)
  BY RestOf
<1> HIDE DEF r
<1>2. Covered(r, L)
  <2>1. SUFFICES ASSUME NEW i \in DOMAIN r, r[i].type # "key"
                 PROVE  r[i].with \in L \/ \E j \in DOMAIN r : j < i /\ r[j].type = "key" /\ r[j].key = r[i].with
    BY DEF Covered
  <2>2. i \in Nat /\ i + 1 \in DOMAIN s /\ r[i] = s[i + 1]
    BY <1>1
  <2>3. s[i + 1].with \in K \/ \E j \in DOMAIN s : j < i + 1 /\ s[j].type = "key" /\ s[j].key = s[i + 1].with
    BY <2>1, <2>2 DEF Covered
  <2>4. CASE s[i + 1].with \in K
    BY <2>2, <2>4
  <2>5. ASSUME NEW j \in DOMAIN s, j < i + 1, s[j].type = "key", s[j].key = s[i + 1].with
        PROVE  r[i].with \in L \/ \E k \in DOMAIN r : k < i /\ r[k].type = "key" /\ r[k].key = r[i].with
    <3>1. CASE j = 1
      BY <1>1, <2>2, <2>5, <3>1
    <3>2. CASE j # 1
      <4>1. j - 1 \in DOMAIN r /\ j - 1 < i /\ (j - 1) + 1 = j
        BY <1>1, <2>2, <2>5, <3>2
      <4>2. r[j - 1] = s[j]
        BY <1>1, <4>1
      <4>3. QED
        BY <2>2, <2>5, <4>1, <4>2
    <3>3. QED
      BY <3>1, <3>2
  <2>6. QED
    BY <2>3, <2>4, <2>5
<1>3. ASSUME Head(s).type # "key" PROVE Head(s).with \in K
  <2>1. \A j \in DOMAIN s : ~(j < 1)
    BY <1>1
  <2>2. QED
    BY <1>1, <1>3, <2>1 DEF Covered
<1>4. QED
  BY <1>2, <1>3 DEF r

LEMMA CoveredMore == ASSUME NEW s, NEW K, Covered(s, K), NEW L, K \subseteq L PROVE Covered(s, L)
BY DEF Covered

LEMMA CoveredEmpty == ASSUME NEW K PROVE Covered(<<>>, K)
BY EmptyOf DEF Covered

LEMMA AloneBegun ==
  ASSUME NEW ts, Alone(ts), NEW u, NEW new, new \subseteq {u},
         Busy(ts) = {} \/ \A t \in Busy(ts) \cup new : ~CarriesKey(t)
  PROVE  Alone(ts \cup new)
BY DEF Alone, Busy

LEMMA AloneSwapped ==
  ASSUME NEW ts, Alone(ts), NEW t \in Busy(ts), NEW u, NEW new, new \subseteq {u},
         CarriesKey(u) => CarriesKey(t)
  PROVE  Alone((ts \ {t}) \cup new)
<1> HIDE DEF CarriesKey
<1>1. Busy((ts \ {t}) \cup new) \subseteq (Busy(ts) \ {t}) \cup {u}
  BY DEF Busy
<1>2. \A v \in Busy(ts) : CarriesKey(v) => Busy(ts) = {v}
  BY DEF Alone
<1>3. ASSUME NEW v \in Busy((ts \ {t}) \cup new), CarriesKey(v)
      PROVE  Busy((ts \ {t}) \cup new) = {v}
  BY <1>1, <1>2, <1>3
<1>4. QED
  BY <1>3 DEF Alone

LEMMA AloneFewer == ASSUME NEW ts, Alone(ts), NEW us, Busy(us) \subseteq Busy(ts) PROVE Alone(us)
BY DEF Alone

-----------------------------------------------------------------------------
(* What every step does                                                    *)

\* History and keys only grow, and who is leaving goes on with it.
Progress ==
  /\ marks \subseteq marks' /\ dropped \subseteq dropped' /\ made' \in Nat /\ made <= made'
  /\ stuck \subseteq stuck'
  /\ \A r \in Devices : Leaves(r) => Leaves(r)' \/ Happened("fault")'

\* A key that is missed stays so.
LEMMA MissedStays ==
  ASSUME Progress, NEW q
  PROVE  /\ <<Creator, q>> \in stuck => <<Creator, q>> \in stuck'
         /\ KeyLost(q) => KeyLost(q)'
         /\ Missed(q) => Missed(q)'
BY DEF Progress, Missed, KeyLost

LEMMA LeavesKept ==
  ASSUME NEW p \in Devices, Acts(p), marks \subseteq marks',
         \A u \in tasks[p] : u.do = "send" /\ u.then.type = "leave" =>
           \/ Happened("fault")' \/ <<"left", p>> \in marks'
           \/ \E v \in tasks'[p] : v.do = "send" /\ v.then.type = "leave"
  PROVE  \A r \in Devices : Leaves(r) => Leaves(r)' \/ Happened("fault")'
<1>1. SUFFICES ASSUME NEW r \in Devices, Leaves(r) PROVE Leaves(r)' \/ Happened("fault")'
  OBVIOUS
<1>2. CASE <<"left", r>> \in marks
  BY <1>2 DEF Leaves
<1>3. CASE \E u \in tasks[r] : u.do = "send" /\ u.then.type = "leave"
  <2>1. r # p => tasks'[r] = tasks[r]
    BY DEF Acts
  <2>2. <<"left", r>> \in marks' \/ Happened("fault")' \/ \E v \in tasks'[r] : v.do = "send" /\ v.then.type = "leave"
    BY <1>3, <2>1
  <2>3. QED
    BY <2>2 DEF Leaves, Loops
<1>4. QED
  BY <1>1, <1>2, <1>3 DEF Leaves, Loops

LEMMA UserProgress ==
  ASSUME Base, NEW p \in Devices, Acts(p), NEW new, Begin(p, new)
  PROVE  Progress
<1>1. /\ marks \subseteq marks' /\ UNCHANGED <<stuck, dropped>>
      /\ tasks' = [tasks EXCEPT ![p] = @ \cup new]
  BY DEF Begin
<1>2. tasks[p] \subseteq tasks'[p]
  BY <1>1, AtHome
<1>3. \A r \in Devices : Leaves(r) => Leaves(r)' \/ Happened("fault")'
  BY <1>1, <1>2, LeavesKept
<1>4. QED
  BY <1>1, <1>3 DEF Progress, Acts

\* An operation that begins is the only one, or none of them is about a key.
LEMMA Begun ==
  ASSUME Base, NEW p \in Devices, NEW new, Begin(p, new)
  PROVE  /\ tasks'[p] = tasks[p] \cup new /\ \A r \in Devices \ {p} : tasks'[r] = tasks[r]
         /\ UNCHANGED <<chan, stuck, faults, dropped>>
         /\ marks' \in {marks, marks \cup {<<"race">>}}
         /\ Calm' => Busy(tasks[p]) = {} \/ \A t \in Busy(tasks[p]) \cup new : ~CarriesKey(t)
<1>1. /\ UNCHANGED <<chan, stuck, faults, dropped>>
      /\ marks' = IF Own(p) # {} /\ \E t \in Own(p) \cup new : CarriesKey(t)
                  THEN marks \cup {<<"race">>} ELSE marks
      /\ tasks' = [tasks EXCEPT ![p] = @ \cup new]
  BY DEF Begin
<1>2. tasks'[p] = tasks[p] \cup new /\ \A r \in Devices \ {p} : tasks'[r] = tasks[r]
  BY <1>1, AtHome
<1>3. Own(p) = Busy(tasks[p])
  BY DEF Own, Busy
<1>4. QED
  BY <1>1, <1>2, <1>3 DEF Calm, Happened

LEMMA UserActs ==
  ASSUME Base, NEW p \in Devices, UserStep(p)
  PROVE  Acts(p) /\ Progress
<1>1. ASSUME NEW invited \in Invitations, p = Creator, CreateGroup(p, invited) PROVE Acts(p) /\ Progress
  BY <1>1, CreateActs, UserProgress DEF CreateGroup
<1>2. ASSUME NEW q \in Devices \ {p}, AddGroupMember(p, q) PROVE Acts(p) /\ Progress
  BY <1>2, AddActs, UserProgress DEF AddGroupMember
<1>3. ASSUME NEW m \in ToSet(roster[p]), m.id # Self, RemoveGroupMember(p, m.id) PROVE Acts(p) /\ Progress
  BY <1>3, RemoveActs, UserProgress DEF RemoveGroupMember
<1>4. ASSUME NEW m \in ToSet(roster[p]), NEW role \in {"admin", "member"}, ChangeRole(p, m.id, role)
      PROVE  Acts(p) /\ Progress
  BY <1>4, RoleActs, UserProgress DEF ChangeRole
<1>5. ASSUME NEW t \in DOMAIN texts[p], SendGroupReadReceipt(p, t) PROVE Acts(p) /\ Progress
  BY <1>5, ReceiptActs, UserProgress DEF SendGroupReadReceipt
<1>6. ASSUME SendGroupMessage(p) PROVE Acts(p) /\ Progress
  BY <1>6, MessageActs, UserProgress DEF SendGroupMessage
<1>7. ASSUME LeaveGroup(p) PROVE Acts(p) /\ Progress
  BY <1>7, LeaveActs, UserProgress DEF LeaveGroup
<1>8. ASSUME UpdateGroupName(p) PROVE Acts(p) /\ Progress
  BY <1>8, NameActs, UserProgress DEF UpdateGroupName
<1>9. QED
  BY <1>1, <1>2, <1>3, <1>4, <1>5, <1>6, <1>7, <1>8 DEF UserStep

\* A handler that goes on, p's own or one that hears something.
LEMMA HandlerProgress ==
  ASSUME Base, NEW p \in Devices, Acts(p), marks \subseteq marks', dropped \subseteq dropped', stuck \subseteq stuck',
         NEW t, \A u \in tasks[p] : u = t \/ u \in tasks'[p],
         t \in tasks[p] /\ t.do = "send" /\ t.then.type = "leave" =>
           <<"left", p>> \in marks' \/ \E v \in tasks'[p] : v.do = "send" /\ v.then.type = "leave"
  PROVE  Progress
<1>1. \A r \in Devices : Leaves(r) => Leaves(r)' \/ Happened("fault")'
  BY LeavesKept
<1>2. QED
  BY <1>1 DEF Progress, Acts

LEMMA HandlerActs ==
  ASSUME Base, NEW p \in Devices, HandlerStep(p)
  PROVE  Acts(p) /\ Progress
<1>1. ASSUME NEW t \in tasks[p], Rotated(p, t) PROVE Acts(p) /\ Progress
  <2>1. Acts(p) /\ t.do = "rotate" /\ marks \subseteq marks' /\ UNCHANGED <<dropped, stuck>>
        /\ \E new : Swap(p, t, new)
    BY <1>1, RotatedActs DEF Rotated
  <2>2. \A u \in tasks[p] : u = t \/ u \in tasks'[p]
    BY <2>1, AtHome DEF Swap
  <2>3. QED
    BY <2>1, <2>2, HandlerProgress
<1>2. ASSUME NEW t \in tasks[p], Encrypted(p, t) PROVE Acts(p) /\ Progress
  <2>1. Acts(p) /\ t.do = "encrypt" /\ UNCHANGED <<marks, dropped, stuck>> /\ \E new : Swap(p, t, new)
    BY <1>2, EncryptedActs DEF Encrypted, hvars
  <2>2. \A u \in tasks[p] : u = t \/ u \in tasks'[p]
    BY <2>1, AtHome DEF Swap
  <2>3. QED
    BY <2>1, <2>2, HandlerProgress
<1>3. ASSUME NEW t \in tasks[p], SendsOne(p, t) PROVE Acts(p) /\ Progress
  <2>1. Acts(p) /\ UNCHANGED <<marks, dropped>> /\ stuck \subseteq stuck'
    BY <1>3, SendsActs DEF SendsOne, Accepted, hvars
  <2>2. PICK u : tasks'[p] = (tasks[p] \ {t}) \cup {u} /\ u.do = "send" /\ u.then = t.then
    BY <1>3, SendsActs
  <2>3. QED
    BY <2>1, <2>2, HandlerProgress
<1>4. ASSUME NEW t \in tasks[p], LoopEnds(p, t) PROVE Acts(p) /\ Progress
  <2>1. Acts(p) /\ \A u \in tasks[p] : u = t \/ u \in tasks'[p]
    BY <1>4, EndsActs
  <2>2. /\ UNCHANGED <<dropped, stuck>> /\ marks \subseteq marks'
        /\ t.then.type = "leave" => <<"left", p>> \in marks'
    BY <1>4 DEF LoopEnds
  <2>3. QED
    BY <2>1, <2>2, HandlerProgress
<1>5. ASSUME NEW t \in tasks[p], Stored(p, t) PROVE Acts(p) /\ Progress
  <2>1. Acts(p) /\ t.do = "store" /\ tasks'[p] = tasks[p] \ {t} /\ UNCHANGED <<marks, dropped, stuck>>
    BY <1>5, StoredActs DEF Stored, hvars
  <2>2. QED
    BY <2>1, HandlerProgress
<1>6. ASSUME NEW t \in tasks[p], Applied(p, t) PROVE Acts(p) /\ Progress
  <2>1. Acts(p) /\ t.do = "apply" /\ tasks'[p] = tasks[p] \ {t} /\ UNCHANGED <<marks, stuck>>
    BY <1>6, AppliedActs DEF Applied
  <2>2. dropped \subseteq dropped'
    BY <1>6 DEF Applied, Refused
  <2>3. QED
    BY <2>1, <2>2, HandlerProgress
<1>7. ASSUME NEW q \in Devices, GetsKey(q, p) PROVE Acts(p) /\ Progress
  <2>1. Acts(p) /\ tasks[p] \subseteq tasks'[p] /\ marks \subseteq marks' /\ dropped \subseteq dropped'
        /\ stuck' = stuck
    BY <1>7, GetsKeyActs DEF GetsKey, Refused, Arrives
  <2>2. QED
    BY <2>1, HandlerProgress
<1>8. ASSUME NEW q \in Devices, GetsCarrier(q, p) PROVE Acts(p) /\ Progress
  <2>1. Acts(p) /\ tasks[p] \subseteq tasks'[p] /\ UNCHANGED <<marks, stuck>>
    BY <1>8, GetsCarrierActs DEF GetsCarrier, Arrives
  <2>2. dropped \subseteq dropped'
    BY <1>8 DEF GetsCarrier, Refused
  <2>3. QED
    BY <2>1, <2>2, HandlerProgress
<1>9. QED
  BY <1>1, <1>2, <1>3, <1>4, <1>5, <1>6, <1>7, <1>8 DEF HandlerStep

LEMMA FaultActs ==
  ASSUME Base, NEW p \in Devices, Fault(p)
  PROVE  Acts(p) /\ Progress /\ Happened("fault")' /\ UNCHANGED <<group, roster, keys, made, out, dropped>>
<1>1. ASSUME Reload(p) PROVE Acts(p) /\ marks' = marks \cup {<<"fault">>} /\ UNCHANGED <<group, roster, keys, made, out, dropped>>
  BY <1>1, ReloadActs DEF Reload
<1>2. ASSUME NEW t \in tasks[p], SendFails(p, t)
      PROVE  Acts(p) /\ marks' = marks \cup {<<"fault">>} /\ UNCHANGED <<group, roster, keys, made, out, dropped>>
  BY <1>2, FailsActs DEF SendFails
<1>3. Acts(p) /\ marks' = marks \cup {<<"fault">>} /\ UNCHANGED <<group, roster, keys, made, out, dropped>>
  BY <1>1, <1>2 DEF Fault
<1>4. Happened("fault")'
  BY <1>3 DEF Happened
<1>5. stuck \subseteq stuck'
  BY DEF Fault, Reload, SendFails, Accepted
<1>6. QED
  BY <1>3, <1>4, <1>5 DEF Progress, Acts

LEMMA CalmBefore == ASSUME Progress PROVE /\ Calm' => Calm
                                          /\ \A q \in Others : Fine(q)' => Fine(q) /\ Calm /\ ~Happened("fault")'
<1>1. Calm' => Calm
  BY DEF Progress, Calm, Happened
<1>2. ~Happened("fault")' => ~Happened("fault")
  BY DEF Progress, Happened
<1>3. \A q \in Others : Fine(q)' => Fine(q)
  BY <1>1, <1>2, ConstantTypes DEF Progress, Fine
<1>4. QED
  BY <1>1, <1>3 DEF Fine

-----------------------------------------------------------------------------
(* A step of one device and the rest of the world                          *)

\* What a member and his line to the creator's are like is up to these.
LEMMA LineSame ==
  ASSUME NEW q \in Others, chan'[Creator][q] = chan[Creator][q], tasks'[q] = tasks[q],
         group'[q] = group[q], keys'[q] = keys[q]
  PROVE  /\ Line(q)' = Line(q) /\ Stores(q)' = Stores(q) /\ LineKeys(q)' = LineKeys(q)
         /\ Held(q)' = Held(q) /\ KeysComing(q)' = KeysComing(q)
         /\ InGroup(q)' = InGroup(q) /\ Record(q)' = Record(q)
         /\ HeldInv(q)' = HeldInv(q) /\ GuestInv(q)' = GuestInv(q)
         /\ \A K : Covered(Line(q), K)' = Covered(Line(q), K)
<1>1. Line(q)' = Line(q) /\ Stores(q)' = Stores(q) /\ InGroup(q)' = InGroup(q) /\ Record(q)' = Record(q)
  BY DEF Line, Stores, InGroup, Record
<1>2. LineKeys(q)' = LineKeys(q) /\ KeysComing(q)' = KeysComing(q) /\ Held(q)' = Held(q)
  BY <1>1 DEF LineKeys, KeysComing, Held
<1>3. HeldInv(q)' = HeldInv(q) /\ GuestInv(q)' = GuestInv(q)
  BY <1>1 DEF HeldInv, GuestInv, HasKey
<1>4. QED
  BY <1>1, <1>2, <1>3

LEMMA KeySame ==
  ASSUME NEW q \in Others, chan'[Creator][q] = chan[Creator][q], tasks'[q] = tasks[q],
         group'[q] = group[q], keys'[q] = keys[q], Calm' => Calm, KeyInv(q)
  PROVE  KeyInv(q)'
<1>1. /\ Line(q)' = Line(q) /\ Stores(q)' = Stores(q) /\ LineKeys(q)' = LineKeys(q)
      /\ InGroup(q)' = InGroup(q) /\ Record(q)' = Record(q)
  BY LineSame
<1>2. Ascending(Line(q))' = Ascending(Line(q))
  BY <1>1 DEF Ascending
<1>3. QED
  BY <1>1, <1>2 DEF KeyInv

\* Nothing of this is about q: another member moved.
LEMMA OtherMember ==
  ASSUME Base, NEW q \in Others, NEW p \in Others, p # q, Acts(p), Progress, made' = made,
         chan'[Creator][q] = chan[Creator][q], chan'[q][Creator] = chan[q][Creator], MemberInv(q)
  PROVE  MemberInv(q)'
<1> HIDE DEF Base
<1>1. /\ group'[q] = group[q] /\ keys'[q] = keys[q] /\ tasks'[q] = tasks[q]
      /\ group'[Creator] = group[Creator] /\ roster'[Creator] = roster[Creator]
      /\ tasks'[Creator] = tasks[Creator] /\ texts'[Creator] = texts[Creator]
  BY ConstantTypes DEF Acts
<1>2. HeldInv(q)' /\ KeyInv(q)'
  BY <1>1, LineSame, KeySame, CalmBefore DEF MemberInv
<1>3. FarewellInv(q)'
  <2>1. Departs(q) => Departs(q)'
    BY ConstantTypes DEF Departs, Progress, Happened
  <2>2. QED
    BY <1>1, <2>1 DEF MemberInv, FarewellInv
<1>4. ASSUME Fine(q)'
      PROVE  /\ Listed(q)' \/ Removed(q)' \/ Stranger(q)'
             /\ GuestInv(q)'
             /\ Listed(q)' => Latest(q)'
             /\ Removed(q)' \/ BehindInv(q)'
  <2>1. Fine(q) /\ OrderInv(q) /\ (Removed(q) => Removed(q)') /\ dropped \subseteq dropped'
    BY <1>4, CalmBefore DEF MemberInv, Progress, Removed
  <2>2. /\ Line(q)' = Line(q) /\ Stores(q)' = Stores(q) /\ LineKeys(q)' = LineKeys(q)
        /\ Held(q)' = Held(q) /\ KeysComing(q)' = KeysComing(q)
        /\ InGroup(q)' = InGroup(q) /\ Record(q)' = Record(q)
        /\ GuestInv(q)' = GuestInv(q)
    BY <1>1, LineSame
  <2>3. /\ Listed(q)' = Listed(q) /\ KeyLoops(q)' = KeyLoops(q)
    BY <1>1 DEF Listed, IdsOf, KeyLoops
  <2>4. Stranger(q)' = Stranger(q)
    BY <1>1, <2>2 DEF Stranger
  <2>5. Latest(q) => Latest(q)'
    BY <1>1, <2>2, <2>3, MissedStays DEF Latest
  <2>6. BehindInv(q) => BehindInv(q)'
    BY <1>1, <2>2, MissedStays DEF BehindInv, Covered
  <2>7. QED
    BY <2>1, <2>2, <2>3, <2>4, <2>5, <2>6 DEF OrderInv
<1>5. QED
  BY <1>2, <1>3, <1>4 DEF MemberInv, OrderInv

\* A member's step, as far as the rest goes.
LEMMA GuestFrame ==
  ASSUME Base, OInv, NEW p \in Others, Acts(p), Progress, made' = made,
         \A q \in Others \ {p} : chan'[Creator][q] = chan[Creator][q] /\ chan'[q][Creator] = chan[q][Creator],
         <<"left", Creator>> \in marks' => <<"left", Creator>> \in marks,
         RefusalNeedsCause', MemberInv(p)'
  PROVE  OInv'
<1> HIDE DEF Base
<1>1. /\ keys'[Creator] = keys[Creator] /\ group'[Creator] = group[Creator]
      /\ roster'[Creator] = roster[Creator] /\ tasks'[Creator] = tasks[Creator]
  BY ConstantTypes DEF Acts
<1>2. AloneInv'
  BY <1>1, CalmBefore DEF OInv, AloneInv, InGroup, Record, HasKey
<1>3. HomeInv'
  BY <1>1 DEF OInv, HomeInv, InGroup, Progress
<1>5. \A q \in Others : MemberInv(q)'
  BY OtherMember DEF OInv
<1>6. QED
  BY <1>2, <1>3, <1>5 DEF OInv

\* A cause that is there stays one.
LEMMA CauseStays ==
  ASSUME Base, Progress, RefusalNeedsCause, NEW d \in dropped
  PROVE  \/ d[3] \in {"storing", "sealed"}
         \/ d[3] = "nokey" /\ (made' > KeepKeys + 1 \/ <<"removed", d[2]>> \in marks')
         \/ d[3] = "nokey" /\ <<"key", d[2], "sealed">> \in dropped'
         \/ Happened("fault")' \/ Happened("race")'
         \/ \E p \in Devices : Leaves(p)'
         \/ d[3] = "stranger" /\ \E q \in Others : <<"removed", q>> \in marks'
<1>1. made \in Nat /\ made' \in Nat /\ made <= made' /\ KeepKeys \in Nat
  BY AtHome, ConstantTypes, GroupAssumption DEF Progress
<1>2. made > KeepKeys + 1 => made' > KeepKeys + 1
  BY <1>1
<1>3. (Happened("fault") => Happened("fault")') /\ (Happened("race") => Happened("race")')
      /\ \A r \in Devices : Leaves(r) => Leaves(r)' \/ Happened("fault")'
  BY DEF Progress, Happened
<1>4. marks \subseteq marks' /\ dropped \subseteq dropped'
  BY DEF Progress
<1>5. QED
  BY <1>2, <1>3, <1>4 DEF RefusalNeedsCause

LEMMA CausesKept ==
  ASSUME Base, Progress, RefusalNeedsCause, dropped' \subseteq dropped
  PROVE  RefusalNeedsCause'
<1> HIDE DEF Base
<1>1. QED
  BY CauseStays DEF RefusalNeedsCause

\* One more refusal.
LEMMA OneRefused ==
  ASSUME Base, Progress, RefusalNeedsCause, NEW type, NEW q \in Devices, NEW why,
         dropped' \subseteq dropped \cup {<<type, q, why>>},
         \/ why \in {"storing", "sealed"}
         \/ why = "nokey" /\ (made' > KeepKeys + 1 \/ <<"removed", q>> \in marks')
         \/ why = "nokey" /\ KeyLost(q)'
         \/ Happened("fault")' \/ Happened("race")'
         \/ \E p \in Devices : Leaves(p)'
         \/ why = "stranger" /\ \E r \in Others : <<"removed", r>> \in marks'
  PROVE  RefusalNeedsCause'
<1> HIDE DEF Base
<1> DEFINE d == <<type, q, why>>
<1>1. d[2] = q /\ d[3] = why
  OBVIOUS
<1>2. QED
  BY <1>1, CauseStays DEF RefusalNeedsCause, KeyLost

-----------------------------------------------------------------------------
(* The operations of a member                                              *)

\* He goes on with what he says; what he hears and has is the same.
LEMMA GuestQuiet ==
  ASSUME Base, OInv, NEW p \in Others, Acts(p), Progress, made' = made, dropped' = dropped,
         group'[p] = group[p], keys'[p] = keys[p],
         \A q \in Others : chan'[Creator][q] = chan[Creator][q],
         \A q \in Others \ {p} : chan'[q][Creator] = chan[q][Creator],
         \A t : t.do \in {"store", "apply"} => (t \in tasks'[p] <=> t \in tasks[p]),
         <<"left", Creator>> \in marks' => <<"left", Creator>> \in marks,
         tasks[p] # {} \/ InGroup(p), FarewellInv(p)'
  PROVE  OInv'
<1> HIDE DEF Base
<1>1. /\ group'[Creator] = group[Creator] /\ roster'[Creator] = roster[Creator]
      /\ tasks'[Creator] = tasks[Creator]
  BY ConstantTypes DEF Acts
<1>2. MemberInv(p)
  BY DEF OInv
<1>3. Stores(p)' = Stores(p)
  BY DEF Stores
<1>4. /\ Line(p)' = Line(p) /\ LineKeys(p)' = LineKeys(p) /\ KeysComing(p)' = KeysComing(p)
      /\ InGroup(p)' = InGroup(p) /\ Record(p)' = Record(p)
  BY DEF Line, LineKeys, KeysComing, InGroup, Record
<1>5. Held(p)' = Held(p)
  BY <1>3 DEF Held
<1>6. HeldInv(p)'
  BY <1>2, <1>4 DEF MemberInv, HeldInv, HasKey
<1>7. KeyInv(p)'
  <2>1. Ascending(Line(p))' = Ascending(Line(p))
    BY <1>4 DEF Ascending
  <2>2. QED
    BY <1>2, <1>3, <1>4, <2>1, CalmBefore DEF MemberInv, KeyInv
<1>8. ASSUME Fine(p)'
      PROVE  /\ Listed(p)' \/ Removed(p)' \/ Stranger(p)'
             /\ GuestInv(p)'
             /\ Listed(p)' => Latest(p)'
             /\ Removed(p)' \/ BehindInv(p)'
  <2>1. Fine(p) /\ OrderInv(p) /\ (Removed(p) => Removed(p)')
    BY <1>2, <1>8, CalmBefore DEF MemberInv, Progress, Removed
  <2>2. /\ Listed(p)' = Listed(p) /\ KeyLoops(p)' = KeyLoops(p)
    BY <1>1 DEF Listed, IdsOf, KeyLoops
  <2>3. ~Stranger(p)
    BY DEF Stranger, InGroup
  <2>4. Latest(p) => Latest(p)'
    BY <1>3, <1>4, <2>2, MissedStays DEF Latest
  <2>5. BehindInv(p) => BehindInv(p)'
    BY <1>1, <1>4, <1>5, MissedStays DEF BehindInv, Covered
  <2>6. GuestInv(p) => GuestInv(p)'
    BY <1>3, <1>4 DEF GuestInv
  <2>7. QED
    BY <2>1, <2>2, <2>3, <2>4, <2>5, <2>6 DEF OrderInv
<1>9. MemberInv(p)'
  BY <1>6, <1>7, <1>8 DEF MemberInv, OrderInv
<1>10. RefusalNeedsCause'
  BY CausesKept DEF OInv
<1>11. QED
  BY <1>9, <1>10, GuestFrame

\* An operation begins.
LEMMA GuestBegins ==
  ASSUME Base, OInv, NEW p \in Others, Acts(p), NEW new, Begin(p, new),
         UNCHANGED <<group, roster, keys, texts, made>>, \A u \in new : u.do = "encrypt", InGroup(p)
  PROVE  OInv'
<1> HIDE DEF Base
<1>1. p \in Devices /\ p # Creator
  BY ConstantTypes
<1>2. /\ Progress /\ tasks'[p] = tasks[p] \cup new /\ chan' = chan /\ dropped' = dropped
      /\ marks' \in {marks, marks \cup {<<"race">>}}
      /\ \A r \in Devices \ {p} : tasks'[r] = tasks[r]
  BY <1>1, UserProgress, Begun
<1>3. FarewellInv(p)
  BY DEF OInv, MemberInv
<1>4. FarewellInv(p)'
  <2>1. Departs(p) => Departs(p)'
    BY <1>1, <1>2 DEF Departs, Progress, Happened
  <2>2. tasks'[Creator] = tasks[Creator]
    BY <1>1, <1>2, ConstantTypes
  <2>3. QED
    BY <1>2, <1>3, <2>1, <2>2 DEF FarewellInv
<1>5. \A t : t.do \in {"store", "apply"} => (t \in tasks'[p] <=> t \in tasks[p])
  BY <1>2
<1>6. <<"left", Creator>> \in marks' => <<"left", Creator>> \in marks
  BY <1>2
<1>7. QED
  BY <1>2, <1>4, <1>5, <1>6, GuestQuiet

LEMMA Sealings == ASSUME NEW p, NEW n, NEW body, NEW then
                  PROVE  \A u \in Encrypt(p, n, body, then) : u.do = "encrypt"
BY DEF Encrypt

LEMMA GuestUserOrder ==
  ASSUME Base, OInv, NEW p \in Others, UserStep(p)
  PROVE  OInv'
<1> HIDE DEF Base
<1>1. p \in Devices /\ p # Creator /\ Acts(p)
  BY ConstantTypes, UserActs
<1>2. ~IsAdmin(p)
  BY <1>1, AdminIsCreator
<1>3. \/ SendGroupMessage(p) \/ LeaveGroup(p) \/ \E t \in DOMAIN texts[p] : SendGroupReadReceipt(p, t)
  BY <1>1, <1>2 DEF UserStep, AddGroupMember, RemoveGroupMember, ChangeRole, UpdateGroupName
<1>4. CASE SendGroupMessage(p)
  BY <1>1, <1>4, Sealings, GuestBegins DEF SendGroupMessage
<1>5. CASE LeaveGroup(p)
  BY <1>1, <1>5, Sealings, GuestBegins DEF LeaveGroup
<1>6. ASSUME NEW t \in DOMAIN texts[p], SendGroupReadReceipt(p, t) PROVE OInv'
  BY <1>1, <1>6, Sealings, GuestBegins DEF SendGroupReadReceipt
<1>7. QED
  BY <1>3, <1>4, <1>5, <1>6

LEMMA GuestEncryptedOrder ==
  ASSUME Base, OInv, NEW p \in Others, NEW t \in tasks[p], Encrypted(p, t), Progress
  PROVE  OInv'
<1> HIDE DEF Base
<1>1. p \in Devices /\ p # Creator /\ Acts(p)
  BY ConstantTypes, EncryptedActs
<1>2. PICK to : tasks'[p] = (tasks[p] \ {t}) \cup Send(t.n, to, t.body, t.then)
  BY <1>1, EncryptedActs
<1>3. /\ t.do = "encrypt" /\ UNCHANGED <<group, roster, keys, chan, stuck, ops, made, faults, marks, out, dropped>>
  BY DEF Encrypted, hvars
<1>4. \A t1 : t1.do \in {"store", "apply"} => (t1 \in tasks'[p] <=> t1 \in tasks[p])
  BY <1>2, <1>3 DEF Send
<1>5. FarewellInv(p)
  BY DEF OInv, MemberInv
<1>6. FarewellInv(p)'
  <2>1. Departs(p) => Departs(p)'
    BY <1>1 DEF Departs, Progress, Happened
  <2>2. tasks'[Creator] = tasks[Creator]
    BY <1>1, ConstantTypes DEF Acts
  <2>3. QED
    BY <1>3, <1>5, <2>1, <2>2 DEF FarewellInv
<1>7. QED
  BY <1>1, <1>3, <1>4, <1>6, GuestQuiet

\* Where a carrier that is accepted goes to.
LEMMA AcceptedAt ==
  ASSUME Base, NEW p \in Devices, NEW t \in tasks[p], t.do = "send", t.to # <<>>, Accepted(p, t)
  PROVE  /\ Head(t.to) \in Hearers(p)
         /\ \A r, q \in Devices : chan'[r][q] = chan[r][q] \/
              (r = p /\ q = Head(t.to) /\ chan'[r][q] = Append(chan[r][q], t.body))
         /\ \/ chan'[p][Head(t.to)] = Append(chan[p][Head(t.to)], t.body) /\ <<p, Head(t.to)>> \notin stuck
            \/ chan' = chan /\ <<p, Head(t.to)>> \in stuck'
<1>1. Handler(p, t, made, ops)
  BY AtHome
<1>2. IsSeq(t.to) /\ ToSet(t.to) \subseteq Hearers(p)
  BY <1>1 DEF Handler
<1>3. Head(t.to) \in Hearers(p) /\ Head(t.to) \in Devices
  BY <1>2, TailOf, IdTypes
<1>4. DOMAIN chan = Devices /\ \A r \in Devices : DOMAIN chan[r] = Devices
  BY DEF Base, ChanInv
<1> HIDE DEF Base
<1>5. QED
  BY <1>3, <1>4 DEF Accepted

\* What a member says to the creator is a farewell only when he leaves.
LEMMA GuestSends ==
  ASSUME Base, OInv, NEW p \in Others, Acts(p), NEW t \in tasks[p], t.do = "send", t.to # <<>>,
         Accepted(p, t) \/ UNCHANGED chan, Departs(p) => Departs(p)',
         Farewell(t.body) => Departs(p)'
  PROVE  /\ FarewellInv(p)'
         /\ \A q \in Others : chan'[Creator][q] = chan[Creator][q]
         /\ \A q \in Others \ {p} : chan'[q][Creator] = chan[q][Creator]
<1>1. p \in Devices /\ p # Creator /\ Creator \in Devices /\ Others \subseteq Devices
  BY ConstantTypes
<1>2. IsSeq(chan[p][Creator])
  BY <1>1 DEF Base, ChanInv
<1> HIDE DEF Base
<1>3. /\ \A q \in Others : chan'[Creator][q] = chan[Creator][q]
      /\ \A q \in Others \ {p} : chan'[q][Creator] = chan[q][Creator]
      /\ chan'[p][Creator] = chan[p][Creator] \/ chan'[p][Creator] = Append(chan[p][Creator], t.body)
  <2>1. CASE UNCHANGED chan
    BY <2>1
  <2>2. CASE Accepted(p, t)
    <3>1. \A r, q \in Devices : chan'[r][q] = chan[r][q] \/
            (r = p /\ q = Head(t.to) /\ chan'[r][q] = Append(chan[r][q], t.body))
      BY <1>1, <2>2, AcceptedAt
    <3>2. QED
      BY <1>1, <3>1
  <2>3. QED
    BY <2>1, <2>2
<1>4. \A b \in ToSet(chan'[p][Creator]) : b \in ToSet(chan[p][Creator]) \/ b = t.body
  <2> DEFINE s == chan[p][Creator]
             r == chan'[p][Creator]
             x == t.body
  <2>1. IsSeq(s) /\ (r = s \/ r = Append(s, x))
    BY <1>2, <1>3
  <2> HIDE DEF s, r, x
  <2>2. ToSet(Append(s, x)) = ToSet(s) \cup {x}
    BY <2>1, AppendOf
  <2>3. \A b \in ToSet(r) : b \in ToSet(s) \/ b = x
    BY <2>1, <2>2
  <2>4. QED
    BY <2>3 DEF s, r, x
<1>5. tasks'[Creator] = tasks[Creator]
  BY <1>1 DEF Acts
<1>6. FarewellInv(p)
  BY DEF OInv, MemberInv
<1>7. QED
  BY <1>3, <1>4, <1>5, <1>6 DEF FarewellInv

LEMMA GuestSendsOrder ==
  ASSUME Base, OInv, NEW p \in Others, NEW t \in tasks[p], SendsOne(p, t), Progress
  PROVE  OInv'
<1> HIDE DEF Base
<1>1. p \in Devices /\ p # Creator /\ Acts(p)
  BY ConstantTypes, SendsActs
<1>2. PICK u : tasks'[p] = (tasks[p] \ {t}) \cup {u} /\ u.do = "send" /\ u.then = t.then
  BY <1>1, SendsActs
<1>3. /\ t.do = "send" /\ t.to # <<>> /\ Accepted(p, t)
      /\ UNCHANGED <<group, roster, keys, made, marks, dropped>>
  BY DEF SendsOne, hvars
<1>4. \A t1 : t1.do \in {"store", "apply"} => (t1 \in tasks'[p] <=> t1 \in tasks[p])
  BY <1>2, <1>3
<1>5. Departs(p) => Departs(p)'
  BY <1>1 DEF Departs, Progress, Happened
<1>6. Farewell(t.body) => Departs(p)'
  <2>1. Handler(p, t, made, ops)
    BY <1>1, AtHome
  <2>2. Farewell(t.body) => t.then.type = "leave"
    BY <1>3, <2>1 DEF Handler, Follows
  <2>3. Farewell(t.body) => Loops(p, "leave")' # {}
    BY <1>2, <2>2 DEF Loops
  <2>4. QED
    BY <2>3 DEF Departs, Leaves
<1>7. /\ FarewellInv(p)'
      /\ \A q \in Others : chan'[Creator][q] = chan[Creator][q]
      /\ \A q \in Others \ {p} : chan'[q][Creator] = chan[q][Creator]
  BY <1>1, <1>3, <1>5, <1>6, GuestSends
<1>8. QED
  BY <1>1, <1>3, <1>4, <1>7, GuestQuiet

LEMMA GuestEndsOrder ==
  ASSUME Base, OInv, NEW p \in Others, NEW t \in tasks[p], LoopEnds(p, t), Progress
  PROVE  OInv'
<1> HIDE DEF Base
<1>1. p \in Devices /\ p # Creator /\ Acts(p) /\ Creator \in Devices /\ Others \subseteq Devices
  BY ConstantTypes, EndsActs
<1>2. tasks'[p] = tasks[p] \ {t} /\ tasks'[Creator] = tasks[Creator]
  BY <1>1, EndsActs DEF Acts
<1>3. t.do = "send" /\ UNCHANGED <<chan, stuck, made, dropped>>
  BY DEF LoopEnds
<1>4. Departs(p) => Departs(p)'
  BY <1>1 DEF Departs, Progress, Happened
<1>5. MemberInv(p)
  BY DEF OInv
<1>6. FarewellInv(p)'
  BY <1>2, <1>3, <1>4, <1>5 DEF MemberInv, FarewellInv
<1>7. CASE t.then.type = "leave"
  <2>1. RemoveGroup(p) /\ marks' = marks \cup {<<"left", p>>}
    BY <1>7 DEF LoopEnds
  <2>2. group'[p] = <<>> /\ keys'[p] = {}
    BY <1>1, <2>1, AtHome DEF RemoveGroup
  <2>3. Stores(p)' = Stores(p) /\ Line(p)' = Line(p) /\ ~InGroup(p)'
    BY <1>2, <1>3, <2>2 DEF Stores, Line, InGroup
  <2>4. LineKeys(p)' = LineKeys(p) /\ Ascending(Line(p))' = Ascending(Line(p))
    BY <2>3 DEF LineKeys, Ascending
  <2>5. HeldInv(p)' /\ KeyInv(p)'
    BY <1>5, <2>2, <2>3, <2>4, CalmBefore DEF MemberInv, HeldInv, KeyInv
  <2>6. ~Fine(p)'
    BY <2>1 DEF Fine, Leaves
  <2>7. MemberInv(p)'
    BY <1>6, <2>5, <2>6 DEF MemberInv, OrderInv
  <2>8. RefusalNeedsCause'
    BY <1>3, CausesKept DEF OInv
  <2>9. <<"left", Creator>> \in marks' => <<"left", Creator>> \in marks
    BY <1>1, <2>1
  <2>10. QED
    BY <1>1, <1>3, <2>7, <2>8, <2>9, GuestFrame
<1>8. CASE t.then.type # "leave"
  <2>1. UNCHANGED <<group, roster, keys, marks>>
    BY <1>8 DEF LoopEnds
  <2>2. \A t1 : t1.do \in {"store", "apply"} => (t1 \in tasks'[p] <=> t1 \in tasks[p])
    BY <1>2, <1>3
  <2>3. QED
    BY <1>1, <1>3, <1>6, <2>1, <2>2, GuestQuiet
<1>9. QED
  BY <1>7, <1>8

-----------------------------------------------------------------------------
(* Faults                                                                  *)

\* What the creator sends is no older than what he sent before.
LEMMA KeySent ==
  ASSUME Base, AloneInv, NEW q \in Others, KeyInv(q), Calm' => Calm, NEW t \in tasks[Creator], t.do = "send",
         chan'[Creator][q] = chan[Creator][q] \/ chan'[Creator][q] = Append(chan[Creator][q], t.body),
         Stores(q)' \subseteq Stores(q), group'[q] = group[q], keys'[q] = keys[q]
  PROVE  KeyInv(q)'
<1>1. q \in Devices /\ Creator \in Devices
  BY ConstantTypes
<1>2. /\ made \in Nat /\ IsSeq(Line(q)) /\ \A b \in ToSet(Line(q)) : Carrier(Creator, b, made, ops)
      /\ \A u \in Stores(q) : Handler(q, u, made, ops)
  BY <1>1, AtHome DEF Base, ChanInv, Line, Stores
<1>3. InGroup(q) => Record(q).key \in 1..made
  BY <1>1, RecordOf
<1> HIDE DEF Base
<1>4. InGroup(q)' = InGroup(q) /\ Record(q)' = Record(q)
  BY DEF InGroup, Record
<1>5. SUFFICES ASSUME Calm' PROVE KeyInv(q)'
  BY DEF KeyInv
<1>6. Calm
  BY <1>5
<1>7. \A b \in ToSet(Line(q)) : b.type = "key" => b.key \in 1..made
  BY <1>2 DEF Carrier
<1>8. \A u \in Stores(q) : u.body.key \in 1..made
  <2>1. TAKE u \in Stores(q)
  <2>2. u.do = "store" /\ Handler(q, u, made, ops)
    BY <1>2 DEF Stores
  <2>3. QED
    BY <2>2 DEF Handler, Carrier
<1>9. CASE chan'[Creator][q] = chan[Creator][q]
  <2>1. Line(q)' = Line(q)
    BY <1>9 DEF Line
  <2>2. LineKeys(q)' = LineKeys(q) /\ Ascending(Line(q))' = Ascending(Line(q))
    BY <2>1 DEF LineKeys, Ascending
  <2>3. QED
    BY <1>4, <1>6, <2>2 DEF KeyInv
<1>10. CASE chan'[Creator][q] = Append(chan[Creator][q], t.body)
  <2> DEFINE x == t.body
  <2>1. x.type = "key" => x.key = made /\ x.rot + 1 = x.key
    BY <1>6 DEF AloneInv, Current
  <2>2. Line(q)' = Append(Line(q), x)
    BY <1>10 DEF Line
  <2> HIDE DEF x
  <2>3. ToSet(Line(q)') = ToSet(Line(q)) \cup {x}
    BY <1>2, <2>2, AppendOf
  <2>4. LineKeys(q)' \subseteq LineKeys(q) \cup {x} /\ (x \in LineKeys(q)' => x.type = "key")
    BY <2>3 DEF LineKeys
  <2>5. Ascending(Line(q)')
    <3>1. x.type = "key" => \A b \in ToSet(Line(q)) : b.type = "key" => b.key <= x.key
      BY <1>2, <1>7, <2>1
    <3>2. Ascending(Line(q))
      BY <1>6 DEF KeyInv
    <3>3. QED
      BY <1>2, <2>2, <3>1, <3>2, AscendingAppend
  <2>6. Ascending(Line(q))'
    BY <2>5 DEF Ascending
  <2>7. \A b \in LineKeys(q)' : b \in LineKeys(q) \/ (b = x /\ x.key = made /\ x.rot + 1 = x.key)
    BY <2>1, <2>4
  <2>8. \A u \in Stores(q)' : u.body.rot + 1 = u.body.key /\ \A b \in LineKeys(q)' : u.body.key <= b.key
    BY <1>2, <1>6, <1>8, <2>7 DEF KeyInv
  <2>9. InGroup(q)' => /\ Record(q)'.rot + 1 = Record(q)'.key
                       /\ \A b \in LineKeys(q)' : Record(q)'.key <= b.key
                       /\ \A u \in Stores(q)' : Record(q)'.key <= u.body.key
    BY <1>2, <1>3, <1>4, <1>6, <2>7 DEF KeyInv
  <2>10. \A b \in LineKeys(q)' : b.rot + 1 = b.key
    BY <1>6, <2>7 DEF KeyInv
  <2>11. QED
    BY <1>6, <2>6, <2>8, <2>9, <2>10 DEF KeyInv
<1>11. QED
  BY <1>9, <1>10

\* A fault takes handlers away; the order of the keys is the same.
LEMMA FaultOrder ==
  ASSUME Base, OInv, NEW p \in Devices, Fault(p)
  PROVE  OInv'
<1> HIDE DEF Base
<1>1. Acts(p) /\ Progress /\ Happened("fault")' /\ UNCHANGED <<group, roster, keys, made, out, dropped>>
  BY FaultActs
<1>2. \A r \in Devices : tasks'[r] \subseteq tasks[r]
  <2>1. CASE Reload(p)
    BY <1>1, <2>1, ReloadActs DEF Acts
  <2>2. ASSUME NEW t \in tasks[p], SendFails(p, t) PROVE \A r \in Devices : tasks'[r] \subseteq tasks[r]
    BY <1>1, <2>2, FailsActs DEF Acts
  <2>3. QED
    BY <2>1, <2>2 DEF Fault
<1>3. marks' = marks \cup {<<"fault">>}
  BY DEF Fault, Reload, SendFails
<1>4. AloneInv'
  <2>1. tasks'[Creator] \subseteq tasks[Creator]
    BY <1>2, ConstantTypes
  <2>2. Busy(tasks'[Creator]) \subseteq Busy(tasks[Creator])
    BY <2>1 DEF Busy
  <2>3. Calm' => Calm /\ Alone(tasks'[Creator])
    BY <1>1, <2>2, CalmBefore, AloneFewer DEF OInv, AloneInv
  <2>4. Calm' => Alone(tasks[Creator])'
    BY <2>3 DEF Alone, Busy, CarriesKey
  <2>5. Calm' => \A t \in tasks'[Creator] : Current(t, made)
    BY <2>1, <2>3 DEF OInv, AloneInv
  <2>6. QED
    BY <1>1, <2>3, <2>4, <2>5 DEF OInv, AloneInv, InGroup, Record, HasKey, Current
<1>5. HomeInv'
  BY <1>1, <1>2, <1>3, ConstantTypes DEF OInv, HomeInv, InGroup
<1>7. RefusalNeedsCause'
  BY <1>1, CausesKept DEF OInv
<1>8. ASSUME NEW q \in Others PROVE MemberInv(q)'
  <2>1. HeldInv(q)'
    BY <1>1 DEF OInv, MemberInv, HeldInv, InGroup, Record, HasKey
  <2>2. q \in Devices /\ Stores(q)' \subseteq Stores(q) /\ (Calm' => Calm) /\ KeyInv(q) /\ AloneInv
    BY <1>1, <1>2, CalmBefore, ConstantTypes DEF Stores, OInv, MemberInv
  <2>3. KeyInv(q)'
    <3>1. CASE chan'[Creator][q] = chan[Creator][q]
      <4>1. Line(q)' = Line(q) /\ InGroup(q)' = InGroup(q) /\ Record(q)' = Record(q)
        BY <1>1, <3>1 DEF Line, InGroup, Record
      <4>2. LineKeys(q)' = LineKeys(q) /\ Ascending(Line(q))' = Ascending(Line(q))
        BY <4>1 DEF LineKeys, Ascending
      <4>3. QED
        BY <1>1, <2>2, <4>1, <4>2 DEF KeyInv
    <3>2. CASE chan'[Creator][q] # chan[Creator][q]
      <4>1. PICK t \in tasks[p] : SendFails(p, t) /\ t.do = "send" /\ t.to # <<>> /\ Accepted(p, t)
        BY <3>2 DEF Fault, Reload, SendFails
      <4>2. p = Creator /\ chan'[Creator][q] = Append(chan[Creator][q], t.body)
        <5>1. \A r, s \in Devices : chan'[r][s] = chan[r][s] \/
                (r = p /\ s = Head(t.to) /\ chan'[r][s] = Append(chan[r][s], t.body))
          BY <4>1, AcceptedAt
        <5>2. Creator \in Devices
          BY ConstantTypes
        <5>3. QED
          BY <2>2, <3>2, <5>1, <5>2
      <4>3. QED
        BY <1>1, <2>2, <4>1, <4>2, KeySent
    <3>3. QED
      BY <3>1, <3>2
  <2>4. FarewellInv(q)' /\ OrderInv(q)'
    BY <1>1 DEF FarewellInv, Departs, OrderInv, Fine
  <2>5. QED
    BY <2>1, <2>3, <2>4 DEF MemberInv
<1>9. QED
  BY <1>4, <1>5, <1>7, <1>8 DEF OInv

-----------------------------------------------------------------------------
(* What a member hears                                                     *)

LEMMA HeadOfAppend ==
  ASSUME NEW s, IsSeq(s), NEW x
  PROVE  /\ Append(s, x) # <<>>
         /\ s = <<>> => Head(Append(s, x)) = x
         /\ s # <<>> => Head(Append(s, x)) = Head(s)
<1> DEFINE r == Append(s, x)
<1>1. IsSeq(r) /\ ToSet(r) = ToSet(s) \cup {x} /\ r[Len(s) + 1] = x /\ \A i \in DOMAIN s : r[i] = s[i]
  BY AppendOf
<1>2. Len(s) \in Nat /\ DOMAIN s = 1..Len(s)
  BY LenOf
<1> HIDE DEF r
<1>3. r # <<>>
  BY <1>1, EmptyOf
<1>4. Head(r) = r[1]
  BY <1>1, <1>3, RestOf
<1>5. s = <<>> => Len(s) = 0
  OBVIOUS
<1>6. s # <<>> => 1 \in DOMAIN s /\ Head(s) = s[1]
  BY RestOf
<1>7. s = <<>> => Head(r) = x
  BY <1>1, <1>4, <1>5
<1>8. s # <<>> => Head(r) = Head(s)
  BY <1>1, <1>4, <1>6
<1>9. QED
  BY <1>3, <1>7, <1>8 DEF r

\* The first key makes the record; a later one changes it.
LEMMA StoredExact ==
  ASSUME Base, NEW q \in Others, NEW t \in tasks[q], Stored(q, t)
  PROVE  /\ t.body.type = "key" /\ Carrier(Creator, t.body, made, ops) /\ t.do = "store"
         /\ keys'[q] = keys[q] \cup {[id |-> t.body.key, rot |-> t.body.rot]}
         /\ tasks'[q] = tasks[q] \ {t} /\ Acts(q)
         /\ UNCHANGED <<chan, stuck, made, marks, dropped>>
         /\ t.fresh => InGroup(q)'
         /\ ~t.fresh => (InGroup(q)' <=> InGroup(q))
         /\ t.fresh /\ ~InGroup(q) => /\ Record(q)'.key = t.body.key /\ Record(q)'.rot = t.body.rot
                                      /\ Record(q)'.name = t.body.name
         /\ t.fresh /\ InGroup(q) => Record(q)' = Record(q)
         /\ ~t.fresh /\ InGroup(q) => /\ Record(q)'.key = t.body.key /\ Record(q)'.rot = t.body.rot
                                      /\ Record(q)'.name = Record(q).name
<1> DEFINE rec == [key |-> t.body.key, rot |-> t.body.rot, name |-> t.body.name]
           s == group[q]
<1>1. q \in Devices /\ Handler(q, t, made, ops) /\ made \in Nat /\ GroupOK(s, made) /\ DOMAIN keys = Devices /\ DOMAIN group = Devices
  BY ConstantTypes, AtHome
<1>2. tasks'[q] = tasks[q] \ {t} /\ Acts(q) /\ t.do = "store"
  BY <1>1, StoredActs
<1> HIDE DEF Base
<1>3. t.body.type = "key" /\ Carrier(Creator, t.body, made, ops)
  BY <1>1, <1>2 DEF Handler
<1>4. t.body.key \in 1..made /\ t.body.rot \in Nat /\ IsSeq(s)
  BY <1>1, <1>3 DEF Carrier, GroupOK
<1>5. /\ keys' = [keys EXCEPT ![q] = @ \cup {[id |-> t.body.key, rot |-> t.body.rot]}]
      /\ UNCHANGED <<chan, stuck, made, marks, dropped>>
      /\ t.fresh => group' = [group EXCEPT ![q] = Append(@, rec)]
      /\ ~t.fresh => group' = [group EXCEPT ![q] = WithKey(@, t.body.key, t.body.rot)]
  BY DEF Stored, AddGroup, hvars
<1>6. /\ keys'[q] = keys[q] \cup {[id |-> t.body.key, rot |-> t.body.rot]}
      /\ t.fresh => group'[q] = Append(s, rec)
      /\ ~t.fresh => group'[q] = WithKey(s, t.body.key, t.body.rot)
  BY <1>1, <1>5
<1>7. CASE t.fresh
  <2>1. rec.key = t.body.key /\ rec.rot = t.body.rot /\ rec.name = t.body.name
    OBVIOUS
  <2>2. group'[q] = Append(s, rec)
    BY <1>6, <1>7
  <2> HIDE DEF rec, s
  <2>3. /\ group'[q] # <<>>
        /\ s = <<>> => Head(group'[q]) = rec
        /\ s # <<>> => Head(group'[q]) = Head(s)
    BY <1>4, <2>2, HeadOfAppend
  <2>4. QED
    BY <1>2, <1>3, <1>5, <1>6, <1>7, <2>1, <2>3 DEF InGroup, Record, s
<1>8. CASE ~t.fresh
  <2>1. group'[q] = WithKey(s, t.body.key, t.body.rot)
    BY <1>6, <1>8
  <2> DEFINE k == t.body.key  rot == t.body.rot
  <2> HIDE DEF s, k, rot, rec
  <2>2. k \in 1..made /\ rot \in Nat /\ group'[q] = WithKey(s, k, rot)
    BY <1>4, <2>1 DEF k, rot
  <2>3. /\ group'[q] = <<>> <=> s = <<>>
        /\ s # <<>> => /\ Head(group'[q]).key = k /\ Head(group'[q]).rot = rot
                       /\ Head(group'[q]).name = Head(s).name
    BY <1>1, <2>2, WithKeyOf
  <2>4. QED
    BY <1>2, <1>3, <1>5, <1>6, <1>8, <2>3 DEF InGroup, Record, s, k, rot
<1>9. QED
  BY <1>7, <1>8

LEMMA StoredOrder ==
  ASSUME Base, OInv, NEW q \in Others, NEW t \in tasks[q], Stored(q, t), Progress
  PROVE  OInv'
<1> DEFINE k == [id |-> t.body.key, rot |-> t.body.rot]
<1>1. /\ t.body.type = "key" /\ Carrier(Creator, t.body, made, ops) /\ t.do = "store"
      /\ keys'[q] = keys[q] \cup {k} /\ k.id = t.body.key /\ k.rot = t.body.rot
      /\ tasks'[q] = tasks[q] \ {t} /\ Acts(q)
      /\ UNCHANGED <<chan, stuck, made, marks, dropped>>
  BY StoredExact
<1>2. /\ t.fresh => InGroup(q)'
      /\ ~t.fresh => (InGroup(q)' <=> InGroup(q))
      /\ t.fresh /\ ~InGroup(q) => /\ Record(q)'.key = t.body.key /\ Record(q)'.rot = t.body.rot
                                   /\ Record(q)'.name = t.body.name
      /\ t.fresh /\ InGroup(q) => Record(q)' = Record(q)
      /\ ~t.fresh /\ InGroup(q) => /\ Record(q)'.key = t.body.key /\ Record(q)'.rot = t.body.rot
                                   /\ Record(q)'.name = Record(q).name
  BY StoredExact
<1>3. q \in Devices /\ Creator \in Devices /\ q # Creator /\ made \in Nat /\ t.body.key \in 1..made
  BY <1>1, ConstantTypes, AtHome DEF Carrier
<1>4. InGroup(q) => Record(q).key \in 1..made
  BY <1>3, RecordOf
<1> HIDE DEF Base, k
<1>5. /\ tasks'[Creator] = tasks[Creator] /\ group'[Creator] = group[Creator] /\ roster'[Creator] = roster[Creator]
      /\ texts'[Creator] = texts[Creator]
  BY <1>1, <1>3 DEF Acts
<1>6. MemberInv(q) /\ (Calm' => Calm)
  BY CalmBefore DEF OInv
<1>7. /\ t \in Stores(q) /\ Stores(q)' = Stores(q) \ {t} /\ Line(q)' = Line(q)
      /\ LineKeys(q)' = LineKeys(q) /\ KeysComing(q)' = KeysComing(q)
  <2>1. t \in Stores(q) /\ Stores(q)' = Stores(q) \ {t} /\ Line(q)' = Line(q)
    BY <1>1 DEF Stores, Line
  <2>2. QED
    BY <2>1 DEF LineKeys, KeysComing
<1>8. HasKey(q, t.body.key)' /\ \A i : HasKey(q, i) => HasKey(q, i)'
  BY <1>1 DEF HasKey
<1>9. HeldInv(q)'
  BY <1>2, <1>6, <1>8 DEF MemberInv, HeldInv
<1>10. KeyInv(q)'
  <2>1. SUFFICES ASSUME Calm' PROVE KeyInv(q)'
    BY DEF KeyInv
  <2>2. Calm /\ KeyInv(q)
    BY <1>6, <2>1 DEF MemberInv
  <2>3. Stores(q)' = {} /\ t.body.rot + 1 = t.body.key /\ \A b \in LineKeys(q) : t.body.key <= b.key
    BY <1>7, <2>2 DEF KeyInv
  <2>4. Ascending(Line(q))'
    BY <1>7, <2>2 DEF KeyInv, Ascending
  <2>5. \A x \in keys'[q] : x.rot + 1 = x.id
    BY <1>1, <2>2, <2>3 DEF KeyInv
  <2>6. InGroup(q)' => /\ Record(q)'.rot + 1 = Record(q)'.key
                       /\ \A b \in LineKeys(q) : Record(q)'.key <= b.key
    BY <1>2, <2>2, <2>3 DEF KeyInv
  <2>7. \A b \in LineKeys(q) : b.rot + 1 = b.key
    BY <2>2 DEF KeyInv
  <2>8. QED
    BY <1>7, <2>3, <2>4, <2>5, <2>6, <2>7 DEF KeyInv
<1>11. FarewellInv(q)'
  <2>1. Departs(q) => Departs(q)'
    BY <1>3 DEF Departs, Progress, Happened
  <2>2. QED
    BY <1>1, <1>5, <1>6, <2>1 DEF MemberInv, FarewellInv
<1>12. ASSUME Fine(q)'
       PROVE  /\ Listed(q)' \/ Removed(q)' \/ Stranger(q)'
              /\ GuestInv(q)'
              /\ Listed(q)' => Latest(q)'
              /\ Removed(q)' \/ BehindInv(q)'
   <2>1. Fine(q) /\ OrderInv(q) /\ Removed(q)' = Removed(q)
    BY <1>1, <1>6, <1>12, CalmBefore DEF MemberInv, Removed
  <2>2. Calm /\ KeyInv(q) /\ GuestInv(q) /\ ~Stranger(q)
    BY <1>6, <2>1 DEF Fine, OrderInv, MemberInv, Stranger
  <2>3. Stores(q) = {t} /\ Stores(q)' = {}
    BY <1>7, <2>2 DEF KeyInv
  <2>4. /\ t.fresh <=> ~InGroup(q)
        /\ InGroup(q)' /\ Record(q)'.key = t.body.key
    BY <1>2, <1>7, <2>2 DEF GuestInv
  <2>5. GuestInv(q)'
    BY <2>3, <2>4 DEF GuestInv
  <2>6. /\ Listed(q)' = Listed(q) /\ KeyLoops(q)' = KeyLoops(q)
    BY <1>5 DEF Listed, IdsOf, KeyLoops
  <2>7. Latest(q) => Latest(q)'
    <3>1. InGroup(q) => Record(q).key <= t.body.key
      BY <2>2, <2>3 DEF KeyInv
    <3>2. InGroup(q) /\ Record(q).key = made => t.body.key = made
      BY <1>3, <3>1
    <3>3. QED
      BY <1>1, <1>7, <2>3, <2>4, <2>6, <3>2, MissedStays DEF Latest
  <2>8. Held(q) \subseteq Held(q)'
    BY <1>1, <2>3 DEF Held
  <2>9. BehindInv(q) => BehindInv(q)'
    <3>1. Covered(Line(q), Held(q)) => Covered(Line(q), Held(q)')
      BY <2>8, CoveredMore
    <3>2. Covered(Line(q), Held(q)') => Covered(Line(q), Held(q))'
      BY <1>7 DEF Covered
    <3>3. QED
      BY <1>5, <1>7, <2>8, <3>1, <3>2, MissedStays DEF BehindInv
  <2>10. QED
    BY <2>1, <2>2, <2>5, <2>6, <2>7, <2>9 DEF OrderInv
<1>13. MemberInv(q)'
  BY <1>9, <1>10, <1>11, <1>12 DEF MemberInv, OrderInv
<1>14. RefusalNeedsCause'
  BY <1>1, CausesKept DEF OInv
<1>15. QED
  BY <1>1, <1>13, <1>14, GuestFrame

\* A member has the creator on his list, as an admin.
LEMMA Trusted ==
  ASSUME Base, LeaveInv, NEW q \in Others, InGroup(q), ~Leaves(Creator), ~Happened("fault")
  PROVE  IsMember(q, <<q, Creator>>) /\ IsAdminAt(q, <<q, Creator>>)
<1>1. q \in Devices /\ q # Creator
  BY ConstantTypes
<1>2. IsMember(q, <<q, Creator>>)
  BY DEF LeaveInv, Gone
<1>3. \A m \in ToSet(roster[q]) : m.id = <<q, Creator>> => m.role = "admin"
  BY <1>1, AtHome DEF RosterOK, RoleOK
<1> HIDE DEF Base
<1>4. QED
  BY <1>2, <1>3 DEF IsMember, IsAdminAt, Admins

\* A notice of the new name is all that changes a record.
LEMMA AppliedExact ==
  ASSUME Base, NEW q \in Devices, NEW t \in tasks[q], Applied(q, t)
  PROVE  /\ t.do = "apply" /\ tasks'[q] = tasks[q] \ {t} /\ Acts(q)
         /\ t.from \in Hearers(q) /\ Carrier(t.from, t.body, made, ops)
         /\ UNCHANGED <<keys, chan, stuck, made, marks>>
         /\ (InGroup(q)' <=> InGroup(q))
         /\ InGroup(q) => Record(q)'.key = Record(q).key /\ Record(q)'.rot = Record(q).rot
         /\ t.body.type # "name" => group'[q] = group[q]
         /\ Authorized(q, <<q, t.from>>, t.body) /\ t.body.type = "name" /\ InGroup(q) => Record(q)'.name = "new"
         /\ ~Authorized(q, <<q, t.from>>, t.body) =>
              group'[q] = group[q] /\ roster'[q] = roster[q] /\ texts'[q] = texts[q]
         /\ Authorized(q, <<q, t.from>>, t.body) => dropped' = dropped
         /\ dropped' \subseteq dropped \cup {<<t.body.type, q, "stranger">>}
<1> DEFINE from == <<q, t.from>>
<1>1. /\ t.do = "apply" /\ UNCHANGED <<keys, chan, stuck, ops, made, faults, marks, out>>
      /\ Authorized(q, from, t.body) => group' = [group EXCEPT ![q] = NameAfter(@, t.body)] /\ UNCHANGED dropped
      /\ ~Authorized(q, from, t.body) => UNCHANGED <<roster, group, texts>>
      /\ dropped' \subseteq dropped \cup {<<t.body.type, q, "stranger">>}
  BY DEF Applied, Refused
<1>2. Handler(q, t, made, ops) /\ made \in Nat /\ GroupOK(group[q], made) /\ DOMAIN group = Devices
  BY AtHome
<1>3. t.from \in Hearers(q) /\ Carrier(t.from, t.body, made, ops)
  BY <1>1, <1>2 DEF Handler
<1>4. Acts(q) /\ tasks'[q] = tasks[q] \ {t}
  BY AppliedActs
<1> HIDE DEF Base, from
<1>5. CASE ~Authorized(q, from, t.body)
  BY <1>1, <1>3, <1>4, <1>5 DEF InGroup, Record, from
<1>6. CASE Authorized(q, from, t.body)
  <2>1. group'[q] = NameAfter(group[q], t.body) /\ dropped' = dropped
    BY <1>1, <1>2, <1>6
  <2>2. CASE t.body.type # "name"
    BY <1>1, <1>3, <1>4, <1>6, <2>1, <2>2 DEF InGroup, Record, from, NameAfter
  <2>3. CASE t.body.type = "name"
    <3>1. t.body.name = "new"
      BY <1>3, <2>3 DEF Carrier
    <3>2. group'[q] = WithName(group[q], "new")
      BY <2>1, <2>3, <3>1 DEF NameAfter
    <3>3. /\ (group'[q] = <<>> <=> group[q] = <<>>)
          /\ group[q] # <<>> => /\ Head(group'[q]).key = Head(group[q]).key
                                /\ Head(group'[q]).rot = Head(group[q]).rot /\ Head(group'[q]).name = "new"
      BY <1>2, <3>2, WithNameOf
    <3>4. QED
      BY <1>1, <1>3, <1>4, <1>6, <2>1, <2>3, <3>3 DEF InGroup, Record, from
  <2>4. QED
    BY <2>2, <2>3
<1>7. QED
  BY <1>5, <1>6 DEF from

LEMMA AppliedOrder ==
  ASSUME Base, LeaveInv, OInv, NEW q \in Others, NEW t \in tasks[q], Applied(q, t), Progress
  PROVE  OInv'
<1>1. q \in Devices /\ Creator \in Devices /\ q # Creator
  BY ConstantTypes
<1>2. /\ t.do = "apply" /\ tasks'[q] = tasks[q] \ {t} /\ Acts(q)
      /\ Carrier(t.from, t.body, made, ops) /\ t.from = Creator
      /\ UNCHANGED <<keys, chan, stuck, made, marks>>
  <2>1. /\ t.do = "apply" /\ tasks'[q] = tasks[q] \ {t} /\ Acts(q)
        /\ Carrier(t.from, t.body, made, ops) /\ t.from \in Hearers(q)
        /\ UNCHANGED <<keys, chan, stuck, made, marks>>
    BY <1>1, AppliedExact
  <2>2. t.from = Creator
    BY <1>1, <2>1, IdTypes
  <2>3. QED
    BY <2>1, <2>2
<1>3. /\ (InGroup(q)' <=> InGroup(q))
      /\ InGroup(q) => Record(q)'.key = Record(q).key /\ Record(q)'.rot = Record(q).rot
      /\ t.body.type # "name" => group'[q] = group[q]
      /\ Authorized(q, <<q, Creator>>, t.body) /\ t.body.type = "name" /\ InGroup(q) => Record(q)'.name = "new"
      /\ Authorized(q, <<q, Creator>>, t.body) => dropped' = dropped
      /\ dropped' \subseteq dropped \cup {<<t.body.type, q, "stranger">>}
  BY <1>1, <1>2, AppliedExact
<1>4. InGroup(q) /\ ~Leaves(Creator) /\ ~Happened("fault") => Authorized(q, <<q, Creator>>, t.body)
  BY Trusted DEF Authorized
<1> HIDE DEF Base
<1>5. /\ tasks'[Creator] = tasks[Creator] /\ group'[Creator] = group[Creator] /\ roster'[Creator] = roster[Creator]
      /\ texts'[Creator] = texts[Creator]
  BY <1>1, <1>2 DEF Acts
<1>6. MemberInv(q) /\ (Calm' => Calm)
  BY CalmBefore DEF OInv
<1>7. /\ Stores(q)' = Stores(q) /\ Line(q)' = Line(q) /\ LineKeys(q)' = LineKeys(q)
      /\ KeysComing(q)' = KeysComing(q) /\ Held(q)' = Held(q)
  <2>1. Stores(q)' = Stores(q) /\ Line(q)' = Line(q)
    BY <1>2 DEF Stores, Line
  <2>2. QED
    BY <1>2, <2>1 DEF LineKeys, KeysComing, Held
<1>8. HeldInv(q)'
  BY <1>2, <1>3, <1>6 DEF MemberInv, HeldInv, HasKey
<1>9. KeyInv(q)'
  <2>1. Ascending(Line(q))' = Ascending(Line(q))
    BY <1>7 DEF Ascending
  <2>2. QED
    BY <1>2, <1>3, <1>6, <1>7, <2>1 DEF MemberInv, KeyInv
<1>10. FarewellInv(q)'
  <2>1. Departs(q) => Departs(q)'
    BY <1>1 DEF Departs, Progress, Happened
  <2>2. QED
    BY <1>2, <1>5, <1>6, <2>1 DEF MemberInv, FarewellInv
<1>11. ASSUME Fine(q)'
       PROVE  /\ Listed(q)' \/ Removed(q)' \/ Stranger(q)'
              /\ GuestInv(q)'
              /\ Listed(q)' => Latest(q)'
              /\ Removed(q)' \/ BehindInv(q)'
   <2>1. Fine(q) /\ OrderInv(q) /\ Removed(q)' = Removed(q) /\ dropped \subseteq dropped'
    BY <1>2, <1>6, <1>11, CalmBefore DEF MemberInv, Removed, Progress
  <2>2. GuestInv(q) /\ ~Stranger(q) /\ InGroup(q)
    BY <1>2, <2>1 DEF OrderInv, Stranger, GuestInv
  <2>4. GuestInv(q)'
    BY <1>2, <1>3, <1>7, <2>2 DEF GuestInv
  <2>5. /\ Listed(q)' = Listed(q) /\ KeyLoops(q)' = KeyLoops(q)
    BY <1>5 DEF Listed, IdsOf, KeyLoops
  <2>6. Latest(q) => Latest(q)'
    BY <1>2, <1>3, <1>7, <2>2, <2>5, MissedStays DEF Latest
  <2>7. BehindInv(q) => BehindInv(q)'
    BY <1>5, <1>7, MissedStays DEF BehindInv, Covered
  <2>8. QED
    BY <2>1, <2>2, <2>4, <2>5, <2>6, <2>7 DEF OrderInv
<1>12. MemberInv(q)'
  BY <1>8, <1>9, <1>10, <1>11 DEF MemberInv, OrderInv
<1>13. RefusalNeedsCause'
  <2>1. CASE Authorized(q, <<q, Creator>>, t.body)
    BY <1>3, <2>1, CausesKept DEF OInv
  <2>2. CASE ~Authorized(q, <<q, Creator>>, t.body)
    <3>1. ~Fine(q)
      <4>1. ASSUME Fine(q) PROVE InGroup(q)
        BY <1>2, <1>6, <4>1 DEF MemberInv, OrderInv, GuestInv
      <4>2. QED
        BY <1>4, <2>2, <4>1 DEF Fine
    <3>2. Happened("fault") \/ Happened("race") \/ \E p \in Devices : Leaves(p)
      BY <1>1, <3>1 DEF Fine, Calm
    <3>3. Happened("fault")' \/ Happened("race")' \/ \E p \in Devices : Leaves(p)'
      BY <3>2 DEF Progress, Happened
    <3>4. QED
      BY <1>1, <1>3, <3>3, OneRefused DEF OInv
  <2>3. QED
    BY <2>1, <2>2
<1>14. QED
  BY <1>2, <1>12, <1>13, GuestFrame

LEMMA ArrivesAt ==
  ASSUME Base, NEW p \in Devices, NEW q \in Devices, Arrives(p, q)
  PROVE  /\ chan'[p][q] = Tail(chan[p][q]) /\ IsSeq(chan[p][q]) /\ chan[p][q] # <<>>
         /\ \A r, s \in Devices : r # p \/ s # q => chan'[r][s] = chan[r][s]
         /\ UNCHANGED <<group, roster, keys, texts, stuck, ops, made, faults, out>>
<1>1. /\ DOMAIN chan = Devices /\ \A r \in Devices : DOMAIN chan[r] = Devices
      /\ IsSeq(chan[p][q])
  BY DEF Base, ChanInv
<1>2. QED
  BY <1>1 DEF Arrives

\* A key comes in: it is stored at once, and he who stores one takes no other.
LEMMA GetsKeyOrder ==
  ASSUME Base, LeaveInv, OInv, NEW q \in Others, GetsKey(Creator, q), Progress
  PROVE  OInv'
<1> DEFINE x == Head(chan[Creator][q])
           u == [do |-> "store", from |-> Creator, body |-> x, fresh |-> ~InGroup(q)]
<1>1. q \in Devices /\ Creator \in Devices /\ q # Creator /\ Others \subseteq Devices
  BY ConstantTypes
<1>2. Arrives(Creator, q) /\ x.type = "key" /\ (dropped' = dropped \/ (KeyLost(q)' /\ tasks' = tasks))
      /\ dropped' \subseteq dropped \cup {<<x.type, q, "sealed">>}
  BY DEF GetsKey, Refused, KeyLost
<1>3. /\ chan'[Creator][q] = Tail(chan[Creator][q]) /\ IsSeq(chan[Creator][q]) /\ chan[Creator][q] # <<>>
      /\ \A r, s \in Devices : r # Creator \/ s # q => chan'[r][s] = chan[r][s]
      /\ UNCHANGED <<group, roster, keys, texts, stuck, ops, made, faults, out>>
  BY <1>1, <1>2, ArrivesAt
<1>4. Acts(q) /\ x \in ToSet(chan[Creator][q]) /\ Carrier(Creator, x, made, ops) /\ made \in Nat
  BY <1>1, <1>2, GetsKeyActs, ArrivesOf, AtHome
<1>5. /\ tasks' = tasks \/ tasks'[q] = tasks[q] \cup {u}
      /\ (InGroup(q) /\ ~IsAdminAt(q, <<q, Creator>>)) \/ tasks'[q] = tasks[q] \cup {u} \/ KeyLost(q)'
      /\ u.do = "store" /\ u.body = x /\ (u.fresh <=> ~InGroup(q))
  BY <1>1, AtHome DEF GetsKey, Refused, KeyLost
<1>6. marks' = marks \cup {<<"race">> : t \in {t \in tasks[q] : t.do = "store"}}
  BY DEF GetsKey
<1>7. InGroup(q) /\ ~Leaves(Creator) /\ ~Happened("fault") => IsAdminAt(q, <<q, Creator>>)
  BY Trusted
<1>a. InGroup(q) => Record(q).key \in 1..made
  BY <1>1, RecordOf
<1> HIDE DEF Base, u
<1>8. /\ tasks'[Creator] = tasks[Creator] /\ group'[Creator] = group[Creator] /\ roster'[Creator] = roster[Creator]
      /\ texts'[Creator] = texts[Creator]
  BY <1>1, <1>4 DEF Acts
<1>9. MemberInv(q) /\ (Calm' => Calm)
  BY CalmBefore DEF OInv
<1>10. /\ InGroup(q)' = InGroup(q) /\ Record(q)' = Record(q)
       /\ Stores(q) \subseteq Stores(q)' /\ Stores(q)' \subseteq Stores(q) \cup {u}
  BY <1>3, <1>5 DEF InGroup, Record, Stores
<1>11. /\ Line(q)' = Tail(Line(q)) /\ IsSeq(Line(q)) /\ Line(q) # <<>> /\ x = Head(Line(q))
       /\ ToSet(Line(q)) = {x} \cup ToSet(Tail(Line(q)))
  <2>1. Line(q)' = Tail(Line(q)) /\ IsSeq(Line(q)) /\ Line(q) # <<>> /\ x = Head(Line(q))
    BY <1>3 DEF Line
  <2>2. QED
    BY <2>1, TailOf
<1> HIDE DEF x
<1>12. LineKeys(q) = {x} \cup LineKeys(q)'
  BY <1>2, <1>11 DEF LineKeys
<1>13. HeldInv(q)'
  BY <1>3, <1>9, <1>10 DEF MemberInv, HeldInv, HasKey
<1>14. KeyInv(q)'
  <2>1. SUFFICES ASSUME Calm' PROVE KeyInv(q)'
    BY DEF KeyInv
  <2>2. Calm /\ KeyInv(q)
    BY <1>9, <2>1 DEF MemberInv
  <2>3. Stores(q) = {}
    BY <1>6, <2>1 DEF Calm, Happened, Stores
  <2>4. \A t \in Stores(q)' : t = u /\ t.body = x
    BY <1>5, <1>10, <2>3
  <2>5. Ascending(Line(q)') /\ \A b \in ToSet(Tail(Line(q))) : b.type = "key" => x.key <= b.key
    BY <1>2, <1>11, <2>2, AscendingTail DEF KeyInv
  <2>6. Ascending(Line(q))' /\ \A b \in LineKeys(q)' : x.key <= b.key
    BY <1>11, <2>5 DEF Ascending, LineKeys
  <2>7. x \in LineKeys(q) /\ \A b \in LineKeys(q)' : b \in LineKeys(q)
    BY <1>12
  <2>8. x.rot + 1 = x.key /\ \A b \in LineKeys(q)' : b.rot + 1 = b.key
    BY <2>2, <2>7 DEF KeyInv
  <2>9. \A k \in keys'[q] : k.rot + 1 = k.id
    BY <1>3, <2>2 DEF KeyInv
  <2>10. InGroup(q) => /\ Record(q).rot + 1 = Record(q).key /\ Record(q).key <= x.key
                       /\ \A b \in LineKeys(q)' : Record(q).key <= b.key
    BY <2>2, <2>7 DEF KeyInv
  <2>11. QED
    BY <1>10, <2>4, <2>6, <2>8, <2>9, <2>10 DEF KeyInv
<1>15. FarewellInv(q)'
  <2>1. Departs(q) => Departs(q)'
    BY <1>1 DEF Departs, Progress, Happened
  <2>2. chan'[q][Creator] = chan[q][Creator]
    BY <1>1, <1>3
  <2>3. QED
    BY <1>8, <1>9, <2>1, <2>2 DEF MemberInv, FarewellInv
<1>16. ASSUME Fine(q)'
       PROVE  /\ Listed(q)' \/ Removed(q)' \/ Stranger(q)'
              /\ GuestInv(q)'
              /\ Listed(q)' => Latest(q)'
              /\ Removed(q)' \/ BehindInv(q)'
   <2>1. Fine(q) /\ OrderInv(q) /\ (Removed(q) => Removed(q)')
    BY <1>9, <1>16, CalmBefore DEF MemberInv, Removed, Progress
  <2>2. ~Stranger(q)
    BY <1>11 DEF Stranger
  <2>3. KeyLost(q)' \/ tasks'[q] = tasks[q] \cup {u}
    BY <1>5, <1>7, <2>1 DEF Fine
  <2>4. KeyLost(q)' \/ Stores(q)' = Stores(q) \cup {u}
    BY <1>5, <2>3 DEF Stores
  <2>5. GuestInv(q) => GuestInv(q)'
    BY <1>3, <1>5, <1>10 DEF GuestInv
  <2>6. /\ Listed(q)' = Listed(q) /\ KeyLoops(q)' = KeyLoops(q)
    BY <1>8 DEF Listed, IdsOf, KeyLoops
  <2>7. KeyLost(q)' \/ (Held(q)' = Held(q) \cup {x.key} /\ KeysComing(q) = {x.key} \cup KeysComing(q)')
    BY <1>3, <1>5, <1>12, <2>4 DEF Held, KeysComing
  <2>8. Latest(q) => Latest(q)'
    <3>1. CASE KeyLost(q)'
      BY <3>1 DEF Latest, Missed
    <3>2. CASE ~KeyLost(q)'
      BY <1>3, <1>5, <1>10, <2>4, <2>6, <2>7, <3>2, MissedStays DEF Latest
    <3>3. QED
      BY <3>1, <3>2
  <2>9. BehindInv(q) => BehindInv(q)'
    <3>0. SUFFICES ASSUME ~KeyLost(q)' PROVE BehindInv(q) => BehindInv(q)'
      BY DEF BehindInv
    <3>1. Covered(Line(q), Held(q)) => Covered(Tail(Line(q)), Held(q)')
      BY <1>11, <2>7, <3>0, CoveredTail
    <3>2. Covered(Tail(Line(q)), Held(q)') => Covered(Line(q), Held(q))'
      BY <1>11 DEF Covered
    <3>3. Held(q) \cup KeysComing(q) = (Held(q) \cup KeysComing(q))'
      BY <2>7, <3>0
    <3>4. QED
      BY <1>8, <3>0, <3>1, <3>2, <3>3, MissedStays DEF BehindInv
  <2>10. QED
    BY <2>1, <2>2, <2>5, <2>6, <2>8, <2>9 DEF OrderInv
<1>17. MemberInv(q)'
  BY <1>13, <1>14, <1>15, <1>16 DEF MemberInv, OrderInv
<1>18. RefusalNeedsCause'
  BY <1>1, <1>2, OneRefused DEF OInv
<1>19. \A r \in Others \ {q} : chan'[Creator][r] = chan[Creator][r] /\ chan'[r][Creator] = chan[r][Creator]
  BY <1>1, <1>3
<1>20. <<"left", Creator>> \in marks' => <<"left", Creator>> \in marks
  BY <1>6
<1>21. QED
  BY <1>3, <1>4, <1>17, <1>18, <1>19, <1>20, GuestFrame

\* A carrier comes in: it is opened, or its key is still to be stored.
LEMMA GetsCarrierOrder ==
  ASSUME Base, OInv, NEW q \in Others, GetsCarrier(Creator, q), Progress
  PROVE  OInv'
<1> DEFINE x == Head(chan[Creator][q])
           u == [do |-> "apply", from |-> Creator, body |-> x]
           known == InGroup(q) /\ HasKey(q, x.with)
           why == IF Storing(q, x.with) THEN "storing" ELSE "nokey"
<1>1. q \in Devices /\ Creator \in Devices /\ q # Creator /\ Others \subseteq Devices
  BY ConstantTypes
<1>2. Arrives(Creator, q) /\ x.type # "key" /\ marks' = marks
  BY DEF GetsCarrier
<1>3. /\ chan'[Creator][q] = Tail(chan[Creator][q]) /\ IsSeq(chan[Creator][q]) /\ chan[Creator][q] # <<>>
      /\ \A r, s \in Devices : r # Creator \/ s # q => chan'[r][s] = chan[r][s]
      /\ UNCHANGED <<group, roster, keys, texts, stuck, ops, made, faults, out>>
  BY <1>1, <1>2, ArrivesAt
<1>4. Acts(q)
  BY <1>1, GetsCarrierActs
<1>5. /\ known => tasks'[q] = tasks[q] \cup {u} /\ dropped' = dropped
      /\ ~known => tasks'[q] = tasks[q] /\ dropped' = dropped \cup {<<x.type, q, why>>}
  BY <1>1, AtHome DEF GetsCarrier, Refused
<1>6. u.do = "apply" /\ u.from = Creator /\ u.body = x
  OBVIOUS
<1> HIDE DEF Base, u, why
<1>7. /\ tasks'[Creator] = tasks[Creator] /\ group'[Creator] = group[Creator] /\ roster'[Creator] = roster[Creator]
      /\ texts'[Creator] = texts[Creator]
  BY <1>1, <1>4 DEF Acts
<1>8. MemberInv(q) /\ (Calm' => Calm)
  BY CalmBefore DEF OInv
<1>9. InGroup(q)' = InGroup(q) /\ Record(q)' = Record(q) /\ Stores(q)' = Stores(q)
  BY <1>3, <1>5, <1>6 DEF InGroup, Record, Stores
<1>10. /\ Line(q)' = Tail(Line(q)) /\ IsSeq(Line(q)) /\ Line(q) # <<>> /\ x = Head(Line(q))
       /\ ToSet(Line(q)) = {x} \cup ToSet(Tail(Line(q)))
  <2>1. Line(q)' = Tail(Line(q)) /\ IsSeq(Line(q)) /\ Line(q) # <<>> /\ x = Head(Line(q))
    BY <1>3 DEF Line
  <2>2. QED
    BY <2>1, TailOf
<1>11. Storing(q, x.with) <=> \E t \in Stores(q) : t.body.key = x.with
  BY DEF Storing, Stores
<1>12. (x.with \in Held(q)) <=> HasKey(q, x.with) \/ Storing(q, x.with)
  BY <1>11 DEF Held, HasKey
<1> HIDE DEF x
<1>13. LineKeys(q)' = LineKeys(q) /\ KeysComing(q)' = KeysComing(q) /\ Held(q)' = Held(q)
  <2>1. LineKeys(q)' = LineKeys(q)
    BY <1>2, <1>10 DEF LineKeys
  <2>2. QED
    BY <1>3, <1>9, <2>1 DEF KeysComing, Held
<1>14. HeldInv(q)'
  BY <1>3, <1>8, <1>9 DEF MemberInv, HeldInv, HasKey
<1>15. KeyInv(q)'
  <2>1. SUFFICES ASSUME Calm' PROVE KeyInv(q)'
    BY DEF KeyInv
  <2>2. Calm /\ KeyInv(q)
    BY <1>8, <2>1 DEF MemberInv
  <2>3. Ascending(Line(q)')
    BY <1>10, <2>2, AscendingTail DEF KeyInv
  <2>4. Ascending(Line(q))'
    BY <2>3 DEF Ascending
  <2>5. QED
    BY <1>3, <1>9, <1>13, <2>2, <2>4 DEF KeyInv
<1>16. FarewellInv(q)'
  <2>1. Departs(q) => Departs(q)'
    BY <1>1 DEF Departs, Progress, Happened
  <2>2. chan'[q][Creator] = chan[q][Creator]
    BY <1>1, <1>3
  <2>3. QED
    BY <1>7, <1>8, <2>1, <2>2 DEF MemberInv, FarewellInv
\* Without a fault he lacks the key only while he stores it, or when he was removed, or
\* when a key came that he could not open.
<1>17. ASSUME Fine(q), ~Removed(q), ~KeyLost(q), ~known PROVE why = "storing"
  <2>1. GuestInv(q) /\ BehindInv(q)
    BY <1>8, <1>17 DEF MemberInv, OrderInv
  <2>2. x.with \in Held(q)
    <3>1. Covered(Line(q), Held(q))
      BY <1>17, <2>1 DEF BehindInv
    <3>2. QED
      BY <1>2, <1>10, <3>1, CoveredTail
  <2>3. HasKey(q, x.with) => InGroup(q)
    BY <2>1 DEF GuestInv, HasKey
  <2>4. QED
    BY <1>12, <1>17, <2>2, <2>3 DEF why
<1>18. ASSUME Fine(q)'
       PROVE  /\ Listed(q)' \/ Removed(q)' \/ Stranger(q)'
              /\ GuestInv(q)'
              /\ Listed(q)' => Latest(q)'
              /\ Removed(q)' \/ BehindInv(q)'
  <2>1. Fine(q) /\ OrderInv(q) /\ Removed(q)' = Removed(q) /\ dropped \subseteq dropped'
    BY <1>2, <1>8, <1>18, CalmBefore DEF MemberInv, Removed, Progress
  <2>2. ~Stranger(q)
    BY <1>10 DEF Stranger
  <2>3. GuestInv(q) => GuestInv(q)'
    BY <1>3, <1>5, <1>9 DEF GuestInv
  <2>4. /\ Listed(q)' = Listed(q) /\ KeyLoops(q)' = KeyLoops(q)
    BY <1>7 DEF Listed, IdsOf, KeyLoops
  <2>5. Latest(q) => Latest(q)'
    BY <1>3, <1>9, <1>13, <2>4, MissedStays DEF Latest
  <2>6. BehindInv(q) => BehindInv(q)'
    <3>1. Covered(Line(q), Held(q)) => Covered(Tail(Line(q)), Held(q))
      BY <1>2, <1>10, CoveredTail
    <3>2. Covered(Tail(Line(q)), Held(q)) => Covered(Line(q), Held(q))'
      BY <1>10, <1>13 DEF Covered
    <3>3. QED
      BY <1>7, <1>13, <3>1, <3>2, MissedStays DEF BehindInv
  <2>7. QED
    BY <2>1, <2>2, <2>3, <2>4, <2>5, <2>6 DEF OrderInv
<1>19. MemberInv(q)'
  BY <1>14, <1>15, <1>16, <1>18 DEF MemberInv, OrderInv
<1>20. RefusalNeedsCause'
  <2>1. CASE known
    BY <1>5, <2>1, CausesKept DEF OInv
  <2>2. CASE ~known
    <3>1. why = "storing" \/ (why = "nokey" /\ (Removed(q) \/ KeyLost(q))) \/ ~Fine(q)
      BY <1>17, <2>2 DEF why
    <3>2. Fine(q) \/ Happened("fault") \/ Happened("race") \/ \E p \in Devices : Leaves(p)
      BY <1>1 DEF Fine, Calm
    <3>3. why = "storing" \/ (why = "nokey" /\ (<<"removed", q>> \in marks' \/ KeyLost(q)'))
          \/ Happened("fault")' \/ Happened("race")' \/ \E p \in Devices : Leaves(p)'
      BY <1>2, <3>1, <3>2, MissedStays DEF Progress, Happened, Removed
    <3>4. dropped' \subseteq dropped \cup {<<x.type, q, why>>}
      BY <1>5, <2>2
    <3>5. QED
      BY <1>1, <3>3, <3>4, OneRefused DEF OInv
  <2>3. QED
    BY <2>1, <2>2
<1>21. \A r \in Others \ {q} : chan'[Creator][r] = chan[Creator][r] /\ chan'[r][Creator] = chan[r][Creator]
  BY <1>1, <1>3
<1>22. QED
  BY <1>2, <1>3, <1>4, <1>19, <1>20, <1>21, GuestFrame

\* What a member's device does keeps all of it.
LEMMA GuestOrder ==
  ASSUME Base, LeaveInv, OInv, NEW p \in Others, UserStep(p) \/ HandlerStep(p)
  PROVE  OInv'
<1> HIDE DEF Base
<1>1. p \in Devices /\ p # Creator
  BY ConstantTypes
<1>2. CASE UserStep(p)
  BY <1>2, GuestUserOrder
<1>3. CASE HandlerStep(p)
  <2>1. Progress
    BY <1>1, <1>3, HandlerActs
  <2>2. ASSUME NEW t \in tasks[p], Rotated(p, t) PROVE OInv'
    BY <1>1, <2>2, RotatedActs
  <2>3. ASSUME NEW q \in Devices, GetsKey(q, p) PROVE OInv'
    BY <1>1, <2>1, <2>3, GetsKeyActs, GetsKeyOrder
  <2>4. ASSUME NEW q \in Devices, GetsCarrier(q, p) PROVE OInv'
    <3>1. q = Creator
      BY <1>1, <2>4, ArrivesOf, IdTypes DEF GetsCarrier
    <3>2. QED
      BY <2>1, <2>4, <3>1, GetsCarrierOrder
  <2>5. QED
    BY <1>3, <2>1, <2>2, <2>3, <2>4, GuestEncryptedOrder, GuestSendsOrder, GuestEndsOrder,
       StoredOrder, AppliedOrder DEF HandlerStep
<1>4. QED
  BY <1>2, <1>3

-----------------------------------------------------------------------------
(* The operations of the creator                                           *)

\* What a member and he agree on is kept if he sends the member the key he has
\* to and nothing under another key.
LEMMA HomeOrder ==
  ASSUME Base, NEW q \in Others, Acts(Creator), Progress, MemberInv(q), Fine(q)',
         chan'[Creator][q] = chan[Creator][q],
         Listed(q)' \/ Removed(q)' \/ Stranger(q)',
         Listed(q)' => KeyLoops(q)' # {} \/ (Listed(q) /\ made' = made /\ KeyLoops(q) = {}),
         \/ Removed(q)' \/ KeyLost(q)
         \/ \A t \in tasks'[Creator] : t.do = "send" /\ t.body.type # "key" /\ q \in ToSet(t.to) =>
              <<Creator, q>> \in stuck \/ t.body.with \in Held(q) \cup KeysComing(q)
  PROVE  OrderInv(q)'
<1> HIDE DEF Base
<1>1. q \in Devices \ {Creator} /\ Fine(q) /\ OrderInv(q) /\ (Removed(q) => Removed(q)')
  BY CalmBefore, ConstantTypes DEF MemberInv, Removed, Progress
<1>2. group'[q] = group[q] /\ keys'[q] = keys[q] /\ tasks'[q] = tasks[q]
  BY <1>1 DEF Acts
<1>3. /\ Line(q)' = Line(q) /\ Stores(q)' = Stores(q) /\ LineKeys(q)' = LineKeys(q)
      /\ Held(q)' = Held(q) /\ KeysComing(q)' = KeysComing(q)
      /\ InGroup(q)' = InGroup(q) /\ Record(q)' = Record(q) /\ GuestInv(q)' = GuestInv(q)
  BY <1>2, LineSame
<1>4. Listed(q)' => Latest(q)'
  <2>1. Listed(q) => Latest(q)
    BY <1>1 DEF OrderInv
  <2>2. QED
    BY <1>3, <2>1, MissedStays DEF Latest
<1>5. Removed(q)' \/ BehindInv(q)'
  <2>1. Removed(q) \/ BehindInv(q)
    BY <1>1 DEF OrderInv
  <2>2. Covered(Line(q), Held(q))' = Covered(Line(q), Held(q))
    BY <1>3 DEF Covered
  <2>3. QED
    BY <1>1, <1>3, <2>1, <2>2, MissedStays DEF BehindInv
<1>7. GuestInv(q)'
  BY <1>1, <1>3 DEF OrderInv
<1>8. QED
  BY <1>4, <1>5, <1>7 DEF OrderInv

LEMMA FarewellKept ==
  ASSUME Progress, NEW q \in Others, FarewellInv(q),
         \A b \in ToSet(chan'[q][Creator]) : b \in ToSet(chan[q][Creator]),
         \A t \in tasks'[Creator] : t.do = "apply" =>
           t \in tasks[Creator] \/ t.body \in ToSet(chan[t.from][Creator])
  PROVE  FarewellInv(q)'
<1>1. Departs(q) => Departs(q)'
  BY ConstantTypes DEF Departs, Progress, Happened
<1>2. QED
  BY <1>1 DEF FarewellInv

\* A step of the creator's that sends nothing.
LEMMA HomeFrame ==
  ASSUME Base, OInv, Acts(Creator), Progress, AloneInv', HomeInv', RefusalNeedsCause',
         \A q \in Others : chan'[Creator][q] = chan[Creator][q],
         \A q \in Others : \A b \in ToSet(chan'[q][Creator]) : b \in ToSet(chan[q][Creator]),
         \A t \in tasks'[Creator] : t.do = "apply" =>
           t \in tasks[Creator] \/ t.body \in ToSet(chan[t.from][Creator]),
         \A q \in Others : Fine(q)' => OrderInv(q)'
  PROVE  OInv'
<1> HIDE DEF Base
<1>2. ASSUME NEW q \in Others PROVE MemberInv(q)'
  <2>1. q \in Devices \ {Creator} /\ MemberInv(q) /\ (Calm' => Calm)
    BY ConstantTypes, CalmBefore DEF OInv
  <2>2. group'[q] = group[q] /\ keys'[q] = keys[q] /\ tasks'[q] = tasks[q]
    BY <2>1 DEF Acts
  <2>3. HeldInv(q)' /\ KeyInv(q)'
    BY <2>1, <2>2, LineSame, KeySame DEF MemberInv
  <2>4. FarewellInv(q)'
    BY <2>1, FarewellKept DEF MemberInv
  <2>5. OrderInv(q)'
    BY DEF OrderInv
  <2>6. QED
    BY <2>3, <2>4, <2>5 DEF MemberInv
<1>3. QED
  BY <1>2 DEF OInv

\* AloneInv says the same of the next state when the creator has the same keys.
LEMMA AloneKept ==
  ASSUME Base, OInv, Acts(Creator), Progress, made' = made, keys'[Creator] = keys[Creator],
         InGroup(Creator)' => InGroup(Creator) /\ Record(Creator)'.key = Record(Creator).key
                                              /\ Record(Creator)'.rot = Record(Creator).rot,
         Calm' => Alone(tasks'[Creator]),
         Calm' => \A t \in tasks'[Creator] : t \in tasks[Creator] \/ Current(t, made)
  PROVE  AloneInv'
<1> HIDE DEF Base
<1>1. SUFFICES ASSUME Calm' PROVE AloneInv'
  BY DEF AloneInv
<1>2. Calm /\ AloneInv
  BY <1>1, CalmBefore DEF OInv
<1>3. Alone(tasks[Creator])'
  BY <1>1 DEF Alone, Busy, CarriesKey
<1>4. \A t \in tasks'[Creator] : Current(t, made)
  BY <1>1, <1>2 DEF AloneInv
<1>5. QED
  BY <1>2, <1>3, <1>4 DEF AloneInv, HasKey, Current

\* An operation begins that seals something or makes a key.
LEMMA HomeBegins ==
  ASSUME Base, OInv, Acts(Creator), NEW u, NEW new, new \subseteq {u}, Begin(Creator, new), made # 0,
         UNCHANGED <<keys, texts, made>>,
         \A v \in new : v.do \in {"encrypt", "rotate"} /\ (Calm => Current(v, made)),
         InGroup(Creator)' <=> InGroup(Creator),
         InGroup(Creator) => /\ Record(Creator)'.key = Record(Creator).key
                             /\ Record(Creator)'.rot = Record(Creator).rot,
         IdsOf(roster'[Creator]) = IdsOf(roster[Creator]),
         \A v \in new : v.do = "encrypt" /\ v.body.type = "read" =>
           \E x \in DOMAIN texts[Creator] : texts[Creator][x].from = <<Creator, v.body.to>>
  PROVE  OInv'
<1> HIDE DEF Base
<1>1. Creator \in Devices /\ Progress
  BY ConstantTypes, UserProgress
<1>2. /\ tasks'[Creator] = tasks[Creator] \cup new
      /\ UNCHANGED <<chan, stuck, faults, dropped>>
      /\ marks' \in {marks, marks \cup {<<"race">>}}
      /\ Calm' => Busy(tasks[Creator]) = {} \/ \A t \in Busy(tasks[Creator]) \cup new : ~CarriesKey(t)
  BY <1>1, Begun
<1>3. Calm' => Calm
  BY <1>1, CalmBefore
<1>4. AloneInv'
  <2>1. Calm' => Alone(tasks'[Creator])
    <3>1. SUFFICES ASSUME Calm' PROVE Alone(tasks'[Creator])
      OBVIOUS
    <3>2. Alone(tasks[Creator])
      BY <1>3, <3>1 DEF OInv, AloneInv
    <3>3. Busy(tasks[Creator]) = {} \/ \A t \in Busy(tasks[Creator]) \cup new : ~CarriesKey(t)
      BY <1>2, <3>1
    <3> DEFINE ts == tasks[Creator]
    <3> HIDE DEF ts
    <3>4. Alone(ts \cup new)
      BY <3>2, <3>3, AloneBegun DEF ts
    <3>5. QED
      BY <1>2, <3>4 DEF ts
  <2>2. Calm' => \A t \in tasks'[Creator] : t \in tasks[Creator] \/ Current(t, made)
    BY <1>2, <1>3
  <2>3. QED
    BY <1>1, <2>1, <2>2, AloneKept
<1>5. HomeInv'
  <2>1. <<"left", Creator>> \in marks' <=> <<"left", Creator>> \in marks
    BY <1>2
  <2>2. QED
    BY <2>1 DEF OInv, HomeInv
<1>6. RefusalNeedsCause'
  BY <1>1, <1>2, CausesKept DEF OInv
<1>7. ASSUME NEW q \in Others, Fine(q)' PROVE OrderInv(q)'
  <2>1. /\ MemberInv(q) /\ OrderInv(q) /\ Fine(q) /\ Calm /\ (Removed(q) => Removed(q)')
        /\ chan'[Creator][q] = chan[Creator][q] /\ chan'[q][Creator] = chan[q][Creator]
    BY <1>1, <1>2, <1>7, CalmBefore DEF OInv, MemberInv, Removed, Progress
  <2>2. Listed(q)' <=> Listed(q)
    BY DEF Listed
  <2>3. group'[q] = group[q] /\ tasks'[q] = tasks[q]
    BY <1>1, ConstantTypes DEF Acts
  <2>4. KeyLoops(q)' = KeyLoops(q)
    BY <1>2 DEF KeyLoops
  <2>5. Stranger(q) => Stranger(q)'
    <3>1. SUFFICES ASSUME Stranger(q) PROVE Stranger(q)'
      OBVIOUS
    <3>2. Line(q)' = <<>> /\ chan'[q][Creator] = <<>> /\ tasks'[q] = {} /\ group'[q] = <<>>
      BY <2>1, <2>3, <3>1 DEF Stranger, Line
    <3>3. \A x \in DOMAIN texts[Creator] : texts[Creator][x].from # <<Creator, q>>
      BY <3>1 DEF Stranger
    <3>4. \A t \in tasks'[Creator] : /\ t.do = "send" => q \notin ToSet(t.to)
                                     /\ t.do = "encrypt" /\ t.body.type = "read" => t.body.to # q
                                     /\ t.do = "apply" => t.from # q
      BY <1>2, <3>1, <3>3 DEF Stranger
    <3>5. QED
      BY <3>2, <3>3, <3>4 DEF Stranger
  <2>6. Listed(q)' \/ Removed(q)' \/ Stranger(q)'
    BY <2>1, <2>2, <2>5 DEF OrderInv
  <2>7. \/ Removed(q)' \/ KeyLost(q)
        \/ \A t \in tasks'[Creator] : t.do = "send" /\ t.body.type # "key" /\ q \in ToSet(t.to) =>
             <<Creator, q>> \in stuck \/ t.body.with \in Held(q) \cup KeysComing(q)
    BY <1>2, <2>1 DEF OrderInv, BehindInv
  <2>8. Listed(q)' => KeyLoops(q)' # {} \/ (Listed(q) /\ made' = made /\ KeyLoops(q) = {})
    BY <2>2, <2>4
  <2>9. QED
    BY <1>1, <1>7, <2>1, <2>6, <2>7, <2>8, HomeOrder
<1>8. \A t \in tasks'[Creator] : t.do = "apply" =>
        t \in tasks[Creator] \/ t.body \in ToSet(chan[t.from][Creator])
  BY <1>2
<1>9. QED
  BY <1>1, <1>2, <1>4, <1>5, <1>6, <1>7, <1>8, HomeFrame

\* What is sealed is sealed with the current key.
LEMMA SealedNow ==
  ASSUME Base, OInv, NEW n, NEW body, NEW then, "type" \in DOMAIN body
  PROVE  LET new == Encrypt(Creator, n, body, then) IN
         /\ \E u : new \subseteq {u}
         /\ \A v \in new : /\ v.do = "encrypt" /\ v.body.type = body.type
                           /\ \A f \in DOMAIN body : f # "with" => v.body[f] = body[f]
                           /\ Calm => Current(v, made)
         /\ Calm /\ InGroup(Creator) /\ made # 0 => new # {}
<1> DEFINE new == Encrypt(Creator, n, body, then)
           k == Record(Creator).key
           u == [do |-> "encrypt", n |-> n, body |-> Sealed(body, k), then |-> then]
<1>1. new = IF InGroup(Creator) /\ HasKey(Creator, k) THEN {u} ELSE {}
  BY DEF Encrypt
<1>2. u.do = "encrypt" /\ u.body = Sealed(body, k)
  OBVIOUS
<1>3. u.body.with = k /\ \A f \in DOMAIN body : f # "with" => u.body[f] = body[f]
  BY <1>2 DEF Sealed
<1>4. u.body.type = body.type
  BY <1>3
<1>5. made \in Nat /\ KeepKeys \in Nat
  BY ConstantTypes, AtHome, GroupAssumption
<1>6. Calm /\ InGroup(Creator) => k = made /\ (made # 0 => HasKey(Creator, k))
  <2>1. Calm /\ InGroup(Creator) => k = made /\ \A i \in 1..made : i + KeepKeys >= made => HasKey(Creator, i)
    BY DEF OInv, AloneInv
  <2>2. made # 0 => made \in 1..made /\ made + KeepKeys >= made
    BY <1>5
  <2>3. QED
    BY <2>1, <2>2
<1> HIDE DEF u, k
<1>7. \A v \in new : v = u /\ InGroup(Creator)
  BY <1>1
<1>8. \A v \in new : Calm => Current(v, made)
  BY <1>2, <1>3, <1>6, <1>7 DEF Current
<1>9. Calm /\ InGroup(Creator) /\ made # 0 => new # {}
  BY <1>1, <1>6
<1>10. QED
  BY <1>2, <1>3, <1>4, <1>7, <1>8, <1>9

\* He has made a key when he has the group, or a member list.
LEMMA MadeOne ==
  ASSUME Base, OInv, InGroup(Creator) \/ IsAdmin(Creator)
  PROVE  made # 0
<1>1. roster[Creator] = <<>> => ~IsAdmin(Creator)
  BY EmptyOf DEF IsAdmin, IsAdminAt, Admins
<1>2. QED
  BY <1>1 DEF OInv, HomeInv

LEMMA HomeMessageOrder == ASSUME Base, OInv, SendGroupMessage(Creator) PROVE OInv'
<1> DEFINE body == [type |-> "text", t |-> ops + 1]
           then == [type |-> "text"]
           new == Encrypt(Creator, ops + 1, body, then)
<1>1. InGroup(Creator) /\ Begin(Creator, new) /\ UNCHANGED <<group, roster, keys, texts, made, out>>
  BY DEF SendGroupMessage
<1>2. Creator \in Devices /\ Acts(Creator) /\ made # 0
  BY <1>1, ConstantTypes, MessageActs, MadeOne
<1>3. body.type = "text" /\ "type" \in DOMAIN body
  OBVIOUS
<1> HIDE DEF Base, body, then, new
<1>4. /\ \E u : new \subseteq {u}
      /\ \A v \in new : v.do = "encrypt" /\ v.body.type = "text" /\ (Calm => Current(v, made))
  BY <1>3, SealedNow DEF new
<1>5. PICK u : new \subseteq {u}
  BY <1>4
<1>6. InGroup(Creator)' = InGroup(Creator) /\ Record(Creator)' = Record(Creator)
      /\ IdsOf(roster'[Creator]) = IdsOf(roster[Creator])
  BY <1>1 DEF InGroup, Record
<1>7. QED
  BY <1>1, <1>2, <1>4, <1>5, <1>6, HomeBegins

LEMMA HomeLeaveOrder == ASSUME Base, OInv, LeaveGroup(Creator) PROVE OInv'
<1> DEFINE body == Removal(Self)
           then == [type |-> "leave"]
           new == Encrypt(Creator, ops + 1, body, then)
<1>1. InGroup(Creator) /\ Begin(Creator, new) /\ UNCHANGED <<group, roster, keys, texts, made, out>>
  BY DEF LeaveGroup
<1>2. Creator \in Devices /\ Acts(Creator) /\ made # 0
  BY <1>1, ConstantTypes, LeaveActs, MadeOne
<1>3. body.type = "removed" /\ "type" \in DOMAIN body
  BY DEF Removal
<1> HIDE DEF Base, body, then, new
<1>4. /\ \E u : new \subseteq {u}
      /\ \A v \in new : v.do = "encrypt" /\ v.body.type = "removed" /\ (Calm => Current(v, made))
  BY <1>3, SealedNow DEF new
<1>5. PICK u : new \subseteq {u}
  BY <1>4
<1>6. InGroup(Creator)' = InGroup(Creator) /\ Record(Creator)' = Record(Creator)
      /\ IdsOf(roster'[Creator]) = IdsOf(roster[Creator])
  BY <1>1 DEF InGroup, Record
<1>7. QED
  BY <1>1, <1>2, <1>4, <1>5, <1>6, HomeBegins

LEMMA HomeReceiptOrder ==
  ASSUME Base, OInv, NEW t, SendGroupReadReceipt(Creator, t)
  PROVE  OInv'
<1> DEFINE id == texts[Creator][t].from
           body == [type |-> "read", t |-> t, to |-> id[2]]
           new == Encrypt(Creator, ops + 1, body, Nothing)
<1>1. /\ InGroup(Creator) /\ Begin(Creator, new) /\ UNCHANGED <<group, roster, keys, texts, made, out>>
      /\ t \in DOMAIN texts[Creator] /\ id # Self
  BY DEF SendGroupReadReceipt
<1>2. Creator \in Devices /\ Acts(Creator) /\ made # 0
  BY <1>1, ConstantTypes, ReceiptActs, MadeOne
<1>3. id = <<Creator, id[2]>>
  <2>1. id \in Peers(Creator)
    BY <1>1, <1>2, AtHome DEF TextsOK
  <2> HIDE DEF id
  <2>2. QED
    BY <2>1, IdTypes
<1>4. body.type = "read" /\ body.to = id[2] /\ DOMAIN body = {"type", "t", "to"}
  OBVIOUS
<1> HIDE DEF Base, body, new
<1>5. /\ \E u : new \subseteq {u}
      /\ \A v \in new : v.do = "encrypt" /\ v.body.type = "read" /\ v.body.to = id[2] /\ (Calm => Current(v, made))
  <2>1. "type" \in DOMAIN body /\ "to" \in DOMAIN body /\ "to" # "with"
    BY <1>4
  <2>2. QED
    BY <1>4, <2>1, SealedNow DEF new
<1>6. PICK u : new \subseteq {u}
  BY <1>5
<1>7. InGroup(Creator)' = InGroup(Creator) /\ Record(Creator)' = Record(Creator)
      /\ IdsOf(roster'[Creator]) = IdsOf(roster[Creator])
  BY <1>1 DEF InGroup, Record
<1>8. \A v \in new : \E x \in DOMAIN texts[Creator] : texts[Creator][x].from = <<Creator, v.body.to>>
  BY <1>1, <1>3, <1>5
<1>9. QED
  BY <1>1, <1>2, <1>5, <1>6, <1>7, <1>8, HomeBegins

LEMMA HomeRoleOrder ==
  ASSUME Base, OInv, NEW m \in ToSet(roster[Creator]), NEW role \in {"admin", "member"},
         ChangeRole(Creator, m.id, role)
  PROVE  OInv'
<1> DEFINE body == [type |-> "role", id |-> m.id, role |-> role]
           new == Encrypt(Creator, ops + 1, body, Nothing)
<1>1. /\ IsAdmin(Creator) /\ Begin(Creator, new) /\ UNCHANGED <<group, keys, texts, made, out>>
      /\ roster' = [roster EXCEPT ![Creator] = WithRole(@, m.id, role)]
  BY DEF ChangeRole
<1>2. Creator \in Devices /\ Acts(Creator) /\ made # 0
  BY <1>1, ConstantTypes, RoleActs, MadeOne
<1>3. body.type = "role" /\ "type" \in DOMAIN body
  OBVIOUS
<1>4. IdsOf(roster'[Creator]) = IdsOf(roster[Creator])
  <2>1. RosterOK(Creator, roster[Creator]) /\ roster'[Creator] = WithRole(roster[Creator], m.id, role)
    BY <1>1, <1>2, AtHome
  <2>2. QED
    BY <1>2, <2>1, WithRoleOf
<1> HIDE DEF Base, body, new
<1>5. /\ \E u : new \subseteq {u}
      /\ \A v \in new : v.do = "encrypt" /\ v.body.type = "role" /\ (Calm => Current(v, made))
  BY <1>3, SealedNow DEF new
<1>6. PICK u : new \subseteq {u}
  BY <1>5
<1>7. InGroup(Creator)' = InGroup(Creator) /\ Record(Creator)' = Record(Creator)
  BY <1>1 DEF InGroup, Record
<1>8. QED
  BY <1>1, <1>2, <1>4, <1>5, <1>6, <1>7, HomeBegins

LEMMA HomeRemoveOrder ==
  ASSUME Base, OInv, NEW m \in ToSet(roster[Creator]), m.id # Self, RemoveGroupMember(Creator, m.id)
  PROVE  OInv'
<1> DEFINE u == [do |-> "rotate", n |-> ops + 1, id |-> m.id, rot |-> NextRotation(Record(Creator))]
<1>1. InGroup(Creator) /\ Begin(Creator, {u}) /\ UNCHANGED <<group, roster, keys, texts, made, out>>
  BY DEF RemoveGroupMember
<1>2. Creator \in Devices /\ Acts(Creator) /\ made # 0
  BY <1>1, ConstantTypes, RemoveActs, MadeOne
<1>3. u.do = "rotate" /\ u.rot = Record(Creator).rot + 1
  BY DEF NextRotation
<1> HIDE DEF Base, u
<1>4. Calm => Current(u, made)
  BY <1>1, <1>3 DEF Current, OInv, AloneInv
<1>5. InGroup(Creator)' = InGroup(Creator) /\ Record(Creator)' = Record(Creator)
      /\ IdsOf(roster'[Creator]) = IdsOf(roster[Creator])
  BY <1>1 DEF InGroup, Record
<1> DEFINE new == {u}
<1>6. \A v \in new : v.do = "rotate" /\ (Calm => Current(v, made))
  BY <1>3, <1>4
<1>7. new \subseteq {u} /\ Begin(Creator, new)
  BY <1>1
<1> HIDE DEF new
<1>8. QED
  BY <1>1, <1>2, <1>5, <1>6, <1>7, HomeBegins

LEMMA HomeNameOrder == ASSUME Base, OInv, UpdateGroupName(Creator) PROVE OInv'
<1> DEFINE body == [type |-> "name", name |-> "new"]
           new == Encrypt(Creator, ops + 1, body, Nothing)
<1>1. /\ InGroup(Creator) /\ Begin(Creator, new) /\ UNCHANGED <<roster, keys, texts, made, out>>
      /\ group' = [group EXCEPT ![Creator] = WithName(@, "new")]
  BY DEF UpdateGroupName
<1>2. Creator \in Devices /\ Acts(Creator) /\ made # 0
  BY <1>1, ConstantTypes, NameActs, MadeOne
<1>3. body.type = "name" /\ "type" \in DOMAIN body
  OBVIOUS
<1>4. /\ InGroup(Creator)' /\ Record(Creator)'.key = Record(Creator).key
      /\ Record(Creator)'.rot = Record(Creator).rot
  <2>1. made \in Nat /\ GroupOK(group[Creator], made) /\ group'[Creator] = WithName(group[Creator], "new")
    BY <1>1, <1>2, AtHome
  <2>2. QED
    BY <1>1, <2>1, WithNameOf DEF InGroup, Record
<1> HIDE DEF Base, body, new
<1>5. /\ \E u : new \subseteq {u}
      /\ \A v \in new : v.do = "encrypt" /\ v.body.type = "name" /\ (Calm => Current(v, made))
  BY <1>1, <1>2, <1>3, SealedNow DEF new
<1>6. PICK u : new \subseteq {u}
  BY <1>5
<1>7. IdsOf(roster'[Creator]) = IdsOf(roster[Creator])
  BY <1>1
<1>8. \A v \in new : v.body.type # "read"
  BY <1>5
<1>9. QED
  BY <1>1, <1>2, <1>4, <1>5, <1>6, <1>7, <1>8, HomeBegins

\* A loop that takes a key to whoever is a member now begins.
LEMMA KeyGoesOut ==
  ASSUME Base, NEW q \in Others, Acts(Creator), Progress, MemberInv(q), Fine(q)',
         chan'[Creator][q] = chan[Creator][q], chan'[q][Creator] = chan[q][Creator],
         texts'[Creator] = texts[Creator],
         NEW u \in tasks'[Creator], \A v \in tasks'[Creator] : v \in tasks[Creator] \/ v = u,
         \A v \in tasks[Creator] : v.do # "rotate" => v \in tasks'[Creator],
         u.do = "send", u.body.type = "key",
         Listed(q)' => q \in ToSet(u.to) \/ (Listed(q) /\ made' = made),
         q \in ToSet(u.to) => Listed(q)',
         Listed(q) => Listed(q)' \/ Removed(q)'
  PROVE  OrderInv(q)'
<1> HIDE DEF Base
<1>1. /\ OrderInv(q) /\ Fine(q) /\ (Removed(q) => Removed(q)') /\ q \in Devices \ {Creator}
  BY CalmBefore, ConstantTypes DEF MemberInv, Removed, Progress
<1>2. group'[q] = group[q] /\ tasks'[q] = tasks[q]
  BY <1>1 DEF Acts
<1>3. /\ \A v \in tasks[Creator] : v.do # "rotate" => v \in tasks'[Creator]
      /\ \A v \in tasks'[Creator] : v \in tasks[Creator] \/ v = u
  OBVIOUS
<1>4. Stranger(q) => Stranger(q)' \/ Listed(q)'
  <2>1. SUFFICES ASSUME Stranger(q), ~Listed(q)' PROVE Stranger(q)'
    OBVIOUS
  <2>2. Line(q)' = <<>> /\ chan'[q][Creator] = <<>> /\ tasks'[q] = {} /\ group'[q] = <<>>
    BY <1>2, <2>1 DEF Stranger, Line
  <2>3. \A v \in tasks'[Creator] : /\ v.do = "send" => q \notin ToSet(v.to)
                                   /\ v.do = "encrypt" /\ v.body.type = "read" => v.body.to # q
                                   /\ v.do = "apply" => v.from # q
    BY <1>3, <2>1 DEF Stranger
  <2>4. QED
    BY <2>1, <2>2, <2>3 DEF Stranger
<1>5. Listed(q)' \/ Removed(q)' \/ Stranger(q)'
  BY <1>1, <1>4 DEF OrderInv
<1>6. KeyLoops(q) \subseteq KeyLoops(q)' /\ (q \in ToSet(u.to) => u \in KeyLoops(q)')
      /\ \A v \in KeyLoops(q)' : v \in KeyLoops(q) \/ v = u
  BY <1>3 DEF KeyLoops
<1>7. \/ Removed(q)' \/ KeyLost(q)
      \/ \A v \in tasks'[Creator] : v.do = "send" /\ v.body.type # "key" /\ q \in ToSet(v.to) =>
           <<Creator, q>> \in stuck \/ v.body.with \in Held(q) \cup KeysComing(q)
  BY <1>1, <1>3 DEF OrderInv, BehindInv
<1>8. Listed(q)' => KeyLoops(q)' # {} \/ (Listed(q) /\ made' = made /\ KeyLoops(q) = {})
  BY <1>6
<1>9. QED
  BY <1>5, <1>7, <1>8, HomeOrder

LEMMA CreateOrder ==
  ASSUME Base, OInv, NEW invited \in Invitations, CreateGroup(Creator, invited), Progress
  PROVE  OInv'
<1> DEFINE rec == [key |-> 1, rot |-> 0, name |-> "old"]
           body == KeyBody(rec)
           u == [do |-> "send", n |-> ops + 1, to |-> invited, body |-> body, then |-> Nothing]
           ms == <<[id |-> Self, role |-> "admin"]>> \o
                   [i \in DOMAIN invited |-> [id |-> <<Creator, invited[i]>>, role |-> "member"]]
<1>1. /\ made = 0 /\ made' = 1
      /\ keys' = [keys EXCEPT ![Creator] = {FirstKey}]
      /\ group' = [group EXCEPT ![Creator] = <<rec>>]
      /\ roster' = [roster EXCEPT ![Creator] = ms]
      /\ Begin(Creator, {u}) /\ UNCHANGED <<texts, out>>
  BY DEF CreateGroup, Send
<1>2. Creator \in Devices /\ Acts(Creator)
  BY ConstantTypes, CreateActs
<1>3. body.type = "key" /\ body.key = 1 /\ body.rot = 0
  BY DEF KeyBody
<1>4. u.do = "send" /\ u.to = invited /\ u.body = body
  OBVIOUS
<1>5. IdsOf(ms) = {Self} \cup {<<Creator, q>> : q \in ToSet(invited)}
  BY FirstRoster
<1>6. keys'[Creator] = {FirstKey} /\ group'[Creator] = <<rec>> /\ roster'[Creator] = ms
  BY <1>1, <1>2, AtHome
<1>7. InGroup(Creator)' /\ Record(Creator)' = rec /\ FirstKey.id = 1 /\ FirstKey.rot = 0
  BY <1>6 DEF InGroup, Record, FirstKey
<1>8. rec.key = 1 /\ rec.rot = 0
  OBVIOUS
<1>9. KeepKeys \in Nat
  BY GroupAssumption
<1> HIDE DEF Base, u, body, ms, rec
<1>10. /\ tasks'[Creator] = tasks[Creator] \cup {u}
       /\ UNCHANGED <<chan, stuck, faults, dropped>>
       /\ marks' \in {marks, marks \cup {<<"race">>}}
       /\ Calm' => Busy(tasks[Creator]) = {} \/ \A t \in Busy(tasks[Creator]) \cup {u} : ~CarriesKey(t)
  BY <1>1, <1>2, Begun
<1>11. roster[Creator] = <<>> /\ <<"left", Creator>> \notin marks /\ ~InGroup(Creator)
  BY <1>1 DEF OInv, HomeInv
<1>12. AloneInv'
  <2>1. SUFFICES ASSUME Calm' PROVE AloneInv'
    BY DEF AloneInv
  <2>2. CarriesKey(u)
    BY <1>3, <1>4 DEF CarriesKey
  <2>3. Busy(tasks[Creator]) = {}
    BY <1>10, <2>1, <2>2
  <2>4. Busy(tasks'[Creator]) = {u}
    BY <1>4, <1>10, <2>3 DEF Busy
  <2>5. Alone(tasks[Creator])'
    BY <2>4 DEF Alone, Busy, CarriesKey
  <2>6. \A t \in tasks'[Creator] : Current(t, 1)
    <3>1. \A t \in tasks'[Creator] : t.do \notin {"rotate", "encrypt", "send"} \/ t = u
      BY <2>4 DEF Busy
    <3>2. Current(u, 1)
      BY <1>3, <1>4 DEF Current
    <3>3. QED
      BY <3>1, <3>2 DEF Current
  <2>7. \A k \in keys'[Creator] : k.rot + 1 = k.id
    BY <1>6, <1>7
  <2>8. \A i \in 1..1 : HasKey(Creator, i)'
    BY <1>6, <1>7 DEF HasKey
  <2>9. QED
    BY <1>1, <1>7, <1>8, <1>9, <2>5, <2>6, <2>7, <2>8 DEF AloneInv, Current
<1>13. HomeInv'
  BY <1>1, <1>7, <1>10, <1>11 DEF HomeInv
<1>14. RefusalNeedsCause'
  BY <1>10, CausesKept DEF OInv
<1>15. ASSUME NEW q \in Others, Fine(q)' PROVE OrderInv(q)'
  <2>1. MemberInv(q) /\ chan'[Creator][q] = chan[Creator][q] /\ chan'[q][Creator] = chan[q][Creator]
        /\ texts'[Creator] = texts[Creator]
    BY <1>1, <1>10 DEF OInv
  <2>3. ~Listed(q)
    BY <1>11, EmptyOf DEF Listed, IdsOf
  <2>4. Listed(q)' <=> q \in ToSet(u.to)
    BY <1>4, <1>5, <1>6, IdTypes DEF Listed
  <2>5. /\ \A v \in tasks'[Creator] : v \in tasks[Creator] \/ v = u
        /\ \A v \in tasks[Creator] : v \in tasks'[Creator]
    BY <1>10
  <2>6. u \in tasks'[Creator]
    BY <1>10
  <2>7. u.do = "send" /\ u.body.type = "key"
    BY <1>3, <1>4
  <2>8. QED
    BY <1>2, <1>15, <2>1, <2>3, <2>4, <2>5, <2>6, <2>7, KeyGoesOut
<1>16. \A t \in tasks'[Creator] : t.do = "apply" =>
         t \in tasks[Creator] \/ t.body \in ToSet(chan[t.from][Creator])
  BY <1>4, <1>10
<1>17. QED
  BY <1>2, <1>10, <1>12, <1>13, <1>14, <1>15, <1>16, HomeFrame

LEMMA AddOrder ==
  ASSUME Base, OInv, NEW r \in Devices \ {Creator}, AddGroupMember(Creator, r), Progress
  PROVE  OInv'
<1> DEFINE rec == Record(Creator)
           body == KeyBody(rec)
           u == [do |-> "send", n |-> ops + 1, to |-> <<r>>, body |-> body, then |-> [type |-> "added", id |-> <<Creator, r>>]]
           new == IF HasKey(Creator, rec.key) THEN {u} ELSE {}
<1>1. /\ InGroup(Creator) /\ Begin(Creator, new) /\ UNCHANGED <<group, keys, texts, made>>
      /\ roster' = [roster EXCEPT ![Creator] = WithMember(@, <<Creator, r>>)]
  BY DEF AddGroupMember, Send
<1>2. Creator \in Devices /\ Acts(Creator) /\ made \in Nat /\ made # 0
  BY <1>1, ConstantTypes, AddActs, MadeOne, AtHome
<1>3. body.type = "key" /\ body.key = rec.key /\ body.rot = rec.rot
  BY DEF KeyBody
<1>4. u.do = "send" /\ u.to = <<r>> /\ u.body = body
  OBVIOUS
<1>5. IdsOf(roster'[Creator]) = IdsOf(roster[Creator]) \cup {<<Creator, r>>}
  <2> DEFINE id == <<Creator, r>>
  <2>1. id \in ListedBy(Creator) /\ id # Self
    BY IdTypes, ConstantTypes DEF ListedBy
  <2>2. RosterOK(Creator, roster[Creator]) /\ roster'[Creator] = WithMember(roster[Creator], id)
    BY <1>1, <1>2, AtHome
  <2> HIDE DEF id
  <2>3. IdsOf(roster'[Creator]) = IdsOf(roster[Creator]) \cup {id}
    BY <1>2, <2>1, <2>2, WithMemberOf
  <2>4. QED
    BY <2>3 DEF id
<1>6. KeepKeys \in Nat
  BY GroupAssumption
<1> HIDE DEF Base, u, body, new
<1>8. InGroup(Creator)' = InGroup(Creator) /\ Record(Creator)' = rec
  BY <1>1 DEF InGroup, Record
<1> HIDE DEF rec
<1>10. /\ tasks'[Creator] = tasks[Creator] \cup new
       /\ UNCHANGED <<chan, stuck, faults, dropped>>
       /\ marks' \in {marks, marks \cup {<<"race">>}}
       /\ Calm' => Busy(tasks[Creator]) = {} \/ \A t \in Busy(tasks[Creator]) \cup new : ~CarriesKey(t)
  BY <1>1, <1>2, Begun
<1>11. Calm' => Calm
  BY CalmBefore
<1>12. Calm => rec.key = made /\ rec.rot + 1 = made /\ new = {u}
  <2>1. Calm => rec.key = made /\ rec.rot + 1 = made /\ \A i \in 1..made : i + KeepKeys >= made => HasKey(Creator, i)
    BY <1>1 DEF OInv, AloneInv, rec
  <2>2. made \in 1..made /\ made + KeepKeys >= made
    BY <1>2, <1>6
  <2>3. QED
    BY <2>1, <2>2 DEF new
<1>13. AloneInv'
  <2>1. ASSUME Calm' PROVE Alone(tasks'[Creator])
    <3>1. Alone(tasks[Creator]) /\ new = {u}
      BY <1>11, <1>12, <2>1 DEF OInv, AloneInv
    <3>2. Busy(tasks[Creator]) = {} \/ \A t \in Busy(tasks[Creator]) \cup new : ~CarriesKey(t)
      BY <1>10, <2>1
    <3> DEFINE ts == tasks[Creator]
    <3> HIDE DEF ts
    <3>3. Alone(ts \cup new)
      BY <3>1, <3>2, AloneBegun DEF ts
    <3>4. QED
      BY <1>10, <3>3 DEF ts
  <2>2. ASSUME Calm' PROVE \A t \in tasks'[Creator] : t \in tasks[Creator] \/ Current(t, made)
    <3>1. Current(u, made)
      BY <1>3, <1>4, <1>11, <1>12, <2>2 DEF Current
    <3>2. QED
      BY <1>10, <1>11, <1>12, <2>2, <3>1
  <2>3. QED
    BY <1>1, <1>2, <1>8, <2>1, <2>2, AloneKept DEF rec
<1>14. HomeInv'
  BY <1>1, <1>2, <1>8, <1>10 DEF OInv, HomeInv
<1>15. RefusalNeedsCause'
  BY <1>10, CausesKept DEF OInv
<1>16. ASSUME NEW q \in Others, Fine(q)' PROVE OrderInv(q)'
  <2>1. MemberInv(q) /\ chan'[Creator][q] = chan[Creator][q] /\ chan'[q][Creator] = chan[q][Creator]
        /\ texts'[Creator] = texts[Creator] /\ new = {u}
    BY <1>1, <1>10, <1>11, <1>12, <1>16 DEF OInv, Fine
  <2>2. Listed(q)' <=> Listed(q) \/ q = r
    BY <1>5, IdTypes DEF Listed
  <2>3. q \in ToSet(u.to) <=> q = r
    BY <1>4, SingleOf
  <2>4. /\ \A v \in tasks'[Creator] : v \in tasks[Creator] \/ v = u
        /\ \A v \in tasks[Creator] : v \in tasks'[Creator]
    BY <1>10, <2>1
  <2>5. u \in tasks'[Creator]
    BY <1>10, <2>1
  <2>6. u.do = "send" /\ u.body.type = "key"
    BY <1>3, <1>4
  <2>7. QED
    BY <1>1, <1>2, <1>8, <1>16, <2>1, <2>2, <2>3, <2>4, <2>5, <2>6, KeyGoesOut
<1>17. \A t \in tasks'[Creator] : t.do = "apply" =>
         t \in tasks[Creator] \/ t.body \in ToSet(chan[t.from][Creator])
  <2>1. \A t \in tasks'[Creator] : t \in tasks[Creator] \/ t = u
    BY <1>10 DEF new
  <2>2. QED
    BY <1>4, <2>1
<1>18. QED
  BY <1>2, <1>10, <1>13, <1>14, <1>15, <1>16, <1>17, HomeFrame

\* A key is made: what is kept of the older ones is enough for KeepKeys rotations.
LEMMA RotatedKeys ==
  ASSUME NEW m \in Nat, NEW ks, KeysOK(ks, m), \A k \in ks : k.rot + 1 = k.id,
         \A i \in 1..m : i + KeepKeys >= m => \E k \in ks : k.id = i,
         NEW ls, ls = WithoutOldKeys(ks \cup {[id |-> m + 1, rot |-> m]}, m)
  PROVE  /\ \A k \in ls : k.rot + 1 = k.id
         /\ \A i \in 1..(m + 1) : i + KeepKeys >= m + 1 => \E k \in ls : k.id = i
<1> DEFINE x == [id |-> m + 1, rot |-> m]
<1>1. x.id = m + 1 /\ x.rot = m
  OBVIOUS
<1>2. KeepKeys \in Nat /\ \A k \in ks : k.id \in 1..m /\ k.rot \in Nat
  BY GroupAssumption DEF KeysOK
<1>3. \A k : k \in ls <=> (k \in ks \/ k = x) /\ k.rot + KeepKeys >= m
  BY DEF WithoutOldKeys
<1> HIDE DEF x
<1>4. \A k \in ls : k.rot + 1 = k.id
  BY <1>1, <1>3
<1>5. ASSUME NEW i \in 1..(m + 1), i + KeepKeys >= m + 1 PROVE \E k \in ls : k.id = i
  <2>1. CASE i = m + 1
    <3>1. x.rot + KeepKeys >= m
      BY <1>1, <1>2
    <3>2. QED
      BY <1>1, <1>3, <2>1, <3>1
  <2>2. CASE i # m + 1
    <3>1. i \in 1..m /\ i + KeepKeys >= m
      BY <1>2, <1>5, <2>2
    <3>2. PICK k \in ks : k.id = i
      BY <3>1
    <3>3. k.rot + 1 = i /\ k.rot \in Nat
      BY <1>2, <3>2
    <3>4. k.rot + KeepKeys >= m
      BY <1>2, <1>5, <3>3
    <3>5. QED
      BY <1>3, <3>2, <3>4
  <2>3. QED
    BY <2>1, <2>2
<1>6. QED
  BY <1>4, <1>5

LEMMA RotatedOrder ==
  ASSUME Base, OInv, NEW t \in tasks[Creator], Rotated(Creator, t), Progress
  PROVE  OInv'
<1>1. Creator \in Devices /\ made \in Nat /\ KeysOK(keys[Creator], made) /\ KeepKeys \in Nat /\ DOMAIN keys = Devices
  BY ConstantTypes, AtHome, GroupAssumption
<1>2. /\ t.do = "rotate" /\ made' = made + 1
      /\ keys' = [keys EXCEPT ![Creator] = WithoutOldKeys(@ \cup {[id |-> made + 1, rot |-> t.rot]}, t.rot)]
      /\ marks' = marks \cup {<<"removed", t.id[2]>>}
      /\ UNCHANGED <<texts, chan, stuck, ops, faults, dropped>>
  BY DEF Rotated
<1>3. /\ Acts(Creator) /\ t.id \in Peers(Creator)
      /\ InGroup(Creator)' <=> InGroup(Creator)
      /\ InGroup(Creator)' => /\ Record(Creator)'.key = made + 1 /\ Record(Creator)'.rot = t.rot
                              /\ Record(Creator)'.name = Record(Creator).name
      /\ IdsOf(roster'[Creator]) = IdsOf(roster[Creator]) \ {t.id}
      /\ ~InGroup(Creator) => tasks'[Creator] = tasks[Creator] \ {t}
      /\ InGroup(Creator) => \E u :
           /\ tasks'[Creator] = (tasks[Creator] \ {t}) \cup {u} /\ u.do = "send" /\ u.then = Removal(t.id)
           /\ u.body.type = "key" /\ u.body.key = made + 1 /\ u.body.rot = t.rot
           /\ u.body.name = Record(Creator).name
           /\ \A q \in Hearers(Creator) : q \in ToSet(u.to) <=> <<Creator, q>> \in IdsOf(roster'[Creator])
  BY <1>1, RotatedActs
<1>4. keys'[Creator] = WithoutOldKeys(keys[Creator] \cup {[id |-> made + 1, rot |-> t.rot]}, t.rot)
  BY <1>1, <1>2
<1>5. Hearers(Creator) = Others
  BY DEF Hearers
<1> HIDE DEF Base
<1>7. (Calm' => Calm) /\ made # 0
  BY <1>2, CalmBefore DEF OInv, HomeInv
<1>9. AloneInv'
  <2>1. SUFFICES ASSUME Calm' PROVE AloneInv'
    BY DEF AloneInv
  <2>2. Calm /\ AloneInv
    BY <1>7, <2>1 DEF OInv
  <2>3. t.rot = made
    BY <1>2, <2>2 DEF AloneInv, Current
  <2>4. t \in Busy(tasks[Creator]) /\ CarriesKey(t)
    BY <1>2 DEF Busy, CarriesKey
  <2>5. Busy(tasks[Creator]) = {t}
    BY <2>2, <2>4 DEF AloneInv, Alone
  <2>6. \A v \in tasks[Creator] \ {t} : v.do \notin {"rotate", "encrypt", "send"}
    BY <2>5 DEF Busy
  <2>7. Alone(tasks[Creator])' /\ \A v \in tasks'[Creator] : Current(v, made + 1)
    <3>1. CASE ~InGroup(Creator)
      <4>1. \A v \in tasks'[Creator] : v.do \notin {"rotate", "encrypt", "send"}
        BY <1>3, <2>6, <3>1
      <4>2. QED
        BY <4>1 DEF Alone, Busy, Current
    <3>2. CASE InGroup(Creator)
      <4>1. PICK u : /\ tasks'[Creator] = (tasks[Creator] \ {t}) \cup {u} /\ u.do = "send"
                     /\ u.body.type = "key" /\ u.body.key = made + 1 /\ u.body.rot = t.rot
        BY <1>3, <3>2
      <4>2. \A v \in tasks'[Creator] : v.do \notin {"rotate", "encrypt", "send"} \/ v = u
        BY <2>6, <4>1
      <4>3. Busy(tasks'[Creator]) = {u}
        BY <4>1, <4>2 DEF Busy
      <4>4. Current(u, made + 1)
        BY <2>3, <4>1 DEF Current
      <4>5. \A v \in tasks'[Creator] : Current(v, made + 1)
        BY <4>2, <4>4 DEF Current
      <4>6. QED
        BY <4>3, <4>5 DEF Alone, Busy, CarriesKey
    <3>3. QED
      BY <3>1, <3>2
  <2>8. /\ \A k \in keys'[Creator] : k.rot + 1 = k.id
        /\ InGroup(Creator) => \A i \in 1..(made + 1) : i + KeepKeys >= made + 1 => \E k \in keys'[Creator] : k.id = i
    <3> DEFINE ks == keys[Creator]  m == made
    <3> HIDE DEF ks, m
    <3>1. KeysOK(ks, m) /\ m \in Nat /\ \A k \in ks : k.rot + 1 = k.id
      BY <1>1, <2>2 DEF AloneInv, ks, m
    <3>2. keys'[Creator] = WithoutOldKeys(ks \cup {[id |-> m + 1, rot |-> m]}, m)
      BY <1>4, <2>3 DEF ks, m
    <3>3. InGroup(Creator) => \A i \in 1..m : i + KeepKeys >= m => \E k \in ks : k.id = i
      BY <2>2 DEF AloneInv, HasKey, ks, m
    <3>4. \A k \in keys'[Creator] : k.rot + 1 = k.id
      <4>1. m + 1 \in Nat /\ \A k \in ks : k \in [id : 1..m, rot : Nat]
        BY <3>1 DEF KeysOK
      <4>2. \A k \in keys'[Creator] : k \in ks \/ k = [id |-> m + 1, rot |-> m]
        BY <3>2 DEF WithoutOldKeys
      <4>3. QED
        BY <3>1, <4>2
    <3>5. InGroup(Creator) => \A i \in 1..(m + 1) : i + KeepKeys >= m + 1 => \E k \in keys'[Creator] : k.id = i
      <4>1. SUFFICES ASSUME InGroup(Creator)
                     PROVE  \A i \in 1..(m + 1) : i + KeepKeys >= m + 1 => \E k \in keys'[Creator] : k.id = i
        OBVIOUS
      <4>2. \A i \in 1..m : i + KeepKeys >= m => \E k \in ks : k.id = i
        BY <3>3, <4>1
      <4> DEFINE ls == keys'[Creator]
      <4> HIDE DEF ls
      <4>3. ls = WithoutOldKeys(ks \cup {[id |-> m + 1, rot |-> m]}, m)
        BY <3>2 DEF ls
      <4>4. \A i \in 1..(m + 1) : i + KeepKeys >= m + 1 => \E k \in ls : k.id = i
        BY <3>1, <4>2, <4>3, RotatedKeys
      <4>5. QED
        BY <4>4 DEF ls
    <3>6. QED
      BY <3>4, <3>5 DEF m
  <2>9. QED
    BY <1>1, <1>2, <1>3, <2>3, <2>7, <2>8 DEF AloneInv, HasKey, Current
<1>10. HomeInv'
  <2>1. <<"left", Creator>> \in marks' <=> <<"left", Creator>> \in marks
    BY <1>2
  <2>2. made' # 0
    BY <1>1, <1>2
  <2>3. QED
    BY <1>3, <1>7, <2>1, <2>2 DEF OInv, HomeInv
<1>11. RefusalNeedsCause'
  BY <1>2, CausesKept DEF OInv
<1>12. ASSUME NEW q \in Others, Fine(q)' PROVE OrderInv(q)'
  <2>1. /\ MemberInv(q) /\ chan'[Creator][q] = chan[Creator][q] /\ chan'[q][Creator] = chan[q][Creator]
        /\ texts'[Creator] = texts[Creator] /\ Fine(q)
    BY <1>2, <1>12, CalmBefore DEF OInv
  <2>2. InGroup(Creator)
    BY <1>7, <2>1 DEF OInv, HomeInv, Fine, Leaves
  <2>3. PICK u : /\ tasks'[Creator] = (tasks[Creator] \ {t}) \cup {u} /\ u.do = "send" /\ u.body.type = "key"
                 /\ \A r \in Others : r \in ToSet(u.to) <=> <<Creator, r>> \in IdsOf(roster'[Creator])
    BY <1>3, <1>5, <2>2
  <2>4. Listed(q)' <=> q \in ToSet(u.to)
    BY <2>3 DEF Listed
  <2>5. Listed(q) => Listed(q)' \/ Removed(q)'
    <3>1. Listed(q) /\ ~Listed(q)' => t.id = <<Creator, q>>
      BY <1>3 DEF Listed
    <3>2. t.id = <<Creator, q>> => t.id[2] = q
      OBVIOUS
    <3>3. QED
      BY <1>2, <3>1, <3>2 DEF Removed
  <2>6. /\ \A v \in tasks'[Creator] : v \in tasks[Creator] \/ v = u
        /\ \A v \in tasks[Creator] : v.do # "rotate" => v \in tasks'[Creator]
    BY <1>2, <2>3
  <2>7. u \in tasks'[Creator]
    BY <2>3
  <2>9. QED
    BY <1>3, <1>12, <2>1, <2>3, <2>4, <2>5, <2>6, <2>7, KeyGoesOut
<1>13. \A v \in tasks'[Creator] : v.do = "apply" =>
         v \in tasks[Creator] \/ v.body \in ToSet(chan[v.from][Creator])
  BY <1>3
<1>14. QED
  BY <1>2, <1>3, <1>9, <1>10, <1>11, <1>12, <1>13, HomeFrame

-----------------------------------------------------------------------------
(* The handlers of the creator                                             *)

\* Whom the creator is going to send to when he has sealed something.
LEMMA SealedFor ==
  ASSUME Base, NEW t \in tasks[Creator], Encrypted(Creator, t)
  PROVE  /\ Acts(Creator) /\ t.do = "encrypt" /\ t.body.type # "key"
         /\ \E u : /\ tasks'[Creator] = (tasks[Creator] \ {t}) \cup {u} /\ u.do = "send" /\ u.body = t.body
                   /\ \A q \in Others : q \in ToSet(u.to) <=>
                        IF t.body.type = "read" THEN q = t.body.to ELSE Listed(q)
         /\ UNCHANGED <<group, roster, keys, chan, stuck, made, marks, dropped>>
         /\ \A q \in Others : \A x \in DOMAIN texts'[Creator] : texts'[Creator][x].from = <<Creator, q>> =>
              x \in DOMAIN texts[Creator] /\ texts[Creator][x].from = <<Creator, q>>
<1> DEFINE to == IF t.body.type = "read" THEN <<t.body.to>> ELSE Contacts(Creator, roster[Creator])
           u == [do |-> "send", n |-> t.n, to |-> to, body |-> t.body, then |-> t.then]
           log == texts[Creator]
<1>1. Creator \in Devices /\ DOMAIN tasks = Devices /\ DOMAIN texts = Devices /\ RosterOK(Creator, roster[Creator])
  BY ConstantTypes, AtHome
<1>2. Acts(Creator) /\ t.body.type # "key"
  BY <1>1, EncryptedActs
<1>3. /\ t.do = "encrypt" /\ Swap(Creator, t, {u})
      /\ texts' = [texts EXCEPT ![Creator] = IF t.then.type = "text" THEN AddText(@, t.body.t, Self, "sending") ELSE @]
      /\ UNCHANGED <<group, roster, keys, chan, stuck, made, marks, dropped>>
  BY DEF Encrypted, Send, hvars
<1>4. u.do = "send" /\ u.body = t.body /\ u.to = to
  OBVIOUS
<1>5. \A q \in Others : q \in ToSet(Contacts(Creator, roster[Creator])) <=> Listed(q)
  BY <1>1, ContactsOf DEF Hearers, Listed
<1>6. \A q \in Others : q \in ToSet(to) <=> IF t.body.type = "read" THEN q = t.body.to ELSE Listed(q)
  BY <1>5, SingleOf
<1> HIDE DEF Base, u, to
<1>7. tasks'[Creator] = (tasks[Creator] \ {t}) \cup {u}
  BY <1>1, <1>3 DEF Swap
<1>8. ASSUME NEW q \in Others, NEW x \in DOMAIN texts'[Creator], texts'[Creator][x].from = <<Creator, q>>
      PROVE  x \in DOMAIN log /\ log[x].from = <<Creator, q>>
  <2>1. texts'[Creator] = log \/ texts'[Creator] = AddText(log, t.body.t, Self, "sending")
    BY <1>1, <1>3
  <2>2. Self # <<Creator, q>>
    BY IdTypes
  <2> HIDE DEF log
  <2>3. ASSUME texts'[Creator] = AddText(log, t.body.t, Self, "sending") PROVE x \in DOMAIN log /\ log[x].from = <<Creator, q>>
    <3> DEFINE l == texts'[Creator]
    <3>1. x \in DOMAIN log \/ l[x] = [from |-> Self, status |-> "sending"]
      BY <1>8, <2>3 DEF AddText
    <3>2. x \in DOMAIN log => l[x] = log[x]
      BY <1>8, <2>3 DEF AddText
    <3>3. QED
      BY <1>8, <2>2, <3>1, <3>2
  <2>4. QED
    BY <1>8, <2>1, <2>3
<1>9. QED
  BY <1>2, <1>3, <1>4, <1>6, <1>7, <1>8

LEMMA HomeEncryptedOrder ==
  ASSUME Base, OInv, NEW t \in tasks[Creator], Encrypted(Creator, t), Progress
  PROVE  OInv'
<1> HIDE DEF Base
<1>1. /\ Acts(Creator) /\ t.do = "encrypt" /\ t.body.type # "key"
      /\ UNCHANGED <<group, roster, keys, chan, stuck, made, marks, dropped>>
      /\ \A q \in Others : \A x \in DOMAIN texts'[Creator] : texts'[Creator][x].from = <<Creator, q>> =>
           x \in DOMAIN texts[Creator] /\ texts[Creator][x].from = <<Creator, q>>
  BY SealedFor
<1>2. PICK u : /\ tasks'[Creator] = (tasks[Creator] \ {t}) \cup {u} /\ u.do = "send" /\ u.body = t.body
               /\ \A q \in Others : q \in ToSet(u.to) <=>
                    IF t.body.type = "read" THEN q = t.body.to ELSE Listed(q)
  BY SealedFor
<1>3. (Calm' => Calm) /\ AloneInv /\ t \in Busy(tasks[Creator]) /\ ~CarriesKey(t) /\ ~CarriesKey(u)
  BY <1>1, <1>2, CalmBefore DEF OInv, Busy, CarriesKey
<1>4. InGroup(Creator)' = InGroup(Creator) /\ Record(Creator)' = Record(Creator)
  BY <1>1 DEF InGroup, Record
<1>5. AloneInv'
  <2>1. Calm' => Alone(tasks'[Creator])
    <3> DEFINE ts == tasks[Creator]
    <3>1. Calm' => Alone(ts)
      BY <1>3 DEF AloneInv
    <3>2. t \in Busy(ts)
      BY <1>3
    <3> HIDE DEF ts
    <3>3. Calm' => Alone((ts \ {t}) \cup {u})
      BY <1>3, <3>1, <3>2, AloneSwapped
    <3>4. QED
      BY <1>2, <3>3 DEF ts
  <2>2. Current(u, made)
    BY <1>1, <1>2 DEF Current
  <2>3. Calm' => \A v \in tasks'[Creator] : v \in tasks[Creator] \/ Current(v, made)
    BY <1>2, <2>2
  <2>4. QED
    BY <1>1, <1>4, <2>1, <2>3, AloneKept
<1>6. HomeInv'
  BY <1>1, <1>2, <1>4 DEF OInv, HomeInv
<1>7. RefusalNeedsCause'
  BY <1>1, CausesKept DEF OInv
<1>8. ASSUME NEW q \in Others, Fine(q)' PROVE OrderInv(q)'
  <2>1. /\ MemberInv(q) /\ OrderInv(q) /\ Fine(q) /\ Calm /\ Removed(q)' = Removed(q) /\ Listed(q)' = Listed(q)
    BY <1>1, <1>8, CalmBefore DEF OInv, MemberInv, Removed, Listed
  <2>2. tasks'[q] = tasks[q]
    BY <1>1, ConstantTypes DEF Acts
  <2>3. \A v \in tasks'[Creator] : v = u \/ v \in tasks[Creator]
    BY <1>2
  <2>4. KeyLoops(q)' = KeyLoops(q)
    BY <1>1, <1>2 DEF KeyLoops
  <2>5. Stranger(q) => Stranger(q)' \/ Listed(q)
    <3>1. SUFFICES ASSUME Stranger(q), ~Listed(q) PROVE Stranger(q)'
      OBVIOUS
    <3>2. Line(q)' = <<>> /\ chan'[q][Creator] = <<>> /\ tasks'[q] = {} /\ group'[q] = <<>>
      BY <1>1, <2>2, <3>1 DEF Stranger, Line
    <3>3. q \notin ToSet(u.to)
      BY <1>1, <1>2, <3>1 DEF Stranger
    <3>4. \A v \in tasks'[Creator] : /\ v.do = "send" => q \notin ToSet(v.to)
                                     /\ v.do = "encrypt" /\ v.body.type = "read" => v.body.to # q
                                     /\ v.do = "apply" => v.from # q
      BY <1>2, <2>3, <3>1, <3>3 DEF Stranger
    <3>5. \A x \in DOMAIN texts'[Creator] : texts'[Creator][x].from # <<Creator, q>>
      BY <1>1, <3>1 DEF Stranger
    <3>6. QED
      BY <3>2, <3>4, <3>5 DEF Stranger
  <2>6. Listed(q)' \/ Removed(q)' \/ Stranger(q)'
    BY <2>1, <2>5 DEF OrderInv
  \* Nothing that carries a key is under way: unless he missed it he has the current one,
  \* or it is on the line.
  <2>7. Listed(q) => Missed(q) \/ made \in Held(q) \cup KeysComing(q)
    <3>1. KeyLoops(q) = {}
      <4>1. \A v \in Busy(tasks[Creator]) : ~CarriesKey(v)
        BY <1>3, <2>1 DEF AloneInv, Alone
      <4>2. QED
        BY <4>1 DEF KeyLoops, Busy, CarriesKey
    <3>2. HeldInv(q) /\ (Listed(q) => Latest(q))
      BY <2>1 DEF MemberInv, OrderInv
    <3>3. (\E v \in Stores(q) : v.body.key = made) \/ HasKey(q, made) => made \in Held(q)
      BY DEF Held, HasKey
    <3>4. QED
      BY <3>1, <3>2, <3>3 DEF HeldInv, Latest
  <2>8. q \in ToSet(u.to) =>
          \/ Removed(q) \/ KeyLost(q) \/ <<Creator, q>> \in stuck
          \/ u.body.with \in Held(q) \cup KeysComing(q)
    <3>1. u.body.with = made
      BY <1>1, <1>2, <1>3, <2>1 DEF AloneInv, Current
    <3>2. Stranger(q) => ~(t.body.type = "read" /\ q = t.body.to)
      BY <1>1 DEF Stranger
    <3>3. q \in ToSet(u.to) => Listed(q) \/ Removed(q)
      BY <1>2, <2>1, <3>2 DEF OrderInv
    <3>4. QED
      BY <2>7, <3>1, <3>3 DEF Missed
  <2>9. \/ Removed(q)' \/ KeyLost(q)
        \/ \A v \in tasks'[Creator] : v.do = "send" /\ v.body.type # "key" /\ q \in ToSet(v.to) =>
             <<Creator, q>> \in stuck \/ v.body.with \in Held(q) \cup KeysComing(q)
    <3>1. Removed(q) \/ BehindInv(q)
      BY <2>1 DEF OrderInv
    <3>2. QED
      BY <2>1, <2>3, <2>8, <3>1 DEF BehindInv
  <2>13. Listed(q)' => KeyLoops(q)' # {} \/ (Listed(q) /\ made' = made /\ KeyLoops(q) = {})
    BY <1>1, <2>1, <2>4
  <2>15. chan'[Creator][q] = chan[Creator][q]
    BY <1>1
  <2>16. QED
    BY <1>1, <1>8, <2>1, <2>6, <2>9, <2>13, <2>15, HomeOrder
<1>9. \A v \in tasks'[Creator] : v.do = "apply" => v \in tasks[Creator] \/ v.body \in ToSet(chan[v.from][Creator])
  BY <1>2
<1>10. QED
  BY <1>1, <1>5, <1>6, <1>7, <1>8, <1>9, HomeFrame

\* A carrier goes out to one member: what was in the loop is in the loop's rest,
\* or on his line.
LEMMA SentToOne ==
  ASSUME Base, OInv, NEW t \in tasks[Creator], SendsOne(Creator, t), NEW u,
         tasks'[Creator] = (tasks[Creator] \ {t}) \cup {u}, u.do = "send", u.body = t.body,
         ToSet(t.to) = {Head(t.to)} \cup ToSet(u.to), NEW q \in Others
  PROVE  /\ \/ /\ q # Head(t.to) /\ Line(q)' = Line(q)
               /\ q \in ToSet(u.to) <=> q \in ToSet(t.to)
            \/ /\ q = Head(t.to) /\ q \in ToSet(t.to)
               /\ \/ Line(q)' = Append(Line(q), t.body) /\ <<Creator, q>> \notin stuck
                  \/ Line(q)' = Line(q) /\ <<Creator, q>> \in stuck'
         /\ chan'[Creator][q] = chan[Creator][q] \/ chan'[Creator][q] = Append(chan[Creator][q], t.body)
         /\ chan'[q][Creator] = chan[q][Creator]
         /\ IsSeq(Line(q))
<1> DEFINE h == Head(t.to)
<1>1. Creator \in Devices /\ q \in Devices /\ q # Creator /\ IsSeq(chan[Creator][q])
  BY ConstantTypes DEF Base, ChanInv
<1>2. t.do = "send" /\ t.to # <<>> /\ Accepted(Creator, t)
  BY DEF SendsOne
<1>3. /\ \A r, s \in Devices : chan'[r][s] = chan[r][s] \/
            (r = Creator /\ s = h /\ chan'[r][s] = Append(chan[r][s], t.body))
      /\ \/ chan'[Creator][h] = Append(chan[Creator][h], t.body) /\ <<Creator, h>> \notin stuck
         \/ chan' = chan /\ <<Creator, h>> \in stuck'
  BY <1>1, <1>2, AcceptedAt
<1> HIDE DEF Base
<1> HIDE DEF h
<1>5. /\ chan'[q][Creator] = chan[q][Creator]
      /\ chan'[Creator][q] = chan[Creator][q] \/ chan'[Creator][q] = Append(chan[Creator][q], t.body)
      /\ q # h => chan'[Creator][q] = chan[Creator][q]
      /\ q = h => \/ chan'[Creator][q] = Append(chan[Creator][q], t.body) /\ <<Creator, q>> \notin stuck
                  \/ chan'[Creator][q] = chan[Creator][q] /\ <<Creator, q>> \in stuck'
  BY <1>1, <1>3
<1>6. ToSet(t.to) = {h} \cup ToSet(u.to)
  BY DEF h
<1>7. QED
  BY <1>1, <1>5, <1>6 DEF Line, h

LEMMA SentOrder ==
  ASSUME Base, OInv, NEW t \in tasks[Creator], SendsOne(Creator, t), NEW u,
         tasks'[Creator] = (tasks[Creator] \ {t}) \cup {u}, u.do = "send", u.body = t.body,
         ToSet(t.to) = {Head(t.to)} \cup ToSet(u.to), NEW q \in Others, Progress, Acts(Creator), Fine(q)'
  PROVE  OrderInv(q)'
<1> DEFINE x == t.body
<1>1. /\ \/ /\ q # Head(t.to) /\ Line(q)' = Line(q)
            /\ q \in ToSet(u.to) <=> q \in ToSet(t.to)
         \/ /\ q = Head(t.to) /\ q \in ToSet(t.to)
            /\ \/ Line(q)' = Append(Line(q), t.body) /\ <<Creator, q>> \notin stuck
               \/ Line(q)' = Line(q) /\ <<Creator, q>> \in stuck'
      /\ chan'[q][Creator] = chan[q][Creator] /\ IsSeq(Line(q))
  BY SentToOne
<1> HIDE DEF Base
<1>2. MemberInv(q) /\ OrderInv(q) /\ Fine(q) /\ Calm
  BY CalmBefore DEF OInv, MemberInv, Fine
<1>3. /\ t.do = "send" /\ UNCHANGED <<group, roster, keys, texts, made, marks, dropped>>
  BY DEF SendsOne, hvars
<1>4. tasks'[q] = tasks[q] /\ group'[q] = group[q] /\ keys'[q] = keys[q]
  BY ConstantTypes DEF Acts
<1>5. /\ Removed(q)' = Removed(q) /\ Listed(q)' = Listed(q)
      /\ InGroup(q)' = InGroup(q) /\ Record(q)' = Record(q) /\ Stores(q)' = Stores(q) /\ Held(q)' = Held(q)
      /\ GuestInv(q)' = GuestInv(q)
  <2>1. /\ Removed(q)' = Removed(q) /\ Listed(q)' = Listed(q)
        /\ InGroup(q)' = InGroup(q) /\ Record(q)' = Record(q) /\ Stores(q)' = Stores(q)
    BY <1>3, <1>4 DEF Removed, Listed, InGroup, Record, Stores
  <2>2. QED
    BY <1>4, <2>1 DEF Held, GuestInv
<1>6. x.type = "key" => x.key = made
  BY <1>2, <1>3 DEF OInv, AloneInv, Current
<1>7. /\ \A v \in tasks'[Creator] : v = u \/ v \in tasks[Creator]
      /\ \A v \in tasks[Creator] : v = t \/ v \in tasks'[Creator]
      /\ u \in tasks'[Creator]
  OBVIOUS
<1> HIDE DEF x
<1>8. u.body = x /\ t.body = x
  BY DEF x
<1>9. /\ ToSet(Line(q)') = ToSet(Line(q)) \/ (q \in ToSet(t.to) /\ ToSet(Line(q)') = ToSet(Line(q)) \cup {x})
      /\ q \in ToSet(t.to) => q \in ToSet(u.to) \/ x \in ToSet(Line(q)') \/ <<Creator, q>> \in stuck'
      /\ q \in ToSet(u.to) => q \in ToSet(t.to)
  <2>1. ToSet(Append(Line(q), x)) = ToSet(Line(q)) \cup {x}
    BY <1>1, AppendOf
  <2>2. QED
    BY <1>1, <2>1 DEF x
<1>10. /\ \A b \in ToSet(Line(q)') : b \in ToSet(Line(q)) \/ (b = x /\ q \in ToSet(t.to))
       /\ \A b \in ToSet(Line(q)) : b \in ToSet(Line(q)')
  BY <1>9
<1>11. /\ \A b \in LineKeys(q)' : b \in LineKeys(q) \/ (b = x /\ t \in KeyLoops(q))
       /\ LineKeys(q) \subseteq LineKeys(q)'
       /\ x.type = "key" /\ x \in ToSet(Line(q)') => x \in LineKeys(q)'
  BY <1>3, <1>8, <1>10 DEF LineKeys, KeyLoops
<1>12. KeysComing(q) \subseteq KeysComing(q)' /\ (x.type = "key" /\ x \in ToSet(Line(q)') => x.key \in KeysComing(q)')
  BY <1>11 DEF KeysComing
<1>13. /\ \A v \in KeyLoops(q)' : v \in KeyLoops(q) \/ (v = u /\ t \in KeyLoops(q))
       /\ \A v \in KeyLoops(q) : v \in KeyLoops(q)' \/ 
             (v = t /\ x.type = "key" /\
                (u \in KeyLoops(q)' \/ x \in ToSet(Line(q)') \/ <<Creator, q>> \in stuck'))
  BY <1>3, <1>7, <1>8, <1>9 DEF KeyLoops
<1>14. Listed(q)' \/ Removed(q)' \/ Stranger(q)'
  <2>1. SUFFICES ASSUME Stranger(q) PROVE Stranger(q)'
    BY <1>2, <1>5 DEF OrderInv
  <2>2. q \notin ToSet(t.to) /\ q \notin ToSet(u.to)
    BY <1>3, <1>9, <2>1 DEF Stranger
  <2>3. Line(q)' = <<>> /\ chan'[q][Creator] = <<>> /\ tasks'[q] = {} /\ group'[q] = <<>>
    BY <1>1, <1>4, <2>1, <2>2 DEF Stranger
  <2>4. \A v \in tasks'[Creator] : /\ v.do = "send" => q \notin ToSet(v.to)
                                   /\ v.do = "encrypt" /\ v.body.type = "read" => v.body.to # q
                                   /\ v.do = "apply" => v.from # q
    BY <1>7, <2>1, <2>2 DEF Stranger
  <2>5. QED
    BY <1>3, <2>1, <2>3, <2>4 DEF Stranger
<1>15. Latest(q) => Latest(q)'
  <2>1. KeyLoops(q) # {} => KeyLoops(q)' # {} \/ made \in KeysComing(q)' \/ Missed(q)'
    BY <1>6, <1>12, <1>13 DEF Missed
  <2>2. made' = made
    BY <1>3
  <2>3. QED
    BY <1>5, <1>12, <2>1, <2>2, MissedStays DEF Latest
<1>16. BehindInv(q) => BehindInv(q)'
  <2>1. SUFFICES ASSUME BehindInv(q), ~KeyLost(q) PROVE BehindInv(q)'
    BY MissedStays DEF BehindInv
  <2>2. q \in ToSet(t.to) /\ x.type # "key" => <<Creator, q>> \in stuck \/ x.with \in Held(q) \cup KeysComing(q)
    BY <1>3, <1>8, <2>1 DEF BehindInv
  <2>3. Covered(Line(q)', Held(q))
    <3> DEFINE s == Line(q)
    <3>1. IsSeq(s) /\ Covered(s, Held(q))
      BY <1>1, <2>1 DEF BehindInv
    <3>2. q \in ToSet(t.to) /\ x.type # "key" =>
            \/ <<Creator, q>> \in stuck \/ x.with \in Held(q)
            \/ \E b \in ToSet(s) : b.type = "key" /\ b.key = x.with
      BY <2>2 DEF KeysComing, LineKeys
    <3>3. Line(q)' = s \/ (q \in ToSet(t.to) /\ <<Creator, q>> \notin stuck /\ Line(q)' = Append(s, x))
      BY <1>1 DEF x
    <3> HIDE DEF s
    <3>4. q \in ToSet(t.to) /\ <<Creator, q>> \notin stuck => Covered(Append(s, x), Held(q))
      BY <3>1, <3>2, CoveredAppend
    <3>5. QED
      BY <3>1, <3>3, <3>4
  <2>4. Covered(Line(q), Held(q))'
    BY <1>5, <2>3 DEF Covered
  <2>5. \A v \in tasks'[Creator] : v.do = "send" /\ v.body.type # "key" /\ q \in ToSet(v.to) =>
          <<Creator, q>> \in stuck \/ v.body.with \in Held(q) \cup KeysComing(q)
    <3>1. \A v \in tasks[Creator] : v.do = "send" /\ v.body.type # "key" /\ q \in ToSet(v.to) =>
            <<Creator, q>> \in stuck \/ v.body.with \in Held(q) \cup KeysComing(q)
      BY <2>1 DEF BehindInv
    <3>2. u.body.type # "key" /\ q \in ToSet(u.to) =>
            <<Creator, q>> \in stuck \/ u.body.with \in Held(q) \cup KeysComing(q)
      BY <1>8, <1>9, <2>2
    <3>3. QED
      BY <1>7, <3>1, <3>2
  <2>6. QED
    BY <1>5, <1>12, <2>4, <2>5, MissedStays DEF BehindInv
<1>17. QED
  BY <1>2, <1>5, <1>14, <1>15, <1>16 DEF OrderInv

LEMMA HomeSendsOrder ==
  ASSUME Base, OInv, NEW t \in tasks[Creator], SendsOne(Creator, t), Progress
  PROVE  OInv'
<1> HIDE DEF Base
<1>1. Creator \in Devices /\ Acts(Creator)
  BY ConstantTypes, SendsActs
<1>2. PICK u : /\ tasks'[Creator] = (tasks[Creator] \ {t}) \cup {u} /\ u.do = "send" /\ u.body = t.body
               /\ ToSet(t.to) = {Head(t.to)} \cup ToSet(u.to)
  BY <1>1, SendsActs
<1>3. t.do = "send" /\ UNCHANGED <<group, roster, keys, texts, made, marks, dropped>>
  BY DEF SendsOne, hvars
<1>4. (Calm' => Calm) /\ AloneInv /\ t \in Busy(tasks[Creator]) /\ (CarriesKey(u) => CarriesKey(t))
  BY <1>2, <1>3, CalmBefore DEF OInv, Busy, CarriesKey
<1>5. InGroup(Creator)' = InGroup(Creator) /\ Record(Creator)' = Record(Creator)
  BY <1>3 DEF InGroup, Record
<1>6. AloneInv'
  <2>1. Calm' => Alone(tasks'[Creator])
    <3> DEFINE ts == tasks[Creator]
    <3>1. Calm' => Alone(ts)
      BY <1>4 DEF AloneInv
    <3>2. t \in Busy(ts)
      BY <1>4
    <3> HIDE DEF ts
    <3>3. Calm' => Alone((ts \ {t}) \cup {u})
      BY <1>4, <3>1, <3>2, AloneSwapped
    <3>4. QED
      BY <1>2, <3>3 DEF ts
  <2>2. Calm' => Current(u, made)
    <3>1. Calm' => Current(t, made)
      BY <1>4 DEF AloneInv
    <3>2. QED
      BY <1>2, <1>3, <3>1 DEF Current
  <2>3. Calm' => \A v \in tasks'[Creator] : v \in tasks[Creator] \/ Current(v, made)
    BY <1>2, <2>2
  <2>4. QED
    BY <1>1, <1>3, <1>5, <2>1, <2>3, AloneKept
<1>7. HomeInv'
  BY <1>2, <1>3, <1>5 DEF OInv, HomeInv
<1>8. RefusalNeedsCause'
  BY <1>3, CausesKept DEF OInv
<1>10. ASSUME NEW q \in Others PROVE MemberInv(q)'
  <2>1. /\ chan'[Creator][q] = chan[Creator][q] \/ chan'[Creator][q] = Append(chan[Creator][q], t.body)
        /\ chan'[q][Creator] = chan[q][Creator]
    BY <1>2, SentToOne
  <2>2. MemberInv(q) /\ group'[q] = group[q] /\ keys'[q] = keys[q] /\ tasks'[q] = tasks[q]
    BY <1>1, <1>3, ConstantTypes DEF OInv, Acts
  <2>3. HeldInv(q)'
    BY <2>2 DEF MemberInv, HeldInv, InGroup, Record, HasKey
  <2>4. KeyInv(q)'
    <3>1. Stores(q)' = Stores(q) /\ KeyInv(q)
      BY <2>2 DEF Stores, MemberInv
    <3>2. QED
      BY <1>3, <1>4, <2>1, <2>2, <3>1, KeySent
  <2>5. FarewellInv(q)'
    <3>1. \A v \in tasks'[Creator] : v.do = "apply" => v \in tasks[Creator] \/ v.body \in ToSet(chan[v.from][Creator])
      BY <1>2
    <3>2. QED
      BY <2>1, <2>2, <3>1, FarewellKept DEF MemberInv
  <2>6. Fine(q)' => OrderInv(q)'
    BY <1>1, <1>2, SentOrder
  <2>7. QED
    BY <2>3, <2>4, <2>5, <2>6 DEF MemberInv, OrderInv
<1>11. QED
  BY <1>6, <1>7, <1>8, <1>10 DEF OInv

LEMMA SenderKept ==
  ASSUME NEW log, \A v \in DOMAIN log : log[v] \in TextRec, NEW t, NEW status, NEW u \in DOMAIN WithStatus(log, t, status)
  PROVE  u \in DOMAIN log /\ WithStatus(log, t, status)[u].from = log[u].from
BY DEF WithStatus, TextRec

\* A loop of the creator's that is over was for nobody any more.
LEMMA EndsExact ==
  ASSUME Base, NEW t \in tasks[Creator], LoopEnds(Creator, t)
  PROVE  /\ t.do = "send" /\ Acts(Creator) /\ made # 0 /\ \A q : q \notin ToSet(t.to)
         /\ UNCHANGED <<chan, stuck, made, dropped>>
         /\ t.then.type = "leave" =>
              /\ tasks'[Creator] = tasks[Creator] \ {t}
              /\ group'[Creator] = <<>> /\ keys'[Creator] = {} /\ <<"left", Creator>> \in marks'
         /\ t.then.type # "leave" =>
              /\ UNCHANGED <<group, roster, keys, marks>>
              /\ \A x \in DOMAIN texts'[Creator] :
                   x \in DOMAIN texts[Creator] /\ texts'[Creator][x].from = texts[Creator][x].from
              /\ \E u, new : /\ tasks'[Creator] = (tasks[Creator] \ {t}) \cup new /\ new \subseteq {u}
                             /\ new # {} => /\ u.do = "encrypt" /\ InGroup(Creator) /\ u.body.with = Record(Creator).key
                                            /\ u.body.type \in {"added", "removed"}
<1> DEFINE log == texts[Creator]
<1>1. /\ Creator \in Devices /\ DOMAIN tasks = Devices /\ DOMAIN texts = Devices /\ DOMAIN group = Devices
      /\ DOMAIN keys = Devices /\ made \in Nat /\ TextsOK(Creator, log, ops) /\ Handler(Creator, t, made, ops)
  BY ConstantTypes, AtHome
<1>2. t.do = "send" /\ t.to = <<>> /\ UNCHANGED <<chan, stuck, made, dropped>>
  BY DEF LoopEnds
<1>3. Acts(Creator)
  BY <1>1, EndsActs
<1>4. \/ tasks'[Creator] = tasks[Creator] \ {t}
      \/ \E u : /\ tasks'[Creator] = (tasks[Creator] \ {t}) \cup {u} /\ u.do = "encrypt" /\ InGroup(Creator)
                /\ u.body.with = Record(Creator).key /\ u.body.type \in {"added", "removed"}
  BY <1>1, EndsActs
<1>5. made # 0
  <2>1. Carrier(Creator, t.body, made, ops)
    BY <1>1, <1>2 DEF Handler
  <2>2. \E k : k \in 1..made
    BY <2>1 DEF Carrier
  <2>3. QED
    BY <1>1, <2>2
<1>6. \A q : q \notin ToSet(t.to)
  BY <1>2, EmptyOf
<1>7. ASSUME t.then.type = "leave"
      PROVE  /\ tasks'[Creator] = tasks[Creator] \ {t}
             /\ group'[Creator] = <<>> /\ keys'[Creator] = {} /\ <<"left", Creator>> \in marks'
  <2>1. Swap(Creator, t, {}) /\ RemoveGroup(Creator) /\ marks' = marks \cup {<<"left", Creator>>}
    BY <1>7 DEF LoopEnds
  <2>2. tasks'[Creator] = tasks[Creator] \ {t}
    BY <1>1, <2>1 DEF Swap
  <2>3. QED
    BY <1>1, <2>1, <2>2 DEF RemoveGroup
<1>8. ASSUME t.then.type # "leave"
      PROVE  /\ UNCHANGED <<group, roster, keys, marks>>
             /\ \A x \in DOMAIN texts'[Creator] : x \in DOMAIN log /\ texts'[Creator][x].from = log[x].from
  <2>1. /\ UNCHANGED <<group, roster, keys, marks>>
        /\ texts' = [texts EXCEPT ![Creator] = IF t.then.type = "text" THEN Delivered(@, t.body.t) ELSE @]
    BY <1>8 DEF LoopEnds
  <2>2. texts'[Creator] = log \/ texts'[Creator] = WithStatus(log, t.body.t, "sent")
    BY <1>1, <2>1 DEF Delivered
  <2>3. \A v \in DOMAIN log : log[v] \in TextRec
    BY <1>1 DEF TextsOK
  <2> HIDE DEF log
  <2>4. \A x \in DOMAIN WithStatus(log, t.body.t, "sent") : x \in DOMAIN log /\ WithStatus(log, t.body.t, "sent")[x].from = log[x].from
    BY <2>3, SenderKept
  <2>5. QED
    BY <2>1, <2>2, <2>4
<1> HIDE DEF Base
<1>9. \E u, new : /\ tasks'[Creator] = (tasks[Creator] \ {t}) \cup new /\ new \subseteq {u}
                  /\ new # {} => /\ u.do = "encrypt" /\ InGroup(Creator) /\ u.body.with = Record(Creator).key
                                 /\ u.body.type \in {"added", "removed"}
  <2>1. CASE tasks'[Creator] = tasks[Creator] \ {t}
    <3>1. tasks'[Creator] = (tasks[Creator] \ {t}) \cup {} /\ {} \subseteq {t}
      BY <2>1
    <3>2. QED
      BY <3>1
  <2>2. ASSUME NEW u, tasks'[Creator] = (tasks[Creator] \ {t}) \cup {u}, u.do = "encrypt", InGroup(Creator),
               u.body.with = Record(Creator).key, u.body.type \in {"added", "removed"}
        PROVE  \E v, new : /\ tasks'[Creator] = (tasks[Creator] \ {t}) \cup new /\ new \subseteq {v}
                           /\ new # {} => /\ v.do = "encrypt" /\ InGroup(Creator) /\ v.body.with = Record(Creator).key
                                          /\ v.body.type \in {"added", "removed"}
    <3> WITNESS u, {u}
    <3>1. QED
      BY <2>2
  <2>3. QED
    BY <1>4, <2>1, <2>2
<1>10. QED
  BY <1>2, <1>3, <1>5, <1>6, <1>7, <1>8, <1>9

LEMMA HomeEndsOrder ==
  ASSUME Base, OInv, NEW t \in tasks[Creator], LoopEnds(Creator, t), Progress
  PROVE  OInv'
<1>1. /\ t.do = "send" /\ Acts(Creator) /\ made # 0 /\ \A q : q \notin ToSet(t.to)
      /\ UNCHANGED <<chan, stuck, made, dropped>>
  BY EndsExact
<1>2. t.then.type = "leave" =>
        /\ tasks'[Creator] = tasks[Creator] \ {t}
        /\ group'[Creator] = <<>> /\ keys'[Creator] = {} /\ <<"left", Creator>> \in marks'
  BY EndsExact
<1>3. t.then.type # "leave" =>
        /\ UNCHANGED <<group, roster, keys, marks>>
        /\ \A x \in DOMAIN texts'[Creator] :
             x \in DOMAIN texts[Creator] /\ texts'[Creator][x].from = texts[Creator][x].from
        /\ \E u, new : /\ tasks'[Creator] = (tasks[Creator] \ {t}) \cup new /\ new \subseteq {u}
                       /\ new # {} => /\ u.do = "encrypt" /\ InGroup(Creator) /\ u.body.with = Record(Creator).key
                                      /\ u.body.type \in {"added", "removed"}
  BY EndsExact
<1> HIDE DEF Base
<1>4. (Calm' => Calm) /\ AloneInv /\ t \in Busy(tasks[Creator]) /\ RefusalNeedsCause'
  BY <1>1, CalmBefore, CausesKept DEF OInv, Busy
<1>5. CASE t.then.type = "leave"
  <2>1. tasks'[Creator] \subseteq tasks[Creator] /\ ~InGroup(Creator)' /\ keys'[Creator] = {}
    BY <1>2, <1>5 DEF InGroup
  <2>2. AloneInv'
    <3>1. SUFFICES ASSUME Calm' PROVE AloneInv'
      BY DEF AloneInv
    <3>2. Busy(tasks'[Creator]) \subseteq Busy(tasks[Creator])
      BY <2>1 DEF Busy
    <3>3. Alone(tasks'[Creator])
      BY <1>4, <3>1, <3>2, AloneFewer DEF AloneInv
    <3>4. Alone(tasks[Creator])'
      BY <3>3 DEF Alone, Busy, CarriesKey
    <3>5. \A v \in tasks'[Creator] : Current(v, made)
      BY <1>4, <2>1, <3>1 DEF AloneInv
    <3>6. QED
      BY <1>1, <2>1, <3>4, <3>5 DEF AloneInv, Current
  <2>3. HomeInv'
    BY <1>1, <1>2, <1>5, <2>1 DEF HomeInv
  <2>4. \A q \in Others : ~Fine(q)'
    BY <1>2, <1>5 DEF Fine, Leaves
  <2>5. /\ \A v \in tasks'[Creator] : v.do = "apply" => v \in tasks[Creator] \/ v.body \in ToSet(chan[v.from][Creator])
        /\ \A q \in Others : chan'[Creator][q] = chan[Creator][q]
        /\ \A q \in Others : \A b \in ToSet(chan'[q][Creator]) : b \in ToSet(chan[q][Creator])
    BY <1>1, <2>1
  <2>6. QED
    BY <1>1, <1>4, <2>2, <2>3, <2>4, <2>5, HomeFrame
<1>6. CASE t.then.type # "leave"
  <2>1. /\ UNCHANGED <<group, roster, keys, marks>>
        /\ \A x \in DOMAIN texts'[Creator] :
             x \in DOMAIN texts[Creator] /\ texts'[Creator][x].from = texts[Creator][x].from
    BY <1>3, <1>6
  <2>2. PICK u, new : /\ tasks'[Creator] = (tasks[Creator] \ {t}) \cup new /\ new \subseteq {u}
                      /\ new # {} => /\ u.do = "encrypt" /\ InGroup(Creator) /\ u.body.with = Record(Creator).key
                                     /\ u.body.type \in {"added", "removed"}
    BY <1>3, <1>6
  <2>3. /\ \A v \in tasks'[Creator] : v \in tasks[Creator] \/
             (v.do = "encrypt" /\ InGroup(Creator) /\ v.body.with = Record(Creator).key /\ v.body.type \in {"added", "removed"})
        /\ \A v \in tasks[Creator] : v = t \/ v \in tasks'[Creator]
    BY <2>2
  <2>4. InGroup(Creator)' = InGroup(Creator) /\ Record(Creator)' = Record(Creator)
    BY <2>1 DEF InGroup, Record
  <2>5. AloneInv'
    <3>1. Calm' => Alone(tasks'[Creator])
      <4> DEFINE ts == tasks[Creator]
      <4>1. Calm' => Alone(ts)
        BY <1>4 DEF AloneInv
      <4>2. t \in Busy(ts)
        BY <1>4
      <4> HIDE DEF ts
      <4>3. CASE new = {}
        <5>1. Busy(ts \ {t}) \subseteq Busy(ts)
          BY DEF Busy
        <5>2. Calm' => Alone(ts \ {t})
          BY <4>1, <5>1, AloneFewer
        <5>3. tasks'[Creator] = ts \ {t}
          BY <2>2, <4>3 DEF ts
        <5>4. QED
          BY <5>2, <5>3
      <4>4. CASE new # {}
        <5>1. ~CarriesKey(u)
          BY <2>2, <4>4 DEF CarriesKey
        <5>2. Calm' => Alone((ts \ {t}) \cup new)
          BY <2>2, <4>1, <4>2, <5>1, AloneSwapped
        <5>3. QED
          BY <2>2, <5>2 DEF ts
      <4>5. QED
        BY <4>3, <4>4
    <3>2. Calm' => \A v \in tasks'[Creator] : v \in tasks[Creator] \/ Current(v, made)
      <4>1. Calm' /\ InGroup(Creator) => Record(Creator).key = made
        BY <1>4 DEF AloneInv
      <4>2. QED
        BY <2>3, <4>1 DEF Current
    <3>3. QED
      BY <1>1, <2>1, <2>4, <3>1, <3>2, AloneKept
  <2>6. HomeInv'
    BY <1>1, <2>1, <2>4 DEF OInv, HomeInv
  <2>7. ASSUME NEW q \in Others, Fine(q)' PROVE OrderInv(q)'
    <3>1. /\ MemberInv(q) /\ OrderInv(q) /\ Fine(q) /\ Removed(q)' = Removed(q) /\ Listed(q)' = Listed(q)
          /\ chan'[Creator][q] = chan[Creator][q] /\ chan'[q][Creator] = chan[q][Creator]
      BY <1>1, <2>1, <2>7, CalmBefore DEF OInv, MemberInv, Removed, Listed
    <3>2. tasks'[q] = tasks[q] /\ Line(q)' = Line(q)
      BY <1>1, <3>1, ConstantTypes DEF Acts, Line
    <3>3. KeyLoops(q)' = KeyLoops(q)
      BY <1>1, <2>3 DEF KeyLoops
    <3>4. Stranger(q) => Stranger(q)'
      <4>1. SUFFICES ASSUME Stranger(q) PROVE Stranger(q)'
        OBVIOUS
      <4>2. Line(q)' = <<>> /\ chan'[q][Creator] = <<>> /\ tasks'[q] = {} /\ group'[q] = <<>>
        BY <2>1, <3>1, <3>2, <4>1 DEF Stranger
      <4>3. \A v \in tasks'[Creator] : /\ v.do = "send" => q \notin ToSet(v.to)
                                       /\ v.do = "encrypt" /\ v.body.type = "read" => v.body.to # q
                                       /\ v.do = "apply" => v.from # q
        BY <2>3, <4>1 DEF Stranger
      <4>4. \A x \in DOMAIN texts'[Creator] : texts'[Creator][x].from # <<Creator, q>>
        BY <2>1, <4>1 DEF Stranger
      <4>5. QED
        BY <4>2, <4>3, <4>4 DEF Stranger
    <3>5. Listed(q)' \/ Removed(q)' \/ Stranger(q)'
      BY <3>1, <3>4 DEF OrderInv
    <3>6. \/ Removed(q)' \/ KeyLost(q)
          \/ \A v \in tasks'[Creator] : v.do = "send" /\ v.body.type # "key" /\ q \in ToSet(v.to) =>
               <<Creator, q>> \in stuck \/ v.body.with \in Held(q) \cup KeysComing(q)
      <4>1. Removed(q) \/ BehindInv(q)
        BY <3>1 DEF OrderInv
      <4>2. QED
        BY <2>3, <3>1, <4>1 DEF BehindInv
    <3>7. QED
      BY <1>1, <2>7, <3>1, <3>3, <3>5, <3>6, HomeOrder
  <2>8. /\ \A v \in tasks'[Creator] : v.do = "apply" => v \in tasks[Creator] \/ v.body \in ToSet(chan[v.from][Creator])
        /\ \A q \in Others : chan'[Creator][q] = chan[Creator][q]
        /\ \A q \in Others : \A b \in ToSet(chan'[q][Creator]) : b \in ToSet(chan[q][Creator])
    BY <1>1, <2>3
  <2>9. QED
    BY <1>1, <1>4, <2>5, <2>6, <2>7, <2>8, HomeFrame
<1>7. QED
  BY <1>5, <1>6

\* What the creator hears is a text, a receipt or a farewell: it changes nothing
\* about the group but that its author may go.
LEMMA HeardExact ==
  ASSUME Base, NEW t \in tasks[Creator], Applied(Creator, t)
  PROVE  /\ t.do = "apply" /\ t.from \in Others /\ Acts(Creator) /\ made # 0
         /\ tasks'[Creator] = tasks[Creator] \ {t} /\ group'[Creator] = group[Creator]
         /\ UNCHANGED <<keys, chan, stuck, made, marks>>
         /\ ~Farewell(t.body) => IdsOf(roster'[Creator]) = IdsOf(roster[Creator])
         /\ IdsOf(roster'[Creator]) = IdsOf(roster[Creator]) \/
            IdsOf(roster'[Creator]) = IdsOf(roster[Creator]) \ {<<Creator, t.from>>}
         /\ Listed(t.from) => dropped' = dropped
         /\ dropped' \subseteq dropped \cup {<<t.body.type, Creator, "stranger">>}
         /\ \A q \in Others \ {t.from} : \A x \in DOMAIN texts'[Creator] : texts'[Creator][x].from = <<Creator, q>> =>
              x \in DOMAIN texts[Creator] /\ texts[Creator][x].from = <<Creator, q>>
<1> DEFINE from == <<Creator, t.from>>
           b == t.body
           log == texts[Creator]
           ms == roster[Creator]
<1>1. /\ Creator \in Devices /\ DOMAIN texts = Devices /\ DOMAIN roster = Devices
      /\ made \in Nat /\ TextsOK(Creator, log, ops) /\ RosterOK(Creator, ms)
  BY ConstantTypes, AtHome
<1>2. /\ t.do = "apply" /\ tasks'[Creator] = tasks[Creator] \ {t} /\ Acts(Creator)
      /\ t.from \in Hearers(Creator) /\ Carrier(t.from, b, made, ops)
      /\ UNCHANGED <<keys, chan, stuck, made, marks>>
      /\ b.type # "name" => group'[Creator] = group[Creator]
      /\ Authorized(Creator, from, b) => dropped' = dropped
      /\ dropped' \subseteq dropped \cup {<<b.type, Creator, "stranger">>}
  BY <1>1, AppliedExact
<1>3. t.from \in Others /\ t.from # Creator /\ t.from \in Devices \ {Creator}
  BY <1>2, ConstantTypes DEF Hearers
<1>4. b.type \in {"text", "read", "removed"} /\ (b.type = "removed" => b.id = Self)
  BY <1>2, <1>3 DEF Carrier
<1>5. made # 0
  <2>1. \E k : k \in 1..made
    BY <1>2, <1>4 DEF Carrier
  <2>2. QED
    BY <1>1, <2>1
<1>6. Authorized(Creator, from, b) <=> Listed(t.from)
  BY <1>4, MemberOf DEF Authorized, Listed, AdminOnly
<1>7. \/ roster'[Creator] = ms
      \/ roster'[Creator] = RosterAfter(ms, from, b)
  BY <1>1 DEF Applied
<1>8. IdsOf(RosterAfter(ms, from, b)) = IF Farewell(b) THEN IdsOf(ms) \ {from} ELSE IdsOf(ms)
  <2> DEFINE p == t.from  body == b  rs == ms
  <2>1. p \in Devices \ {Creator} /\ Carrier(p, body, made, ops) /\ RosterOK(Creator, rs)
    BY <1>1, <1>2, <1>3
  <2> DEFINE q == Creator
  <2> HIDE DEF p, body, rs, q
  <2>2. q \in Devices /\ p \in Devices \ {q} /\ RosterOK(q, rs) /\ (q # Creator => p = Creator)
    BY <1>1, <2>1 DEF q
  <2> HIDE DEF Base
  <2>3. /\ RosterOK(q, RosterAfter(rs, <<q, p>>, body))
        /\ q = Creator => IdsOf(RosterAfter(rs, <<q, p>>, body)) =
                            IF Farewell(body) THEN IdsOf(rs) \ {<<q, p>>} ELSE IdsOf(rs)
        /\ q # Creator /\ ~Farewell(body) /\ <<q, Creator>> \in IdsOf(rs) =>
              <<q, Creator>> \in IdsOf(RosterAfter(rs, <<q, p>>, body))
    BY <2>1, <2>2, RosterAfterOf
  <2>4. QED
    BY <2>3 DEF p, body, rs, q
<1>9. texts'[Creator] = log \/ texts'[Creator] = TextsAfter(log, from, b)
  BY <1>1 DEF Applied
<1> HIDE DEF Base
<1>10. ASSUME NEW q \in Others \ {t.from}, NEW x \in DOMAIN texts'[Creator], texts'[Creator][x].from = <<Creator, q>>
       PROVE  x \in DOMAIN log /\ log[x].from = <<Creator, q>>
  <2> DEFINE l == texts'[Creator]
             f == <<Creator, q>>
  <2>1. from # f
    BY <1>10
  <2>2. \A v \in DOMAIN log : log[v] \in TextRec
    BY <1>1 DEF TextsOK
  <2>3. \/ l = log
        \/ l = AddText(log, b.t, from, "delivered")
        \/ l = WithStatus(log, b.t, "read")
    BY <1>4, <1>9 DEF TextsAfter
  <2>4. x \in DOMAIN l /\ l[x].from = f
    BY <1>10
  <2> HIDE DEF l, f, from, log
  <2>5. CASE l = log
    BY <2>4, <2>5 DEF f
  <2>6. CASE l = AddText(log, b.t, from, "delivered")
    <3>1. x \in DOMAIN log \/ l[x] = [from |-> from, status |-> "delivered"]
      BY <2>4, <2>6 DEF AddText
    <3>2. x \in DOMAIN log => l[x] = log[x]
      BY <2>4, <2>6 DEF AddText
    <3>3. QED
      BY <2>1, <2>4, <3>1, <3>2 DEF f
  <2>7. CASE l = WithStatus(log, b.t, "read")
    <3>1. \A v \in DOMAIN WithStatus(log, b.t, "read") : v \in DOMAIN log /\ WithStatus(log, b.t, "read")[v].from = log[v].from
      BY <2>2, SenderKept
    <3>2. QED
      BY <2>4, <2>7, <3>1 DEF f
  <2>8. QED
    BY <2>3, <2>5, <2>6, <2>7 DEF f
<1>11. QED
  BY <1>2, <1>3, <1>4, <1>5, <1>6, <1>7, <1>8, <1>10

LEMMA HomeAppliedOrder ==
  ASSUME Base, OInv, NEW t \in tasks[Creator], Applied(Creator, t), Progress
  PROVE  OInv'
<1>1. /\ t.do = "apply" /\ t.from \in Others /\ Acts(Creator) /\ made # 0
      /\ tasks'[Creator] = tasks[Creator] \ {t} /\ group'[Creator] = group[Creator]
      /\ UNCHANGED <<keys, chan, stuck, made, marks>>
      /\ ~Farewell(t.body) => IdsOf(roster'[Creator]) = IdsOf(roster[Creator])
      /\ IdsOf(roster'[Creator]) = IdsOf(roster[Creator]) \/
         IdsOf(roster'[Creator]) = IdsOf(roster[Creator]) \ {<<Creator, t.from>>}
      /\ Listed(t.from) => dropped' = dropped
      /\ dropped' \subseteq dropped \cup {<<t.body.type, Creator, "stranger">>}
      /\ \A q \in Others \ {t.from} : \A x \in DOMAIN texts'[Creator] : texts'[Creator][x].from = <<Creator, q>> =>
           x \in DOMAIN texts[Creator] /\ texts[Creator][x].from = <<Creator, q>>
  BY HeardExact
<1> HIDE DEF Base
<1>2. Creator \in Devices /\ t.from \in Devices
  BY <1>1, ConstantTypes
<1>3. InGroup(Creator)' = InGroup(Creator) /\ Record(Creator)' = Record(Creator)
  BY <1>1 DEF InGroup, Record
<1>4. AloneInv'
  <2>1. Busy(tasks'[Creator]) \subseteq Busy(tasks[Creator])
    BY <1>1 DEF Busy
  <2>2. Calm' => Alone(tasks'[Creator])
    BY <2>1, CalmBefore, AloneFewer DEF OInv, AloneInv
  <2>3. QED
    BY <1>1, <1>3, <2>2, AloneKept
<1>5. HomeInv'
  BY <1>1, <1>3 DEF OInv, HomeInv
\* Someone who does not leave says no farewell.
<1>6. ASSUME NEW q \in Others, Fine(q) PROVE Listed(q)' = Listed(q) /\ (Stranger(q) => q # t.from)
  <2>1. q = t.from => ~Farewell(t.body)
    BY <1>1, <1>6 DEF OInv, MemberInv, FarewellInv, Departs, Fine
  <2>2. <<Creator, q>> = <<Creator, t.from>> => q = t.from
    OBVIOUS
  <2>3. Listed(q)' = Listed(q)
    BY <1>1, <2>1, <2>2 DEF Listed
  <2>4. QED
    BY <1>1, <2>3 DEF Stranger
<1>7. RefusalNeedsCause'
  <2>1. CASE Listed(t.from)
    BY <1>1, <2>1, CausesKept DEF OInv
  <2>2. CASE ~Listed(t.from)
    <3>1. Fine(t.from) => <<"removed", t.from>> \in marks
      BY <1>1, <1>6, <2>2 DEF OInv, MemberInv, OrderInv, Removed
    <3>2. Fine(t.from) \/ Happened("fault") \/ Happened("race") \/ \E p \in Devices : Leaves(p)
      BY <1>2 DEF Fine, Calm
    <3>3. \/ Happened("fault")' \/ Happened("race")' \/ \E p \in Devices : Leaves(p)'
          \/ \E r \in Others : <<"removed", r>> \in marks'
      BY <1>1, <3>1, <3>2 DEF Progress, Happened
    <3>4. QED
      BY <1>1, <1>2, <3>3, OneRefused DEF OInv
  <2>3. QED
    BY <2>1, <2>2
<1>8. ASSUME NEW q \in Others, Fine(q)' PROVE OrderInv(q)'
  <2>1. /\ MemberInv(q) /\ OrderInv(q) /\ Fine(q) /\ Removed(q)' = Removed(q) /\ Listed(q)' = Listed(q)
        /\ chan'[Creator][q] = chan[Creator][q] /\ chan'[q][Creator] = chan[q][Creator]
        /\ (Stranger(q) => q # t.from)
    BY <1>1, <1>6, <1>8, CalmBefore DEF OInv, MemberInv, Removed
  <2>2. tasks'[q] = tasks[q] /\ group'[q] = group[q] /\ Line(q)' = Line(q)
    BY <1>1, <2>1, ConstantTypes DEF Acts, Line
  <2>3. /\ \A v \in tasks'[Creator] : v \in tasks[Creator]
        /\ \A v \in tasks[Creator] : v.do # "apply" => v \in tasks'[Creator]
    BY <1>1
  <2>4. KeyLoops(q)' = KeyLoops(q)
    BY <2>3 DEF KeyLoops
  <2>5. Stranger(q) => Stranger(q)'
    <3>1. SUFFICES ASSUME Stranger(q) PROVE Stranger(q)'
      OBVIOUS
    <3>2. Line(q)' = <<>> /\ chan'[q][Creator] = <<>> /\ tasks'[q] = {} /\ group'[q] = <<>>
      BY <2>1, <2>2, <3>1 DEF Stranger
    <3>3. \A v \in tasks'[Creator] : /\ v.do = "send" => q \notin ToSet(v.to)
                                     /\ v.do = "encrypt" /\ v.body.type = "read" => v.body.to # q
                                     /\ v.do = "apply" => v.from # q
      BY <2>3, <3>1 DEF Stranger
    <3>4. \A x \in DOMAIN texts'[Creator] : texts'[Creator][x].from # <<Creator, q>>
      BY <1>1, <2>1, <3>1 DEF Stranger
    <3>5. QED
      BY <3>2, <3>3, <3>4 DEF Stranger
  <2>6. Listed(q)' \/ Removed(q)' \/ Stranger(q)'
    BY <2>1, <2>5 DEF OrderInv
  <2>7. \/ Removed(q)' \/ KeyLost(q)
        \/ \A v \in tasks'[Creator] : v.do = "send" /\ v.body.type # "key" /\ q \in ToSet(v.to) =>
             <<Creator, q>> \in stuck \/ v.body.with \in Held(q) \cup KeysComing(q)
    <3>1. Removed(q) \/ BehindInv(q)
      BY <2>1 DEF OrderInv
    <3>2. QED
      BY <2>1, <2>3, <3>1 DEF BehindInv
  <2>8. QED
    BY <1>1, <1>8, <2>1, <2>4, <2>6, <2>7, HomeOrder
<1>9. /\ \A v \in tasks'[Creator] : v.do = "apply" => v \in tasks[Creator] \/ v.body \in ToSet(chan[v.from][Creator])
      /\ \A q \in Others : chan'[Creator][q] = chan[Creator][q]
      /\ \A q \in Others : \A b \in ToSet(chan'[q][Creator]) : b \in ToSet(chan[q][Creator])
  BY <1>1
<1>10. QED
  BY <1>1, <1>4, <1>5, <1>7, <1>8, <1>9, HomeFrame

LEMMA HomeGetsOrder ==
  ASSUME Base, OInv, NEW p \in Devices, GetsCarrier(p, Creator), Progress
  PROVE  OInv'
<1> DEFINE x == Head(chan[p][Creator])
           u == [do |-> "apply", from |-> p, body |-> x]
           known == InGroup(Creator) /\ HasKey(Creator, x.with)
           why == IF Storing(Creator, x.with) THEN "storing" ELSE "nokey"
<1>1. Creator \in Devices /\ Others \subseteq Devices /\ made \in Nat /\ KeepKeys \in Nat /\ DOMAIN tasks = Devices
  BY ConstantTypes, AtHome, GroupAssumption
<1>2. Arrives(p, Creator) /\ x.type # "key" /\ marks' = marks
  BY DEF GetsCarrier
<1>3. /\ p # Creator /\ p \in Others /\ x \in ToSet(chan[p][Creator]) /\ Carrier(p, x, made, ops)
      /\ \A r, s \in Devices : ToSet(chan'[r][s]) \subseteq ToSet(chan[r][s])
      /\ UNCHANGED <<group, roster, keys, texts, stuck, ops, made, faults, out>>
  BY <1>1, <1>2, ArrivesOf, ConstantTypes
<1>4. /\ chan[p][Creator] # <<>>
      /\ \A r, s \in Devices : r # p \/ s # Creator => chan'[r][s] = chan[r][s]
  BY <1>1, <1>2, ArrivesAt
<1>5. Acts(Creator)
  BY <1>1, GetsCarrierActs
<1>6. /\ known => tasks'[Creator] = tasks[Creator] \cup {u} /\ dropped' = dropped
      /\ ~known => tasks'[Creator] = tasks[Creator] /\ dropped' = dropped \cup {<<x.type, Creator, why>>}
  BY <1>1 DEF GetsCarrier, Refused
<1>7. u.do = "apply" /\ u.from = p /\ u.body = x
  OBVIOUS
<1>8. x.with \in 1..made
  BY <1>2, <1>3 DEF Carrier
<1> HIDE DEF Base, u, x, why
<1>9. /\ \A v \in tasks'[Creator] : v \in tasks[Creator] \/ v = u
      /\ \A v \in tasks[Creator] : v \in tasks'[Creator]
  BY <1>6
<1>10. InGroup(Creator)' = InGroup(Creator) /\ Record(Creator)' = Record(Creator)
  BY <1>3 DEF InGroup, Record
<1>11. AloneInv'
  <2>1. Busy(tasks'[Creator]) \subseteq Busy(tasks[Creator])
    BY <1>7, <1>9 DEF Busy
  <2>2. Calm' => Alone(tasks'[Creator])
    BY <2>1, CalmBefore, AloneFewer DEF OInv, AloneInv
  <2>3. Current(u, made)
    BY <1>7 DEF Current
  <2>4. Calm' => \A v \in tasks'[Creator] : v \in tasks[Creator] \/ Current(v, made)
    BY <1>9, <2>3
  <2>5. QED
    BY <1>3, <1>5, <1>10, <2>2, <2>4, AloneKept
<1>12. HomeInv'
  BY <1>2, <1>3, <1>7, <1>9, <1>10 DEF OInv, HomeInv
\* With nothing overlapping he lacks only the keys he cleaned up.
<1>13. ASSUME Calm, ~Leaves(Creator), ~known PROVE made > KeepKeys + 1
  <2>1. InGroup(Creator)
    BY <1>1, <1>8, <1>13 DEF OInv, HomeInv, Leaves
  <2>2. \A i \in 1..made : i + KeepKeys >= made => HasKey(Creator, i)
    BY <1>13, <2>1 DEF OInv, AloneInv
  <2>3. ~(x.with + KeepKeys >= made)
    BY <1>8, <1>13, <2>1, <2>2
  <2>4. QED
    BY <1>1, <1>8, <2>3
<1>14. RefusalNeedsCause'
  <2>1. CASE known
    BY <1>6, <2>1, CausesKept DEF OInv
  <2>2. CASE ~known
    <3>1. made > KeepKeys + 1 \/ Happened("race") \/ Leaves(Creator)
      BY <1>13, <2>2 DEF Calm
    <3>2. why = "storing" \/ why = "nokey"
      BY DEF why
    <3>3. made' > KeepKeys + 1 \/ Happened("race")' \/ Happened("fault")' \/ \E r \in Devices : Leaves(r)'
      BY <1>1, <1>3, <3>1 DEF Progress, Happened
    <3>4. dropped' \subseteq dropped \cup {<<x.type, Creator, why>>}
      BY <1>6, <2>2
    <3>5. QED
      BY <1>1, <3>2, <3>3, <3>4, OneRefused DEF OInv
  <2>3. QED
    BY <2>1, <2>2
<1>15. ASSUME NEW q \in Others, Fine(q)' PROVE OrderInv(q)'
  <2>1. q \in Devices /\ q # Creator
    BY ConstantTypes
  <2>2. /\ MemberInv(q) /\ OrderInv(q) /\ Fine(q) /\ Removed(q)' = Removed(q) /\ Listed(q)' = Listed(q)
        /\ chan'[Creator][q] = chan[Creator][q]
        /\ q # p => chan'[q][Creator] = chan[q][Creator]
    BY <1>1, <1>2, <1>3, <1>4, <1>15, <2>1, CalmBefore DEF OInv, MemberInv, Removed, Listed
  <2>3. tasks'[q] = tasks[q] /\ group'[q] = group[q] /\ Line(q)' = Line(q)
    BY <1>3, <1>5, <2>1, <2>2 DEF Acts, Line
  <2>4. \A v : v.do # "apply" => (v \in tasks'[Creator] <=> v \in tasks[Creator])
    BY <1>7, <1>9
  <2>5. KeyLoops(q)' = KeyLoops(q)
    BY <2>4 DEF KeyLoops
  <2>6. Stranger(q) => Stranger(q)'
    <3>1. SUFFICES ASSUME Stranger(q) PROVE Stranger(q)'
      OBVIOUS
    <3>2. q # p
      BY <1>4, <3>1 DEF Stranger
    <3>3. Line(q)' = <<>> /\ chan'[q][Creator] = <<>> /\ tasks'[q] = {} /\ group'[q] = <<>>
      BY <2>2, <2>3, <3>1, <3>2 DEF Stranger
    <3>4. \A v \in tasks'[Creator] : /\ v.do = "send" => q \notin ToSet(v.to)
                                     /\ v.do = "encrypt" /\ v.body.type = "read" => v.body.to # q
                                     /\ v.do = "apply" => v.from # q
      BY <1>7, <1>9, <3>1, <3>2 DEF Stranger
    <3>5. QED
      BY <1>3, <3>1, <3>3, <3>4 DEF Stranger
  <2>7. Listed(q)' \/ Removed(q)' \/ Stranger(q)'
    BY <2>2, <2>6 DEF OrderInv
  <2>8. \/ Removed(q)' \/ KeyLost(q)
        \/ \A v \in tasks'[Creator] : v.do = "send" /\ v.body.type # "key" /\ q \in ToSet(v.to) =>
             <<Creator, q>> \in stuck \/ v.body.with \in Held(q) \cup KeysComing(q)
    <3>1. Removed(q) \/ BehindInv(q)
      BY <2>2 DEF OrderInv
    <3>2. QED
      BY <1>7, <1>9, <2>2, <3>1 DEF BehindInv
  <2>9. QED
    BY <1>3, <1>5, <1>15, <2>2, <2>5, <2>7, <2>8, HomeOrder
<1>16. /\ \A v \in tasks'[Creator] : v.do = "apply" => v \in tasks[Creator] \/ v.body \in ToSet(chan[v.from][Creator])
       /\ \A q \in Others : chan'[Creator][q] = chan[Creator][q]
       /\ \A q \in Others : \A b \in ToSet(chan'[q][Creator]) : b \in ToSet(chan[q][Creator])
  BY <1>1, <1>3, <1>4, <1>7, <1>9
<1>17. QED
  BY <1>5, <1>11, <1>12, <1>14, <1>15, <1>16, HomeFrame

\* What the device of the creator does keeps all of it.
LEMMA HomeKeeps ==
  ASSUME Base, OInv, UserStep(Creator) \/ HandlerStep(Creator)
  PROVE  OInv'
<1> HIDE DEF Base
<1>1. Creator \in Devices
  BY ConstantTypes
<1>2. Progress
  BY <1>1, UserActs, HandlerActs
<1>3. CASE UserStep(Creator)
  <2>1. ASSUME NEW invited \in Invitations, CreateGroup(Creator, invited) PROVE OInv'
    BY <1>2, <2>1, CreateOrder
  <2>2. ASSUME NEW q \in Devices \ {Creator}, AddGroupMember(Creator, q) PROVE OInv'
    BY <1>2, <2>2, AddOrder
  <2>3. ASSUME NEW m \in ToSet(roster[Creator]), m.id # Self, RemoveGroupMember(Creator, m.id) PROVE OInv'
    BY <2>3, HomeRemoveOrder
  <2>4. ASSUME NEW m \in ToSet(roster[Creator]), NEW role \in {"admin", "member"}, ChangeRole(Creator, m.id, role)
        PROVE OInv'
    BY <2>4, HomeRoleOrder
  <2>5. ASSUME NEW t \in DOMAIN texts[Creator], SendGroupReadReceipt(Creator, t) PROVE OInv'
    BY <2>5, HomeReceiptOrder
  <2>6. QED
    BY <1>3, <2>1, <2>2, <2>3, <2>4, <2>5, HomeMessageOrder, HomeLeaveOrder, HomeNameOrder DEF UserStep
<1>4. CASE HandlerStep(Creator)
  <2>1. ASSUME NEW t \in tasks[Creator], Stored(Creator, t) PROVE OInv'
    BY <1>1, <2>1, StoredActs
  <2>2. ASSUME NEW q \in Devices, GetsKey(q, Creator) PROVE OInv'
    BY <1>1, <2>2, GetsKeyActs
  <2>3. QED
    BY <1>2, <1>4, <2>1, <2>2, RotatedOrder, HomeEncryptedOrder, HomeSendsOrder, HomeEndsOrder,
       HomeAppliedOrder, HomeGetsOrder DEF HandlerStep
<1>5. QED
  BY <1>3, <1>4

-----------------------------------------------------------------------------
(* Every step                                                              *)

LEMMA InitOInv == Init => OInv
<1> SUFFICES ASSUME Init PROVE OInv
  OBVIOUS
<1>1. /\ group = [p \in Devices |-> <<>>] /\ roster = [p \in Devices |-> <<>>]
      /\ keys = [p \in Devices |-> {}] /\ texts = [p \in Devices |-> None] /\ tasks = [p \in Devices |-> {}]
      /\ chan = [p \in Devices |-> [q \in Devices |-> <<>>]]
      /\ made = 0 /\ marks = {} /\ dropped = {}
  BY DEF Init
<1>2. Creator \in Devices /\ Others \subseteq Devices
  BY ConstantTypes
<1>3. /\ group[Creator] = <<>> /\ roster[Creator] = <<>> /\ keys[Creator] = {} /\ tasks[Creator] = {}
      /\ DOMAIN texts[Creator] = {}
  BY <1>1, <1>2 DEF None
<1>4. AloneInv
  BY <1>3 DEF AloneInv, Alone, Busy, InGroup
<1>5. HomeInv
  BY <1>1, <1>3 DEF HomeInv, InGroup
<1>6. RefusalNeedsCause
  BY <1>1 DEF RefusalNeedsCause
<1>7. ASSUME NEW q \in Others PROVE MemberInv(q)
  <2>1. /\ Line(q) = <<>> /\ chan[q][Creator] = <<>> /\ tasks[q] = {} /\ group[q] = <<>> /\ keys[q] = {}
    BY <1>1, <1>2 DEF Line
  <2>2. ~InGroup(q) /\ Stores(q) = {} /\ LineKeys(q) = {} /\ DOMAIN Line(q) = {}
    BY <2>1, EmptyOf DEF InGroup, Stores, LineKeys
  <2>3. HeldInv(q) /\ KeyInv(q)
    BY <2>1, <2>2 DEF HeldInv, KeyInv, Ascending
  <2>4. FarewellInv(q)
    BY <1>3, <2>1, EmptyOf DEF FarewellInv
  <2>5. Stranger(q)
    BY <1>3, <2>1 DEF Stranger
  <2>6. GuestInv(q)
    BY <2>1, <2>2 DEF GuestInv
  <2>7. ~Listed(q)
    BY <1>3, EmptyOf DEF Listed, IdsOf
  <2>8. BehindInv(q)
    BY <1>3, <2>2 DEF BehindInv, Covered
  <2>9. OrderInv(q)
    BY <2>2, <2>5, <2>6, <2>7, <2>8 DEF OrderInv
  <2>10. QED
    BY <2>3, <2>4, <2>9 DEF MemberInv
<1>8. QED
  BY <1>4, <1>5, <1>6, <1>7 DEF OInv

\* Nothing changed.
LEMMA OrderStays == ASSUME OInv, UNCHANGED gvars PROVE OInv'
<1>1. UNCHANGED <<group, roster, keys, texts, tasks, chan, stuck, made, marks, dropped>>
  BY DEF gvars, hvars
<1>2. AloneInv'
  BY <1>1 DEF OInv, AloneInv, Calm, Happened, Alone, Busy, CarriesKey, Current, InGroup, Record, HasKey
<1>3. HomeInv'
  BY <1>1 DEF OInv, HomeInv, InGroup
<1>4. \A p : Leaves(p)' = Leaves(p)
  BY <1>1 DEF Leaves, Loops
<1>5. RefusalNeedsCause'
  BY <1>1, <1>4 DEF OInv, RefusalNeedsCause, Happened
<1>6. ASSUME NEW q \in Others PROVE MemberInv(q)'
  <2>1. MemberInv(q)
    BY DEF OInv
  <2>2. (Calm' <=> Calm) /\ (Happened("fault")' <=> Happened("fault")) /\ (Fine(q)' <=> Fine(q)) /\ (Departs(q)' <=> Departs(q))
    BY <1>1, <1>4 DEF Calm, Happened, Fine, Departs
  <2>3. chan'[Creator][q] = chan[Creator][q] /\ tasks'[q] = tasks[q] /\ group'[q] = group[q] /\ keys'[q] = keys[q]
    BY <1>1
  <2>4. /\ Line(q)' = Line(q) /\ Stores(q)' = Stores(q) /\ LineKeys(q)' = LineKeys(q)
        /\ Held(q)' = Held(q) /\ KeysComing(q)' = KeysComing(q)
        /\ InGroup(q)' = InGroup(q) /\ Record(q)' = Record(q)
        /\ HeldInv(q)' = HeldInv(q) /\ GuestInv(q)' = GuestInv(q)
    BY <2>3, LineSame
  <2>5. HeldInv(q)' /\ KeyInv(q)'
    BY <2>1, <2>2, <2>3, <2>4, KeySame DEF MemberInv
  <2>6. FarewellInv(q)'
    BY <1>1, <2>1, <2>2 DEF MemberInv, FarewellInv
  <2>7. /\ Listed(q)' = Listed(q) /\ KeyLoops(q)' = KeyLoops(q) /\ Removed(q)' = Removed(q)
        /\ KeyLost(q)' = KeyLost(q) /\ Missed(q)' = Missed(q)
    BY <1>1 DEF Listed, KeyLoops, Removed, KeyLost, Missed
  <2>8. Stranger(q)' = Stranger(q) /\ Latest(q)' = Latest(q)
    BY <1>1, <2>4, <2>7 DEF Stranger, Latest
  <2>9. BehindInv(q)' = BehindInv(q)
    BY <1>1, <2>4, <2>7 DEF BehindInv, Covered
  <2>10. OrderInv(q)' = OrderInv(q)
    BY <2>2, <2>4, <2>7, <2>8, <2>9 DEF OrderInv
  <2>11. QED
    BY <2>1, <2>5, <2>6, <2>10 DEF MemberInv
<1>7. QED
  BY <1>2, <1>3, <1>5, <1>6 DEF OInv

LEMMA NextOInv == IInv /\ OInv /\ [Next]_gvars => OInv'
<1> SUFFICES ASSUME IInv, OInv, [Next]_gvars PROVE OInv'
  OBVIOUS
<1>1. Base /\ LeaveInv
  BY DEF IInv
<1>2. CASE UNCHANGED gvars
  BY <1>2, OrderStays
<1>3. ASSUME NEW p \in Devices, UserStep(p) \/ HandlerStep(p) PROVE OInv'
  <2>1. p = Creator \/ p \in Others
    BY ConstantTypes
  <2>2. QED
    BY <1>1, <1>3, <2>1, HomeKeeps, GuestOrder
<1>4. ASSUME NEW p \in Devices, Fault(p) PROVE OInv'
  BY <1>1, <1>4, FaultOrder
<1>5. QED
  BY <1>2, <1>3, <1>4 DEF Next

-----------------------------------------------------------------------------
(* What follows from it                                                    *)

\* The second inductive invariant holds in every state as well.
THEOREM Order == Spec => [](IInv /\ OInv)
<1>1. Init => IInv /\ OInv
  BY InitIInv, InitOInv
<1>2. IInv /\ OInv /\ [Next]_gvars => (IInv /\ OInv)'
  BY NextIInv, NextOInv
<1>3. QED
  BY <1>1, <1>2, PTL DEF Spec

\* Whatever overlaps and fails, and for any number of keys kept: a device refuses
\* a carrier because it is still storing the key for it, because a key came that it
\* could not open, because a rotation took the key away or the member is out of the
\* group, or because a fault, overlapping operations or a farewell came before it
\* (handleGroupMessage, cleanupOldKeys); so all of GroupInv holds.
THEOREM GroupSafe == Spec => []GroupInv
<1>1. OInv => RefusalNeedsCause
  BY DEF OInv
<1>2. QED
  BY <1>1, Order, TypeCorrect, NothingHangsUnlessFault, PTL DEF GroupInv

\* A record of a member's is only changed by storing a key.
LEMMA GuestRecord ==
  ASSUME Base, NEW q \in Others, KeyInv(q), Calm, InGroup(q),
         UserStep(q) \/ HandlerStep(q) \/ Fault(q)
  PROVE  group'[q] = <<>> \/ Record(q)'.rot >= Record(q).rot
<1>1. q \in Devices /\ q # Creator
  BY ConstantTypes
<1>2. /\ Record(q).key \in 1..made /\ Record(q).rot \in Nat /\ Record(q).rot + 1 = Record(q).key
  BY <1>1, RecordOf DEF KeyInv
<1> HIDE DEF Base
<1>3. CASE group'[q] = group[q]
  BY <1>2, <1>3 DEF Record
<1>4. CASE UserStep(q)
  <2>1. ~IsAdmin(q)
    BY <1>1, AdminIsCreator
  <2>2. group' = group
    BY <1>1, <1>4, <2>1 DEF UserStep, AddGroupMember, RemoveGroupMember, SendGroupMessage, LeaveGroup,
         ChangeRole, UpdateGroupName, SendGroupReadReceipt
  <2>3. QED
    BY <1>3, <2>2
<1>5. CASE Fault(q)
  BY <1>1, <1>3, <1>5, FaultActs
<1>6. ASSUME NEW t \in tasks[q], Stored(q, t) PROVE Record(q)'.rot >= Record(q).rot
  <2>1. /\ t.do = "store" /\ Carrier(Creator, t.body, made, ops) /\ t.body.type = "key"
        /\ t.fresh => Record(q)' = Record(q)
        /\ ~t.fresh => Record(q)'.rot = t.body.rot
    BY <1>6, StoredExact
  <2>2. t \in Stores(q)
    BY <2>1 DEF Stores
  <2>3. Record(q).key <= t.body.key /\ t.body.rot + 1 = t.body.key
    BY <2>2 DEF KeyInv
  <2>4. t.body.rot \in Nat
    BY <2>1 DEF Carrier
  <2>5. QED
    BY <1>2, <2>1, <2>3, <2>4
<1>7. ASSUME NEW t \in tasks[q], Applied(q, t) PROVE Record(q)'.rot >= Record(q).rot
  <2>1. Record(q)'.rot = Record(q).rot
    BY <1>1, <1>7, AppliedExact
  <2>2. QED
    BY <1>2, <2>1
<1>8. ASSUME NEW t \in tasks[q], Rotated(q, t) \/ Encrypted(q, t) \/ SendsOne(q, t) \/ LoopEnds(q, t)
      PROVE  group'[q] = group[q] \/ group'[q] = <<>>
  <2>1. DOMAIN group = Devices
    BY <1>1, AtHome
  <2>2. CASE Rotated(q, t)
    BY <1>1, <2>2, RotatedActs
  <2>3. CASE Encrypted(q, t) \/ SendsOne(q, t)
    BY <2>3 DEF Encrypted, SendsOne
  <2>4. CASE LoopEnds(q, t)
    BY <1>1, <2>1, <2>4 DEF LoopEnds, RemoveGroup
  <2>5. QED
    BY <1>8, <2>2, <2>3, <2>4
<1>9. ASSUME NEW p \in Devices, GetsKey(p, q) \/ GetsCarrier(p, q) PROVE group'[q] = group[q]
  BY <1>9 DEF GetsKey, GetsCarrier, Arrives
<1>10. CASE HandlerStep(q)
  <2>1. CASE \E t \in tasks[q] : Stored(q, t) \/ Applied(q, t)
    BY <1>6, <1>7, <2>1
  <2>2. CASE \E t \in tasks[q] : Rotated(q, t) \/ Encrypted(q, t) \/ SendsOne(q, t) \/ LoopEnds(q, t)
    BY <1>3, <1>8, <2>2
  <2>3. CASE \E p \in Devices : GetsKey(p, q) \/ GetsCarrier(p, q)
    BY <1>3, <1>9, <2>3
  <2>4. QED
    BY <1>10, <2>1, <2>2, <2>3 DEF HandlerStep
<1>11. QED
  BY <1>4, <1>5, <1>10

LEMMA KeysApart ==
  ASSUME NEW m, NEW ks, KeysOK(ks, m), \A k \in ks : k.rot + 1 = k.id
  PROVE  \A k, l \in ks : k.rot = l.rot => k = l
BY DEF KeysOK

\* Unless two operations overlapped of which one makes or sends a key, no two
\* keys of a device carry the same rotation number, and no record goes back to an
\* earlier one (rotateKey, storeReceivedKey).
THEOREM RotationsInOrder == Spec => RotationsAreOrdered
<1> DEFINE Ordered == \A p \in Devices : Happened("race")' \/
             /\ \A k, l \in keys'[p] : k.rot = l.rot => k = l
             /\ InGroup(p) /\ InGroup(p)' => Record(p)'.rot >= Record(p).rot
<1>1. IInv /\ OInv /\ (IInv /\ OInv)' /\ [Next]_gvars => [Ordered]_gvars
  <2>1. SUFFICES ASSUME IInv, OInv, (IInv /\ OInv)', Next, NEW p \in Devices, Calm'
                 PROVE  /\ \A k, l \in keys'[p] : k.rot = l.rot => k = l
                        /\ InGroup(p) /\ InGroup(p)' => Record(p)'.rot >= Record(p).rot
    BY DEF Calm
  <2>2. Base /\ p \in {Creator} \cup Others /\ made \in Nat /\ made' \in Nat /\ KeysOK(keys'[p], made')
    BY <2>1, AtHome DEF IInv, Base, StoreInv, Devices
  <2>3. PICK r \in Devices : UserStep(r) \/ HandlerStep(r) \/ Fault(r)
    BY <2>1 DEF Next
  <2>4. Acts(r) /\ Progress
    BY <2>2, <2>3, UserActs, HandlerActs, FaultActs
  <2>5. Calm /\ made <= made'
    BY <2>1, <2>4, CalmBefore DEF Progress
  <2> HIDE DEF Base
  <2>6. \A k \in keys'[p] : k.rot + 1 = k.id
    <3>1. CASE p = Creator
      BY <2>1, <3>1 DEF OInv, AloneInv
    <3>2. CASE p \in Others
      BY <2>1, <3>2 DEF OInv, MemberInv, KeyInv
    <3>3. QED
      BY <2>2, <3>1, <3>2
  <2>7. \A k, l \in keys'[p] : k.rot = l.rot => k = l
    <3> DEFINE ks == keys'[p]  m == made'
    <3>1. KeysOK(ks, m) /\ \A k \in ks : k.rot + 1 = k.id
      BY <2>2, <2>6
    <3> HIDE DEF ks, m
    <3>2. \A k, l \in ks : k.rot = l.rot => k = l
      BY <3>1, KeysApart
    <3>3. QED
      BY <3>2 DEF ks
  <2>8. ASSUME InGroup(p), InGroup(p)' PROVE Record(p)'.rot >= Record(p).rot
    <3>1. CASE p = Creator
      <4>1. Record(p).rot + 1 = made /\ Record(p)'.rot + 1 = made'
        BY <2>1, <2>5, <2>8, <3>1 DEF OInv, AloneInv
      <4>2. Record(p).rot \in Nat
        BY <2>2, <2>8, RecordOf
      <4>3. Record(p)'.rot \in Nat
        <5>1. GroupOK(group'[p], made') /\ group'[p] # <<>>
          BY <2>1, <2>8 DEF IInv, Base, StoreInv, InGroup
        <5>2. Head(group'[p]) \in ToSet(group'[p])
          BY <5>1, TailOf DEF GroupOK
        <5>3. QED
          BY <5>1, <5>2 DEF GroupOK, Record
      <4>4. QED
        BY <2>2, <2>5, <4>1, <4>2, <4>3
    <3>2. CASE p \in Others /\ r = p
      <4>1. KeyInv(p)
        BY <2>1, <3>2 DEF OInv, MemberInv
      <4>2. QED
        BY <2>2, <2>3, <2>5, <2>8, <3>2, <4>1, GuestRecord DEF InGroup
    <3>3. CASE p # r
      <4>1. group'[p] = group[p]
        BY <2>4, <3>3 DEF Acts
      <4>2. Record(p).rot \in Nat
        BY <2>2, <2>8, RecordOf
      <4>3. QED
        BY <4>1, <4>2 DEF Record
    <3>4. QED
      BY <2>2, <3>1, <3>2, <3>3
  <2>9. QED
    BY <2>7, <2>8
<1>2. QED
  BY <1>1, Order, PTL DEF Spec, RotationsAreOrdered
=============================================================================
