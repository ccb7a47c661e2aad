---------------------------- MODULE MessageQueue ----------------------------
(***************************************************************************)
(* What a message queue promises its two ends, whatever its connections    *)
(* do: a message is taken once, delivered at most once, and never          *)
(* overtaken by a later one.  It may be lost.                              *)
(***************************************************************************)
EXTENDS Naturals, Sequences

CONSTANTS Queue, Message

VARIABLES
    used,   \* messages the queues have taken
    store,  \* store[q]: taken, neither delivered nor lost
    got     \* got[q]: delivered, in order

vars == <<used, store, got>>

Init ==
    /\ used = {}
    /\ store = [q \in Queue |-> <<>>]
    /\ got = [q \in Queue |-> <<>>]

\* t is what remains of s if some of its messages are lost: the others keep their order.
Remains(t, s) == \E at \in [DOMAIN t -> DOMAIN s] :
    /\ \A i, j \in DOMAIN t : i < j => at[i] < at[j]
    /\ \A i \in DOMAIN t : t[i] = s[at[i]]

\* The message is taken, or taken and lost on the spot.
Accept(q, m) ==
    /\ m \notin used
    /\ used' = used \cup {m}
    /\ store' \in {store, [store EXCEPT ![q] = Append(@, m)]}
    /\ UNCHANGED got

Deliver(q) ==
    /\ store[q] # <<>>
    /\ got' = [got EXCEPT ![q] = Append(@, Head(store[q]))]
    /\ store' = [store EXCEPT ![q] = Tail(@)]
    /\ UNCHANGED used

\* Any messages of any queues are lost.
Lose ==
    /\ store' \in [Queue -> Seq(Message)]
    /\ \A q \in Queue : Remains(store'[q], store[q])
    /\ UNCHANGED <<used, got>>

Next == Lose \/ \E q \in Queue : Deliver(q) \/ \E m \in Message : Accept(q, m)

Spec == Init /\ [][Next]_vars
=============================================================================
