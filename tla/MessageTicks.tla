----------------------------- MODULE MessageTicks -----------------------------
(***************************************************************************)
(* What the ticks of a conversation promise: how the status its author     *)
(* sees of a message may move, given what the recipient's side shows.      *)
(***************************************************************************)

CONSTANTS Message, File     \* File: the messages that carry a file

VARIABLES
    mine,   \* mine[m]: what the author's side shows of m
    theirs  \* theirs[m]: what the recipient's side shows of m

vars == <<mine, theirs>>

Init ==
    /\ mine = [m \in Message |-> "absent"]
    /\ theirs = [m \in Message |-> "absent"]

AuthorSees(m, from, to) ==
    /\ mine[m] \in from
    /\ mine' = [mine EXCEPT ![m] = to]
    /\ UNCHANGED theirs

Recipient(m, from, to) ==
    /\ theirs[m] = from
    /\ theirs' = [theirs EXCEPT ![m] = to]
    /\ UNCHANGED mine

\* The sender's own account of the message ends before any receipt's: it never
\* replaces "delivered" or "read".
Compose(m) == m \notin File /\ AuthorSees(m, {"absent"}, "sending")
Confirm(m) == AuthorSees(m, IF m \in File THEN {"absent"} ELSE {"sending"}, "sent")
Fail(m)    == AuthorSees(m, {"sending"}, "failed")

Show(m) == Recipient(m, "absent", "delivered")
Read(m) == Recipient(m, "delivered", "read")

\* A receipt arrives.  It says no more than what the recipient's side shows,
\* and may correct "failed"; it may also say less than the one before.
Learn(m) == \E news \in {"delivered", "read"} :
    /\ theirs[m] \in {news, "read"}
    /\ AuthorSees(m, {"sending", "sent", "failed", "delivered", "read"}, news)

Next == \E m \in Message :
    Compose(m) \/ Confirm(m) \/ Fail(m) \/ Show(m) \/ Read(m) \/ Learn(m)

Spec == Init /\ [][Next]_vars
=============================================================================
