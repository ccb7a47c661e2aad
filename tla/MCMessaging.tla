----------------------------- MODULE MCMessaging -----------------------------
(* Messaging with a message of the inviter's, a text or the key of a group  *)
(* the inviter has created, and a file of the invitee's.                    *)
EXTENDS Messaging

CONSTANTS m1, m2

WhoComposes == [m \in Message |-> IF m = m2 THEN invitee ELSE inviter]
=============================================================================
