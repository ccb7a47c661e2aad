------------------------------- MODULE MCRelay -------------------------------
(* Relay with the two queues of one invitation, for TLC.  A run picks the   *)
(* queues and the messages it needs.                                        *)
EXTENDS Relay

CONSTANTS inviter, invitee, A, B

MCCreator   == [q \in Queue |-> inviter]
MCRecipient == [q \in Queue |-> IF q = A THEN inviter ELSE invitee]
MCSender    == [q \in Queue |-> IF q = A THEN invitee ELSE inviter]
\* With both queues, odd messages go to B and even ones to A.
MCTarget    == [m \in Message |->
                  IF Queue = {A, B} THEN IF m % 2 = 1 THEN B ELSE A
                  ELSE CHOOSE q \in Queue : TRUE]
=============================================================================
