--------------------------- MODULE MCGroupControl ---------------------------
(***************************************************************************)
(* An instance of GroupControl: Ann creates the group with Bob, or with    *)
(* Bob and Cas; the other lists differ from these by a renaming.           *)
(***************************************************************************)
EXTENDS GroupControl

CONSTANTS ann, bob, cas

MCOthers == {bob, cas}
MCInvitations == {<<bob>>, <<bob, cas>>}
=============================================================================
