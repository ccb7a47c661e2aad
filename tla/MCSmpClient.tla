----------------------------- MODULE MCSmpClient -----------------------------
(***************************************************************************)
(* An instance of SmpClient: two servers, one message each way.            *)
(***************************************************************************)
EXTENDS SmpClient

CONSTANTS s1, s2

MCServers == <<s1, s2>>
=============================================================================
