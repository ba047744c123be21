--------------------------- MODULE MCRelayServer ---------------------------
(***************************************************************************)
(* An instance of RelayServer for TLC: two start requests, one client that *)
(* is announced up to twice, and two requests to authenticate.             *)
(***************************************************************************)
EXTENDS RelayServer

CONSTANTS r1, r2, s1, s2, k1, k2, a1, a2, client
=============================================================================
