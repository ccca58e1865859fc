---------------------------- MODULE MCMDNSCache ----------------------------
(***************************************************************************)
(* Two records of one set and a client, with a TTL of 20 seconds.          *)
(***************************************************************************)
EXTENDS MDNSCache

AB == {"a", "b"}
OneClient == {"c1"}
TwoClients == {"c1", "c2"}
=============================================================================
