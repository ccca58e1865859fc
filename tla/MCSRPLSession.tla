--------------------------- MODULE MCSRPLSession ---------------------------
(* Instances of SRPLSession for TLC. *)
EXTENDS SRPLSession

TwoServers == {"s1", "s2"}
TwoIds == 1..2
ThreeIds == 1..3
=============================================================================
