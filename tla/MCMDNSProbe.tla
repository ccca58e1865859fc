---------------------------- MODULE MCMDNSProbe ----------------------------
(***************************************************************************)
(* Two hosts that want the same name, with at most one fault.              *)
(***************************************************************************)
EXTENDS MDNSProbe

TwoHosts == {1, 2}
=============================================================================
