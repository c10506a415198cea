-------------------------- MODULE MCHypervisorRpc --------------------------
(***************************************************************************)
(* The hypervisor connection for TLC: two tasks share one client.          *)
(***************************************************************************)
EXTENDS HypervisorRpc
=============================================================================
