---------------------------- MODULE MCNetworkSync ----------------------------
(* NetworkSync for TLC. *)
EXTENDS NetworkSync
==============================================================================
