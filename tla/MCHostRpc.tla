------------------------------ MODULE MCHostRpc ------------------------------
(***************************************************************************)
(* HostRpc on a small instance.                                            *)
(***************************************************************************)
EXTENDS HostRpc
=============================================================================
