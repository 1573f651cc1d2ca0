------------------------------ MODULE MCDaemon ------------------------------
(***************************************************************************)
(* Daemon on a small instance.                                             *)
(***************************************************************************)
EXTENDS Daemon
=============================================================================
