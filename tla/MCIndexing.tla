----------------------------- MODULE MCIndexing -----------------------------
(***************************************************************************)
(* Indexing on a small instance.                                           *)
(***************************************************************************)
EXTENDS Indexing
=============================================================================
