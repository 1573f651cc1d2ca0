------------------------------ MODULE MCServer ------------------------------
(***************************************************************************)
(* Server on small instances.  Requests and connections are                *)
(* interchangeable, so the safety run uses symmetry; the liveness runs do  *)
(* not.                                                                    *)
(***************************************************************************)
EXTENDS Server, TLC

Symmetry == Permutations(Calls) \cup Permutations(Conns)
=============================================================================
