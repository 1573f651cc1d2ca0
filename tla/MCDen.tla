-------------------------------- MODULE MCDen --------------------------------
(***************************************************************************)
(* Den on a small instance.  Pages are interchangeable.                    *)
(***************************************************************************)
EXTENDS Den, TLC

Symmetry == Permutations(Urls)
=============================================================================
