-------------------------------- MODULE Text --------------------------------
(***************************************************************************)
(* Looking for pieces in a text, a sequence of them: what Page and Speech  *)
(* have in common.                                                         *)
(***************************************************************************)
EXTENDS Naturals, Sequences, SequencesExt

Least(S) == CHOOSE i \in S : \A j \in S : i <= j
Greatest(S) == CHOOSE i \in S : \A j \in S : j <= i

(* Where one of S is first found from i on, past the end if it is not.     *)
First(s, S, i) == Least({j \in i .. Len(s) : s[j] \in S} \cup {Len(s) + 1})
=============================================================================
