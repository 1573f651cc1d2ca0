------------------------------- MODULE MCScan -------------------------------
(***************************************************************************)
(* Scan with pages that are clean, bad for the classifier, bad for the     *)
(* heuristics or so bad that the score runs out, and a classifier whose    *)
(* verdict depends on all it has seen.                                     *)
(***************************************************************************)
EXTENDS Scan, FiniteSets

Page(lookalikes, insecure, obfuscated, url) ==
  [lookalikes |-> lookalikes, insecure |-> insecure, obfuscated |-> obfuscated, url |-> url]

MCTokens == {"good", "bad", "pad"}

MCPages == {
  Page(0, FALSE, 0, <<"good", "bad">>),
  Page(0, FALSE, 1, <<"good", "good", "bad">>),
  Page(1, TRUE, 0, <<"bad", "pad">>),
  Page(5, TRUE, 3, <<"pad">>)
}

(* The last token decides, and the longer the memory the surer.            *)
MCVerdict(seen) ==
  LET level == IF Len(seen) > 2 THEN "far" ELSE IF Len(seen) = 2 THEN "over" ELSE "below"
  IN [phishing |-> IF seen # <<>> /\ seen[Len(seen)] = "bad" THEN level ELSE "below",
      malware |-> IF seen # <<>> /\ seen[Len(seen)] = "pad" THEN level ELSE "below"]
=============================================================================
