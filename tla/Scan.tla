-------------------------------- MODULE Scan --------------------------------
(***************************************************************************)
(* The security scanner: daemon/src/security.rs.                           *)
(*                                                                         *)
(* A scan_page request and the scan_security tool both run run_full_scan:  *)
(* heuristics over the page, then the classifier over its URL, alone with  *)
(* the classifier behind a tokio mutex that serves its queue in order.     *)
(* The classifier remembers the tokens it was fed since its cache was last *)
(* cleared.  What it makes of a sequence of tokens is a parameter, what    *)
(* the heuristics find in a page is part of the page.                      *)
(***************************************************************************)
EXTENDS Naturals, Sequences

CONSTANTS
  Scans,
  Nobody,       \* nobody holds the classifier
  Pages,
  Tokens, Pad,
  MaxLength,    \* tokens the classifier looks at
  Verdict(_)    \* what the classifier says after a sequence of tokens

(* A probability below 0.5, from 0.5, or from 0.85.  One that is no number *)
(* counts as "over": neither comparison holds of it.                       *)
Levels == {"below", "over", "far"}
Verdicts == [phishing : Levels, malware : Levels]

ASSUME NobodyAssumption == Nobody \notin Scans
ASSUME TokensAssumption == Pad \in Tokens /\ MaxLength \in Nat \ {0}
ASSUME PagesAssumption ==
  Pages \subseteq [lookalikes : Nat, insecure : BOOLEAN, obfuscated : Nat, url : Seq(Tokens)]
(* What one scan feeds the classifier.                                     *)
Windows == UNION {[1 .. n -> Tokens] : n \in 1 .. MaxLength}
ASSUME VerdictAssumption == \A seen \in Windows : Verdict(seen) \in Verdicts

VARIABLES
  boot,       \* "loading", then "up"
  loaded,     \* the slot holds a classifier
  queue,      \* scans that wait for it
  holder,     \* the scan that has it
  cache,      \* tokens in the classifier's KV cache
  at,         \* at[s]: where scan s stands
  page,       \* page[s]: what it was given
  threats,    \* threats[s]: how many it has found, by severity
  failed,     \* failed[s], a ghost: the classifier returned an error
  score       \* score[s]: its answer

lockVars == <<queue, holder>>
scanVars == <<at, page, threats, failed, score>>
vars == <<boot, loaded, lockVars, cache, scanVars>>

Places == {"idle", "waiting", "holding", "cleared", "classified", "answered"}
Found == [critical : Nat, high : Nat, medium : Nat]
None == [critical |-> 0, high |-> 0, medium |-> 0]

TypeOK ==
  /\ boot \in {"loading", "up"}
  /\ loaded \in BOOLEAN
  /\ queue \in Seq(Scans)
  /\ holder \in Scans \cup {Nobody}
  /\ cache \in Seq(Tokens)
  /\ at \in [Scans -> Places]
  /\ page \in [Scans -> Pages]
  /\ threats \in [Scans -> Found]
  /\ failed \in [Scans -> BOOLEAN]
  /\ score \in [Scans -> 0 .. 100]

Init ==
  /\ boot = "loading"
  /\ loaded = FALSE
  /\ queue = <<>>
  /\ holder = Nobody
  /\ cache = <<>>
  /\ at = [s \in Scans |-> "idle"]
  /\ page \in [Scans -> Pages]
  /\ threats = [s \in Scans |-> None]
  /\ failed = [s \in Scans |-> FALSE]
  /\ score = [s \in Scans |-> 100]

-----------------------------------------------------------------------------
Parts == {"directory", "tokenizer", "config", "weights", "trunk", "head"}

(* SecurityScanner::load, before the daemon serves.  A part that is        *)
(* missing or does not fit leaves heuristics only.                         *)
Load ==
  /\ boot = "loading"
  /\ \E missing \in SUBSET Parts : loaded' = (missing = {})
  /\ boot' = "up"
  /\ UNCHANGED <<lockVars, cache, scanVars>>

Heuristics(p) ==
  [critical |-> IF p.insecure THEN 1 ELSE 0,
   high |-> p.lookalikes,
   medium |-> p.obfuscated]

Go(s, place) == at' = [at EXCEPT ![s] = place]

(* heuristic_scan, and the wait for the classifier's mutex.                *)
Begin(s) ==
  /\ boot = "up"
  /\ at[s] = "idle"
  /\ threats' = [threats EXCEPT ![s] = Heuristics(page[s])]
  /\ queue' = Append(queue, s)
  /\ Go(s, "waiting")
  /\ UNCHANGED <<boot, loaded, holder, cache, page, failed, score>>

(* Mutated Acquire: the classifier is shared.                              *)
AcquireShared(s) ==
  /\ queue # <<>> /\ Head(queue) = s
  /\ queue' = Tail(queue)
  /\ holder' = s
  /\ Go(s, "holding")
  /\ UNCHANGED <<boot, loaded, cache, page, threats, failed, score>>

Acquire(s) ==
  /\ queue # <<>> /\ Head(queue) = s
  /\ holder = Nobody
  /\ queue' = Tail(queue)
  /\ holder' = s
  /\ Go(s, "holding")
  /\ UNCHANGED <<boot, loaded, cache, page, threats, failed, score>>

(* The slot is empty: the heuristics stand alone.                          *)
FindEmpty(s) ==
  /\ at[s] = "holding" /\ ~loaded
  /\ holder' = Nobody
  /\ Go(s, "classified")
  /\ UNCHANGED <<boot, loaded, queue, cache, page, threats, failed, score>>

-----------------------------------------------------------------------------
Cut(url) == SubSeq(url, 1, IF Len(url) > MaxLength THEN MaxLength ELSE Len(url))

(* The tokens classified: cut, then trailing pads taken off all but the    *)
(* first.                                                                  *)
Ids(url) ==
  LET ids == Cut(url)
      kept == {i \in DOMAIN ids : i = 1 \/ ids[i] # Pad}
  IN SubSeq(ids, 1, CHOOSE i \in kept : \A j \in kept : j <= i)

(* The classifier fails before its model runs: no tokens, or an error.     *)
ClassifyFails(s) ==
  /\ at[s] = "holding" /\ loaded
  /\ failed' = [failed EXCEPT ![s] = TRUE]
  /\ holder' = Nobody
  /\ Go(s, "classified")
  /\ UNCHANGED <<boot, loaded, queue, cache, page, threats, score>>

(* Mutated ClearCache: the cache is left as it was.                        *)
ClearCacheNot(s) ==
  /\ at[s] = "holding" /\ loaded
  /\ page[s].url # <<>>
  /\ Go(s, "cleared")
  /\ UNCHANGED <<boot, loaded, lockVars, cache, page, threats, failed, score>>

ClearCache(s) ==
  /\ at[s] = "holding" /\ loaded
  /\ page[s].url # <<>>
  /\ cache' = <<>>
  /\ Go(s, "cleared")
  /\ UNCHANGED <<boot, loaded, lockVars, page, threats, failed, score>>

(* model_threat for both classes.                                          *)
ModelThreats(verdict) ==
  LET flagged(level) == (IF verdict.phishing = level THEN 1 ELSE 0)
                          + (IF verdict.malware = level THEN 1 ELSE 0)
  IN [critical |-> flagged("far"), high |-> flagged("over"), medium |-> 0]

Plus(f, g) == [severity \in DOMAIN f |-> f[severity] + g[severity]]

(* The forward pass, the head and the softmax, which leave the tokens in   *)
(* the cache.                                                              *)
Forward(s) ==
  /\ at[s] = "cleared"
  /\ cache' = cache \o Ids(page[s].url)
  /\ threats' = [threats EXCEPT ![s] = Plus(@, ModelThreats(Verdict(cache')))]
  /\ holder' = Nobody
  /\ Go(s, "classified")
  /\ UNCHANGED <<boot, loaded, queue, page, failed, score>>

(* The forward pass or what follows it fails; the cache has been fed.      *)
ForwardFails(s) ==
  /\ at[s] = "cleared"
  /\ cache' = cache \o Ids(page[s].url)
  /\ failed' = [failed EXCEPT ![s] = TRUE]
  /\ holder' = Nobody
  /\ Go(s, "classified")
  /\ UNCHANGED <<boot, loaded, queue, page, threats, score>>

Penalty(f) == 40 * f.critical + 25 * f.high + 10 * f.medium

(* Mutated Score: the difference wraps around in a u8.                     *)
ScoreWrapping(f) == (1000 * 256 + 100 - Penalty(f)) % 256

(* Mutated Score: the mildest kind of threat found decides.                *)
ScoreWorst(f) ==
  IF f.medium > 0 THEN 90 ELSE IF f.high > 0 THEN 75 ELSE IF f.critical > 0 THEN 60 ELSE 100

Score(f) == IF Penalty(f) > 100 THEN 0 ELSE 100 - Penalty(f)

Answer(s) ==
  /\ at[s] = "classified"
  /\ score' = [score EXCEPT ![s] = Score(threats[s])]
  /\ Go(s, "answered")
  /\ UNCHANGED <<boot, loaded, lockVars, cache, page, threats, failed>>

(* The scan's task ends and may be used for another page.                  *)
Again(s) ==
  /\ at[s] = "answered"
  /\ page' \in {[page EXCEPT ![s] = p] : p \in Pages}
  /\ Go(s, "idle")
  /\ threats' = [threats EXCEPT ![s] = None]
  /\ failed' = [failed EXCEPT ![s] = FALSE]
  /\ score' = [score EXCEPT ![s] = 100]
  /\ UNCHANGED <<boot, loaded, lockVars, cache>>

-----------------------------------------------------------------------------
Classify(s) == ClassifyFails(s) \/ ClearCache(s) \/ Forward(s) \/ ForwardFails(s)

Next ==
  \/ Load
  \/ \E s \in Scans :
       \/ Begin(s) \/ Acquire(s) \/ FindEmpty(s)
       \/ Classify(s)
       \/ Answer(s) \/ Again(s)

Spec == Init /\ [][Next]_vars

-----------------------------------------------------------------------------
(* What a scan finds depends on its page alone: not on what was classified *)
(* before it or is being scanned beside it.  Without a classifier, or when *)
(* it fails, the heuristics' findings remain, all of them                  *)
(* (security.rs:28-32, 174-203).                                           *)
ScanIsPure ==
  \A s \in Scans : at[s] \in {"classified", "answered"} =>
    threats[s] = Plus(Heuristics(page[s]),
                      IF loaded /\ ~failed[s]
                        THEN ModelThreats(Verdict(Ids(page[s].url))) ELSE None)

(* A page in which more of everything was found than in another never gets *)
(* the better score, however many findings there are (security.rs:226-238).*)
WorseScoresNoHigher ==
  \A s, t \in Scans :
    /\ at[s] = "answered" /\ at[t] = "answered"
    /\ \A severity \in {"critical", "high", "medium"} :
         threats[s][severity] <= threats[t][severity]
    => score[t] <= score[s]
=============================================================================
