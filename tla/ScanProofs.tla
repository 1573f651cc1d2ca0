----------------------------- MODULE ScanProofs -----------------------------
(***************************************************************************)
(* Theorems about Scan, for any pages, any number of scans and any         *)
(* classifier.                                                             *)
(***************************************************************************)
EXTENDS Scan, WellFoundedInduction, SequenceTheorems, TLAPS

(* The scans that wait are in the queue once, and the classifier serves    *)
(* one of them at a time, with a cache that was cleared for it.            *)
QueueWaits ==
  /\ \A i \in DOMAIN queue : at[queue[i]] = "waiting"
  /\ \A i, j \in DOMAIN queue : queue[i] = queue[j] => i = j
OneAtATime == \A s \in Scans : at[s] \in {"holding", "cleared"} => holder = s
ClearedForIt ==
  \A s \in Scans : at[s] = "cleared" => cache = <<>> /\ loaded /\ page[s].url # <<>>

(* Until the classifier speaks, a scan has the heuristics' findings, and   *)
(* after its answer the score of what was found.                           *)
HeuristicsFirst ==
  \A s \in Scans : at[s] \in {"waiting", "holding", "cleared"} =>
    threats[s] = Heuristics(page[s]) /\ ~failed[s]
Scored == \A s \in Scans : at[s] = "answered" => score[s] = Score(threats[s])
Quiet == \A s \in Scans : (boot = "loading" => at[s] = "idle") /\ (at[s] = "idle" => ~failed[s])

IInv ==
  /\ TypeOK /\ QueueWaits /\ OneAtATime /\ ClearedForIt
  /\ HeuristicsFirst /\ Scored /\ Quiet /\ ScanIsPure

-----------------------------------------------------------------------------
(* A set of natural numbers has a least element.                           *)
LEMMA NatMin ==
  ASSUME NEW S \in SUBSET Nat, S # {}
  PROVE  \E i \in S : \A j \in S : i <= j
<1> DEFINE R == OpToRel(<, Nat)
<1>1. IsWellFoundedOn(R, Nat)
  BY NatLessThanWellFounded
<1>2. \A x, y \in Nat : <<y, x>> \in R <=> y < x
  BY DEF OpToRel
<1>3. PICK x \in S : \A y \in S : ~(<<y, x>> \in R)
  <2> HIDE DEF R
  <2> QED  BY <1>1, WFMin
<1> HIDE DEF R
<1>4. \A y \in S : ~(y < x)
  BY <1>2, <1>3
<1> QED  BY <1>4

(* A bounded one has a greatest.                                           *)
LEMMA Greatest ==
  ASSUME NEW n \in Nat, NEW S \in SUBSET (1 .. n), S # {}
  PROVE  \E i \in S : \A j \in S : j <= i
<1> DEFINE T == {n - i : i \in S}
<1>1. T \in SUBSET Nat /\ T # {}
  <2>1. \A i \in S : i \in 1 .. n /\ n - i \in Nat
    OBVIOUS
  <2>2. PICK i \in S : TRUE
    OBVIOUS
  <2>3. n - i \in T
    OBVIOUS
  <2> QED  BY <2>1, <2>3
<1>2. PICK t \in T : \A u \in T : t <= u
  BY <1>1, NatMin
<1>3. PICK i \in S : t = n - i
  OBVIOUS
<1>4. \A j \in S : n - i <= n - j
  BY <1>2, <1>3
<1> QED  BY <1>4

(* What is classified of a page is short and not empty: the classifier's   *)
(* assumption applies to it.                                               *)
LEMMA IdsAreAWindow ==
  ASSUME NEW url \in Seq(Tokens), url # <<>>
  PROVE  Ids(url) \in Windows
<1> DEFINE ids == Cut(url)
           kept == {i \in DOMAIN ids : i = 1 \/ ids[i] # Pad}
           last == CHOOSE i \in kept : \A j \in kept : j <= i
<1>1. PICK n \in 1 .. MaxLength : n <= Len(url) /\ ids = SubSeq(url, 1, n)
  BY TokensAssumption DEF Cut
<1>2. ids \in Seq(Tokens) /\ Len(ids) = n
  BY <1>1
<1>3. kept \in SUBSET (1 .. n) /\ 1 \in kept
  BY <1>2
<1> HIDE DEF ids, kept
<1>4. \E i \in kept : \A j \in kept : j <= i
  <2>1. n \in Nat
    BY <1>1, TokensAssumption
  <2> QED  BY <2>1, <1>3, Greatest
<1>5. last \in 1 .. n
  BY <1>3, <1>4
<1> HIDE DEF last
<1>6. SubSeq(ids, 1, last) \in [1 .. last -> Tokens]
  <2>1. SubSeq(ids, 1, last) \in Seq(Tokens) /\ Len(SubSeq(ids, 1, last)) = last
    BY <1>1, <1>2, <1>5
  <2> QED  BY <2>1, LenProperties
<1>7. last \in 1 .. MaxLength
  BY <1>1, <1>5, TokensAssumption
<1>8. SubSeq(ids, 1, last) \in Windows
  BY <1>6, <1>7 DEF Windows
<1> QED  BY <1>8 DEF Ids, ids, kept, last

LEMMA PlusFound ==
  ASSUME NEW f \in Found, NEW g \in Found
  PROVE  /\ Plus(f, g) \in Found
         /\ Plus(f, g).critical = f.critical + g.critical
         /\ Plus(f, g).high = f.high + g.high
         /\ Plus(f, g).medium = f.medium + g.medium
         /\ g = None => Plus(f, g) = f
BY DEF Plus, Found, None

LEMMA ModelThreatsFound ==
  ASSUME NEW verdict \in Verdicts
  PROVE  ModelThreats(verdict) \in Found
BY DEF ModelThreats, Verdicts, Levels, Found

LEMMA ScoreBounds ==
  ASSUME NEW f \in Found
  PROVE  Score(f) \in 0 .. 100
BY DEF Score, Penalty, Found

LEMMA HeuristicsFound ==
  ASSUME NEW p \in Pages
  PROVE  Heuristics(p) \in Found /\ p.url \in Seq(Tokens)
BY PagesAssumption DEF Heuristics, Found

-----------------------------------------------------------------------------
LEMMA InitInv == Init => IInv
<1> SUFFICES ASSUME Init PROVE IInv
  OBVIOUS
<1>1. TypeOK
  <2>1. threats \in [Scans -> Found] /\ score \in [Scans -> 0 .. 100]
    BY DEF Init, Found, None
  <2>2. failed \in [Scans -> BOOLEAN] /\ loaded \in BOOLEAN
    BY DEF Init
  <2>3. boot \in {"loading", "up"} /\ holder \in Scans \cup {Nobody} /\ at \in [Scans -> Places]
    BY DEF Init, Places
  <2>4. queue \in Seq(Scans) /\ cache \in Seq(Tokens)
    BY DEF Init
  <2>5. page \in [Scans -> Pages]
    BY DEF Init
  <2> QED  BY <2>1, <2>2, <2>3, <2>4, <2>5 DEF TypeOK
<1>2. QueueWaits /\ OneAtATime /\ ClearedForIt /\ HeuristicsFirst /\ Scored /\ Quiet /\ ScanIsPure
  BY DEF Init, QueueWaits, OneAtATime, ClearedForIt, HeuristicsFirst, Scored, Quiet, ScanIsPure
<1> QED  BY <1>1, <1>2 DEF IInv

LEMMA LoadInv == IInv /\ Load => IInv'
<1> SUFFICES ASSUME IInv, Load PROVE IInv'
  OBVIOUS
<1> USE DEF IInv, Load, lockVars, scanVars
<1>1. TypeOK'
  BY DEF TypeOK
<1>2. \A s \in Scans : at[s] = "idle"
  BY DEF Quiet
<1>3. (QueueWaits /\ OneAtATime)'
  BY DEF QueueWaits, OneAtATime
<1>4. (ClearedForIt /\ HeuristicsFirst /\ Scored /\ Quiet /\ ScanIsPure)'
  BY <1>2 DEF ClearedForIt, HeuristicsFirst, Scored, Quiet, ScanIsPure
<1> QED  BY <1>1, <1>3, <1>4

LEMMA BeginInv == ASSUME NEW s \in Scans, IInv, Begin(s) PROVE IInv'
<1> USE DEF IInv, Begin, Go
<1>1. TypeOK'
  BY HeuristicsFound DEF TypeOK, Places
<1>2. QueueWaits'
  <2>1. queue \in Seq(Scans) /\ at \in [Scans -> Places]
    BY DEF TypeOK
  <2>2. \A i \in DOMAIN queue : queue[i] # s
    BY DEF QueueWaits
  <2> QED  BY <2>1, <2>2 DEF QueueWaits
<1>3. (OneAtATime /\ ClearedForIt)'
  BY DEF OneAtATime, ClearedForIt, TypeOK
<1>4. HeuristicsFirst'
  BY DEF HeuristicsFirst, Quiet, TypeOK
<1>5. (Scored /\ Quiet /\ ScanIsPure)'
  BY DEF Scored, Quiet, ScanIsPure, TypeOK
<1> QED  BY <1>1, <1>2, <1>3, <1>4, <1>5

LEMMA AcquireInv == ASSUME NEW s \in Scans, IInv, Acquire(s) PROVE IInv'
<1> USE DEF IInv, Acquire, Go
<1>0. queue \in Seq(Scans) /\ at \in [Scans -> Places] /\ at[s] = "waiting"
  BY DEF TypeOK, QueueWaits
<1>1. TypeOK'
  BY <1>0 DEF TypeOK, Places
<1>2. QueueWaits'
  <2>1. \A i \in DOMAIN Tail(queue) : Tail(queue)[i] = queue[i + 1] /\ i + 1 \in DOMAIN queue
    BY <1>0
  <2>2. \A i \in DOMAIN Tail(queue) : Tail(queue)[i] # s
    BY <1>0, <2>1 DEF QueueWaits
  <2>3. \A i, j \in DOMAIN Tail(queue) : Tail(queue)[i] = Tail(queue)[j] => i = j
    BY <1>0, <2>1 DEF QueueWaits
  <2> QED  BY <1>0, <2>1, <2>2, <2>3 DEF QueueWaits
<1>3. OneAtATime'
  BY <1>0, NobodyAssumption DEF OneAtATime
<1>4. (ClearedForIt /\ HeuristicsFirst /\ Scored /\ Quiet /\ ScanIsPure)'
  BY <1>0 DEF ClearedForIt, HeuristicsFirst, Scored, Quiet, ScanIsPure
<1> QED  BY <1>1, <1>2, <1>3, <1>4

(* The classifier is released, and what the scan has found is what its     *)
(* page deserves.                                                          *)
LEMMA ReleaseInv ==
  ASSUME NEW s \in Scans, IInv, at[s] \in {"holding", "cleared"},
         holder' = Nobody, Go(s, "classified"),
         UNCHANGED <<boot, loaded, queue, page, score>>,
         cache' \in Seq(Tokens),
         threats' \in [Scans -> Found], failed' \in [Scans -> BOOLEAN],
         \A t \in Scans \ {s} : threats'[t] = threats[t] /\ failed'[t] = failed[t],
         threats'[s] = Plus(Heuristics(page[s]),
                            IF loaded /\ ~failed'[s]
                              THEN ModelThreats(Verdict(Ids(page[s].url))) ELSE None)
  PROVE  IInv'
<1> USE DEF IInv, Go
<1>0. at \in [Scans -> Places] /\ holder = s
  BY DEF TypeOK, OneAtATime
<1>1. TypeOK'
  BY <1>0 DEF TypeOK, Places
<1>2. QueueWaits'
  BY <1>0 DEF QueueWaits, TypeOK
<1>3. \A t \in Scans \ {s} : at[t] \notin {"holding", "cleared"}
  BY <1>0 DEF OneAtATime
<1>4. (OneAtATime /\ ClearedForIt)'
  BY <1>0, <1>3 DEF OneAtATime, ClearedForIt
<1>5. (HeuristicsFirst /\ Scored /\ Quiet)'
  BY <1>0 DEF HeuristicsFirst, Scored, Quiet
<1>6. ScanIsPure'
  BY <1>0 DEF ScanIsPure
<1> QED  BY <1>1, <1>2, <1>4, <1>5, <1>6

LEMMA FindEmptyInv == ASSUME NEW s \in Scans, IInv, FindEmpty(s) PROVE IInv'
<1>1. threats[s] = Heuristics(page[s]) /\ Heuristics(page[s]) \in Found
  BY HeuristicsFound DEF FindEmpty, IInv, HeuristicsFirst, TypeOK
<1>2. threats[s] = Plus(Heuristics(page[s]), None)
  BY <1>1, PlusFound DEF Found, None
<1> QED  BY <1>2, ReleaseInv DEF FindEmpty, IInv, TypeOK

LEMMA ClassifyFailsInv == ASSUME NEW s \in Scans, IInv, ClassifyFails(s) PROVE IInv'
<1>1. threats[s] = Heuristics(page[s]) /\ Heuristics(page[s]) \in Found
  BY HeuristicsFound DEF ClassifyFails, IInv, HeuristicsFirst, TypeOK
<1>2. threats[s] = Plus(Heuristics(page[s]), None)
  BY <1>1, PlusFound DEF Found, None
<1> QED  BY <1>2, ReleaseInv DEF ClassifyFails, IInv, TypeOK

LEMMA ClearCacheInv == ASSUME NEW s \in Scans, IInv, ClearCache(s) PROVE IInv'
<1> USE DEF IInv, ClearCache, Go, lockVars
<1>0. at \in [Scans -> Places] /\ holder = s
  BY DEF TypeOK, OneAtATime
<1>1. TypeOK'
  BY <1>0 DEF TypeOK, Places
<1>2. QueueWaits'
  BY <1>0 DEF QueueWaits, TypeOK
<1>3. (OneAtATime /\ ClearedForIt)'
  BY <1>0 DEF OneAtATime, ClearedForIt
<1>4. (HeuristicsFirst /\ Scored /\ Quiet /\ ScanIsPure)'
  BY <1>0 DEF HeuristicsFirst, Scored, Quiet, ScanIsPure
<1> QED  BY <1>1, <1>2, <1>3, <1>4

(* The cache was cleared for this scan, so that it now holds the page's    *)
(* tokens and no others.                                                   *)
LEMMA FedAlone ==
  ASSUME NEW s \in Scans, IInv, at[s] = "cleared",
         cache' = cache \o Ids(page[s].url)
  PROVE  /\ loaded
         /\ cache' = Ids(page[s].url)
         /\ cache' \in Seq(Tokens)
         /\ Verdict(cache') \in Verdicts
         /\ threats[s] = Heuristics(page[s])
         /\ Heuristics(page[s]) \in Found
<1>1. cache = <<>> /\ loaded /\ page[s].url # <<>> /\ page[s] \in Pages
  BY DEF IInv, ClearedForIt, TypeOK
<1>2. Ids(page[s].url) \in Windows
  BY <1>1, HeuristicsFound, IdsAreAWindow
<1>3. Ids(page[s].url) \in Seq(Tokens)
  BY <1>2, TokensAssumption, SeqDef DEF Windows
<1>4. cache' = Ids(page[s].url)
  BY <1>1, <1>3, ConcatEmptySeq
<1> QED  BY <1>1, <1>2, <1>3, <1>4, VerdictAssumption, HeuristicsFound DEF IInv, HeuristicsFirst

LEMMA ForwardInv == ASSUME NEW s \in Scans, IInv, Forward(s) PROVE IInv'
<1>1. at[s] = "cleared" /\ cache' = cache \o Ids(page[s].url)
  BY DEF Forward
<1>2. /\ loaded /\ cache' = Ids(page[s].url) /\ cache' \in Seq(Tokens)
      /\ Verdict(cache') \in Verdicts
      /\ threats[s] = Heuristics(page[s]) /\ Heuristics(page[s]) \in Found
  BY <1>1, FedAlone
<1>3. threats' = [threats EXCEPT ![s] = Plus(threats[s], ModelThreats(Verdict(cache')))]
  BY DEF Forward
<1>4. Plus(threats[s], ModelThreats(Verdict(cache'))) \in Found
  BY <1>2, PlusFound, ModelThreatsFound
<1>5. threats \in [Scans -> Found] /\ failed \in [Scans -> BOOLEAN]
  BY DEF IInv, TypeOK
<1>6. ~failed[s]
  BY <1>1 DEF IInv, HeuristicsFirst
<1>7. threats'[s] = Plus(Heuristics(page[s]), ModelThreats(Verdict(Ids(page[s].url))))
  BY <1>2, <1>3, <1>5
<1>8. threats' \in [Scans -> Found] /\ \A t \in Scans \ {s} : threats'[t] = threats[t]
  BY <1>3, <1>4, <1>5
<1> QED  BY <1>1, <1>2, <1>5, <1>6, <1>7, <1>8, ReleaseInv DEF Forward

LEMMA ForwardFailsInv == ASSUME NEW s \in Scans, IInv, ForwardFails(s) PROVE IInv'
<1>1. at[s] = "cleared" /\ cache' = cache \o Ids(page[s].url)
  BY DEF ForwardFails
<1>2. /\ cache' \in Seq(Tokens)
      /\ threats[s] = Heuristics(page[s]) /\ Heuristics(page[s]) \in Found
  BY <1>1, FedAlone
<1>3. threats[s] = Plus(Heuristics(page[s]), None)
  BY <1>2, PlusFound DEF Found, None
<1>4. threats \in [Scans -> Found] /\ failed \in [Scans -> BOOLEAN]
  BY DEF IInv, TypeOK
<1>5. failed' = [failed EXCEPT ![s] = TRUE]
  BY DEF ForwardFails
<1> QED  BY <1>1, <1>2, <1>3, <1>4, <1>5, ReleaseInv DEF ForwardFails

LEMMA AnswerInv == ASSUME NEW s \in Scans, IInv, Answer(s) PROVE IInv'
<1> USE DEF IInv, Answer, Go, lockVars
<1>0. at \in [Scans -> Places] /\ score \in [Scans -> 0 .. 100] /\ threats[s] \in Found
  BY DEF TypeOK
<1>1. TypeOK'
  BY <1>0, ScoreBounds DEF TypeOK, Places
<1>2. QueueWaits'
  BY <1>0 DEF QueueWaits, TypeOK
<1>3. (OneAtATime /\ ClearedForIt /\ HeuristicsFirst)'
  BY <1>0 DEF OneAtATime, ClearedForIt, HeuristicsFirst
<1>4. Scored'
  BY <1>0 DEF Scored
<1>5. (Quiet /\ ScanIsPure)'
  BY <1>0 DEF Quiet, ScanIsPure
<1> QED  BY <1>1, <1>2, <1>3, <1>4, <1>5

LEMMA AgainInv == ASSUME NEW s \in Scans, IInv, Again(s) PROVE IInv'
<1> USE DEF IInv, Again, Go, lockVars
<1>0. /\ at \in [Scans -> Places] /\ score \in [Scans -> 0 .. 100]
      /\ threats \in [Scans -> Found] /\ failed \in [Scans -> BOOLEAN]
      /\ None \in Found
  BY DEF TypeOK, None, Found
<1>1. PICK p \in Pages : page' = [page EXCEPT ![s] = p]
  OBVIOUS
<1>2. TypeOK'
  BY <1>0, <1>1 DEF TypeOK, Places
<1>3. QueueWaits'
  BY <1>0 DEF QueueWaits, TypeOK
<1>4. \A t \in Scans \ {s} : /\ at'[t] = at[t] /\ page'[t] = page[t] /\ threats'[t] = threats[t]
                             /\ failed'[t] = failed[t] /\ score'[t] = score[t]
  BY <1>0, <1>1 DEF TypeOK
<1>5. at'[s] = "idle" /\ ~failed'[s]
  BY <1>0
<1>6. (OneAtATime /\ ClearedForIt /\ HeuristicsFirst)'
  BY <1>4, <1>5 DEF OneAtATime, ClearedForIt, HeuristicsFirst
<1>7. (Scored /\ Quiet /\ ScanIsPure)'
  BY <1>4, <1>5 DEF Scored, Quiet, ScanIsPure
<1> QED  BY <1>2, <1>3, <1>6, <1>7

LEMMA NextInv == IInv /\ [Next]_vars => IInv'
<1> SUFFICES ASSUME IInv, [Next]_vars PROVE IInv'
  OBVIOUS
<1>1. CASE Load
  BY <1>1, LoadInv
<1>2. CASE \E s \in Scans : Begin(s) \/ Acquire(s) \/ FindEmpty(s) \/ Classify(s)
                               \/ Answer(s) \/ Again(s)
  BY <1>2, BeginInv, AcquireInv, FindEmptyInv, ClassifyFailsInv, ClearCacheInv, ForwardInv,
     ForwardFailsInv, AnswerInv, AgainInv DEF Classify
<1>3. CASE UNCHANGED vars
  BY <1>3 DEF vars, lockVars, scanVars, IInv, TypeOK, QueueWaits, OneAtATime, ClearedForIt,
     HeuristicsFirst, Scored, Quiet, ScanIsPure
<1> QED  BY <1>1, <1>2, <1>3 DEF Next

(* The types of the scanner's state; a score stays between 0 and 100       *)
(* however much is found (security.rs:226-238).                            *)
THEOREM TypeCorrect == Spec => []TypeOK
<1>1. IInv => TypeOK
  BY DEF IInv
<1> QED  BY InitInv, NextInv, <1>1, PTL DEF Spec

(* A scan's findings depend on its own page alone, whatever else is        *)
(* scanned, has been scanned or has failed (security.rs:174-203, 378).     *)
THEOREM ScansArePure == Spec => []ScanIsPure
<1>1. IInv => ScanIsPure
  BY DEF IInv
<1> QED  BY InitInv, NextInv, <1>1, PTL DEF Spec

(* More of everything never makes the better score (security.rs:226-238).  *)
THEOREM WorseIsNoBetter == Spec => []WorseScoresNoHigher
<1>1. \A f, g \in Found :
        f.critical <= g.critical /\ f.high <= g.high /\ f.medium <= g.medium
          => Score(g) <= Score(f)
  BY DEF Found, Score, Penalty
<1>2. IInv => WorseScoresNoHigher
  BY <1>1 DEF IInv, TypeOK, Scored, WorseScoresNoHigher
<1> QED  BY InitInv, NextInv, <1>2, PTL DEF Spec
=============================================================================
