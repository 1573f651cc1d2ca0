----------------------------- MODULE HuntProofs -----------------------------
(***************************************************************************)
(* Theorems about Hunt, for any lines a planner may write and plans of any *)
(* length.                                                                 *)
(***************************************************************************)
EXTENDS Hunt, WellFoundedInduction, SequenceTheorems, TLAPS

RecordsAreASeq == \E R : records \in Seq(R)

(* What a record's argument came from, as RefsPointBack has it, and that   *)
(* it is a number at all.                                                  *)
Origins ==
  \A i \in DOMAIN records : \A s \in DOMAIN records[i].args :
    records[i].args[s].from \in 0 .. i - 1

IInv == RecordsAreASeq /\ Origins /\ RefsPointBack /\ FailuresSpreadByReference

-----------------------------------------------------------------------------
(* A set of natural numbers has a least element.                           *)
LEMMA NatMin ==
  ASSUME NEW S \in SUBSET Nat, S # {}
  PROVE  \E i \in S : \A j \in S : i <= j
<1> DEFINE R == OpToRel(<, Nat)
<1>1. IsWellFoundedOn(R, Nat)
  BY NatLessThanWellFounded
<1>2. \A x, y \in Nat : <<y, x>> \in R <=> y < x
  BY DEF OpToRel
<1>3. PICK x \in S : \A y \in S : ~(<<y, x>> \in R)
  <2> HIDE DEF R
  <2> QED  BY <1>1, WFMin
<1> HIDE DEF R
<1>4. \A y \in S : ~(y < x)
  BY <1>2, <1>3
<1> QED  BY <1>4

(* A set that holds 0 and, with a number up to n, the next, holds all of   *)
(* them: how the recursive functions are reasoned about.                   *)
LEMMA Climb ==
  ASSUME NEW n \in Nat, NEW P, 0 \in P, \A i \in 0 .. n - 1 : i \in P => i + 1 \in P
  PROVE  \A i \in 0 .. n : i \in P
<1> SUFFICES ASSUME NEW i \in 0 .. n, i \notin P PROVE FALSE
  OBVIOUS
<1> DEFINE Out == {j \in 0 .. n : j \notin P}
<1>1. Out \in SUBSET Nat /\ Out # {}
  OBVIOUS
<1>2. PICK j \in Out : \A k \in Out : j <= k
  BY <1>1, NatMin
<1>3. j # 0 /\ j - 1 \in 0 .. n - 1 /\ j - 1 \notin Out
  BY <1>2
<1> QED  BY <1>2, <1>3

LEMMA ProducerIsFirst ==
  ASSUME NEW R, NEW prior \in Seq(R), NEW n, Numbered(n, prior) # {}
  PROVE  /\ Producer(n, prior) \in 1 .. Len(prior)
         /\ prior[Producer(n, prior)].step.idx = n
         /\ \A h \in 1 .. Producer(n, prior) - 1 : prior[h].step.idx # n
<1>1. Numbered(n, prior) \in SUBSET Nat /\ Numbered(n, prior) \subseteq 1 .. Len(prior)
  BY DEF Numbered
<1>2. \E i \in Numbered(n, prior) : \A j \in Numbered(n, prior) : i <= j
  BY <1>1, NatMin
<1>3. /\ Producer(n, prior) \in Numbered(n, prior)
      /\ \A j \in Numbered(n, prior) : Producer(n, prior) <= j
  BY <1>2 DEF Producer
<1>4. ASSUME NEW h \in 1 .. Producer(n, prior) - 1
      PROVE  prior[h].step.idx # n
  <2>1. h \in DOMAIN prior /\ h < Producer(n, prior)
    BY <1>1, <1>3
  <2> QED  BY <2>1, <1>1, <1>3 DEF Numbered
<1> QED  BY <1>1, <1>3, <1>4 DEF Numbered

(* A value that comes from a record is what an argument that refers to it  *)
(* gets.                                                                   *)
LEMMA SlotOrigin ==
  ASSUME NEW R, NEW prior \in Seq(R), NEW step, NEW s, Slot(step, s, prior).from # 0
  PROVE  LET i == Slot(step, s, prior).from
         IN /\ i \in 1 .. Len(prior)
            /\ prior[i].result = "ok"
            /\ IsRef(step.args[s]) /\ prior[i].step.idx = step.args[s].n
            /\ \A h \in 1 .. i - 1 : prior[h].step.idx # step.args[s].n
<1> DEFINE arg == step.args[s]
           field == Slots[step.name][s]
<1>1. Nothing.from = 0 /\ \A w : Value(w, 0).from = 0
  BY DEF Nothing, Value
<1>2. Slot(step, s, prior) = Resolve(arg, field, prior)
  BY <1>1 DEF Slot
<1>3. Count(arg).from = 0
  BY <1>1 DEF Count
<1>4. IsRef(arg) /\ Slot(step, s, prior) = Extract(arg.n, field, prior)
  BY <1>1, <1>2, <1>3 DEF Resolve
<1>5. /\ Numbered(arg.n, prior) # {}
      /\ prior[Producer(arg.n, prior)].result = "ok"
      /\ Slot(step, s, prior).from = Producer(arg.n, prior)
  BY <1>1, <1>4 DEF Extract, Value
<1> QED  BY <1>4, <1>5, ProducerIsFirst

(* A slot that stays empty had no argument, or a reference that gives      *)
(* nothing, and no default.                                                *)
LEMMA SlotEmpty ==
  ASSUME NEW R, NEW prior \in Seq(R), NEW step, NEW s, Slot(step, s, prior) = Nothing
  PROVE  /\ Slots[step.name][s] \notin Optional
         /\ s \in DOMAIN step.args =>
              /\ IsRef(step.args[s])
              /\ Extract(step.args[s].n, Slots[step.name][s], prior) = Nothing
<1>1. \A w : w # "nothing" => Value(w, 0) # Nothing
  BY DEF Nothing, Value
<1>2. Count(step.args[s]) # Nothing
  BY <1>1 DEF Count
<1>3. Slots[step.name][s] \notin Optional
  BY <1>1 DEF Slot
<1>4. ASSUME s \in DOMAIN step.args
      PROVE  Resolve(step.args[s], Slots[step.name][s], prior) = Nothing
  BY <1>3, <1>4 DEF Slot
<1>5. Slots[step.name][s] # "top_k"
  BY <1>3 DEF Optional
<1> QED  BY <1>1, <1>3, <1>4, <1>5 DEF Resolve

(* An empty reference: no such step, a failed one, or a search; or the     *)
(* number was taken twice and the first taker was one of these.            *)
LEMMA ExtractEmpty ==
  ASSUME NEW R, NEW prior \in Seq(R), NEW n, NEW field, Extract(n, field, prior) = Nothing,
         NEW h \in 1 .. Len(prior), prior[h].step.idx = n, prior[h].result = "ok",
         prior[h].step.name \notin {"search_local_index", "search_subnet"}
  PROVE  \E k \in 1 .. Len(prior) : k # h /\ prior[k].step.idx = n
<1> DEFINE i == Producer(n, prior)
<1>1. Numbered(n, prior) # {}
  BY DEF Numbered
<1>2. i \in 1 .. Len(prior) /\ prior[i].step.idx = n
  BY <1>1, ProducerIsFirst
<1>3. prior[i].result # "ok" \/ Part(prior[i].step.name, field) = "nothing"
  BY <1>1 DEF Extract, Nothing, Value
<1>4. Part(prior[h].step.name, field) # "nothing"
  BY DEF Part
<1>5. i # h
  BY <1>3, <1>4
<1> QED  BY <1>2, <1>5

-----------------------------------------------------------------------------
(* What one more record leaves as it was.                                  *)
LEMMA Pushed ==
  ASSUME NEW R, records \in Seq(R), NEW args, NEW result, Push(args, result)
  PROVE  /\ \E Q : records' \in Seq(Q)
         /\ DOMAIN records = 1 .. Len(records) /\ Len(records) \in Nat
         /\ DOMAIN records' = 1 .. Len(records) + 1
         /\ \A i \in 1 .. Len(records) : records'[i] = records[i]
         /\ records'[Len(records) + 1] = [step |-> Current, args |-> args, result |-> result]
<1> DEFINE new == [step |-> Current, args |-> args, result |-> result]
           Q == R \cup {new}
<1>1. records \in Seq(Q) /\ new \in Q
  OBVIOUS
<1>2. records' = Append(records, new)
  BY DEF Push
<1> HIDE DEF Q, new
<1>3. /\ records' \in Seq(Q) /\ DOMAIN records = 1 .. Len(records) /\ Len(records) \in Nat
      /\ DOMAIN records' = 1 .. Len(records) + 1
      /\ \A i \in 1 .. Len(records) : records'[i] = records[i]
      /\ records'[Len(records) + 1] = new
  BY <1>1, <1>2
<1>4. \E T : records' \in Seq(T)
  BY <1>3
<1> QED  BY <1>3, <1>4 DEF new

LEMMA PushInv ==
  ASSUME IInv, NEW args, NEW result, Push(args, result),
         \A s \in DOMAIN args :
           /\ args[s].from \in 0 .. Len(records)
           /\ args[s].from # 0 =>
                /\ records[args[s].from].result = "ok"
                /\ IsRef(Current.args[s])
                /\ records[args[s].from].step.idx = Current.args[s].n
                /\ \A h \in 1 .. args[s].from - 1 : records[h].step.idx # Current.args[s].n,
         result = "coercion" => ~Coerces(Current, records)
  PROVE  IInv'
<1>1. PICK R : records \in Seq(R)
  BY DEF IInv, RecordsAreASeq
<1> DEFINE n == Len(records)
           new == [step |-> Current, args |-> args, result |-> result]
<1>2. /\ RecordsAreASeq'
      /\ DOMAIN records = 1 .. n /\ n \in Nat
      /\ DOMAIN records' = 1 .. n + 1
      /\ \A i \in 1 .. n : records'[i] = records[i]
      /\ records'[n + 1] = new
  BY <1>1, Pushed DEF RecordsAreASeq
<1> HIDE DEF n
<1>3. new.step = Current /\ new.args = args /\ new.result = result
  OBVIOUS
<1> HIDE DEF new
<1>4. Origins'
  <2>1. ASSUME NEW i \in 1 .. n, NEW s \in DOMAIN records'[i].args
        PROVE  records'[i].args[s].from \in 0 .. i - 1
    BY <1>2, <2>1 DEF IInv, Origins
  <2>2. ASSUME NEW s \in DOMAIN records'[n + 1].args
        PROVE  records'[n + 1].args[s].from \in 0 .. (n + 1) - 1
    BY <1>2, <1>3 DEF n
  <2> QED  BY <1>2, <2>1, <2>2 DEF Origins
<1>5. RefsPointBack'
  <2> SUFFICES ASSUME NEW i \in 1 .. n + 1, NEW s \in DOMAIN records'[i].args,
                      records'[i].args[s].from # 0
               PROVE  LET from == records'[i].args[s].from
                          arg == records'[i].step.args[s]
                      IN /\ from < i
                         /\ records'[from].result = "ok"
                         /\ IsRef(arg) /\ records'[from].step.idx = arg.n
                         /\ \A h \in 1 .. from - 1 : records'[h].step.idx # arg.n
    BY <1>2 DEF RefsPointBack
  <2> DEFINE from == records'[i].args[s].from
  <2>1. CASE i \in 1 .. n
    <3>1. records'[i] = records[i] /\ from \in 1 .. i - 1
      BY <1>2, <2>1 DEF IInv, Origins
    <3>2. \A h \in 1 .. from : h \in 1 .. n /\ records'[h] = records[h]
      BY <1>2, <2>1, <3>1
    <3>3. /\ from < i
          /\ records[from].result = "ok"
          /\ IsRef(records[i].step.args[s]) /\ records[from].step.idx = records[i].step.args[s].n
          /\ \A h \in 1 .. from - 1 : records[h].step.idx # records[i].step.args[s].n
      BY <1>2, <2>1, <3>1 DEF IInv, RefsPointBack
    <3>4. from \in 1 .. from /\ \A h \in 1 .. from - 1 : h \in 1 .. from
      BY <3>1, <2>1, <1>2
    <3> HIDE DEF from
    <3> QED  BY <3>1, <3>2, <3>3, <3>4 DEF from
  <2>2. CASE i = n + 1
    <3>1. from \in 1 .. n /\ from = args[s].from /\ s \in DOMAIN args
      BY <1>2, <1>3, <2>2 DEF n
    <3>2. \A h \in 1 .. from : h \in 1 .. n /\ records'[h] = records[h]
      BY <1>2, <3>1
    <3>3. /\ records[from].result = "ok"
          /\ IsRef(Current.args[s]) /\ records[from].step.idx = Current.args[s].n
          /\ \A h \in 1 .. from - 1 : records[h].step.idx # Current.args[s].n
      BY <3>1
    <3>4. records'[i].step = Current
      BY <1>2, <1>3, <2>2
    <3>5. from < i /\ from \in 1 .. from /\ \A h \in 1 .. from - 1 : h \in 1 .. from
      BY <3>1, <2>2, <1>2
    <3> HIDE DEF from
    <3> QED  BY <3>2, <3>3, <3>4, <3>5 DEF from
  <2> QED  BY <1>2, <2>1, <2>2
<1>6. FailuresSpreadByReference'
  <2> DEFINE Usable(recs, i, num) ==
               \E h \in 1 .. i - 1 :
                 recs[h].step.idx = num /\ recs[h].result = "ok"
                   /\ recs[h].step.name \notin {"search_local_index", "search_subnet"}
             Doubled(recs, i, num) ==
               \E h, k \in 1 .. i - 1 :
                 h # k /\ recs[h].step.idx = num /\ recs[k].step.idx = num
             Explained(recs, i) ==
               LET step == recs[i].step
               IN recs[i].result = "coercion" /\ step.name \in Tools =>
                    \E s \in DOMAIN Slots[step.name] :
                      /\ Slots[step.name][s] \notin Optional
                      /\ s \in DOMAIN step.args =>
                           /\ IsRef(step.args[s])
                           /\ Usable(recs, i, step.args[s].n) => Doubled(recs, i, step.args[s].n)
  <2>1. FailuresSpreadByReference <=> \A i \in DOMAIN records : Explained(records, i)
    BY DEF FailuresSpreadByReference
  <2>2. FailuresSpreadByReference' <=> \A i \in DOMAIN records' : Explained(records', i)
    BY DEF FailuresSpreadByReference
  <2>3. ASSUME NEW i \in 1 .. n + 1, NEW num
        PROVE  /\ Usable(records', i, num) <=> Usable(records, i, num)
               /\ Doubled(records', i, num) <=> Doubled(records, i, num)
    <3>1. \A h \in 1 .. i - 1 : records'[h] = records[h]
      BY <1>2
    <3> QED  BY <3>1
  <2>4. ASSUME NEW i \in 1 .. n
        PROVE  Explained(records', i)
    <3>1. FailuresSpreadByReference /\ i \in DOMAIN records
      BY <1>2 DEF IInv
    <3>2. Explained(records, i)
      <4> HIDE DEF Explained
      <4> QED  BY <2>1, <3>1
    <3>3. records'[i] = records[i] /\ i \in 1 .. n + 1
      BY <1>2
    <3> HIDE DEF Usable, Doubled
    <3> QED  BY <3>2, <3>3, <2>3
  <2>5. Explained(records', n + 1)
    <3>1. SUFFICES ASSUME result = "coercion", Current.name \in Tools
                   PROVE  \E s \in DOMAIN Slots[Current.name] :
                            /\ Slots[Current.name][s] \notin Optional
                            /\ s \in DOMAIN Current.args =>
                                 /\ IsRef(Current.args[s])
                                 /\ Usable(records, n + 1, Current.args[s].n)
                                      => Doubled(records, n + 1, Current.args[s].n)
      <4> HIDE DEF Usable, Doubled
      <4> QED  BY <1>2, <1>3, <2>3
    <3>2. PICK s \in DOMAIN Slots[Current.name] : Slot(Current, s, records) = Nothing
      BY <3>1 DEF Coerces
    <3>3. /\ Slots[Current.name][s] \notin Optional
          /\ s \in DOMAIN Current.args =>
               /\ IsRef(Current.args[s])
               /\ Extract(Current.args[s].n, Slots[Current.name][s], records) = Nothing
      BY <1>1, <3>2, SlotEmpty
    <3>4. ASSUME s \in DOMAIN Current.args, Usable(records, n + 1, Current.args[s].n)
          PROVE  Doubled(records, n + 1, Current.args[s].n)
      <4>1. PICK h \in 1 .. n :
              /\ records[h].step.idx = Current.args[s].n /\ records[h].result = "ok"
              /\ records[h].step.name \notin {"search_local_index", "search_subnet"}
        BY <1>2, <3>4
      <4>2. \E k \in 1 .. n : k # h /\ records[k].step.idx = Current.args[s].n
        BY <1>1, <3>3, <3>4, <4>1, ExtractEmpty DEF n
      <4> QED  BY <1>2, <4>1, <4>2
    <3> HIDE DEF Usable, Doubled
    <3> QED  BY <3>3, <3>4
  <2> HIDE DEF Explained
  <2> QED  BY <1>2, <2>2, <2>4, <2>5
<1> QED  BY <1>2, <1>4, <1>5, <1>6 DEF IInv

-----------------------------------------------------------------------------
LEMMA InitInv == Init => IInv
<1> SUFFICES ASSUME Init PROVE IInv
  OBVIOUS
<1>1. records = <<>> /\ records \in Seq({})
  BY DEF Init
<1>2. RecordsAreASeq
  BY <1>1 DEF RecordsAreASeq
<1>3. Origins /\ RefsPointBack /\ FailuresSpreadByReference
  BY <1>1 DEF Origins, RefsPointBack, FailuresSpreadByReference
<1> QED  BY <1>2, <1>3 DEF IInv

LEMMA StepRunsInv == IInv /\ StepRuns => IInv'
<1> SUFFICES ASSUME IInv, StepRuns PROVE IInv'
  OBVIOUS
<1> DEFINE args == CoerceArgs(Current, records)
<1>1. PICK result \in Ends(Current, args) : Push(args, result)
  BY DEF StepRuns
<1>2. PICK R : records \in Seq(R)
  BY DEF IInv, RecordsAreASeq
<1>3. result # "coercion"
  <2>1. Current.name \in Tools
    BY DEF StepRuns, Coerces
  <2>2. Tools = {"search_subnet", "search_local_index", "fetch_page", "extract_content",
                 "scan_security", "crawl_index"}
    BY DEF Tools, Slots
  <2> QED  BY <1>1, <2>1, <2>2 DEF Ends, SearchLocalIndex, SearchSubnet, FetchPage, CrawlIndex,
                                    ExtractContent, ScanSecurity
<1>4. \A s \in DOMAIN args : args[s] = Slot(Current, s, records)
  BY DEF CoerceArgs
<1> HIDE DEF args
<1>5. ASSUME NEW s \in DOMAIN args
      PROVE  /\ args[s].from \in 0 .. Len(records)
             /\ args[s].from # 0 =>
                  /\ records[args[s].from].result = "ok"
                  /\ IsRef(Current.args[s])
                  /\ records[args[s].from].step.idx = Current.args[s].n
                  /\ \A h \in 1 .. args[s].from - 1 : records[h].step.idx # Current.args[s].n
  <2>1. CASE args[s].from = 0
    BY <2>1, <1>2
  <2>2. CASE args[s].from # 0
    BY <2>2, <1>2, <1>4, SlotOrigin
  <2> QED  BY <2>1, <2>2
<1> QED  BY <1>1, <1>3, <1>5, PushInv

LEMMA NextInv == IInv /\ [Next]_vars => IInv'
<1> SUFFICES ASSUME IInv, [Next]_vars PROVE IInv'
  OBVIOUS
<1>1. CASE StepJoin
  <2>1. Push(<<>>, "join")
    BY <1>1 DEF StepJoin
  <2> QED  BY <2>1, PushInv
<1>2. CASE StepMiscoerces
  <2>1. Push(<<>>, "coercion") /\ ~Coerces(Current, records)
    BY <1>2 DEF StepMiscoerces
  <2> QED  BY <2>1, PushInv
<1>3. CASE StepRuns
  BY <1>3, StepRunsInv
<1>4. CASE UNCHANGED records
  BY <1>4 DEF IInv, RecordsAreASeq, Origins, RefsPointBack, FailuresSpreadByReference
<1>5. StepJoin \/ StepMiscoerces \/ StepRuns \/ UNCHANGED records
  BY DEF Next, Execute, Join, PlannerFails, Plan, StepPanics, BeginJoin, ScratchpadPanics,
     Answer, JoinnerFails, vars
<1> QED  BY <1>1, <1>2, <1>3, <1>4, <1>5

(* What a tool gets out of an observation comes from the first earlier     *)
(* step of the number its argument names, which succeeded                  *)
(* (executor.rs:203-206, 272-287).                                         *)
THEOREM RefsAlwaysPointBack == Spec => []RefsPointBack
<1>1. IInv => RefsPointBack
  BY DEF IInv
<1> QED  BY InitInv, NextInv, <1>1, PTL DEF Spec

(* A step that could not be run is explained by its own line or by the     *)
(* step it refers to (executor.rs:70-73).                                  *)
THEOREM FailuresAreExplained == Spec => []FailuresSpreadByReference
<1>1. IInv => FailuresSpreadByReference
  BY DEF IInv
<1> QED  BY InitInv, NextInv, <1>1, PTL DEF Spec

-----------------------------------------------------------------------------
(* The recursive function that Kept chooses exists.                       *)
LEMMA KeptDefined ==
  ASSUME NEW s, Len(s) \in Nat, NEW K
  PROVE  \E f : /\ Kept(s, K) = f[Len(s)]
                /\ f[0] = <<>>
                /\ \A i \in 1 .. Len(s) :
                     f[i] = IF i \in K THEN Append(f[i - 1], s[i]) ELSE f[i - 1]
<1> DEFINE Body(f, n) == [i \in 0 .. n |->
                            IF i = 0 THEN <<>>
                            ELSE IF i \in K THEN Append(f[i - 1], s[i])
                            ELSE f[i - 1]]
           Defined == {n \in Nat : \E f : f = Body(f, n)}
<1>1. [i \in 0 .. 0 |-> <<>>] = Body([i \in 0 .. 0 |-> <<>>], 0)
  OBVIOUS
<1>2. ASSUME NEW n \in Nat, NEW f, f = Body(f, n)
      PROVE  \E g : g = Body(g, n + 1)
  <2> DEFINE g == [i \in 0 .. n + 1 |->
                     IF i <= n THEN f[i]
                     ELSE IF n + 1 \in K THEN Append(f[n], s[n + 1]) ELSE f[n]]
  <2>1. \A i \in 0 .. n : g[i] = f[i] /\ i \in 0 .. n + 1
    OBVIOUS
  <2>2. ASSUME NEW i \in 0 .. n
        PROVE  f[i] = IF i = 0 THEN <<>>
                      ELSE IF i \in K THEN Append(f[i - 1], s[i]) ELSE f[i - 1]
    BY <1>2
  <2>3. g[n + 1] = IF n + 1 \in K THEN Append(f[n], s[n + 1]) ELSE f[n]
    OBVIOUS
  <2>4. g = [i \in 0 .. n + 1 |-> g[i]]
    OBVIOUS
  <2> HIDE DEF g
  <2>5. ASSUME NEW i \in 0 .. n + 1
        PROVE  g[i] = IF i = 0 THEN <<>>
                      ELSE IF i \in K THEN Append(g[i - 1], s[i]) ELSE g[i - 1]
    <3>1. CASE i = 0
      BY <3>1, <2>1, <2>2
    <3>2. CASE i \in 1 .. n
      <4>1. i \in 0 .. n /\ i - 1 \in 0 .. n
        BY <3>2
      <4> QED  BY <4>1, <2>1, <2>2
    <3>3. CASE i = n + 1
      <4>1. n \in 0 .. n /\ i - 1 = n /\ i # 0
        BY <3>3
      <4> QED  BY <4>1, <3>3, <2>1, <2>3
    <3> QED  BY <3>1, <3>2, <3>3
  <2>6. g = Body(g, n + 1)
    BY <2>4, <2>5
  <2> HIDE DEF Body
  <2> QED  BY <2>6
<1> HIDE DEF Body
<1>3. 0 \in Defined
  BY <1>1
<1>4. \A n \in 0 .. Len(s) - 1 : n \in Defined => n + 1 \in Defined
  BY <1>2
<1> HIDE DEF Defined
<1>5. \A n \in 0 .. Len(s) : n \in Defined
  BY <1>3, <1>4, Climb
<1>6. Len(s) \in Defined
  BY <1>5
<1>7. PICK f : f = Body(f, Len(s))
  BY <1>6 DEF Defined
<1> DEFINE upto[i \in 0 .. Len(s)] ==
             IF i = 0 THEN <<>>
             ELSE IF i \in K THEN Append(upto[i - 1], s[i])
             ELSE upto[i - 1]
<1> USE DEF Body
<1>8. upto = Body(upto, Len(s))
  BY <1>7
<1>9. Kept(s, K) = upto[Len(s)]
  BY DEF Kept
<1> HIDE DEF upto
<1>10. upto[0] = <<>>
  <2>1. 0 \in 0 .. Len(s)
    OBVIOUS
  <2> QED  BY <1>8, <2>1
<1>11. ASSUME NEW i \in 1 .. Len(s)
       PROVE  upto[i] = IF i \in K THEN Append(upto[i - 1], s[i]) ELSE upto[i - 1]
  <2>1. i \in 0 .. Len(s) /\ i # 0
    OBVIOUS
  <2> QED  BY <1>8, <2>1
<1> QED  BY <1>9, <1>10, <1>11

(* Each element kept stands at a position of K, and a position of K stands *)
(* after it unless it is the last kept.                                    *)
LEMMA KeptElements ==
  ASSUME NEW S, NEW s \in Seq(S), NEW K
  PROVE  /\ Kept(s, K) \in Seq(S)
         /\ \A j \in 1 .. Len(Kept(s, K)) : \E k \in K \cap (1 .. Len(s)) :
              /\ Kept(s, K)[j] = s[k]
              /\ j < Len(Kept(s, K)) => \E l \in K \cap (1 .. Len(s)) : k < l
<1>1. PICK f : /\ Kept(s, K) = f[Len(s)]
               /\ f[0] = <<>>
               /\ \A i \in 1 .. Len(s) :
                    f[i] = IF i \in K THEN Append(f[i - 1], s[i]) ELSE f[i - 1]
  BY KeptDefined
<1> DEFINE Good(t, i) ==
             /\ t \in Seq(S)
             /\ \A j \in 1 .. Len(t) : \E k \in K \cap (1 .. i) :
                  /\ t[j] = s[k]
                  /\ j < Len(t) => \E l \in K \cap (1 .. i) : k < l
           P == {i \in Nat : Good(f[i], i)}
<1>2. Good(<<>>, 0)
  OBVIOUS
<1>3. ASSUME NEW i \in 0 .. Len(s) - 1, Good(f[i], i)
      PROVE  Good(f[i + 1], i + 1)
  <2>1. i + 1 \in 1 .. Len(s) /\ i \in Nat /\ (i + 1) - 1 = i
    OBVIOUS
  <2>2. f[i + 1] = IF i + 1 \in K THEN Append(f[i], s[i + 1]) ELSE f[i]
    BY <1>1, <2>1
  <2>3. \A k \in K \cap (1 .. i) : k \in K \cap (1 .. i + 1) /\ k < i + 1
    BY <2>1
  <2>4. CASE i + 1 \notin K
    BY <2>2, <2>4, <2>3, <1>3
  <2>5. CASE i + 1 \in K
    <3> DEFINE t == Append(f[i], s[i + 1])
               n == Len(f[i])
    <3>1. s[i + 1] \in S
      BY <2>1
    <3>2. /\ t \in Seq(S) /\ Len(t) = n + 1 /\ n \in Nat
          /\ \A j \in 1 .. n : t[j] = f[i][j]
          /\ t[n + 1] = s[i + 1]
      BY <1>3, <3>1
    <3> HIDE DEF t
    <3>3. i + 1 \in K \cap (1 .. i + 1)
      BY <2>5, <2>1
    <3>4. ASSUME NEW j \in 1 .. n
          PROVE  \E k \in K \cap (1 .. i + 1) :
                   t[j] = s[k] /\ \E l \in K \cap (1 .. i + 1) : k < l
      <4>1. PICK k \in K \cap (1 .. i) : f[i][j] = s[k]
        BY <1>3
      <4> QED  BY <4>1, <3>2, <3>3, <2>3
    <3>5. \A j \in 1 .. n + 1 : j \in 1 .. n \/ (j = n + 1 /\ ~(j < n + 1))
      BY <3>2
    <3>6. Good(t, i + 1)
      <4>1. ASSUME NEW j \in 1 .. Len(t)
            PROVE  \E k \in K \cap (1 .. i + 1) :
                     /\ t[j] = s[k]
                     /\ j < Len(t) => \E l \in K \cap (1 .. i + 1) : k < l
        <5> HIDE DEF n
        <5>1. CASE j \in 1 .. n
          BY <5>1, <3>4
        <5>2. CASE j = n + 1 /\ ~(j < n + 1)
          BY <5>2, <3>2, <3>3
        <5> QED  BY <5>1, <5>2, <3>2, <3>5
      <4> QED  BY <4>1, <3>2
    <3>7. f[i + 1] = t
      BY <2>2, <2>5 DEF t
    <3> HIDE DEF Good
    <3> QED  BY <3>6, <3>7
  <2> QED  BY <2>4, <2>5
<1> HIDE DEF Good
<1>4. 0 \in P
  BY <1>1, <1>2
<1>5. \A i \in 0 .. Len(s) - 1 : i \in P => i + 1 \in P
  BY <1>3
<1>6. Len(s) \in Nat /\ Len(s) \in 0 .. Len(s)
  OBVIOUS
<1> HIDE DEF P
<1>7. Len(s) \in P
  <2>1. \A i \in 0 .. Len(s) : i \in P
    BY <1>4, <1>5, <1>6, Climb
  <2> QED  BY <1>6, <2>1
<1> QED  BY <1>1, <1>7 DEF P, Good

(* The first m positions keep the first m elements.                        *)
LEMMA KeptPrefix ==
  ASSUME NEW S, NEW s \in Seq(S), NEW m \in 0 .. Len(s), NEW K,
         \A i \in 1 .. Len(s) : i \in K <=> i <= m
  PROVE  /\ Kept(s, K) \in Seq(S)
         /\ Len(Kept(s, K)) = m
         /\ \A j \in 1 .. m : Kept(s, K)[j] = s[j]
<1>1. PICK f : /\ Kept(s, K) = f[Len(s)]
               /\ f[0] = <<>>
               /\ \A i \in 1 .. Len(s) :
                    f[i] = IF i \in K THEN Append(f[i - 1], s[i]) ELSE f[i - 1]
  BY KeptDefined
<1> DEFINE Good(t, i) ==
             /\ t \in Seq(S)
             /\ Len(t) = IF i <= m THEN i ELSE m
             /\ \A j \in 1 .. Len(t) : t[j] = s[j]
           P == {i \in Nat : Good(f[i], i)}
<1>2. Good(<<>>, 0)
  OBVIOUS
<1>3. ASSUME NEW i \in 0 .. Len(s) - 1, Good(f[i], i)
      PROVE  Good(f[i + 1], i + 1)
  <2>1. /\ i + 1 \in 1 .. Len(s) /\ i \in Nat /\ (i + 1) - 1 = i
        /\ m \in Nat
    OBVIOUS
  <2>2. f[i + 1] = IF i + 1 <= m THEN Append(f[i], s[i + 1]) ELSE f[i]
    BY <1>1, <2>1
  <2>3. CASE ~(i + 1 <= m)
    BY <2>1, <2>2, <2>3, <1>3
  <2>4. CASE i + 1 <= m
    <3> DEFINE t == Append(f[i], s[i + 1])
    <3>1. s[i + 1] \in S /\ f[i] \in Seq(S) /\ Len(f[i]) = i
      BY <2>1, <2>4, <1>3
    <3>2. /\ t \in Seq(S) /\ Len(t) = i + 1
          /\ \A j \in 1 .. i : t[j] = f[i][j]
          /\ t[i + 1] = s[i + 1]
      BY <3>1
    <3> HIDE DEF t
    <3>3. \A j \in 1 .. i + 1 : j \in 1 .. i \/ j = i + 1
      BY <2>1
    <3>4. \A j \in 1 .. i : f[i][j] = s[j]
      BY <3>1, <1>3
    <3>5. Good(t, i + 1)
      BY <2>4, <3>2, <3>3, <3>4
    <3>6. f[i + 1] = t
      BY <2>2, <2>4 DEF t
    <3> HIDE DEF Good
    <3> QED  BY <3>5, <3>6
  <2> QED  BY <2>3, <2>4
<1> HIDE DEF Good
<1>4. 0 \in P
  BY <1>1, <1>2
<1>5. \A i \in 0 .. Len(s) - 1 : i \in P => i + 1 \in P
  BY <1>3
<1>6. Len(s) \in Nat /\ Len(s) \in 0 .. Len(s)
  OBVIOUS
<1> HIDE DEF P
<1>7. Len(s) \in P
  <2>1. \A i \in 0 .. Len(s) : i \in P
    BY <1>4, <1>5, <1>6, Climb
  <2> QED  BY <1>6, <2>1
<1> QED  BY <1>1, <1>6, <1>7 DEF P, Good

-----------------------------------------------------------------------------
(* What EveryStepAccounted rests on: a plan has no step after a join, and  *)
(* a record says "join" of a join and of nothing else.                     *)
JoinEnds == \A i \in DOMAIN plan : IsJoin(plan[i]) => i = Len(plan)

JoinsRecorded ==
  \A i \in DOMAIN records : records[i].result = "join" <=> IsJoin(records[i].step)

OneByOne ==
  /\ Len(records) <= Len(plan)
  /\ phase = "planning" => records = <<>>

AInv == TypeOK /\ JoinEnds /\ JoinsRecorded /\ OneByOne /\ EveryStepAccounted

LEMMA ParsePlanEndsInJoin ==
  ASSUME NEW lines \in Seq(Lines)
  PROVE  /\ ParsePlan(lines) \in Seq(Lines)
         /\ \A i \in DOMAIN ParsePlan(lines) :
              IsJoin(ParsePlan(lines)[i]) => i = Len(ParsePlan(lines))
<1> DEFINE steps == {i \in DOMAIN lines : ~Skipped(lines[i])}
           K == {i \in steps : \A h \in steps : IsJoin(lines[h]) => i <= h}
           p == ParsePlan(lines)
<1>1. p = Kept(lines, K)
  BY DEF ParsePlan
<1>2. \A k, l \in K : IsJoin(lines[k]) => ~(k < l)
  OBVIOUS
<1> HIDE DEF K, p
<1>3. /\ p \in Seq(Lines)
      /\ \A j \in 1 .. Len(p) : \E k \in K \cap (1 .. Len(lines)) :
           /\ p[j] = lines[k]
           /\ j < Len(p) => \E l \in K \cap (1 .. Len(lines)) : k < l
  BY <1>1, KeptElements
<1>4. ASSUME NEW j \in 1 .. Len(p), IsJoin(p[j])
      PROVE  j = Len(p)
  <2>1. PICK k \in K \cap (1 .. Len(lines)) :
          /\ p[j] = lines[k]
          /\ j < Len(p) => \E l \in K \cap (1 .. Len(lines)) : k < l
    BY <1>3
  <2>2. ~(j < Len(p))
    BY <2>1, <1>2, <1>4
  <2> QED  BY <2>2, <1>3
<1> QED  BY <1>3, <1>4 DEF p

-----------------------------------------------------------------------------
LEMMA SlotType ==
  ASSUME NEW R, NEW prior \in Seq(R), NEW step, NEW s
  PROVE  Slot(step, s, prior) \in Values
<1>1. \A w \in Wholes \cup Parts, from \in Nat : Value(w, from) \in Values
  BY DEF Value, Values
<1>2. \A w \in Wholes : Value(w, 0) \in Values
  BY <1>1
<1>3. Nothing \in Values /\ Value("text", 0) \in Values /\ Value("default", 0) \in Values
  BY <1>2 DEF Nothing, Wholes
<1>4. ASSUME NEW n, NEW field
      PROVE  Extract(n, field, prior) \in Values
  <2>1. CASE Numbered(n, prior) = {}
    BY <2>1, <1>3 DEF Extract
  <2>2. CASE Numbered(n, prior) # {}
    <3>1. Producer(n, prior) \in Nat
      BY <2>2, ProducerIsFirst
    <3>2. \A tool : Part(tool, field) \in Wholes \cup Parts
      BY DEF Part, Wholes, Parts
    <3> QED  BY <2>2, <3>1, <3>2, <1>1, <1>3 DEF Extract
  <2> QED  BY <2>1, <2>2
<1>5. ASSUME NEW arg
      PROVE  Count(arg) \in Values
  BY <1>2 DEF Count, Wholes
<1>6. \A arg, field : Resolve(arg, field, prior) \in Values
  BY <1>3, <1>4, <1>5 DEF Resolve
<1> QED  BY <1>3, <1>6 DEF Slot

LEMMA CoerceArgsType ==
  ASSUME NEW R, NEW prior \in Seq(R), NEW step, step.name \in Tools
  PROVE  CoerceArgs(step, prior) \in Seq(Values)
<1>1. \E k \in Nat : DOMAIN Slots[step.name] = 1 .. k
  <2>1. step.name \in {"search_subnet", "search_local_index", "fetch_page", "extract_content",
                       "scan_security", "crawl_index"}
    BY DEF Tools, Slots
  <2>2. \A a, b : DOMAIN <<a>> = 1 .. 1 /\ DOMAIN <<a, b>> = 1 .. 2
    OBVIOUS
  <2>3. \A tool \in {"fetch_page", "crawl_index"} : \E a : Slots[tool] = <<a>>
    BY DEF Slots
  <2>4. \A tool \in {"search_subnet", "search_local_index", "extract_content", "scan_security"} :
          \E a, b : Slots[tool] = <<a, b>>
    BY DEF Slots
  <2>5. \E a, b : Slots[step.name] = <<a>> \/ Slots[step.name] = <<a, b>>
    BY <2>1, <2>3, <2>4
  <2> QED  BY <2>2, <2>5
<1>2. PICK k \in Nat : DOMAIN Slots[step.name] = 1 .. k
  BY <1>1
<1>3. \A s \in 1 .. k : Slot(step, s, prior) \in Values
  BY SlotType
<1>4. CoerceArgs(step, prior) = [s \in 1 .. k |-> Slot(step, s, prior)]
  BY <1>2 DEF CoerceArgs
<1> QED  BY <1>3, <1>4

(* What a tool is handed is of a kind its argument takes.                  *)
LEMMA SlotFits ==
  ASSUME NEW R, NEW prior \in Seq(R), NEW step, step.name \in Tools,
         NEW s \in DOMAIN Slots[step.name], Slot(step, s, prior) # Nothing
  PROVE  Slot(step, s, prior).what \in Takes(Slots[step.name][s])
<1> DEFINE field == Slots[step.name][s]
           Fields == {"query", "scope", "top_k", "url", "html", "format", "source"}
<1>1. field \in Fields
  <2>1. step.name \in {"search_subnet", "search_local_index", "fetch_page", "extract_content",
                       "scan_security", "crawl_index"}
    BY DEF Tools, Slots
  <2> QED  BY <2>1 DEF Slots
<1> HIDE DEF field
<1>2. \A w, from : Value(w, from).what = w
  BY DEF Value
<1>3. field \in Optional => "default" \in Takes(field)
  BY <1>1 DEF Optional, Takes, Textual
<1>4. field # "top_k" => "text" \in Takes(field)
  BY <1>1 DEF Takes, Textual
<1>5. field = "top_k" => \A arg : Count(arg).what \in Takes(field)
  BY <1>2 DEF Count, Takes
<1>6. ASSUME NEW n, field # "top_k", Extract(n, field, prior) # Nothing
      PROVE  Extract(n, field, prior).what \in Takes(field)
  <2> DEFINE part == Part(prior[Producer(n, prior)].step.name, field)
  <2>1. part # "nothing" /\ Extract(n, field, prior) = Value(part, Producer(n, prior))
    BY <1>6 DEF Extract
  <2>2. \A tool : Part(tool, field) # "nothing" => Part(tool, field) \in Takes(field)
    BY <1>1, <1>6 DEF Part, Takes, Textual
  <2> QED  BY <1>2, <2>1, <2>2
<1>7. ASSUME NEW arg, Resolve(arg, field, prior) # Nothing
      PROVE  Resolve(arg, field, prior).what \in Takes(field)
  BY <1>2, <1>4, <1>5, <1>6, <1>7 DEF Resolve
<1> QED  BY <1>2, <1>3, <1>7 DEF Slot, field

LEMMA CoerceArgsFit ==
  ASSUME NEW R, NEW prior \in Seq(R), NEW step, Coerces(step, prior), NEW result
  PROVE  Fits([step |-> step, args |-> CoerceArgs(step, prior), result |-> result])
           \/ result \notin {"ok", "tool"}
<1>1. \A s \in DOMAIN Slots[step.name] :
        Slot(step, s, prior).what \in Takes(Slots[step.name][s])
  BY SlotFits DEF Coerces
<1> QED  BY <1>1 DEF Fits, CoerceArgs, Coerces

LEMMA RanAll ==
  ASSUME AInv, Done
  PROVE  /\ Ran(records) \in Seq(Record)
         /\ DOMAIN Ran(records) = {i \in DOMAIN plan : ~IsJoin(plan[i])}
         /\ \A i \in DOMAIN Ran(records) : Ran(records)[i] = records[i]
<1> DEFINE K == {i \in DOMAIN records : ~IsJoin(records[i].step)}
           n == Len(records)
           m == IF n # 0 /\ IsJoin(plan[n]) THEN n - 1 ELSE n
<1>1. Ran(records) = Kept(records, K)
  BY DEF Ran
<1>2. /\ records \in Seq(Record) /\ plan \in Seq(Lines) /\ n \in Nat /\ n = Len(plan)
      /\ DOMAIN records = 1 .. n /\ DOMAIN plan = 1 .. n
  BY DEF AInv, TypeOK, Done
<1>3. \A i \in 1 .. n : records[i].step = plan[i] /\ (IsJoin(plan[i]) => i = n)
  BY <1>2 DEF AInv, EveryStepAccounted
<1>4. m \in 0 .. n
  BY <1>2
<1>5. ASSUME NEW i \in 1 .. n
      PROVE  ~IsJoin(plan[i]) <=> i <= m
  <2>1. IsJoin(plan[i]) => i = n
    BY <1>3
  <2>2. CASE i = n
    BY <2>2, <1>2
  <2>3. CASE i # n
    <3>1. ~IsJoin(plan[i])
      BY <2>1, <2>3
    <3>2. n \in Nat
      BY <1>2
    <3>3. m = n - 1 \/ m = n
      OBVIOUS
    <3> HIDE DEF n, m
    <3>4. i <= n - 1
      BY <2>3, <3>2
    <3> QED  BY <3>1, <3>2, <3>3, <3>4
  <2> QED  BY <2>2, <2>3
<1>6. \A i \in 1 .. n : i \in K <=> i <= m
  BY <1>2, <1>3, <1>5
<1> HIDE DEF m, K
<1>7. /\ Kept(records, K) \in Seq(Record)
      /\ Len(Kept(records, K)) = m
      /\ \A j \in 1 .. m : Kept(records, K)[j] = records[j]
  BY <1>2, <1>4, <1>6, KeptPrefix
<1>8. 1 .. m = {i \in DOMAIN plan : ~IsJoin(plan[i])}
  BY <1>2, <1>4, <1>5
<1> QED  BY <1>1, <1>7, <1>8

-----------------------------------------------------------------------------
LEMMA AInvInit == Init => AInv
<1> SUFFICES ASSUME Init PROVE AInv
  OBVIOUS
<1>1. TypeOK
  BY DEF Init, TypeOK, Phases
<1>2. JoinEnds /\ JoinsRecorded /\ OneByOne /\ EveryStepAccounted
  BY DEF Init, JoinEnds, JoinsRecorded, OneByOne, EveryStepAccounted
<1> QED  BY <1>1, <1>2 DEF AInv

(* One more record, of the step at hand.                                   *)
LEMMA PushAccounts ==
  ASSUME AInv, More, NEW args \in Seq(Values), NEW result \in Results, Push(args, result),
         result = "join" <=> IsJoin(Current),
         Fits([step |-> Current, args |-> args, result |-> result])
  PROVE  AInv'
<1> DEFINE n == Len(records)
           new == [step |-> Current, args |-> args, result |-> result]
<1>1. /\ records \in Seq(Record) /\ plan \in Seq(Lines) /\ n \in Nat /\ Len(plan) \in Nat
      /\ n < Len(plan) /\ phase = "executing"
  BY DEF AInv, TypeOK, More
<1>2. Current \in Lines /\ n + 1 \in 1 .. Len(plan)
  BY <1>1 DEF Current
<1>3. new \in Record
  BY <1>2 DEF Record
<1>4. records' = Append(records, new) /\ UNCHANGED <<phase, text, plan, scratch, reply>>
  BY DEF Push
<1>5. new.step = plan[n + 1] /\ (new.result = "join" <=> IsJoin(new.step))
  BY DEF Current
<1>6. Fits(new)
  OBVIOUS
<1> HIDE DEF new
<1>7. /\ records' \in Seq(Record) /\ Len(records') = n + 1
      /\ \A i \in 1 .. n : records'[i] = records[i]
      /\ records'[n + 1] = new
  BY <1>1, <1>3, <1>4
<1>8. /\ DOMAIN records' = 1 .. n + 1 /\ DOMAIN records = 1 .. n /\ DOMAIN plan = 1 .. Len(plan)
      /\ \A i \in 1 .. n + 1 : i \in 1 .. n \/ i = n + 1
  BY <1>1, <1>7
<1> HIDE DEF n
<1>9. TypeOK'
  <2>1. \A i \in DOMAIN records' : Fits(records'[i])
    BY <1>7, <1>8, <1>6 DEF AInv, TypeOK
  <2> QED  BY <1>4, <1>7, <2>1 DEF AInv, TypeOK
<1>10. JoinEnds'
  BY <1>4 DEF AInv, JoinEnds
<1>11. JoinsRecorded'
  BY <1>5, <1>7, <1>8 DEF AInv, JoinsRecorded
<1>12. OneByOne'
  BY <1>1, <1>4, <1>7 DEF OneByOne
<1>13. EveryStepAccounted'
  <2>1. \A i \in DOMAIN records' : records'[i].step = plan'[i]
    BY <1>4, <1>5, <1>7, <1>8 DEF AInv, EveryStepAccounted
  <2>2. \A i \in DOMAIN records' : IsJoin(records'[i].step) => i = Len(plan')
    <3>1. \A i \in DOMAIN records' : i \in DOMAIN plan
      BY <1>1, <1>8
    <3> QED  BY <2>1, <3>1, <1>4 DEF AInv, JoinEnds
  <2> QED  BY <2>1, <2>2, <1>1, <1>4 DEF EveryStepAccounted
<1> QED  BY <1>9, <1>10, <1>11, <1>12, <1>13 DEF AInv

LEMMA PlanAccounts == AInv /\ Plan => AInv'
<1> SUFFICES ASSUME AInv, Plan PROVE AInv'
  OBVIOUS
<1>1. PICK k \in 0 .. MaxLines : text' \in [1 .. k -> Lines]
  BY DEF Plan, Texts
<1>2. text' \in Seq(Lines)
  BY <1>1, BoundsAssumption
<1>3. /\ plan' \in Seq(Lines)
      /\ \A i \in DOMAIN plan' : IsJoin(plan'[i]) => i = Len(plan')
  BY <1>2, ParsePlanEndsInJoin DEF Plan
<1>4. records = <<>> /\ records' = <<>> /\ phase' = "executing" /\ UNCHANGED <<scratch, reply>>
  BY DEF AInv, OneByOne, Plan
<1>5. TypeOK'
  BY <1>2, <1>3, <1>4 DEF AInv, TypeOK, Phases
<1>6. JoinEnds' /\ JoinsRecorded' /\ EveryStepAccounted'
  BY <1>3, <1>4 DEF JoinEnds, JoinsRecorded, EveryStepAccounted
<1>7. OneByOne'
  BY <1>3, <1>4 DEF OneByOne
<1> QED  BY <1>5, <1>6, <1>7 DEF AInv

LEMMA BeginJoinAccounts == AInv /\ BeginJoin => AInv'
<1> SUFFICES ASSUME AInv, BeginJoin PROVE AInv'
  OBVIOUS
<1> DEFINE shown == Ran(records)
<1>1. /\ shown \in Seq(Record)
      /\ DOMAIN shown = {i \in DOMAIN plan : ~IsJoin(plan[i])}
      /\ \A i \in DOMAIN shown : shown[i] = records[i]
  BY RanAll DEF BeginJoin
<1>2. /\ scratch' = [i \in DOMAIN shown |->
                      [step |-> shown[i].step,
                       shows |-> IF shown[i].result = "ok" THEN "observation" ELSE "error"]]
      /\ phase' = "joining" /\ UNCHANGED <<text, plan, records, reply>>
  BY DEF BeginJoin, BuildScratchpad
<1>3. /\ plan \in Seq(Lines) /\ records \in Seq(Record) /\ Len(records) = Len(plan)
      /\ DOMAIN records = DOMAIN plan
  BY DEF AInv, TypeOK, BeginJoin, Done
<1> HIDE DEF shown
<1>4. \A i \in DOMAIN shown : shown[i].step \in Lines
  <2>1. \A i \in DOMAIN shown : shown[i] \in Record
    BY <1>1
  <2> QED  BY <2>1 DEF Record
<1>5. scratch' \in Seq([step : Lines, shows : {"observation", "error"}])
  <2>1. Len(shown) \in Nat /\ DOMAIN shown = 1 .. Len(shown)
    <3>1. shown \in Seq(Record)
      BY <1>1
    <3> QED  BY <3>1
  <2> QED  BY <1>2, <1>4, <2>1
<1>6. TypeOK'
  BY <1>2, <1>5 DEF AInv, TypeOK, Phases
<1>7. JoinEnds' /\ JoinsRecorded' /\ OneByOne'
  BY <1>2 DEF AInv, JoinEnds, JoinsRecorded, OneByOne
<1>8. EveryStepAccounted'
  <2>1. /\ \A i \in DOMAIN records' : records'[i].step = plan'[i]
        /\ \A i \in DOMAIN records' : IsJoin(records'[i].step) => i = Len(plan')
    BY <1>2 DEF AInv, EveryStepAccounted
  <2>2. DOMAIN scratch' = {i \in DOMAIN plan' : ~IsJoin(plan'[i])}
    BY <1>1, <1>2
  <2>3. ASSUME NEW i \in DOMAIN scratch'
        PROVE  /\ scratch'[i].step = plan'[i]
               /\ (scratch'[i].shows = "observation") = (records'[i].result = "ok")
    <3>1. i \in DOMAIN shown /\ i \in DOMAIN records /\ shown[i] = records[i]
      BY <1>1, <1>2, <1>3, <2>3
    <3>2. scratch'[i] = [step |-> records[i].step,
                         shows |-> IF records[i].result = "ok" THEN "observation" ELSE "error"]
      BY <1>2, <3>1
    <3> QED  BY <1>2, <2>1, <3>1, <3>2
  <2> QED  BY <2>1, <2>2, <2>3, <1>2, <1>3 DEF EveryStepAccounted
<1> QED  BY <1>6, <1>7, <1>8 DEF AInv

LEMMA AnswerAccounts == AInv /\ Answer => AInv'
<1> SUFFICES ASSUME AInv, Answer PROVE AInv'
  OBVIOUS
<1>1. /\ phase = "joining" /\ phase' = "answered"
      /\ reply' = [i \in DOMAIN records |-> Wire(records[i])]
      /\ UNCHANGED <<text, plan, records, scratch>>
  BY DEF Answer
<1>2. /\ records \in Seq(Record) /\ Len(records) = Len(plan) /\ Len(records) \in Nat
      /\ DOMAIN records = 1 .. Len(records)
  BY <1>1 DEF AInv, TypeOK, EveryStepAccounted
<1>3. ASSUME NEW i \in DOMAIN records
      PROVE  Wire(records[i]) \in [idx : Nat, tool : STRING, observed : BOOLEAN,
                                   failed : BOOLEAN, is_join : BOOLEAN]
  <2>1. records[i] \in Record
    BY <1>2
  <2>2. records[i].step.idx \in Nat /\ records[i].step.name \in STRING
    BY <2>1, LinesAssumption DEF Record
  <2> QED  BY <2>2 DEF Wire, IsJoin
<1>4. TypeOK'
  <2>1. reply' \in Seq([idx : Nat, tool : STRING, observed : BOOLEAN,
                        failed : BOOLEAN, is_join : BOOLEAN])
    BY <1>1, <1>2, <1>3
  <2> QED  BY <1>1, <2>1 DEF AInv, TypeOK, Phases
<1>5. JoinEnds' /\ JoinsRecorded' /\ OneByOne'
  BY <1>1 DEF AInv, JoinEnds, JoinsRecorded, OneByOne
<1>6. EveryStepAccounted'
  <2>1. Len(reply') = Len(plan')
    BY <1>1, <1>2
  <2>2. ASSUME NEW i \in DOMAIN reply'
        PROVE  /\ reply'[i].observed = (records'[i].result = "ok")
               /\ reply'[i].is_join <=> ~reply'[i].observed /\ ~reply'[i].failed
    <3>1. i \in DOMAIN records /\ reply'[i] = Wire(records[i])
      BY <1>1, <2>2
    <3>2. records[i].result \in {"ok", "coercion", "tool", "join"}
      <4>1. records[i] \in Record
        BY <1>2, <3>1
      <4> QED  BY <4>1 DEF Record, Results
    <3>3. records[i].result = "join" <=> IsJoin(records[i].step)
      BY <3>1 DEF AInv, JoinsRecorded
    <3> QED  BY <1>1, <3>1, <3>2, <3>3 DEF Wire
  <2> QED  BY <2>1, <2>2, <1>1 DEF AInv, EveryStepAccounted
<1> QED  BY <1>4, <1>5, <1>6 DEF AInv

LEMMA StepAccounts == AInv /\ [Next]_vars => AInv'
<1> SUFFICES ASSUME AInv, [Next]_vars PROVE AInv'
  OBVIOUS
<1>1. CASE Plan
  BY <1>1, PlanAccounts
<1>2. CASE StepJoin
  <2>1. More /\ Push(<<>>, "join") /\ IsJoin(Current)
    BY <1>2 DEF StepJoin
  <2>2. /\ <<>> \in Seq(Values) /\ "join" \in Results
        /\ Fits([step |-> Current, args |-> <<>>, result |-> "join"])
    BY DEF Results, Fits
  <2> QED  BY <2>1, <2>2, PushAccounts
<1>3. CASE StepMiscoerces
  <2>1. More /\ Push(<<>>, "coercion") /\ ~IsJoin(Current)
    BY <1>3 DEF StepMiscoerces
  <2>2. /\ <<>> \in Seq(Values) /\ "coercion" \in Results
        /\ Fits([step |-> Current, args |-> <<>>, result |-> "coercion"])
    BY DEF Results, Fits
  <2> QED  BY <2>1, <2>2, PushAccounts
<1>4. CASE StepRuns
  <2> DEFINE args == CoerceArgs(Current, records)
  <2>1. PICK result \in Ends(Current, args) : Push(args, result)
    BY <1>4 DEF StepRuns
  <2>2. More /\ ~IsJoin(Current) /\ Current.name \in Tools
    BY <1>4 DEF StepRuns, Coerces
  <2>3. Tools = {"search_subnet", "search_local_index", "fetch_page", "extract_content",
                 "scan_security", "crawl_index"}
    BY DEF Tools, Slots
  <2>4. args \in Seq(Values)
    BY <2>2, CoerceArgsType DEF AInv, TypeOK
  <2>5. \/ Fits([step |-> Current, args |-> args, result |-> result])
        \/ result \notin {"ok", "tool"}
    <3>1. Coerces(Current, records)
      BY <1>4 DEF StepRuns
    <3> QED  BY <3>1, CoerceArgsFit DEF AInv, TypeOK
  <2> HIDE DEF args
  <2>6. result \in {"ok", "tool"}
    BY <2>1, <2>2, <2>3 DEF Ends, SearchLocalIndex, SearchSubnet, FetchPage, CrawlIndex,
                            ExtractContent, ScanSecurity
  <2> QED  BY <2>1, <2>2, <2>4, <2>6, <2>5, PushAccounts DEF Results
<1>5. CASE BeginJoin
  BY <1>5, BeginJoinAccounts
<1>6. CASE Answer
  BY <1>6, AnswerAccounts
<1>7. CASE PlannerFails \/ StepPanics \/ ScratchpadPanics \/ JoinnerFails
  <2>1. phase' \in {"failed", "panicked"} /\ UNCHANGED <<text, plan, records, scratch, reply>>
    BY <1>7 DEF PlannerFails, StepPanics, ScratchpadPanics, JoinnerFails
  <2> QED  BY <2>1 DEF AInv, TypeOK, Phases, JoinEnds, JoinsRecorded, OneByOne, EveryStepAccounted
<1>8. CASE UNCHANGED vars
  BY <1>8 DEF vars, AInv, TypeOK, JoinEnds, JoinsRecorded, OneByOne, EveryStepAccounted
<1> QED  BY <1>1, <1>2, <1>3, <1>4, <1>5, <1>6, <1>7, <1>8 DEF Next, Execute, Join

LEMMA Accounting == Spec => []AInv
BY AInvInit, StepAccounts, PTL DEF Spec

(* Records, scratchpad and reply are of the shape the joinner and the      *)
(* client are given, and a tool that ran was handed a value for each of    *)
(* its arguments, of a kind the argument takes (executor.rs:38-68,         *)
(* 143-231, 266-355, agent/mod.rs:283-296).                                *)
THEOREM TypeCorrect == Spec => []TypeOK
<1>1. AInv => TypeOK
  BY DEF AInv
<1> QED  BY Accounting, <1>1, PTL

(* Whatever the planner writes, each step of its plan has one record, in   *)
(* order, and both the joinner and the client are shown it                 *)
(* (executor.rs:70-76, joinner.rs:257-304).                                *)
THEOREM StepsAreAccounted == Spec => []EveryStepAccounted
<1>1. AInv => EveryStepAccounted
  BY DEF AInv
<1> QED  BY Accounting, <1>1, PTL
=============================================================================
