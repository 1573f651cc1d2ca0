------------------------------ MODULE DenProofs ------------------------------
(***************************************************************************)
(* Theorems about Den, for any set of pages and any capacities.            *)
(***************************************************************************)
EXTENDS Den, FiniteSetTheorems, TLAPS

(* The den is finite, in memory and on disk: what Vec::len counts is a     *)
(* number.                                                                 *)
Finite == IsFiniteSet(entries) /\ IsFiniteSet(disk.entries)

IInv == TypeOK /\ OnePerUrl /\ Finite

LEMMA KeptFacts ==
  ASSUME IInv, NEW e
  PROVE  /\ Kept(e) \subseteq entries
         /\ IsFiniteSet(Kept(e))
         /\ \A x \in Kept(e) : x.url # e.url
<1>1. Kept(e) \subseteq entries /\ \A x \in Kept(e) : x.url # e.url
  BY DEF Kept
<1> QED  BY <1>1, FS_Subset DEF IInv, Finite

LEMMA VictimsFacts ==
  ASSUME NEW es, NEW v \in Victims(es)
  PROVE  /\ v \in es
         /\ v.pinned => Unpinned(es) = {}
BY DEF Victims, Oldest, Unpinned

LEMMA CarriedFacts ==
  ASSUME NEW e \in Entries
  PROVE  /\ Carried(e) \in Entries
         /\ Carried(e).url = e.url
         /\ (e.pinned \/ \E x \in entries : x.url = e.url /\ x.pinned)
              => Carried(e).pinned
BY DEF Carried, Entries

LEMMA AddInv ==
  ASSUME IInv, NEW e \in Entries, Add(e), UNCHANGED <<capacity, disk, process>>
  PROVE  IInv'
<1>1. PICK S \in SUBSET Kept(e) : entries' = S \cup {Carried(e)}
  <2>1. CASE Cardinality(Kept(e)) >= capacity
    <3>1. PICK v \in Victims(Kept(e)) : entries' = (Kept(e) \ {v}) \cup {Carried(e)}
      BY <2>1 DEF Add
    <3> QED  BY <3>1
  <2>2. CASE ~(Cardinality(Kept(e)) >= capacity)
    BY <2>2 DEF Add
  <2> QED  BY <2>1, <2>2
<1>2. TypeOK'
  BY <1>1, KeptFacts, CarriedFacts DEF IInv, TypeOK
<1>3. OnePerUrl'
  BY <1>1, KeptFacts, CarriedFacts DEF IInv, OnePerUrl
<1>4. Finite'
  <2>1. IsFiniteSet(S)
    BY KeptFacts, FS_Subset
  <2> QED  BY <1>1, <2>1, FS_AddElement DEF IInv, Finite
<1> QED  BY <1>2, <1>3, <1>4 DEF IInv

LEMMA InitInv == Init => IInv
BY FS_EmptySet, CapacitiesAssumption
   DEF Init, IInv, TypeOK, OnePerUrl, Finite, Absent

LEMMA NextInv == IInv /\ [Next]_vars => IInv'
<1> SUFFICES ASSUME IInv, [Next]_vars PROVE IInv'
  OBVIOUS
<1>1. ASSUME NEW cap \in Capacities, Start(cap) PROVE IInv'
  BY <1>1 DEF Start, IInv, TypeOK, OnePerUrl, Finite
<1>2. ASSUME NEW e \in Entries, AddPage(e) PROVE IInv'
  BY <1>2, AddInv DEF AddPage
<1>3. ASSUME NEW e \in Entries, PinPage(e) PROVE IInv'
  <2>1. [e EXCEPT !.pinned = TRUE] \in Entries
    BY DEF Entries
  <2> QED  BY <1>3, <2>1, AddInv DEF PinPage
<1>4. CASE Save
  BY <1>4, FS_EmptySet
     DEF Save, SaveBegins, SaveEnds, SaveFails, Torn, Whole, IInv, TypeOK, OnePerUrl, Finite
<1>5. CASE Crash
  BY <1>5, FS_EmptySet DEF Crash, IInv, TypeOK, OnePerUrl, Finite
<1>6. CASE UNCHANGED vars
  BY <1>6 DEF vars, IInv, TypeOK, OnePerUrl, Finite
<1> QED  BY <1>1, <1>2, <1>3, <1>4, <1>5, <1>6 DEF Next

LEMMA Inductive == Spec => []IInv
BY InitInv, NextInv, PTL DEF Spec

(* Type correctness of the den and its file (den.rs:48-84, 194-200).       *)
THEOREM TypeCorrect == Spec => []TypeOK
BY Inductive, PTL DEF IInv

(* A page is in the den, and in den.json, at most once (den.rs:247-285).   *)
THEOREM Unique == Spec => []OnePerUrl
BY Inductive, PTL DEF IInv

-----------------------------------------------------------------------------
(***************************************************************************)
(* The action properties.  All are about Add: a restart and a crash        *)
(* are not steps of a running process, and a save leaves the entries.      *)
(***************************************************************************)

(* How an addition changes the den: below capacity nothing leaves, at      *)
(* capacity one victim does.                                               *)
LEMMA AddCases ==
  ASSUME NEW e, Add(e)
  PROVE  \/ /\ ~(Cardinality(Kept(e)) >= capacity)
            /\ entries' = Kept(e) \cup {Carried(e)}
         \/ /\ Cardinality(Kept(e)) >= capacity
            /\ \E v \in Victims(Kept(e)) :
                 entries' = (Kept(e) \ {v}) \cup {Carried(e)}
BY DEF Add

(* One element more, at most.                                              *)
LEMMA OneMore ==
  ASSUME NEW S, IsFiniteSet(S), NEW x
  PROVE  /\ IsFiniteSet(S \cup {x})
         /\ Cardinality(S \cup {x}) \in Nat
         /\ Cardinality(S \cup {x}) <= Cardinality(S) + 1
<1>1. Cardinality(S) \in Nat
  BY FS_CardinalityType
<1>2. /\ IsFiniteSet(S \cup {x})
      /\ \/ Cardinality(S \cup {x}) = Cardinality(S)
         \/ Cardinality(S \cup {x}) = Cardinality(S) + 1
  BY FS_AddElement
<1> QED  BY <1>1, <1>2

LEMMA AddGrows ==
  ASSUME IInv, NEW e \in Entries, Add(e), Cardinality(entries') > Cardinality(entries)
  PROVE  Cardinality(entries') <= capacity
<1> DEFINE K == Kept(e)
<1>1. /\ IsFiniteSet(K) /\ K \subseteq entries
      /\ Cardinality(K) \in Nat /\ Cardinality(entries) \in Nat
      /\ Cardinality(K) <= Cardinality(entries)
  BY KeptFacts, FS_CardinalityType, FS_Subset DEF IInv, Finite
<1>2. capacity \in Nat \ {0}
  BY CapacitiesAssumption DEF IInv, TypeOK
<1>3. CASE ~(Cardinality(K) >= capacity)
  <2>1. entries' = K \cup {Carried(e)}
    BY <1>3, AddCases
  <2>2. Cardinality(entries') \in Nat /\ Cardinality(entries') <= Cardinality(K) + 1
    BY <1>1, <2>1, OneMore
  <2> QED  BY <1>1, <1>2, <1>3, <2>2
<1>4. CASE Cardinality(K) >= capacity
  <2>1. PICK v \in Victims(K) : entries' = (K \ {v}) \cup {Carried(e)}
    BY <1>4, AddCases
  <2>2. v \in K
    BY VictimsFacts
  <2>3. IsFiniteSet(K \ {v}) /\ Cardinality(K \ {v}) = Cardinality(K) - 1
    BY <1>1, <2>2, FS_RemoveElement
  <2>4. /\ Cardinality(entries') \in Nat
        /\ Cardinality(entries') <= Cardinality(K \ {v}) + 1
    BY <2>1, <2>3, OneMore
  <2> QED  BY <1>1, <2>3, <2>4
<1> QED  BY <1>3, <1>4

(* Distinct pinned entries have distinct urls: as many pinned pages as     *)
(* pinned entries.                                                         *)
LEMMA PinnedCount ==
  ASSUME IInv, NEW S \in SUBSET entries, \A x \in S : x.pinned
  PROVE  /\ IsFiniteSet(S) /\ Cardinality(S) \in Nat
         /\ Cardinality(PinnedUrls) \in Nat
         /\ Cardinality(S) <= Cardinality(PinnedUrls)
<1> DEFINE P == {y \in entries : y.pinned}
           f == [x \in P |-> x.url]
           g == [x \in S |-> x.url]
<1>1. IsFiniteSet(S) /\ IsFiniteSet(P)
  BY FS_Subset DEF IInv, Finite
<1>2. f \in Surjection(P, PinnedUrls)
  BY DEF Surjection, PinnedUrls
<1>3. IsFiniteSet(PinnedUrls)
  BY <1>1, <1>2, FS_Surjection
<1>4. g \in Injection(S, PinnedUrls)
  BY DEF Injection, IsInjective, PinnedUrls, IInv, OnePerUrl
<1> QED  BY <1>1, <1>3, <1>4, FS_Injection, FS_CardinalityType

LEMMA AddKeepsPins ==
  ASSUME IInv, NEW e \in Entries, Add(e), NEW u \in PinnedUrls \ PinnedUrls'
  PROVE  /\ Cardinality(PinnedUrls) >= capacity
         /\ e.url # u
         /\ \A x \in Unpinned(entries) : x.url = e.url
         /\ PinnedUrls \ {u} \subseteq PinnedUrls'
<1> DEFINE K == Kept(e)
<1>1. PICK x \in entries : x.pinned /\ x.url = u
  BY DEF PinnedUrls
<1>2. Carried(e) \in entries' /\ Carried(e).url = e.url
  BY AddCases, CarriedFacts
<1>3. \A y \in entries : y.pinned /\ y.url = e.url => y.url \in PinnedUrls'
  BY <1>2, CarriedFacts DEF PinnedUrls
<1>4. x \in K /\ x \notin entries'
  BY <1>1, <1>3 DEF Kept, PinnedUrls
<1>5. Cardinality(K) >= capacity /\ \E v \in Victims(K) :
                                       entries' = (K \ {v}) \cup {Carried(e)}
  BY <1>4, AddCases
<1>6. PICK v \in Victims(K) : entries' = (K \ {v}) \cup {Carried(e)}
  BY <1>5
<1>7. v = x /\ Unpinned(K) = {}
  BY <1>1, <1>4, <1>6, VictimsFacts
<1>8. \A y \in K : y.pinned
  BY <1>7 DEF Unpinned
<1>9. Cardinality(PinnedUrls) >= capacity
  <2>1. capacity \in Nat
    BY CapacitiesAssumption DEF IInv, TypeOK
  <2> QED  BY <1>5, <1>8, <2>1, KeptFacts, PinnedCount
<1>10. \A y \in Unpinned(entries) : y.url = e.url
  BY <1>8 DEF Unpinned, Kept
<1>11. PinnedUrls \ {u} \subseteq PinnedUrls'
  <2> SUFFICES ASSUME NEW y \in entries, y.pinned, y.url # u
               PROVE  y.url \in PinnedUrls'
    BY DEF PinnedUrls
  <2>1. CASE y.url = e.url
    BY <1>3, <2>1
  <2>2. CASE y.url # e.url
    <3>1. y \in entries'
      BY <1>1, <1>6, <1>7, <2>2 DEF Kept
    <3> QED  BY <3>1 DEF PinnedUrls
  <2> QED  BY <2>1, <2>2
<1>12. e.url # u
  BY <1>1, <1>4 DEF Kept
<1> QED  BY <1>9, <1>10, <1>11, <1>12

(* An unpinned page that an addition drives out is its victim, hence the   *)
(* one not fetched for longest among the unpinned that retain leaves.      *)
LEMMA AddEvictsStalest ==
  ASSUME IInv, NEW e \in Entries, Add(e),
         NEW x \in entries, x.url \notin HeldUrls', ~x.pinned,
         NEW y \in Unpinned(entries), y.url # e.url
  PROVE  x.at <= y.at
<1> DEFINE K == Kept(e)
<1>1. Carried(e) \in entries' /\ Carried(e).url = e.url
  BY AddCases, CarriedFacts
<1>2. e.url \in HeldUrls' /\ x \notin entries'
  BY <1>1 DEF HeldUrls
<1>3. x \in Unpinned(K)
  BY <1>2 DEF Kept, Unpinned
<1>4. PICK v \in Victims(K) : entries' = (K \ {v}) \cup {Carried(e)}
  BY <1>2, <1>3, AddCases DEF Unpinned
<1>5. x = v
  BY <1>2, <1>3, <1>4 DEF Unpinned
<1>6. \A z \in Unpinned(K) : x.at <= z.at
  BY <1>3, <1>5 DEF Victims, Oldest
<1>7. y \in Unpinned(K)
  BY DEF Unpinned, Kept
<1> QED  BY <1>6, <1>7

(* To add a page is to run Add for an entry of its url.                    *)
LEMMA AddedAdds ==
  ASSUME NEW e \in Entries, Added(e)
  PROVE  \E d \in Entries : d.url = e.url /\ Add(d)
<1>1. CASE AddPage(e)
  BY <1>1 DEF AddPage
<1>2. CASE PinPage(e)
  <2>1. /\ [e EXCEPT !.pinned = TRUE] \in Entries
        /\ [e EXCEPT !.pinned = TRUE].url = e.url
    BY DEF Entries
  <2> QED  BY <1>2, <2>1 DEF PinPage
<1> QED  BY <1>1, <1>2 DEF Added

(* A step of a running den is an addition, or leaves the entries alone.    *)
LEMMA RunningStep ==
  ASSUME IInv, [Next]_vars, Running
  PROVE  \/ \E e \in Entries : Added(e)
         \/ entries' = entries
BY DEF Next, vars, Running, Start, Added, Save, SaveBegins, SaveEnds, SaveFails,
       Crash

LEMMA StepGrows ==
  IInv /\ [Next]_vars =>
    [Running /\ Cardinality(entries') > Cardinality(entries)
       => Cardinality(entries') <= capacity]_vars
<1> SUFFICES ASSUME IInv, [Next]_vars, Running,
                    Cardinality(entries') > Cardinality(entries)
             PROVE  Cardinality(entries') <= capacity
  OBVIOUS
<1>1. CASE \E e \in Entries : Added(e)
  BY <1>1, AddedAdds, AddGrows
<1>2. CASE entries' = entries
  <2>1. Cardinality(entries) \in Nat
    BY FS_CardinalityType DEF IInv, Finite
  <2> QED  BY <1>2, <2>1
<1> QED  BY <1>1, <1>2, RunningStep

LEMMA StepKeepsPins ==
  IInv /\ [Next]_vars =>
    [Running =>
       \A u \in PinnedUrls \ PinnedUrls' :
         /\ Cardinality(PinnedUrls) >= capacity
         /\ \E e \in Entries : Added(e)
         /\ \A e \in Entries :
              Added(e) => /\ e.url # u
                          /\ \A x \in Unpinned(entries) : x.url = e.url
         /\ PinnedUrls \ {u} \subseteq PinnedUrls']_vars
<1> SUFFICES ASSUME IInv, [Next]_vars, Running, NEW u \in PinnedUrls \ PinnedUrls'
             PROVE  /\ Cardinality(PinnedUrls) >= capacity
                    /\ \E e \in Entries : Added(e)
                    /\ \A e \in Entries :
                         Added(e) => /\ e.url # u
                                     /\ \A x \in Unpinned(entries) : x.url = e.url
                    /\ PinnedUrls \ {u} \subseteq PinnedUrls'
  OBVIOUS
<1>1. \E e \in Entries : Added(e)
  <2>1. entries' # entries
    BY DEF PinnedUrls
  <2> QED  BY <2>1, RunningStep
<1>2. ASSUME NEW e \in Entries, Added(e)
      PROVE  /\ Cardinality(PinnedUrls) >= capacity
             /\ e.url # u
             /\ \A x \in Unpinned(entries) : x.url = e.url
             /\ PinnedUrls \ {u} \subseteq PinnedUrls'
  <2>1. PICK d \in Entries : d.url = e.url /\ Add(d)
    BY <1>2, AddedAdds
  <2> QED  BY <2>1, AddKeepsPins
<1> QED  BY <1>1, <1>2

LEMMA StepEvictsStalest ==
  IInv /\ [Next]_vars =>
    [Running =>
       \A x \in entries :
         x.url \notin HeldUrls' /\ ~x.pinned =>
           /\ \E e \in Entries : Added(e)
           /\ \A e \in Entries :
                Added(e) => \A y \in Unpinned(entries) :
                              y.url # e.url => x.at <= y.at]_vars
<1> SUFFICES ASSUME IInv, [Next]_vars, Running,
                    NEW x \in entries, x.url \notin HeldUrls', ~x.pinned
             PROVE  /\ \E e \in Entries : Added(e)
                    /\ \A e \in Entries :
                         Added(e) => \A y \in Unpinned(entries) :
                                       y.url # e.url => x.at <= y.at
  OBVIOUS
<1>1. \E e \in Entries : Added(e)
  <2>1. entries' # entries
    BY DEF HeldUrls
  <2> QED  BY <2>1, RunningStep
<1>2. ASSUME NEW e \in Entries, Added(e), NEW y \in Unpinned(entries), y.url # e.url
      PROVE  x.at <= y.at
  <2>1. PICK d \in Entries : d.url = e.url /\ Add(d)
    BY <1>2, AddedAdds
  <2> QED  BY <1>2, <2>1, AddEvictsStalest
<1> QED  BY <1>1, <1>2

(* Whatever was loaded, the den never grows past its capacity              *)
(* (den.rs:209-236, 257-285).                                              *)
THEOREM NeverOvergrows == Spec => GrowsWithinCapacity
BY Inductive, StepGrows, PTL DEF Spec, GrowsWithinCapacity

(* A pin is lost only to a den full of pins (den.rs:247-285).              *)
THEOREM PinsLast == Spec => PinsKept
BY Inductive, StepKeepsPins, PTL DEF Spec, PinsKept

(* An unpinned page leaves a running den only for another that is added,   *)
(* and it is the stalest of the unpinned (den.rs:257-285).                 *)
THEOREM StalestGoes == Spec => EvictsTheStalest
BY Inductive, StepEvictsStalest, PTL DEF Spec, EvictsTheStalest
=============================================================================
