----------------------------- MODULE TextProofs -----------------------------
(***************************************************************************)
(* Theorems about how text is read: about Page, for any pages and any      *)
(* bounds, and, from "Speech" on, about Speech, for any texts, stop        *)
(* strings and calls.  They share the lemmas about recursive functions and *)
(* joined texts.                                                           *)
(***************************************************************************)
EXTENDS Page, Speech, WellFoundedInduction, SequenceTheorems, FiniteSetTheorems, TLAPS

(* A set of natural numbers has a least element.                           *)
LEMMA NatMin ==
  ASSUME NEW S \in SUBSET Nat, S # {}
  PROVE  \E i \in S : \A j \in S : i <= j
<1> DEFINE R == OpToRel(<, Nat)
<1>1. IsWellFoundedOn(R, Nat)
  BY NatLessThanWellFounded
<1>2. \A x, y \in Nat : <<y, x>> \in R <=> y < x
  BY DEF OpToRel
<1>3. PICK x \in S : \A y \in S : ~(<<y, x>> \in R)
  <2> HIDE DEF R
  <2> QED  BY <1>1, WFMin
<1> HIDE DEF R
<1>4. \A y \in S : ~(y < x)
  BY <1>2, <1>3
<1> QED  BY <1>4

(* A set that holds 0 and, with a number up to n, the next, holds all of   *)
(* them: how the recursive functions are reasoned about.                   *)
LEMMA Climb ==
  ASSUME NEW n \in Nat, NEW P, 0 \in P, \A i \in 0 .. n - 1 : i \in P => i + 1 \in P
  PROVE  \A i \in 0 .. n : i \in P
<1> SUFFICES ASSUME NEW i \in 0 .. n, i \notin P PROVE FALSE
  OBVIOUS
<1> DEFINE Out == {j \in 0 .. n : j \notin P}
<1>1. Out \in SUBSET Nat /\ Out # {}
  OBVIOUS
<1>2. PICK j \in Out : \A k \in Out : j <= k
  BY <1>1, NatMin
<1>3. j # 0 /\ j - 1 \in 0 .. n - 1 /\ j - 1 \notin Out
  BY <1>2
<1> QED  BY <1>2, <1>3

LEMMA LeastIs ==
  ASSUME NEW S \in SUBSET Nat, S # {}
  PROVE  Least(S) \in S /\ \A j \in S : Least(S) <= j
BY NatMin DEF Least

LEMMA FirstIs ==
  ASSUME NEW T, NEW s \in Seq(T), NEW S, NEW i \in 1 .. Len(s) + 1
  PROVE  /\ First(s, S, i) \in i .. Len(s) + 1
         /\ First(s, S, i) <= Len(s) => s[First(s, S, i)] \in S
<1> DEFINE C == {j \in i .. Len(s) : s[j] \in S} \cup {Len(s) + 1}
<1>1. C \in SUBSET Nat /\ C # {} /\ \A j \in C : j \in i .. Len(s) + 1
  OBVIOUS
<1>2. \A j \in C : j <= Len(s) => s[j] \in S
  OBVIOUS
<1>3. First(s, S, i) = Least(C)
  BY DEF First
<1> HIDE DEF C
<1> QED  BY <1>1, <1>2, <1>3, LeastIs

-----------------------------------------------------------------------------
(* A recursive function whose values stay in T exists.                     *)
LEMMA Recursion ==
  ASSUME NEW n \in Nat, NEW T, NEW zero \in T, NEW G \in [T -> [1 .. n -> T]]
  PROVE  \E f \in [0 .. n -> T] : f[0] = zero /\ \A i \in 1 .. n : f[i] = G[f[i - 1]][i]
<1> DEFINE Is(f, m) == f[0] = zero /\ \A i \in 1 .. m : f[i] = G[f[i - 1]][i]
           P == {m \in Nat : \E f \in [0 .. m -> T] : Is(f, m)}
<1>1. 0 \in P
  <2>1. [i \in 0 .. 0 |-> zero] \in [0 .. 0 -> T] /\ Is([i \in 0 .. 0 |-> zero], 0)
    OBVIOUS
  <2> HIDE DEF Is
  <2> QED  BY <2>1
<1>2. ASSUME NEW m \in 0 .. n - 1, m \in P
      PROVE  m + 1 \in P
  <2>1. PICK f \in [0 .. m -> T] : Is(f, m)
    <3> HIDE DEF Is
    <3> QED  BY <1>2
  <2> DEFINE g == [i \in 0 .. m + 1 |-> IF i <= m THEN f[i] ELSE G[f[m]][m + 1]]
  <2>2. /\ m \in Nat /\ m \in 0 .. m /\ 0 \in 0 .. m /\ f[m] \in T /\ m + 1 \in 1 .. n
        /\ G[f[m]][m + 1] \in T
    OBVIOUS
  <2>3. g \in [0 .. m + 1 -> T]
    BY <2>2
  <2>4. /\ \A i \in 0 .. m : g[i] = f[i]
        /\ g[m + 1] = G[f[m]][m + 1]
    BY <2>2
  <2> HIDE DEF g
  <2>5. ASSUME NEW i \in 1 .. m + 1
        PROVE  g[i] = G[g[i - 1]][i]
    <3>1. CASE i = m + 1
      <4>1. i - 1 = m
        BY <3>1, <2>2
      <4> QED  BY <3>1, <4>1, <2>2, <2>4
    <3>2. CASE i # m + 1
      <4>1. i \in 1 .. m /\ i \in 0 .. m /\ i - 1 \in 0 .. m
        BY <3>2, <2>2
      <4> QED  BY <4>1, <2>1, <2>4
    <3> QED  BY <3>1, <3>2
  <2>6. Is(g, m + 1)
    BY <2>1, <2>2, <2>4, <2>5
  <2> HIDE DEF Is
  <2> QED  BY <2>2, <2>3, <2>6
<1> HIDE DEF P
<1>3. n \in P
  <2>1. \A m \in 0 .. n : m \in P
    BY <1>1, <1>2, Climb
  <2> QED  BY <2>1
<1> QED  BY <1>3 DEF P

Recurses(U, n) ==
  \A z \in U : \A H \in [U -> [1 .. n -> U]] :
    \E f \in [0 .. n -> U] : f[0] = z /\ \A i \in 1 .. n : f[i] = H[f[i - 1]][i]

(* The same for every set of values.                                       *)
LEMMA Recursions ==
  ASSUME NEW n \in Nat
  PROVE  \A U : Recurses(U, n)
BY Recursion DEF Recurses

(* FlattenSeq, and what it has come to after each of the sequences.        *)
JoinTo(f, seqs) ==
  [i \in 0 .. Len(seqs) |-> IF i = 0 THEN <<>> ELSE f[i - 1] \o seqs[i]]
Joined(seqs) == CHOOSE f : f = JoinTo(f, seqs)

LEMMA JoinedIs ==
  ASSUME NEW S, NEW seqs \in Seq(Seq(S))
  PROVE  /\ Joined(seqs)[0] = <<>>
         /\ \A i \in 1 .. Len(seqs) : Joined(seqs)[i] = Joined(seqs)[i - 1] \o seqs[i]
         /\ \A i \in 0 .. Len(seqs) : Joined(seqs)[i] \in Seq(S)
<1> DEFINE T == Seq(S)
           n == Len(seqs)
           G == [v \in T |-> [i \in 1 .. n |-> v \o seqs[i]]]
           J == Joined(seqs)
<1>1. n \in Nat /\ <<>> \in T /\ \A i \in 1 .. n : seqs[i] \in T
  OBVIOUS
<1>2. \A v, w \in T : v \o w \in T
  BY ConcatProperties
<1> HIDE DEF T, n
<1>3. G \in [T -> [1 .. n -> T]]
  BY <1>1, <1>2
<1>4. \A v \in T, i \in 1 .. n : G[v][i] = v \o seqs[i]
  OBVIOUS
<1> HIDE DEF G
<1>5. PICK f \in [0 .. n -> T] : f[0] = <<>> /\ \A i \in 1 .. n : f[i] = G[f[i - 1]][i]
  <2>1. n \in Nat /\ <<>> \in T
    BY <1>1
  <2>2. Recurses(T, n)
    BY <2>1, Recursions
  <2> QED  BY <2>1, <1>3, <2>2 DEF Recurses
<1>6. ASSUME NEW i \in 1 .. n
      PROVE  f[i] = f[i - 1] \o seqs[i]
  <2>1. i - 1 \in 0 .. n
    BY <1>1
  <2> QED  BY <1>4, <1>5, <2>1
<1>7. f = JoinTo(f, seqs)
  <2>1. f = [i \in 0 .. n |-> f[i]]
    OBVIOUS
  <2>2. \A i \in 0 .. n : i # 0 => i \in 1 .. n
    BY <1>1
  <2>3. \A i \in 0 .. n : f[i] = IF i = 0 THEN <<>> ELSE f[i - 1] \o seqs[i]
    BY <1>5, <1>6, <2>2
  <2> QED  BY <2>1, <2>3 DEF JoinTo, n
<1>8. J = JoinTo(J, seqs)
  BY <1>7 DEF Joined
<1> HIDE DEF J
<1>9. J = [i \in 0 .. n |-> IF i = 0 THEN <<>> ELSE J[i - 1] \o seqs[i]]
  BY <1>8 DEF JoinTo, n
<1>10. J[0] = <<>> /\ \A i \in 1 .. n : J[i] = J[i - 1] \o seqs[i]
  <2>1. 0 \in 0 .. n /\ \A i \in 1 .. n : i \in 0 .. n /\ i # 0
    BY <1>1
  <2> QED  BY <1>9, <2>1
<1> DEFINE P == {i \in Nat : J[i] \in T}
<1>11. 0 \in P
  BY <1>1, <1>10
<1>12. ASSUME NEW i \in 0 .. n - 1, i \in P
       PROVE  i + 1 \in P
  <2>1. i + 1 \in 1 .. n /\ i + 1 \in Nat /\ J[i] \in T
    BY <1>1, <1>12
  <2>2. ASSUME NEW j \in 1 .. n, j = i + 1
        PROVE  J[j] = J[i] \o seqs[j]
    <3>1. j - 1 = i
      BY <2>1, <2>2
    <3> QED  BY <1>10, <3>1
  <2> QED  BY <1>1, <1>2, <2>1, <2>2
<1> HIDE DEF P
<1>13. \A i \in 0 .. n : i \in P
  BY <1>1, <1>11, <1>12, Climb
<1> QED  BY <1>10, <1>13 DEF P, J, T, n

LEMMA FlattenIsJoined ==
  ASSUME NEW S, NEW seqs \in Seq(Seq(S))
  PROVE  /\ FlattenSeq(seqs) = Joined(seqs)[Len(seqs)]
         /\ FlattenSeq(seqs) \in Seq(S)
<1> DEFINE J == Joined(seqs)
           n == Len(seqs)
<1>1. /\ J[0] = <<>>
      /\ \A i \in 1 .. n : J[i] = J[i - 1] \o seqs[i]
      /\ \A i \in 0 .. n : J[i] \in Seq(S)
      /\ n \in Nat
  <2>1. n \in Nat
    OBVIOUS
  <2> HIDE DEF n
  <2> QED  BY <2>1, JoinedIs DEF n
<1> HIDE DEF J, n
<1>2. CASE n = 0
  <2>1. FlattenSeq(seqs) = seqs /\ seqs = <<>>
    BY <1>2 DEF FlattenSeq, n
  <2> QED  BY <1>1, <1>2, <2>1 DEF J, n
<1>3. CASE n # 0
  <2> DEFINE flatten[i \in 1 .. n] == IF i = 1 THEN seqs[i] ELSE flatten[i - 1] \o seqs[i]
             g == [i \in 1 .. n |-> J[i]]
  <2>1. FlattenSeq(seqs) = flatten[n]
    BY <1>3 DEF FlattenSeq, n
  <2> HIDE DEF flatten, g
  <2>2. J[1] = seqs[1]
    <3>1. 1 \in 1 .. n /\ seqs[1] \in Seq(S)
      BY <1>1, <1>3 DEF n
    <3>2. J[1] = <<>> \o seqs[1]
      <4>1. \A i \in 1 .. n : J[i] = J[i - 1] \o seqs[i]
        BY <1>1
      <4>2. ASSUME NEW i \in 1 .. n, i = 1
            PROVE  J[i] = J[0] \o seqs[i]
        <5>1. i - 1 = 0
          BY <4>2
        <5> QED  BY <4>1, <5>1
      <4> QED  BY <1>1, <3>1, <4>2
    <3> QED  BY <3>1, <3>2, ConcatEmptySeq
  <2>3. ASSUME NEW i \in 1 .. n
        PROVE  g[i] = IF i = 1 THEN seqs[i] ELSE g[i - 1] \o seqs[i]
    <3>1. CASE i = 1
      BY <3>1, <2>2 DEF g
    <3>2. CASE i # 1
      <4>1. i - 1 \in 1 .. n
        BY <3>2, <1>1
      <4> QED  BY <3>2, <4>1, <1>1 DEF g
    <3> QED  BY <3>1, <3>2
  <2>4. g = [i \in 1 .. n |-> IF i = 1 THEN seqs[i] ELSE g[i - 1] \o seqs[i]]
    <3>1. g = [i \in 1 .. n |-> g[i]]
      BY DEF g
    <3> QED  BY <2>3, <3>1
  <2>5. flatten = [i \in 1 .. n |-> IF i = 1 THEN seqs[i] ELSE flatten[i - 1] \o seqs[i]]
    BY <2>4 DEF flatten
  <2> DEFINE P == {i \in Nat : i # 0 => flatten[i] = J[i]}
  <2>6. 0 \in P
    OBVIOUS
  <2>7. ASSUME NEW i \in 0 .. n - 1, i \in P
        PROVE  i + 1 \in P
    <3>1. i + 1 \in 1 .. n /\ (i + 1) - 1 = i
      BY <1>1
    <3> SUFFICES flatten[i + 1] = J[i + 1]
      BY <3>1
    <3>2. flatten[i + 1] = IF i + 1 = 1 THEN seqs[i + 1] ELSE flatten[i] \o seqs[i + 1]
      BY <2>5, <3>1
    <3>3. J[i + 1] = J[i] \o seqs[i + 1]
      BY <1>1, <3>1
    <3>4. CASE i = 0
      BY <3>2, <3>4, <2>2
    <3>5. CASE i # 0
      <4>1. flatten[i] = J[i] /\ i + 1 # 1
        BY <2>7, <3>5
      <4>2. flatten[i + 1] = flatten[i] \o seqs[i + 1]
        BY <3>2, <4>1
      <4> QED  BY <3>1, <3>3, <4>1, <4>2
    <3> QED  BY <3>4, <3>5
  <2> HIDE DEF P
  <2>8. n \in P
    <3>1. \A i \in 0 .. n : i \in P
      BY <1>1, <2>6, <2>7, Climb
    <3> QED  BY <1>1, <3>1
  <2>9. flatten[n] = J[n]
    BY <1>3, <2>8 DEF P
  <2> QED  BY <1>1, <2>1, <2>9 DEF J, n
<1> QED  BY <1>2, <1>3

(* Two sequences that agree piece by piece in length and in R are joined   *)
(* to two that agree.                                                      *)
LEMMA FlattenAligned ==
  ASSUME NEW S, NEW a \in Seq(Seq(S)), NEW b \in Seq(Seq(S)), NEW R, Len(a) = Len(b),
         \A i \in 1 .. Len(a) :
           /\ Len(a[i]) = Len(b[i])
           /\ \A m \in 1 .. Len(a[i]) : <<a[i][m], b[i][m]>> \in R
  PROVE  /\ Len(FlattenSeq(a)) = Len(FlattenSeq(b))
         /\ \A k \in 1 .. Len(FlattenSeq(a)) : <<FlattenSeq(a)[k], FlattenSeq(b)[k]>> \in R
<1> DEFINE A == Joined(a)
           B == Joined(b)
           n == Len(a)
           Agree(s, t) == /\ Len(s) = Len(t)
                          /\ \A k \in 1 .. Len(s) : <<s[k], t[k]>> \in R
           P == {i \in Nat : Agree(A[i], B[i])}
<1>1. /\ A[0] = <<>> /\ B[0] = <<>>
      /\ \A i \in 1 .. n : A[i] = A[i - 1] \o a[i] /\ B[i] = B[i - 1] \o b[i]
      /\ \A i \in 0 .. n : A[i] \in Seq(S) /\ B[i] \in Seq(S)
  BY JoinedIs
<1>2. n \in Nat
  OBVIOUS
<1> HIDE DEF A, B
<1>3. 0 \in P
  BY <1>1
<1>4. ASSUME NEW s \in Seq(S), NEW t \in Seq(S), NEW u \in Seq(S), NEW v \in Seq(S),
             Agree(s, t), Agree(u, v)
      PROVE  Agree(s \o u, t \o v)
  <2>1. /\ Len(s \o u) = Len(s) + Len(u) /\ Len(t \o v) = Len(t) + Len(v)
        /\ Len(s) \in Nat /\ Len(u) \in Nat
        /\ \A i \in 1 .. Len(s) + Len(u) : (s \o u)[i] = IF i <= Len(s) THEN s[i] ELSE u[i - Len(s)]
        /\ \A i \in 1 .. Len(t) + Len(v) : (t \o v)[i] = IF i <= Len(t) THEN t[i] ELSE v[i - Len(t)]
    BY ConcatProperties
  <2>2. ASSUME NEW k \in 1 .. Len(s) + Len(u)
        PROVE  <<(s \o u)[k], (t \o v)[k]>> \in R
    <3>1. CASE k <= Len(s)
      BY <3>1, <2>1, <1>4
    <3>2. CASE ~(k <= Len(s))
      <4>1. k - Len(s) \in 1 .. Len(u)
        BY <3>2, <2>1
      <4> QED  BY <3>2, <4>1, <2>1, <1>4
    <3> QED  BY <3>1, <3>2
  <2> QED  BY <2>1, <2>2, <1>4
<1>5. ASSUME NEW i \in 0 .. n - 1, i \in P
      PROVE  i + 1 \in P
  <2>1. i + 1 \in 1 .. n /\ i \in 0 .. n /\ i \in Nat
    BY <1>2
  <2>2. /\ A[i] \in Seq(S) /\ B[i] \in Seq(S)
        /\ a[i + 1] \in Seq(S) /\ b[i + 1] \in Seq(S)
    BY <1>1, <2>1
  <2>3. A[i + 1] = A[i] \o a[i + 1] /\ B[i + 1] = B[i] \o b[i + 1]
    <3>1. ASSUME NEW j \in 1 .. n, j = i + 1
          PROVE  A[j] = A[i] \o a[j] /\ B[j] = B[i] \o b[j]
      <4>1. j - 1 = i
        BY <3>1, <2>1
      <4> QED  BY <1>1, <4>1
    <3> QED  BY <2>1, <3>1
  <2>4. Agree(A[i], B[i]) /\ Agree(a[i + 1], b[i + 1])
    BY <1>5, <2>1
  <2> HIDE DEF Agree
  <2>5. Agree(A[i + 1], B[i + 1])
    BY <1>4, <2>2, <2>3, <2>4
  <2> QED  BY <2>1, <2>5
<1> HIDE DEF P
<1>6. \A i \in 0 .. n : i \in P
  BY <1>2, <1>3, <1>5, Climb
<1>7. Agree(A[n], B[n])
  BY <1>2, <1>6 DEF P
<1>8. FlattenSeq(a) = A[n] /\ FlattenSeq(b) = B[n]
  BY FlattenIsJoined DEF A, B
<1> QED  BY <1>7, <1>8

-----------------------------------------------------------------------------
(* Characters that keep their length in lower case, and none of several    *)
(* bytes.                                                                  *)
Even == \A k \in DOMAIN page : page[k] \notin {"grows", "shrinks"}
Plain == \A k \in DOMAIN page : page[k] \notin Wide

Alphabet == Chars \cup Leading \cup Following \cup {"<script>", "k", "i"}
Whole == Chars

(* Noise is looked for in the copy, markup in the page: they agree.        *)
Matched == {bc \in Alphabet \X Alphabet : bc[2] \in DOMAIN NoiseEnd => bc[1] \in Angles}

LEMMA Letters ==
  ASSUME NEW c \in Chars
  PROVE  /\ Bytes(c) \in Seq(Alphabet) /\ Lower(c) \in Seq(Alphabet)
         /\ c \notin {"grows", "shrinks"} =>
              /\ Len(Bytes(c)) = Len(Lower(c))
              /\ \A m \in 1 .. Len(Bytes(c)) : <<Bytes(c)[m], Lower(c)[m]>> \in Matched
         /\ c \notin Wide => Bytes(c) \in Seq(Whole)
<1>1. \A S : \A b \in S : Len(<<b>>) = 1 /\ <<b>> \in Seq(S) /\ <<b>>[1] = b
  OBVIOUS
<1>2. \A b, d \in Alphabet : Len(<<b, d>>) = 2 /\ <<b, d>> \in Seq(Alphabet)
                             /\ <<b, d>>[1] = b /\ <<b, d>>[2] = d
  OBVIOUS
<1>3. \A b, d, e \in Alphabet : <<b, d, e>> \in Seq(Alphabet)
  OBVIOUS
<1>4. /\ Chars \subseteq Alphabet
      /\ {"t1", "t2", "g1", "g2", "s1", "s2", "s3", "d1", "d2", "<script>", "k", "i"} \subseteq Alphabet
      /\ \A b \in Alphabet : b \notin DOMAIN NoiseEnd \/ b \in Angles => <<b, b>> \in Matched
  BY DEF Alphabet, Leading, Following, Matched
<1>5. DOMAIN NoiseEnd \subseteq Angles
  BY DEF Angles, Tags
<1>6. CASE c = "two"
  <2>1. Bytes(c) = <<"t1", "t2">> /\ Lower(c) = <<"t1", "t2">>
    BY <1>6 DEF Bytes, Lower
  <2>2. \A m \in 1 .. 2 : <<<<"t1", "t2">>[m], <<"t1", "t2">>[m]>> \in Matched
    <3>1. <<"t1", "t1">> \in Matched /\ <<"t2", "t2">> \in Matched
      BY <1>4, <1>5
    <3>2. <<"t1", "t2">>[1] = "t1" /\ <<"t1", "t2">>[2] = "t2" /\ \A m \in 1 .. 2 : m = 1 \/ m = 2
      OBVIOUS
    <3> QED  BY <3>1, <3>2
  <2>3. Len(Bytes(c)) = 2 /\ Bytes(c) \in Seq(Alphabet)
    BY <1>2, <1>4, <2>1
  <2> QED  BY <1>6, <2>1, <2>2, <2>3 DEF Wide
<1>7. CASE c \in {"grows", "shrinks"}
  <2>1. c \in Wide
    BY <1>7 DEF Wide
  <2>2. Bytes(c) \in Seq(Alphabet) /\ Lower(c) \in Seq(Alphabet)
    BY <1>7, <1>1, <1>2, <1>3, <1>4 DEF Bytes, Lower
  <2> QED  BY <1>7, <2>1, <2>2
<1>8. CASE c = "<SCRIPT>"
  <2>1. Bytes(c) = <<"<SCRIPT>">> /\ Lower(c) = <<"<script>">>
    BY <1>8 DEF Bytes, Lower
  <2>2. <<"<SCRIPT>", "<script>">> \in Matched
    BY <1>4, <1>8 DEF Matched, Angles, Tags
  <2>3. <<c>> \in Seq(Whole) /\ <<c>> \in Seq(Alphabet) /\ <<"<script>">> \in Seq(Alphabet)
    BY <1>1, <1>4 DEF Whole
  <2>4. Len(<<c>>) = 1 /\ <<c>>[1] = c
    BY <1>1
  <2>5. Len(<<"<script>">>) = 1 /\ <<"<script>">>[1] = "<script>" /\ \A m \in 1 .. 1 : m = 1
    BY <1>1
  <2>6. \A m \in 1 .. 1 : <<<<c>>[m], <<"<script>">>[m]>> \in Matched
    BY <1>8, <2>2, <2>4, <2>5
  <2> QED  BY <1>8, <2>1, <2>3, <2>4, <2>5, <2>6
<1>9. CASE c \notin Wide /\ c # "<SCRIPT>"
  <2>1. Bytes(c) = <<c>> /\ Lower(c) = <<c>>
    BY <1>9 DEF Bytes, Lower, Wide
  <2>2. <<c, c>> \in Matched
    BY <1>4, <1>5
  <2> QED  BY <1>1, <1>4, <2>1, <2>2 DEF Whole
<1> QED  BY <1>6, <1>7, <1>8, <1>9 DEF Wide

LEMMA Copies ==
  ASSUME page \in Pages
  PROVE  /\ html \in Seq(Alphabet) /\ lower \in Seq(Alphabet)
         /\ Even =>
              /\ Len(html) = Len(lower)
              /\ \A k \in 1 .. Len(html) : lower[k] \in DOMAIN NoiseEnd => html[k] \in Angles
<1> DEFINE a == [k \in DOMAIN page |-> Bytes(page[k])]
           b == [k \in DOMAIN page |-> Lower(page[k])]
<1>1. \A k \in DOMAIN page : page[k] \in Chars
  BY PagesAssumption
<1>2. DOMAIN page = 1 .. Len(page) /\ Len(page) \in Nat
  BY PagesAssumption
<1>3. a \in Seq(Seq(Alphabet)) /\ b \in Seq(Seq(Alphabet)) /\ Len(a) = Len(page) /\ Len(b) = Len(page)
  BY <1>1, <1>2, Letters
<1>4. html = FlattenSeq(a) /\ lower = FlattenSeq(b)
  BY DEF html, lower
<1>5. ASSUME Even, NEW i \in 1 .. Len(a)
      PROVE  /\ Len(a[i]) = Len(b[i])
             /\ \A m \in 1 .. Len(a[i]) : <<a[i][m], b[i][m]>> \in Matched
  BY <1>1, <1>2, <1>3, <1>5, Letters DEF Even
<1> HIDE DEF a, b
<1>6. html \in Seq(Alphabet) /\ lower \in Seq(Alphabet)
  BY <1>3, <1>4, FlattenIsJoined
<1>7. ASSUME Even
      PROVE  /\ Len(html) = Len(lower)
             /\ \A k \in 1 .. Len(html) : <<html[k], lower[k]>> \in Matched
  <2>1. \A i \in 1 .. Len(a) :
          /\ Len(a[i]) = Len(b[i])
          /\ \A m \in 1 .. Len(a[i]) : <<a[i][m], b[i][m]>> \in Matched
    BY <1>5, <1>7
  <2>2. Len(a) = Len(b) /\ a \in Seq(Seq(Alphabet)) /\ b \in Seq(Seq(Alphabet))
    BY <1>3
  <2>3. /\ Len(FlattenSeq(a)) = Len(FlattenSeq(b))
        /\ \A k \in 1 .. Len(FlattenSeq(a)) : <<FlattenSeq(a)[k], FlattenSeq(b)[k]>> \in Matched
    BY ONLY <2>1, <2>2, FlattenAligned
  <2> QED  BY <1>4, <2>3
<1> QED  BY <1>6, <1>7 DEF Matched

LEMMA PlainIsWhole ==
  ASSUME page \in Pages, Plain
  PROVE  html \in Seq(Whole)
<1> DEFINE a == [k \in DOMAIN page |-> Bytes(page[k])]
<1>1. \A k \in DOMAIN page : page[k] \in Chars /\ page[k] \notin Wide
  BY PagesAssumption DEF Plain
<1>2. DOMAIN page = 1 .. Len(page) /\ Len(page) \in Nat
  BY PagesAssumption
<1>3. a \in Seq(Seq(Whole))
  BY <1>1, <1>2, Letters
<1> HIDE DEF a
<1> QED  BY <1>3, FlattenIsJoined DEF html, a

-----------------------------------------------------------------------------
(* What the code takes for noise, and what is outside it, in a page h with *)
(* the copy l: where the noise that position k is in ends, at the first    *)
(* close, or 0.                                                            *)
NoiseTo(f, h, l) ==
  [k \in 0 .. Len(h) |->
    IF k = 0 THEN 0
    ELSE IF f[k - 1] >= k THEN f[k - 1]
    ELSE IF l[k] \in DOMAIN NoiseEnd THEN First(l, {NoiseEnd[l[k]]}, k)
    ELSE 0]
Noise(h, l) == CHOOSE f : f = NoiseTo(f, h, l)
Outside(h, l) == [k \in 1 .. Len(h) |-> IF Noise(h, l)[k] = 0 THEN Garbled(h[k]) ELSE <<>>]

LEMMA NoiseIs ==
  ASSUME NEW h \in Seq(Alphabet), NEW l \in Seq(Alphabet), Len(h) = Len(l)
  PROVE  /\ Noise(h, l)[0] = 0
         /\ \A k \in 1 .. Len(h) :
              Noise(h, l)[k] = IF Noise(h, l)[k - 1] >= k THEN Noise(h, l)[k - 1]
                               ELSE IF l[k] \in DOMAIN NoiseEnd
                               THEN First(l, {NoiseEnd[l[k]]}, k)
                               ELSE 0
<1> DEFINE n == Len(h)
           New(k) == IF l[k] \in DOMAIN NoiseEnd THEN First(l, {NoiseEnd[l[k]]}, k) ELSE 0
           G == [v \in Nat |-> [k \in 1 .. n |-> IF v >= k THEN v ELSE New(k)]]
           N == Noise(h, l)
<1>1. n \in Nat /\ Len(l) = n
  OBVIOUS
<1>2. ASSUME NEW k \in 1 .. n
      PROVE  New(k) \in Nat
  <2>1. First(l, {NoiseEnd[l[k]]}, k) \in k .. Len(l) + 1
    BY FirstIs
  <2>2. First(l, {NoiseEnd[l[k]]}, k) \in Nat
    BY <1>1, <2>1
  <2> QED  BY <2>2
<1> HIDE DEF n, New
<1>3. G \in [Nat -> [1 .. n -> Nat]]
  BY <1>2
<1>4. \A v \in Nat, k \in 1 .. n : G[v][k] = IF v >= k THEN v ELSE New(k)
  OBVIOUS
<1> HIDE DEF G
<1>5. PICK f \in [0 .. n -> Nat] : f[0] = 0 /\ \A k \in 1 .. n : f[k] = G[f[k - 1]][k]
  <2> DEFINE T == Nat
  <2> HIDE DEF T
  <2>1. Recurses(T, n)
    BY <1>1, Recursions
  <2>2. 0 \in T /\ G \in [T -> [1 .. n -> T]]
    BY <1>3 DEF T
  <2>3. \E f \in [0 .. n -> T] : f[0] = 0 /\ \A i \in 1 .. n : f[i] = G[f[i - 1]][i]
    BY <2>1, <2>2 DEF Recurses
  <2> QED  BY <2>3 DEF T
<1>6. ASSUME NEW k \in 1 .. n
      PROVE  f[k] = IF f[k - 1] >= k THEN f[k - 1] ELSE New(k)
  <2>1. k - 1 \in 0 .. n /\ f[k - 1] \in Nat
    BY <1>1
  <2> QED  BY <1>4, <1>5, <2>1
<1>7. f = NoiseTo(f, h, l)
  <2>1. f = [k \in 0 .. n |-> f[k]]
    OBVIOUS
  <2>2. \A k \in 0 .. n : k # 0 => k \in 1 .. n
    BY <1>1
  <2>3. \A k \in 0 .. n : f[k] = IF k = 0 THEN 0
                                 ELSE IF f[k - 1] >= k THEN f[k - 1] ELSE New(k)
    BY <1>5, <1>6, <2>2
  <2> QED  BY <2>1, <2>3 DEF NoiseTo, n, New
<1>8. N = NoiseTo(N, h, l)
  BY <1>7 DEF Noise
<1> HIDE DEF N
<1>9. N = [k \in 0 .. n |-> IF k = 0 THEN 0
                            ELSE IF N[k - 1] >= k THEN N[k - 1] ELSE New(k)]
  BY <1>8 DEF NoiseTo, n, New
<1>10. N[0] = 0 /\ \A k \in 1 .. n : N[k] = IF N[k - 1] >= k THEN N[k - 1] ELSE New(k)
  <2>1. 0 \in 0 .. n /\ \A k \in 1 .. n : k \in 0 .. n /\ k # 0
    BY <1>1
  <2> QED  BY <1>9, <2>1
<1> QED  BY <1>10 DEF N, n, New

(* Noise that begins at k lasts to its end, or to the page's.              *)
LEMMA NoiseLasts ==
  ASSUME NEW h \in Seq(Alphabet), NEW l \in Seq(Alphabet), Len(h) = Len(l),
         NEW k \in 1 .. Len(h), Noise(h, l)[k - 1] < k, Noise(h, l)[k - 1] \in Nat,
         l[k] \in DOMAIN NoiseEnd,
         NEW j \in k .. Len(h), j <= First(l, {NoiseEnd[l[k]]}, k)
  PROVE  Noise(h, l)[j] = First(l, {NoiseEnd[l[k]]}, k)
<1> DEFINE n == Len(h)
           N == Noise(h, l)
           end == First(l, {NoiseEnd[l[k]]}, k)
           P == {d \in Nat : k + d <= j => N[k + d] = end}
<1>1. /\ N[0] = 0
      /\ \A i \in 1 .. n :
           N[i] = IF N[i - 1] >= i THEN N[i - 1]
                  ELSE IF l[i] \in DOMAIN NoiseEnd THEN First(l, {NoiseEnd[l[i]]}, i)
                  ELSE 0
  BY NoiseIs
<1>2. end \in k .. n + 1 /\ n \in Nat /\ k \in 1 .. n /\ j \in k .. n /\ j <= end
  BY FirstIs
<1> HIDE DEF n, N
<1>3. N[k] = end
  BY <1>1, <1>2 DEF N
<1> HIDE DEF end
<1>4. 0 \in P
  BY <1>2, <1>3
<1>5. ASSUME NEW d \in 0 .. (j - k) - 1, d \in P
      PROVE  d + 1 \in P
  <2>1. /\ d \in Nat /\ k + d <= j /\ k + (d + 1) \in 1 .. n /\ k + (d + 1) <= j
        /\ (k + (d + 1)) - 1 = k + d
    BY <1>2
  <2>2. N[k + d] = end /\ end >= k + (d + 1)
    BY <1>2, <1>5, <2>1
  <2>3. ASSUME NEW i \in 1 .. n, i = k + (d + 1)
        PROVE  N[i] = end
    <3>1. N[i - 1] = end
      BY <2>1, <2>2, <2>3
    <3> QED  BY <1>1, <2>2, <2>3, <3>1
  <2> QED  BY <2>1, <2>3
<1>6. j - k \in Nat /\ j - k \in 0 .. j - k /\ k + (j - k) = j
  BY <1>2
<1> HIDE DEF P
<1>7. j - k \in P
  <2>1. \A d \in 0 .. j - k : d \in P
    BY <1>4, <1>5, <1>6, Climb
  <2> QED  BY <1>6, <2>1
<1> QED  BY <1>2, <1>6, <1>7 DEF P, N, end

(* What adds nothing leaves what was joined.                               *)
LEMMA JoinedStays ==
  ASSUME NEW S, NEW seqs \in Seq(Seq(S)), NEW a \in 0 .. Len(seqs), NEW b \in a .. Len(seqs),
         \A k \in a + 1 .. b : seqs[k] = <<>>
  PROVE  Joined(seqs)[b] = Joined(seqs)[a]
<1> DEFINE J == Joined(seqs)
           n == Len(seqs)
           P == {d \in Nat : a + d <= b => J[a + d] = J[a]}
<1>1. /\ \A i \in 1 .. n : J[i] = J[i - 1] \o seqs[i]
      /\ \A i \in 0 .. n : J[i] \in Seq(S)
  BY JoinedIs
<1>2. n \in Nat /\ a \in 0 .. n /\ b \in a .. n
  OBVIOUS
<1> HIDE DEF n, J
<1>3. 0 \in P
  BY <1>2
<1>4. ASSUME NEW d \in 0 .. (b - a) - 1, d \in P
      PROVE  d + 1 \in P
  <2>1. d \in Nat /\ a + d <= b /\ a + (d + 1) \in 1 .. n /\ a + (d + 1) \in a + 1 .. b
    BY <1>2
  <2>2. J[a + d] = J[a] /\ J[a] \in Seq(S)
    BY <1>1, <1>2, <1>4, <2>1
  <2>3. ASSUME NEW i \in 1 .. n, i = a + (d + 1)
        PROVE  J[i] = J[a]
    <3>1. i - 1 = a + d /\ seqs[i] = <<>>
      BY <2>1, <2>3
    <3>2. J[i] = J[a] \o <<>>
      BY <1>1, <2>2, <3>1
    <3> QED  BY <2>2, <3>2, ConcatEmptySeq
  <2> QED  BY <2>1, <2>3
<1>5. b - a \in Nat /\ b - a \in 0 .. b - a /\ a + (b - a) = b
  BY <1>2
<1> HIDE DEF P
<1>6. b - a \in P
  <2>1. \A d \in 0 .. b - a : d \in P
    BY <1>3, <1>4, <1>5, Climb
  <2> QED  BY <1>5, <2>1
<1> QED  BY <1>2, <1>5, <1>6 DEF P, J

-----------------------------------------------------------------------------
(* What has been kept of the page, at each round of the loop.              *)
KeptSoFar ==
  reader = "tool" /\ Even /\ step \in {"title", "strip"} =>
    /\ at \in 1 .. Len(html) + 1
    /\ Noise(html, lower)[at - 1] \in 0 .. at - 1
    /\ text = Joined(Outside(html, lower))[at - 1]

(* What is kept in the end.                                                *)
KeptOutside ==
  reader = "tool" /\ step \notin {"title", "strip", "panicked"} /\ Even =>
    text = FlattenSeq(Outside(html, lower))

IInv == page \in Pages /\ at \in Nat \ {0} /\ KeptSoFar /\ KeptOutside /\ PlainPagesAreRead

LEMMA OutsideIs ==
  ASSUME page \in Pages, Even
  PROVE  /\ Outside(html, lower) \in Seq(Seq(Alphabet))
         /\ Len(Outside(html, lower)) = Len(html) /\ Len(html) \in Nat
         /\ \A k \in 1 .. Len(html) :
              Outside(html, lower)[k] = IF Noise(html, lower)[k] = 0 THEN Garbled(html[k]) ELSE <<>>
<1>1. html \in Seq(Alphabet) /\ Len(html) \in Nat
  BY Copies
<1>2. ASSUME NEW b \in Alphabet
      PROVE  Garbled(b) \in Seq(Alphabet)
  <2>1. {"l1", "l2"} \subseteq Alphabet
    BY DEF Alphabet, Leading, Following
  <2> QED  BY <2>1 DEF Garbled
<1>3. \A k \in 1 .. Len(html) : html[k] \in Alphabet
  BY <1>1
<1>4. <<>> \in Seq(Alphabet)
  OBVIOUS
<1> QED  BY <1>1, <1>2, <1>3, <1>4 DEF Outside

(* The page and the reader stay.                                           *)
LEMMA Frame ==
  ASSUME UNCHANGED <<reader, page>>
  PROVE  /\ html' = html /\ lower' = lower /\ (Even' <=> Even) /\ (Plain' <=> Plain)
         /\ KeptOutside' <=>
              (reader = "tool" /\ step' \notin {"title", "strip", "panicked"} /\ Even
                 => text' = FlattenSeq(Outside(html, lower)))
         /\ KeptSoFar' <=>
              (reader = "tool" /\ Even /\ step' \in {"title", "strip"} =>
                 /\ at' \in 1 .. Len(html) + 1
                 /\ Noise(html, lower)[at' - 1] \in 0 .. at' - 1
                 /\ text' = Joined(Outside(html, lower))[at' - 1])
         /\ PlainPagesAreRead' <=> (step' = "panicked" => ~Plain)
<1>1. html' = html /\ lower' = lower /\ (Even' <=> Even) /\ (Plain' <=> Plain)
  BY DEF html, lower, Even, Plain
<1>2. KeptOutside' <=>
        (reader' = "tool" /\ step' \notin {"title", "strip", "panicked"} /\ Even'
           => text' = FlattenSeq(Outside(html', lower')))
  BY DEF KeptOutside, Even, Outside, Noise, NoiseTo
<1>3. PlainPagesAreRead' <=> (step' = "panicked" => ~Plain')
  BY DEF PlainPagesAreRead, Plain
<1> QED  BY <1>1, <1>2, <1>3 DEF KeptSoFar

LEMMA InitInv == Init => IInv
<1> SUFFICES ASSUME Init PROVE IInv
  OBVIOUS
<1>1. page \in Pages /\ step = "title" /\ at = 1 /\ text = <<>>
  BY DEF Init
<1>2. ASSUME Even
      PROVE  /\ 1 \in 1 .. Len(html) + 1
             /\ Noise(html, lower)[0] = 0
             /\ Joined(Outside(html, lower))[0] = <<>>
  <2>1. html \in Seq(Alphabet) /\ lower \in Seq(Alphabet) /\ Len(html) = Len(lower)
    BY <1>1, <1>2, Copies
  <2>2. Noise(html, lower)[0] = 0
    BY <2>1, NoiseIs
  <2>3. Outside(html, lower) \in Seq(Seq(Alphabet)) /\ Len(html) \in Nat
    BY <1>1, <1>2, OutsideIs
  <2>4. Joined(Outside(html, lower))[0] = <<>>
    BY <2>3, JoinedIs
  <2> QED  BY <2>2, <2>3, <2>4
<1>3. KeptSoFar
  BY <1>1, <1>2 DEF KeptSoFar
<1>4. KeptOutside /\ PlainPagesAreRead
  BY <1>1 DEF KeptOutside, PlainPagesAreRead
<1>5. at \in Nat \ {0}
  BY <1>1
<1> QED  BY <1>1, <1>3, <1>4, <1>5 DEF IInv

-----------------------------------------------------------------------------
(* A round of the loop, on a page that is as long in lower case.           *)
LEMMA KeepByteInv == IInv /\ KeepByte => IInv'
<1> SUFFICES ASSUME IInv, KeepByte PROVE IInv'
  OBVIOUS
<1> DEFINE n == Len(html)
           N == Noise(html, lower)
           J == Joined(Outside(html, lower))
<1>1. /\ step = "strip" /\ at <= n /\ ~OpensNoise
      /\ text' = text \o Garbled(html[at]) /\ at' = at + 1
      /\ UNCHANGED <<reader, page, step>>
  BY DEF KeepByte, Stripping
<1>2. ASSUME reader = "tool", Even
      PROVE  at' \in 1 .. n + 1 /\ N[at' - 1] \in 0 .. at' - 1 /\ text' = J[at' - 1]
  <2>1. /\ html \in Seq(Alphabet) /\ lower \in Seq(Alphabet) /\ Len(lower) = n
        /\ \A k \in 1 .. n : lower[k] \in DOMAIN NoiseEnd => html[k] \in Angles
    BY <1>2, Copies DEF IInv
  <2>2. /\ at \in 1 .. n + 1 /\ N[at - 1] \in 0 .. at - 1 /\ text = J[at - 1]
    BY <1>1, <1>2 DEF IInv, KeptSoFar
  <2>3. n \in Nat /\ at \in 1 .. n
    BY <1>1, <2>1, <2>2
  <2>4. lower[at] \notin DOMAIN NoiseEnd
    BY <1>1, <2>1, <2>3 DEF OpensNoise
  <2>5. N[at] = 0
    <3>1. N[at] = IF N[at - 1] >= at THEN N[at - 1]
                  ELSE IF lower[at] \in DOMAIN NoiseEnd
                  THEN First(lower, {NoiseEnd[lower[at]]}, at) ELSE 0
      BY <2>1, <2>3, NoiseIs
    <3>2. ~(N[at - 1] >= at)
      BY <2>2, <2>3
    <3> QED  BY <2>4, <3>1, <3>2
  <2>6. J[at] = J[at - 1] \o Garbled(html[at])
    <3>1. /\ Outside(html, lower) \in Seq(Seq(Alphabet)) /\ Len(Outside(html, lower)) = n
          /\ Outside(html, lower)[at] = Garbled(html[at])
      BY <1>2, <2>3, <2>5, OutsideIs DEF IInv
    <3>2. J[at] = J[at - 1] \o Outside(html, lower)[at]
      BY <2>3, <3>1, JoinedIs
    <3> QED  BY <3>1, <3>2
  <2>7. at' - 1 = at
    BY <1>1, <2>3
  <2>8. text' = J[at]
    BY <1>1, <2>2, <2>6
  <2> HIDE DEF n, N, J
  <2>9. at' \in 1 .. n + 1 /\ 0 \in 0 .. at
    BY <1>1, <2>3
  <2> QED  BY <2>5, <2>7, <2>8, <2>9
<1>3. KeptSoFar'
  BY <1>1, <1>2, Frame
<1>4. KeptOutside' /\ PlainPagesAreRead'
  BY <1>1, Frame
<1>5. at' \in Nat \ {0}
  BY <1>1 DEF IInv
<1> QED  BY <1>1, <1>3, <1>4, <1>5 DEF IInv

LEMMA NoiseSkipped ==
  ASSUME IInv, Stripping, OpensNoise, reader = "tool", Even
  PROVE  LET n == Len(html)
             J == Joined(Outside(html, lower))
         IN /\ n \in Nat /\ Len(lower) = n /\ at \in 1 .. n /\ Close \in at .. n + 1
            /\ text = J[at - 1]
            /\ \A j \in at .. n : j <= Close =>
                 Noise(html, lower)[j] = Close /\ J[j] = J[at - 1]
<1> DEFINE n == Len(html)
           N == Noise(html, lower)
           outside == Outside(html, lower)
           J == Joined(outside)
<1>1. html \in Seq(Alphabet) /\ lower \in Seq(Alphabet) /\ Len(lower) = n
  BY Copies DEF IInv
<1>2. /\ at \in 1 .. n /\ N[at - 1] \in 0 .. at - 1 /\ text = J[at - 1] /\ n \in Nat
      /\ lower[at] \in DOMAIN NoiseEnd
  BY <1>1 DEF IInv, KeptSoFar, Stripping, OpensNoise
<1>3. Close \in at .. n + 1
  BY <1>1, <1>2, FirstIs DEF Close
<1>4. ASSUME NEW j \in at .. n, j <= Close
      PROVE  N[j] = Close
  <2>1. N[at - 1] < at /\ N[at - 1] \in Nat
    BY <1>2
  <2> QED  BY <1>1, <1>2, <1>4, <2>1, NoiseLasts DEF Close
<1>5. /\ outside \in Seq(Seq(Alphabet)) /\ Len(outside) = n
      /\ \A k \in 1 .. n : outside[k] = IF N[k] = 0 THEN Garbled(html[k]) ELSE <<>>
  BY OutsideIs DEF IInv
<1> HIDE DEF n, N, outside
<1>6. ASSUME NEW j \in at .. n, j <= Close
      PROVE  J[j] = J[at - 1]
  <2>1. ASSUME NEW k \in (at - 1) + 1 .. j
        PROVE  outside[k] = <<>>
    <3>1. k \in at .. n /\ k <= Close /\ k \in 1 .. n /\ Close # 0
      BY <1>2, <1>3, <1>6
    <3> QED  BY <1>4, <1>5, <3>1
  <2>2. at - 1 \in 0 .. Len(outside) /\ j \in at - 1 .. Len(outside)
    BY <1>2, <1>5, <1>6
  <2> QED  BY <1>5, <2>1, <2>2, JoinedStays
<1> QED  BY <1>1, <1>2, <1>3, <1>4, <1>6 DEF n, N, outside

LEMMA SkipNoiseInv == IInv /\ SkipNoise => IInv'
<1> SUFFICES ASSUME IInv, SkipNoise PROVE IInv'
  OBVIOUS
<1>1. /\ Stripping /\ OpensNoise /\ Close <= Len(lower) /\ step = "strip"
      /\ at' = Close + 1 /\ UNCHANGED <<reader, page, step, text>>
  BY DEF SkipNoise, Stripping
<1>2. ASSUME reader = "tool", Even
      PROVE  /\ at' \in 1 .. Len(html) + 1
             /\ Noise(html, lower)[at' - 1] \in 0 .. at' - 1
             /\ text' = Joined(Outside(html, lower))[at' - 1]
  <2>1. /\ Len(html) \in Nat /\ Len(lower) = Len(html) /\ at \in 1 .. Len(html)
        /\ Close \in at .. Len(html) + 1
        /\ text = Joined(Outside(html, lower))[at - 1]
        /\ \A j \in at .. Len(html) : j <= Close =>
             /\ Noise(html, lower)[j] = Close
             /\ Joined(Outside(html, lower))[j] = Joined(Outside(html, lower))[at - 1]
    BY <1>1, <1>2, NoiseSkipped
  <2>2. Close \in at .. Len(html) /\ Close <= Close /\ at' - 1 = Close /\ Close \in Nat
    BY <1>1, <2>1
  <2> HIDE DEF Close
  <2> QED  BY <1>1, <2>1, <2>2
<1>3. KeptSoFar'
  BY <1>1, <1>2, Frame
<1>4. KeptOutside' /\ PlainPagesAreRead'
  BY <1>1, Frame
<1>5. at' \in Nat \ {0}
  <2>1. lower \in Seq(Alphabet) /\ at \in 1 .. Len(lower) + 1 /\ Len(lower) \in Nat
    BY <1>1, Copies DEF IInv, OpensNoise
  <2>2. Close \in at .. Len(lower) + 1
    BY <2>1, FirstIs DEF Close
  <2> HIDE DEF Close
  <2> QED  BY <1>1, <2>1, <2>2
<1> QED  BY <1>1, <1>3, <1>4, <1>5 DEF IInv

(* The loop is over, and what is outside noise is what was kept.           *)
LEMMA StripDone ==
  ASSUME IInv, DropRest \/ StripEnds
  PROVE  IInv'
<1>1. step = "strip" /\ step' = "description" /\ UNCHANGED <<reader, page, at, text>>
  BY DEF DropRest, StripEnds, Stripping
<1>2. ASSUME reader = "tool", Even
      PROVE  text = FlattenSeq(Outside(html, lower))
  <2>1. FlattenSeq(Outside(html, lower)) = Joined(Outside(html, lower))[Len(html)]
    BY <1>2, OutsideIs, FlattenIsJoined DEF IInv
  <2>2. CASE StripEnds
    <3>1. at > Len(html) /\ at \in 1 .. Len(html) + 1
          /\ text = Joined(Outside(html, lower))[at - 1]
      BY <1>1, <1>2, <2>2 DEF IInv, KeptSoFar, StripEnds
    <3>2. Len(html) \in Nat
      BY <1>2, OutsideIs DEF IInv
    <3>3. at - 1 = Len(html)
      BY <3>1, <3>2
    <3> QED  BY <2>1, <3>1, <3>3
  <2>3. CASE DropRest
    <3>1. Stripping /\ OpensNoise /\ Close > Len(lower)
      BY <2>3 DEF DropRest
    <3>2. /\ Len(html) \in Nat /\ Len(lower) = Len(html) /\ at \in 1 .. Len(html)
          /\ Close \in at .. Len(html) + 1
          /\ text = Joined(Outside(html, lower))[at - 1]
          /\ \A j \in at .. Len(html) : j <= Close =>
               Joined(Outside(html, lower))[j] = Joined(Outside(html, lower))[at - 1]
      BY <1>2, <3>1, NoiseSkipped
    <3>3. Len(html) \in at .. Len(html) /\ Len(html) <= Close
      BY <3>1, <3>2
    <3> QED  BY <2>1, <3>2, <3>3
  <2> QED  BY <2>2, <2>3
<1>3. KeptOutside'
  BY <1>1, <1>2, Frame
<1>4. KeptSoFar' /\ PlainPagesAreRead'
  BY <1>1, Frame
<1> QED  BY <1>1, <1>3, <1>4 DEF IInv

-----------------------------------------------------------------------------
(* No slice of a page without wide characters is out of bounds.            *)
LEMMA PlainPage ==
  ASSUME page \in Pages, Plain
  PROVE  /\ Even
         /\ html \in Seq(Whole) /\ html \in Seq(Alphabet) /\ lower \in Seq(Alphabet)
         /\ Len(html) = Len(lower) /\ Len(html) \in Nat
<1>1. Even
  BY DEF Plain, Even, Wide
<1> QED  BY <1>1, PlainIsWhole, Copies

LEMMA WholeBoundary ==
  ASSUME NEW s \in Seq(Whole), NEW i
  PROVE  Boundary(s, i)
BY PagesAssumption DEF Boundary, Whole

LEMMA NoCutFails ==
  ASSUME page \in Pages, Plain, NEW name
  PROVE  ~CutFails(name)
<1> SUFFICES ASSUME Found(name) PROVE Legal(html, Named(name), WindowEnd(html, Named(name)))
  BY DEF CutFails
<1> DEFINE i == Named(name)
           j == WindowEnd(html, i)
           n == Len(html)
<1>1. html \in Seq(Whole) /\ lower \in Seq(Alphabet) /\ n \in Nat /\ Len(lower) = n
  BY PlainPage
<1>2. i \in 1 .. n
  <2>1. i \in 1 .. n + 1
    BY <1>1, FirstIs DEF Named
  <2>2. i <= n
    BY <1>1 DEF Found
  <2> QED  BY <1>1, <2>1, <2>2
<1> HIDE DEF i
<1>3. i <= j + 1 /\ j <= n
  <2>1. j = IF i + Window - 1 > n THEN n ELSE i + Window - 1
    BY DEF WindowEnd
  <2> HIDE DEF j, n
  <2> QED  BY <1>1, <1>2, <2>1, BoundsAssumption
<1>4. Boundary(html, i) /\ Boundary(html, j + 1)
  BY <1>1, WholeBoundary
<1> QED  BY <1>3, <1>4 DEF Legal, i

LEMMA StripTagsType ==
  ASSUME NEW S, NEW s \in Seq(S)
  PROVE  StripTags(s) \in Seq(S)
<1> DEFINE swallowed(k) ==
             LET marks == {j \in 1 .. k - 1 : s[j] \in Angles}
             IN marks # {} /\ s[Greatest(marks)] = "<"
           kept == {k \in DOMAIN s : s[k] \notin Angles /\ ~swallowed(k)}
           seqs == [k \in DOMAIN s |-> IF k \in kept THEN <<s[k]>> ELSE <<>>]
<1>1. StripTags(s) = FlattenSeq(seqs)
  BY DEF StripTags
<1> HIDE DEF kept
<1>2. \A k \in DOMAIN s : <<s[k]>> \in Seq(S)
  OBVIOUS
<1>3. seqs \in Seq(Seq(S))
  <2>1. DOMAIN s = 1 .. Len(s) /\ Len(s) \in Nat /\ <<>> \in Seq(S)
    OBVIOUS
  <2> QED  BY <1>2, <2>1
<1> HIDE DEF seqs
<1> QED  BY <1>1, <1>3, FlattenIsJoined

LEMMA ElementType ==
  ASSUME NEW S, NEW s \in Seq(S), NEW O, NEW C
  PROVE  Element(s, O, C) \in Seq(S)
<1> DEFINE from == First(s, O, 1)
           to == First(s, C, from + 1)
           n == Len(s)
<1>1. n \in Nat /\ from \in 1 .. n + 1
  BY FirstIs
<1>2. Element(s, O, C) = IF from <= n /\ to <= n THEN SubSeq(s, from + 1, to - 1) ELSE <<>>
  BY DEF Element
<1>3. CASE from <= n /\ to <= n
  <2>1. from + 1 \in 1 .. n + 1
    BY <1>1, <1>3
  <2>2. to \in from + 1 .. n + 1
    <3> HIDE DEF from
    <3> QED  BY <2>1, FirstIs
  <2> HIDE DEF from, to, n
  <2>3. from + 1 \in 1 .. n + 1 /\ to - 1 \in from .. n
    BY <1>1, <1>3, <2>2
  <2>4. SubSeq(s, from + 1, to - 1) \in Seq(S)
    <3>1. \A i \in from + 1 .. to - 1 : s[i] \in S
      BY <1>1, <2>3 DEF n
    <3> QED  BY <1>1, <2>3, <3>1, SubSeqProperties
  <2> QED  BY <1>1, <1>2, <1>3, <2>3, <2>4
<1>4. CASE ~(from <= n /\ to <= n)
  <2> HIDE DEF from, to, n
  <2> QED  BY <1>2, <1>4
<1> QED  BY <1>3, <1>4

LEMMA NoPanic ==
  ASSUME IInv, Plain
  PROVE  ~StripPanics /\ ~DescriptionPanics /\ ~KeywordsPanic /\ ~SummaryPanics
<1>1. page \in Pages /\ at \in Nat /\ Len(html) \in Nat /\ Len(html) = Len(lower)
  BY PlainPage DEF IInv
<1>2. ~StripPanics
  BY <1>1 DEF StripPanics, Stripping, Overrun
<1>3. ~DescriptionPanics /\ ~KeywordsPanic
  BY <1>1, NoCutFails DEF DescriptionPanics, KeywordsPanic
<1>4. SummaryFits
  <2>1. html \in Seq(Whole)
    BY <1>1, PlainPage
  <2>2. FirstText \in Seq(Whole)
    BY <2>1, ElementType, StripTagsType DEF FirstText
  <2> QED  BY <2>2, WholeBoundary DEF SummaryFits
<1> QED  BY <1>2, <1>3, <1>4 DEF SummaryPanics

LEMMA NextInv == IInv /\ [Next]_vars => IInv'
<1> SUFFICES ASSUME IInv, [Next]_vars PROVE IInv'
  OBVIOUS
<1>1. CASE KeepByte
  BY <1>1, KeepByteInv
<1>2. CASE SkipNoise
  BY <1>2, SkipNoiseInv
<1>3. CASE DropRest \/ StripEnds
  BY <1>3, StripDone
<1>4. CASE ReadTitle
  <2>1. /\ step = "title" /\ step' \in {"strip", "summary"}
        /\ (reader = "tool" => step' = "strip") /\ (reader # "tool" => step' = "summary")
        /\ UNCHANGED <<reader, page, at, text>>
    BY <1>4 DEF ReadTitle
  <2>2. KeptSoFar' /\ KeptOutside' /\ PlainPagesAreRead'
    BY <2>1, Frame DEF IInv, KeptSoFar
  <2> QED  BY <2>1, <2>2 DEF IInv
<1>5. CASE \/ ReadDescription \/ NoDescription \/ ReadParagraph \/ ReadContent
           \/ ReadKeywords \/ ReadSummary
  <2>1. /\ step \notin {"title", "strip", "panicked"}
        /\ step' \notin {"title", "strip", "panicked"}
        /\ UNCHANGED <<reader, page, at, text>>
    BY <1>5 DEF ReadDescription, NoDescription, ReadParagraph, ReadContent, ReadKeywords,
                ReadSummary
  <2>2. KeptSoFar' /\ KeptOutside' /\ PlainPagesAreRead'
    BY <2>1, Frame DEF IInv, KeptOutside
  <2> QED  BY <2>1, <2>2 DEF IInv
<1>6. CASE StripPanics \/ DescriptionPanics \/ KeywordsPanic \/ SummaryPanics
  <2>1. step' = "panicked" /\ UNCHANGED <<reader, page, at, text>>
    BY <1>6 DEF StripPanics, DescriptionPanics, KeywordsPanic, SummaryPanics, Panic
  <2>2. ~Plain
    BY <1>6, NoPanic
  <2>3. KeptSoFar' /\ KeptOutside' /\ PlainPagesAreRead'
    BY <2>1, <2>2, Frame
  <2> QED  BY <2>1, <2>3 DEF IInv
<1>7. CASE UNCHANGED vars
  <2>1. UNCHANGED <<reader, page, at, text, step>>
    BY <1>7 DEF vars
  <2>2. KeptSoFar' /\ KeptOutside' /\ PlainPagesAreRead'
    BY <2>1, Frame DEF IInv, KeptOutside, KeptSoFar, PlainPagesAreRead, Plain
  <2> QED  BY <2>1, <2>2 DEF IInv
<1> QED  BY <1>1, <1>2, <1>3, <1>4, <1>5, <1>6, <1>7 DEF Next, Strip, Describe

-----------------------------------------------------------------------------
(* A sequence of single pieces, joined.                                    *)
LEMMA Singles ==
  ASSUME NEW S, NEW s \in Seq(S)
  PROVE  FlattenSeq([k \in 1 .. Len(s) |-> <<s[k]>>]) = s
<1> DEFINE seqs == [k \in 1 .. Len(s) |-> <<s[k]>>]
           n == Len(s)
           J == Joined(seqs)
           P == {i \in Nat : i <= n => Len(J[i]) = i /\ \A k \in 1 .. i : J[i][k] = s[k]}
<1>1. n \in Nat /\ \A k \in 1 .. n : s[k] \in S
  OBVIOUS
<1>2. seqs \in Seq(Seq(S)) /\ Len(seqs) = n /\ \A k \in 1 .. n : seqs[k] = <<s[k]>>
  <2>1. \A k \in 1 .. n : <<s[k]>> \in Seq(S)
    BY <1>1
  <2> QED  BY <1>1, <2>1
<1> HIDE DEF seqs, n
<1>3. /\ J[0] = <<>>
      /\ \A i \in 1 .. n : J[i] = J[i - 1] \o seqs[i]
      /\ \A i \in 0 .. n : J[i] \in Seq(S)
  BY <1>2, JoinedIs
<1> HIDE DEF J
<1>4. 0 \in P
  BY <1>1, <1>3
<1>5. ASSUME NEW i \in 0 .. n - 1, i \in P
      PROVE  i + 1 \in P
  <2>1. i + 1 \in 1 .. n /\ i \in 0 .. n /\ i + 1 \in 0 .. n /\ i + 1 \in Nat /\ i <= n
    BY <1>1
  <2>2. Len(J[i]) = i /\ \A k \in 1 .. i : J[i][k] = s[k]
    BY <1>5, <2>1
  <2>3. J[i + 1] = J[i] \o <<s[i + 1]>> /\ J[i] \in Seq(S) /\ s[i + 1] \in S
    <3>1. ASSUME NEW j \in 1 .. n, j = i + 1
          PROVE  J[j] = J[i] \o <<s[j]>>
      <4>1. j - 1 = i
        BY <2>1, <3>1
      <4> QED  BY <1>2, <1>3, <4>1
    <3> QED  BY <1>1, <1>3, <2>1, <3>1
  <2> DEFINE one == <<s[i + 1]>>
  <2>4. one \in Seq(S) /\ Len(one) = 1 /\ one[1] = s[i + 1]
    BY <2>3
  <2> HIDE DEF one
  <2>5. /\ Len(J[i] \o one) = i + 1
        /\ \A k \in 1 .. i + 1 : (J[i] \o one)[k] = IF k <= i THEN J[i][k] ELSE one[k - i]
    <3>1. /\ Len(J[i] \o one) = Len(J[i]) + Len(one)
          /\ \A k \in 1 .. Len(J[i]) + Len(one) :
               (J[i] \o one)[k] = IF k <= Len(J[i]) THEN J[i][k] ELSE one[k - Len(J[i])]
      BY <2>3, <2>4, ConcatProperties
    <3>2. Len(J[i]) = i /\ Len(one) = 1
      BY <2>2, <2>4
    <3> QED  BY <3>1, <3>2
  <2>6. J[i + 1] = J[i] \o one
    BY <2>3 DEF one
  <2>7. ASSUME NEW k \in 1 .. i + 1
        PROVE  J[i + 1][k] = s[k]
    <3>1. CASE k <= i
      <4>1. k \in 1 .. i
        BY <2>1, <3>1
      <4> QED  BY <2>2, <2>5, <2>6, <3>1, <4>1
    <3>2. CASE ~(k <= i)
      <4>1. k = i + 1 /\ k - i = 1
        BY <2>1, <3>2
      <4> QED  BY <2>4, <2>5, <2>6, <3>2, <4>1
    <3> QED  BY <3>1, <3>2
  <2> QED  BY <2>1, <2>5, <2>6, <2>7
<1> HIDE DEF P
<1>6. n \in P
  <2>1. \A i \in 0 .. n : i \in P
    BY <1>1, <1>4, <1>5, Climb
  <2> QED  BY <1>1, <2>1
<1>7. FlattenSeq(seqs) = J[n]
  BY <1>2, FlattenIsJoined DEF J
<1>8. Len(J[n]) = n /\ \A k \in 1 .. n : J[n][k] = s[k]
  BY <1>1, <1>6 DEF P
<1>9. J[n] = s
  <2>1. J[n] \in Seq(S) /\ Len(J[n]) = Len(s) /\ \A k \in 1 .. Len(J[n]) : J[n][k] = s[k]
    BY <1>1, <1>3, <1>8 DEF n
  <2> QED  BY <2>1, SeqEqual
<1> QED  BY <1>7, <1>9 DEF seqs

(* A page without wide characters is its bytes, and the copy its tags.     *)
LEMMA PlainCopies ==
  ASSUME page \in Pages, Plain
  PROVE  /\ html = page /\ DOMAIN page = 1 .. Len(page) /\ Len(page) \in Nat
         /\ lower = [k \in 1 .. Len(page) |-> Tag(page[k])]
<1> DEFINE n == Len(page)
           tags == [k \in 1 .. n |-> Tag(page[k])]
<1>1. page \in Seq(Chars) /\ DOMAIN page = 1 .. n /\ n \in Nat
  BY PagesAssumption
<1>2. \A k \in 1 .. n : page[k] \in Chars /\ page[k] \notin Wide
  BY <1>1 DEF Plain
<1>3. \A k \in 1 .. n : Bytes(page[k]) = <<page[k]>> /\ Lower(page[k]) = <<Tag(page[k])>>
  BY <1>2 DEF Bytes, Lower, Tag, Wide
<1>4. html = FlattenSeq([k \in 1 .. n |-> <<page[k]>>])
  BY <1>1, <1>3 DEF html
<1>5. tags \in Seq(Alphabet) /\ Len(tags) = n /\ \A k \in 1 .. n : tags[k] = Tag(page[k])
  <2>1. \A k \in 1 .. n : Tag(page[k]) \in Alphabet
    BY <1>2 DEF Tag, Alphabet
  <2> QED  BY <1>1, <2>1
<1>6. lower = FlattenSeq([k \in 1 .. n |-> <<tags[k]>>])
  BY <1>1, <1>3, <1>5 DEF lower
<1> HIDE DEF tags, n
<1>7. html = page
  BY <1>1, <1>4, Singles DEF n
<1>8. lower = tags
  BY <1>5, <1>6, Singles
<1> QED  BY <1>1, <1>7, <1>8 DEF tags, n

(* What First passes by.                                                   *)
LEMMA FirstPasses ==
  ASSUME NEW T, NEW s \in Seq(T), NEW S, NEW i \in 1 .. Len(s) + 1, NEW h \in i .. First(s, S, i) - 1
  PROVE  s[h] \notin S
<1> DEFINE C == {j \in i .. Len(s) : s[j] \in S} \cup {Len(s) + 1}
           f == First(s, S, i)
<1>1. Len(s) \in Nat
  OBVIOUS
<1>2. C \in SUBSET Nat /\ C # {} /\ f = Least(C) /\ \A j \in i .. Len(s) : s[j] \in S => j \in C
  BY <1>1 DEF First
<1>3. f \in i .. Len(s) + 1
  BY FirstIs
<1> HIDE DEF C, f
<1>4. \A j \in C : f <= j
  BY <1>2, LeastIs
<1>5. h \in i .. f - 1
  BY DEF f
<1>6. h \in i .. Len(s) /\ ~(f <= h)
  BY <1>1, <1>3, <1>5
<1> QED  BY <1>2, <1>4, <1>6

(* Where no noise element holds one of its own kind, its first close is    *)
(* the one that matches.                                                   *)
LEMMA MatchingIs ==
  ASSUME page \in Pages, Plain, NoneInItsOwnKind,
         NEW k \in 1 .. Len(page), Tag(page[k]) \in DOMAIN NoiseEnd
  PROVE  Matching(k) = First(lower, {NoiseEnd[lower[k]]}, k)
<1> DEFINE n == Len(page)
           tag == Tag(page[k])
           close == NoiseEnd[tag]
           f == First(lower, {NoiseEnd[lower[k]]}, k)
           balanced == {j \in k .. n : Counted(k, j, tag) = Counted(k, j, close)}
<1>1. /\ n \in Nat /\ DOMAIN page = 1 .. n /\ lower \in Seq(Alphabet) /\ Len(lower) = n
      /\ \A h \in 1 .. n : lower[h] = Tag(page[h])
  BY PlainCopies, Copies
<1>2. /\ f \in k .. n + 1
      /\ f <= n => Tag(page[f]) = close
      /\ \A h \in k .. f - 1 : Tag(page[h]) # close
  <2>1. k \in 1 .. Len(lower) + 1 /\ lower[k] = tag
    BY <1>1
  <2>2. f \in k .. n + 1 /\ (f <= n => lower[f] = close)
    BY <1>1, <2>1, FirstIs
  <2>3. \A h \in k .. f - 1 : lower[h] # close
    BY <1>1, <2>1, FirstPasses
  <2> HIDE DEF f, close, n
  <2>4. \A h \in k .. f - 1 : h \in 1 .. n
    BY <1>1, <2>2 DEF n
  <2>5. f <= n => f \in 1 .. n
    BY <1>1, <2>2
  <2> QED  BY <1>1, <2>2, <2>3, <2>4, <2>5
<1>3. Matching(k) = Least(balanced \cup {n + 1})
  BY DEF Matching
<1>4. close # tag
  BY DEF NoiseEnd
<1>5. ASSUME NEW h \in k + 1 .. n, Tag(page[h]) = tag
      PROVE  \E c \in k .. h : Tag(page[c]) = close
  BY <1>1, <1>5 DEF NoneInItsOwnKind
<1> HIDE DEF f, tag, close, n
<1>6. ASSUME NEW j \in k .. n, j <= f
      PROVE  Counted(k, j, tag) = 1
  <2>1. ASSUME NEW h \in k .. j, Tag(page[h]) = tag, h # k
        PROVE  FALSE
    <3>1. h \in k + 1 .. n /\ h <= f
      BY <1>1, <1>2, <1>6, <2>1
    <3>2. PICK c \in k .. h : Tag(page[c]) = close
      BY <1>5, <2>1, <3>1
    <3>3. c = h /\ h = f
      <4>1. c \notin k .. f - 1
        BY <1>2, <3>2
      <4> QED  BY <1>1, <1>2, <3>1, <4>1
    <3> QED  BY <1>4, <2>1, <3>2, <3>3
  <2>2. k \in k .. j /\ Tag(page[k]) = tag
    BY <1>1 DEF tag
  <2>3. {h \in k .. j : Tag(page[h]) = tag} = {k}
    BY <2>1, <2>2
  <2> QED  BY <2>3, FS_Singleton DEF Counted
<1>7. ASSUME NEW j \in k .. n, j < f
      PROVE  j \notin balanced
  <2>1. Counted(k, j, tag) = 1
    BY <1>1, <1>2, <1>6, <1>7
  <2>2. {h \in k .. j : Tag(page[h]) = close} = {}
    <3>1. \A h \in k .. j : h \in k .. f - 1
      BY <1>1, <1>2, <1>7
    <3> QED  BY <1>2, <3>1
  <2>3. Counted(k, j, close) = 0
    BY <2>2, FS_EmptySet DEF Counted
  <2> QED  BY <2>1, <2>3
<1>8. ASSUME f <= n
      PROVE  f \in balanced
  <2>1. f \in k .. n
    BY <1>1, <1>2, <1>8
  <2>2. Counted(k, f, tag) = 1
    BY <1>1, <1>6, <2>1
  <2>3. ASSUME NEW h \in k .. f, Tag(page[h]) = close
        PROVE  h = f
    <3>1. h \notin k .. f - 1
      BY <1>2, <2>3
    <3> QED  BY <1>2, <3>1
  <2>4. f \in k .. f
    BY <2>1
  <2>5. {h \in k .. f : Tag(page[h]) = close} = {f}
    BY <1>2, <1>8, <2>3, <2>4
  <2>6. Counted(k, f, close) = 1
    BY <2>5, FS_Singleton DEF Counted
  <2> QED  BY <2>1, <2>2, <2>6
<1>9. balanced \subseteq k .. n /\ k \in Nat
  OBVIOUS
<1> HIDE DEF balanced
<1> DEFINE C == balanced \cup {n + 1}
<1>10. C \in SUBSET Nat /\ C # {}
  BY <1>1, <1>9
<1>11. f \in C /\ \A j \in C : f <= j
  <2>1. f \in C
    BY <1>1, <1>2, <1>8
  <2>2. ASSUME NEW j \in balanced
        PROVE  f <= j
    BY <1>1, <1>2, <1>7, <1>9
  <2> QED  BY <1>1, <1>2, <2>1, <2>2
<1> HIDE DEF C
<1>12. Least(C) \in C /\ \A j \in C : Least(C) <= j
  BY <1>10, LeastIs
<1>13. Least(C) = f
  <2>1. Least(C) \in Nat /\ f \in Nat
    BY <1>10, <1>11, <1>12
  <2>2. Least(C) <= f /\ f <= Least(C)
    BY <1>11, <1>12
  <2> QED  BY <2>1, <2>2
<1> QED  BY <1>3, <1>13 DEF C, f

(* What OnlyNoiseIsLost calls noise.                                       *)
MatchedTo(f) ==
  [k \in 0 .. Len(page) |->
    IF k = 0 THEN 0
    ELSE IF f[k - 1] >= k THEN f[k - 1]
    ELSE IF Tag(page[k]) \in DOMAIN NoiseEnd THEN Matching(k)
    ELSE 0]
MatchedNoise == CHOOSE f : f = MatchedTo(f)

(* There it is what the code takes for noise.                              *)
LEMMA LostIs ==
  ASSUME page \in Pages, KeptOutside
  PROVE  OnlyNoiseIsLost
<1> SUFFICES ASSUME reader = "tool", step \notin {"title", "strip", "panicked"},
                    Plain, NoneInItsOwnKind
             PROVE  text = FlattenSeq([k \in 1 .. Len(page) |->
                             IF MatchedNoise[k] = 0 THEN <<page[k]>> ELSE <<>>])
  BY DEF OnlyNoiseIsLost, Plain, MatchedNoise, MatchedTo
<1>1. /\ html = page /\ Len(page) \in Nat /\ DOMAIN page = 1 .. Len(page)
      /\ \A k \in 1 .. Len(page) : lower[k] = Tag(page[k])
  BY PlainCopies
<1>2. text = FlattenSeq(Outside(html, lower))
  BY PlainPage DEF KeptOutside
<1>3. ASSUME NEW f
      PROVE  MatchedTo(f) = NoiseTo(f, html, lower)
  <2>1. ASSUME NEW k \in 1 .. Len(page), Tag(page[k]) \in DOMAIN NoiseEnd
        PROVE  Matching(k) = First(lower, {NoiseEnd[lower[k]]}, k)
    BY <2>1, MatchingIs
  <2>2. \A k \in 0 .. Len(page) : k # 0 => k \in 1 .. Len(page)
    BY <1>1
  <2> QED  BY <1>1, <2>1, <2>2 DEF MatchedTo, NoiseTo
<1>4. MatchedNoise = Noise(html, lower)
  BY <1>3 DEF MatchedNoise, Noise
<1>5. \A k \in 1 .. Len(page) : Garbled(page[k]) = <<page[k]>>
  BY <1>1, PagesAssumption DEF Garbled
<1> QED  BY <1>1, <1>2, <1>4, <1>5 DEF Outside

(* The tool keeps all that is outside noise elements, and nothing that is  *)
(* in one up to its matching close, of every page without wide characters  *)
(* whose noise elements hold none of their own kind                        *)
(* (extract_content.rs:117-149).                                           *)
THEOREM NoiseAndNoMore == Spec => []OnlyNoiseIsLost
<1>1. IInv => OnlyNoiseIsLost
  BY LostIs DEF IInv
<1> QED  BY InitInv, NextInv, <1>1, PTL DEF Spec

(* No page without wide characters makes a reader panic, whatever the      *)
(* bounds (crawler.rs:113-117, 129; extract_content.rs:120-185).           *)
THEOREM PlainIsSafe == Spec => []PlainPagesAreRead
<1>1. IInv => PlainPagesAreRead
  BY DEF IInv
<1> QED  BY InitInv, NextInv, <1>1, PTL DEF Spec

-----------------------------------------------------------------------------
(***************************************************************************)
(* Speech.                                                                 *)
(***************************************************************************)

(* What SubSeq cuts out of a sequence.                                     *)
LEMMA Cut ==
  ASSUME NEW S, NEW s \in Seq(S), NEW i \in Nat \ {0}, NEW j \in Nat, j <= Len(s)
  PROVE  /\ SubSeq(s, i, j) \in Seq(S)
         /\ Len(SubSeq(s, i, j)) = IF i <= j THEN j - i + 1 ELSE 0
         /\ \A k \in 1 .. j - i + 1 : SubSeq(s, i, j)[k] = s[i + k - 1]
<1>1. ASSUME NEW k \in i .. j
      PROVE  s[k] \in S
  <2>1. Len(s) \in Nat /\ k \in 1 .. Len(s)
    OBVIOUS
  <2> QED  BY <2>1
<1> QED  BY <1>1, SubSeqProperties

(* Least is the least of a set of numbers that is not empty.               *)
LEMMA FirstOf ==
  ASSUME NEW S \in SUBSET Nat, S # {}
  PROVE  Least(S) \in S /\ \A j \in S : Least(S) <= j
BY NatMin DEF Least

(* Greatest is the greatest of a bounded one.                              *)
LEMMA LastOf ==
  ASSUME NEW n \in Nat, NEW S \in SUBSET (0 .. n), S # {}
  PROVE  Greatest(S) \in S /\ \A j \in S : j <= Greatest(S)
<1> DEFINE D == {n - i : i \in S}
<1>1. D \in SUBSET Nat /\ D # {}
  <2>1. \A i \in S : i \in Nat /\ n - i \in Nat
    OBVIOUS
  <2> QED  BY <2>1
<1>2. PICK d \in D : \A e \in D : d <= e
  <2> HIDE DEF D
  <2> QED  BY <1>1, NatMin
<1>3. PICK i \in S : d = n - i
  OBVIOUS
<1>4. ASSUME NEW j \in S
      PROVE  j <= i
  <2>1. n - j \in D
    OBVIOUS
  <2>2. n - i <= n - j
    BY <1>2, <1>3, <2>1
  <2> QED  BY <2>2
<1> QED  BY <1>4 DEF Greatest

(* What From leaves of a sequence.                                         *)
LEMMA Rest ==
  ASSUME NEW S, NEW s \in Seq(S), NEW i \in Nat \ {0}
  PROVE  /\ From(s, i) \in Seq(S)
         /\ Len(From(s, i)) = IF i <= Len(s) THEN Len(s) - i + 1 ELSE 0
         /\ \A k \in 1 .. Len(s) - i + 1 : From(s, i)[k] = s[i + k - 1]
BY Cut DEF From

(* A prefix, position by position.                                         *)
LEMMA PrefixIs ==
  ASSUME NEW S, NEW s \in Seq(S), NEW t \in Seq(S)
  PROVE  IsPrefix(s, t) <=> Len(s) <= Len(t) /\ \A k \in 1 .. Len(s) : s[k] = t[k]
<1>1. Len(s) \in Nat /\ Len(t) \in Nat
  OBVIOUS
<1>2. CASE ~(Len(s) <= Len(t))
  BY <1>2 DEF IsPrefix
<1>3. CASE Len(s) <= Len(t)
  <2> DEFINE a == SubSeq(s, 1, Len(s))
             b == SubSeq(t, 1, Len(s))
  <2>1. /\ a \in Seq(S) /\ b \in Seq(S) /\ Len(a) = Len(s) /\ Len(b) = Len(s)
        /\ \A k \in 1 .. Len(s) : a[k] = s[k] /\ b[k] = t[k]
    BY <1>1, <1>3, Cut
  <2> HIDE DEF a, b
  <2>2. a = b <=> \A k \in 1 .. Len(s) : a[k] = b[k]
    BY <2>1, SeqEqual
  <2>3. IsPrefix(s, t) <=> a = b
    BY <1>3 DEF IsPrefix, a, b
  <2> QED  BY <1>3, <2>1, <2>2, <2>3
<1> QED  BY <1>2, <1>3

Str == Seq(Pieces)

(* Texts, and what joining and cutting them gives.                         *)
LEMMA StrIs ==
  /\ <<>> \in Str
  /\ \A p \in Pieces : <<p>> \in Str
  /\ \A p, q \in Pieces : <<p, q>> \in Str
  /\ \A s \in Str : Len(s) \in Nat /\ DOMAIN s = 1 .. Len(s) /\ \A i \in 1 .. Len(s) : s[i] \in Pieces
BY DEF Str

(* Joined texts, position by position.                                     *)
LEMMA StrJoin ==
  ASSUME NEW s \in Str, NEW t \in Str
  PROVE  /\ s \o t \in Str
         /\ Len(s \o t) = Len(s) + Len(t)
         /\ \A i \in 1 .. Len(s) : (s \o t)[i] = s[i]
         /\ \A i \in 1 .. Len(t) : (s \o t)[Len(s) + i] = t[i]
<1>1. Len(s) \in Nat /\ Len(t) \in Nat
  BY StrIs
<1>2. /\ s \o t \in Str
      /\ Len(s \o t) = Len(s) + Len(t)
      /\ \A i \in 1 .. Len(s) + Len(t) : (s \o t)[i] = IF i <= Len(s) THEN s[i] ELSE t[i - Len(s)]
  BY ConcatProperties DEF Str
<1>3. ASSUME NEW i \in 1 .. Len(t)
      PROVE  (s \o t)[Len(s) + i] = t[i]
  <2>1. Len(s) + i \in 1 .. Len(s) + Len(t) /\ ~(Len(s) + i <= Len(s)) /\ (Len(s) + i) - Len(s) = i
    BY <1>1
  <2> QED  BY <1>2, <2>1
<1>4. \A i \in 1 .. Len(s) : i \in 1 .. Len(s) + Len(t) /\ i <= Len(s)
  BY <1>1
<1> QED  BY <1>2, <1>3, <1>4

(* w is s and then t.                                                      *)
Appended(w, s, t) ==
  /\ w \in Str
  /\ Len(w) = Len(s) + Len(t)
  /\ \A i \in 1 .. Len(s) : w[i] = s[i]
  /\ \A i \in 1 .. Len(t) : w[Len(s) + i] = t[i]

(* The same in one word.                                                   *)
LEMMA StrJoined ==
  ASSUME NEW s \in Str, NEW t \in Str
  PROVE  Appended(s \o t, s, t)
BY StrJoin DEF Appended

(* A cut text, position by position.                                       *)
LEMMA StrCut ==
  ASSUME NEW s \in Str, NEW i \in Nat \ {0}, NEW j \in Nat, j <= Len(s)
  PROVE  /\ SubSeq(s, i, j) \in Str
         /\ Len(SubSeq(s, i, j)) = IF i <= j THEN j - i + 1 ELSE 0
         /\ \A k \in 1 .. j - i + 1 : SubSeq(s, i, j)[k] = s[i + k - 1]
BY Cut DEF Str

(* The rest of a text, position by position.                               *)
LEMMA StrRest ==
  ASSUME NEW s \in Str, NEW i \in Nat \ {0}
  PROVE  /\ From(s, i) \in Str
         /\ Len(From(s, i)) = IF i <= Len(s) THEN Len(s) - i + 1 ELSE 0
         /\ \A k \in 1 .. Len(s) - i + 1 : From(s, i)[k] = s[i + k - 1]
BY Rest DEF Str

(* A prefix of a text, position by position.                               *)
LEMMA StrPrefix ==
  ASSUME NEW s \in Str, NEW t \in Str
  PROVE  IsPrefix(s, t) <=> Len(s) <= Len(t) /\ \A k \in 1 .. Len(s) : s[k] = t[k]
BY PrefixIs DEF Str

(* What the assumption on the constants says, in the terms used below.     *)
LEMMA WellFormedIs ==
  ASSUME WellFormed
  PROVE  /\ Marks \subseteq Pieces /\ Digits \subseteq Pieces
         /\ \A d \in Digits : d \notin Marks \cup Blank \cup {"#", "{"}
         /\ Tokens \subseteq Str
         /\ \A r \in Roles : \A stop \in Stops[r] :
              stop \in Str /\ stop # <<>> /\ Len(stop) \in Nat \ {0}
         /\ Calls \subseteq Seq(Strings \cup Refs \cup Ints)
<1>1. \A r \in Roles : Stops[r] \subseteq Str \ {<<>>}
  BY DEF WellFormed, Str
<1>2. \A s \in Str : s # <<>> => Len(s) \in Nat \ {0}
  BY EmptySeq DEF Str
<1>3. /\ Marks \subseteq Pieces /\ Digits \subseteq Pieces
      /\ \A d \in Digits : d \notin Marks \cup Blank \cup {"#", "{"}
  BY DEF WellFormed
<1> QED  BY <1>1, <1>2, <1>3 DEF WellFormed, Str

(* Where a stop string begins: all of it stands there.                     *)
LEMMA StopsAre ==
  ASSUME WellFormed, role \in Roles, NEW s \in Str, NEW i
  PROVE  i \in StopsAt(s) <=>
           /\ i \in 1 .. Len(s)
           /\ \E stop \in Stops[role] :
                /\ i + Len(stop) - 1 <= Len(s)
                /\ \A k \in 1 .. Len(stop) : stop[k] = s[i + k - 1]
<1>1. i \in StopsAt(s) <=>
        i \in 1 .. Len(s) /\ \E stop \in Stops[role] : IsPrefix(stop, From(s, i))
  BY LenProperties DEF StopsAt, Str
<1>2. ASSUME i \in 1 .. Len(s), NEW stop \in Stops[role]
      PROVE  IsPrefix(stop, From(s, i)) <=>
               /\ i + Len(stop) - 1 <= Len(s)
               /\ \A k \in 1 .. Len(stop) : stop[k] = s[i + k - 1]
  <2>1. stop \in Str /\ Len(stop) \in Nat /\ Len(s) \in Nat /\ i \in Nat \ {0}
    <3>1. stop \in Str /\ Len(stop) \in Nat
      BY WellFormedIs
    <3>2. Len(s) \in Nat
      BY DEF Str
    <3> QED  BY <1>2, <3>1, <3>2
  <2>2. /\ From(s, i) \in Str
        /\ Len(From(s, i)) = Len(s) - i + 1
        /\ \A k \in 1 .. Len(s) - i + 1 : From(s, i)[k] = s[i + k - 1]
    <3>1. i <= Len(s)
      BY <1>2, <2>1
    <3> QED  BY <2>1, <3>1, StrRest
  <2>3. IsPrefix(stop, From(s, i)) <=>
          /\ Len(stop) <= Len(s) - i + 1
          /\ \A k \in 1 .. Len(stop) : stop[k] = From(s, i)[k]
    BY <2>1, <2>2, StrPrefix
  <2>4. Len(stop) <= Len(s) - i + 1 <=> i + Len(stop) - 1 <= Len(s)
    BY <1>2, <2>1
  <2>5. ASSUME Len(stop) <= Len(s) - i + 1, NEW k \in 1 .. Len(stop)
        PROVE  From(s, i)[k] = s[i + k - 1]
    <3>1. k \in 1 .. Len(s) - i + 1
      BY <1>2, <2>1, <2>5
    <3> QED  BY <2>2, <3>1
  <2> QED  BY <2>3, <2>4, <2>5
<1> QED  BY <1>1, <1>2

(* A stop string of a beginning of a text is one of the text.              *)
LEMMA StopsOfPrefix ==
  ASSUME WellFormed, role \in Roles, NEW s \in Str, NEW m \in 0 .. Len(s),
         NEW i \in StopsAt(SubSeq(s, 1, m))
  PROVE  i \in StopsAt(s) /\ i <= m
<1>1. /\ SubSeq(s, 1, m) \in Str /\ Len(SubSeq(s, 1, m)) = m /\ Len(s) \in Nat
      /\ \A k \in 1 .. m : SubSeq(s, 1, m)[k] = s[k]
  BY Cut DEF Str
<1>2. i \in 1 .. m
  BY <1>1, StopsAre
<1>3. PICK stop \in Stops[role] :
        /\ i + Len(stop) - 1 <= m
        /\ \A k \in 1 .. Len(stop) : stop[k] = SubSeq(s, 1, m)[i + k - 1]
  <2> DEFINE c == SubSeq(s, 1, m)
  <2>1. c \in Str /\ Len(c) = m /\ i \in StopsAt(c)
    BY <1>1
  <2> HIDE DEF c
  <2>2. \E stop \in Stops[role] :
          /\ i + Len(stop) - 1 <= Len(c)
          /\ \A k \in 1 .. Len(stop) : stop[k] = c[i + k - 1]
    BY <2>1, StopsAre
  <2>3. \E stop \in Stops[role] :
          /\ i + Len(stop) - 1 <= m
          /\ \A k \in 1 .. Len(stop) : stop[k] = c[i + k - 1]
    BY <2>1, <2>2
  <2> QED  BY <2>3 DEF c
<1>4. Len(stop) \in Nat
  BY WellFormedIs
<1>5. \A k \in 1 .. Len(stop) : i + k - 1 \in 1 .. m
  BY <1>2, <1>3, <1>4
<1>6. i + Len(stop) - 1 <= Len(s) /\ \A k \in 1 .. Len(stop) : stop[k] = s[i + k - 1]
  BY <1>1, <1>2, <1>3, <1>4, <1>5
<1>7. i \in 1 .. Len(s) /\ i <= m
  BY <1>1, <1>2
<1> QED  BY <1>6, <1>7, StopsAre

(* What is written for an argument is a text.                              *)
LEMMA WrittenArg ==
  ASSUME WellFormed, NEW arg \in Strings \cup Refs \cup Ints
  PROVE  WriteArg(arg) \in Str
<1>1. \A q \in Quotes : <<q>> \in Str /\ <<q, "$">> \in Str
  BY WellFormedIs, StrIs DEF Marks, Quotes
<1>2. Seq(Digits) \subseteq Str /\ Seq(Digits \cup {"-"}) \subseteq Str
      /\ Seq(Pieces \ {"\n"}) \subseteq Str
  BY WellFormedIs, SeqMonotonic DEF Marks, Str
<1>3. \A a, b, c \in Str : a \o b \o c \in Str
  BY ConcatProperties DEF Str
<1>4. CASE arg \in Strings
  BY <1>1, <1>2, <1>3, <1>4 DEF Strings, WriteArg
<1>5. CASE arg \in Refs
  BY <1>1, <1>2, <1>3, <1>5 DEF Refs, WriteArg
<1>6. CASE arg \in Ints
  BY <1>2, <1>6 DEF Ints, WriteArg
<1> QED  BY <1>4, <1>5, <1>6

Parts(args) ==
  [i \in DOMAIN args |-> IF i = 1 THEN WriteArg(args[i])
                         ELSE <<",", " ">> \o WriteArg(args[i])]

(* So is a call: its parts, joined, between the name and a parenthesis.    *)
LEMMA WrittenCall ==
  ASSUME WellFormed, NEW args \in Calls
  PROVE  /\ Parts(args) \in Seq(Str) /\ Len(Parts(args)) = Len(args)
         /\ FlattenSeq(Parts(args)) \in Str
         /\ WriteCall(args) = <<"1.f(">> \o FlattenSeq(Parts(args)) \o <<")">>
         /\ WriteCall(args) \in Str
<1>1. args \in Seq(Strings \cup Refs \cup Ints)
  BY WellFormedIs
<1>2. /\ DOMAIN args = 1 .. Len(args) /\ Len(args) \in Nat
      /\ \A i \in DOMAIN args : WriteArg(args[i]) \in Str
  BY <1>1, WrittenArg
<1>3. <<",", " ">> \in Str /\ <<"1.f(">> \in Str /\ <<")">> \in Str
  BY WellFormedIs, StrIs DEF Marks, Quotes
<1>4. \A i \in DOMAIN args : Parts(args)[i] \in Str
  BY <1>2, <1>3, StrJoin DEF Parts
<1>5. Parts(args) \in Seq(Str) /\ Len(Parts(args)) = Len(args)
  <2> DEFINE P == Parts(args)
  <2>1. P = [i \in 1 .. Len(args) |-> P[i]]
    BY <1>2 DEF Parts
  <2>2. \A i \in 1 .. Len(args) : P[i] \in Str
    BY <1>2, <1>4
  <2> HIDE DEF P
  <2>3. P \in Seq(Str) /\ Len(P) = Len(args)
    BY <1>2, <2>1, <2>2
  <2> QED  BY <2>3 DEF P
<1>6. FlattenSeq(Parts(args)) \in Str
  BY <1>5, FlattenIsJoined DEF Str
<1>7. WriteCall(args) = <<"1.f(">> \o FlattenSeq(Parts(args)) \o <<")">>
  <2>1. FlattenSeq(Parts(args)) = FlattenSeq(Parts(args))
    BY DEF FlattenSeq, FlattenSeq
  <2> QED  BY <2>1 DEF WriteCall, Parts
<1>8. <<"1.f(">> \o FlattenSeq(Parts(args)) \in Str
  BY <1>3, <1>6, StrJoin
<1>9. WriteCall(args) \in Str
  BY <1>3, <1>7, <1>8, StrJoin
<1> QED  BY <1>5, <1>6, <1>7, <1>9

TypesKept ==
  /\ role \in Roles
  /\ role = "planner" => meant \in Calls
  /\ said \in Str
  /\ out \in Str

(* So is every token.                                                      *)
LEMMA TokensAre ==
  ASSUME WellFormed, TypesKept, NEW token \in NextTokens
  PROVE  token \in Str
<1>1. CASE role = "joinner"
  BY <1>1 DEF NextTokens, WellFormed, Str
<1>2. CASE role = "planner"
  <2>1. PICK stop \in Stops[role], k \in {1, 4, 7} :
          LET rest == From(WriteCall(meant) \o stop, Len(out) + 1)
          IN k \in DOMAIN rest /\ token = SubSeq(rest, 1, k)
    <3> DEFINE rests == {From(WriteCall(meant) \o stop, Len(out) + 1) : stop \in Stops[role]}
    <3>1. token \in UNION {{SubSeq(rest, 1, k) : k \in {1, 4, 7} \cap DOMAIN rest} : rest \in rests}
      BY <1>2 DEF NextTokens
    <3> HIDE DEF rests
    <3>2. PICK rest \in rests : token \in {SubSeq(rest, 1, k) : k \in {1, 4, 7} \cap DOMAIN rest}
      BY <3>1
    <3>3. PICK k \in {1, 4, 7} \cap DOMAIN rest : token = SubSeq(rest, 1, k)
      BY <3>2
    <3> QED  BY <3>3 DEF rests
  <2>2. stop \in Str /\ WriteCall(meant) \in Str /\ Len(out) + 1 \in Nat \ {0}
    <3>1. meant \in Calls /\ role \in Roles /\ out \in Str
      BY <1>2 DEF TypesKept
    <3>2. stop \in Str
      BY <3>1, WellFormedIs
    <3>3. Len(out) + 1 \in Nat \ {0}
      BY <3>1, StrIs
    <3> QED  BY <3>1, <3>2, <3>3, WrittenCall
  <2>3. From(WriteCall(meant) \o stop, Len(out) + 1) \in Str
    BY <2>2, StrJoin, StrRest
  <2> QED  BY <2>1, <2>3, Cut DEF Str
<1> QED  BY <1>1, <1>2 DEF TypesKept, Roles

SInv == TypesKept /\ CutAtFirstStop

(* Nothing is said at first.                                               *)
LEMMA SaidInit == ASSUME WellFormed PROVE SpeechInit => SInv
<1> SUFFICES ASSUME SpeechInit PROVE SInv
  OBVIOUS
<1>1. TypesKept
  BY StrIs DEF SpeechInit, TypesKept
<1>2. out = <<>> /\ said = <<>>
  BY DEF SpeechInit
<1>3. StopsAt(<<>>) = {}
  BY DEF StopsAt
<1> QED  BY <1>1, <1>2, <1>3 DEF SInv, CutAtFirstStop

(* A sampled token. One token before, the output held no stop string and   *)
(* was all that was said: the first stop string of what has grown is the   *)
(* first of what was said, and nothing before it holds one.                *)
LEMMA SampleCuts ==
  ASSUME WellFormed, SInv, Sample
  PROVE  SInv'
<1>1. PICK token \in NextTokens :
        /\ said' = said \o token
        /\ IF StopsAt(out \o token) # {}
             THEN /\ out' = SubSeq(out \o token, 1, Least(StopsAt(out \o token)) - 1)
                  /\ status' = "stopped"
             ELSE out' = out \o token
  BY DEF Sample
<1>2. UNCHANGED <<role, meant>> /\ status = "speaking"
  BY DEF Sample
<1> DEFINE grown == out \o token
           stops == StopsAt(grown)
<1>3. TypesKept /\ token \in Str /\ out \in Str /\ role \in Roles /\ said = out
  BY <1>2, TokensAre DEF SInv, TypesKept, CutAtFirstStop
<1>4. grown \in Str /\ said' = grown
  BY <1>1, <1>3, StrJoin
<1>5. StopsAt(out)' = StopsAt(out') /\ StopsAt(said)' = StopsAt(said')
  BY <1>2 DEF StopsAt, From
<1>6. stops \subseteq 1 .. Len(grown) /\ Len(grown) \in Nat
  BY <1>3, <1>4, StopsAre, StrIs
<1>7. CASE stops # {}
  <2> DEFINE m == Least(stops) - 1
  <2>1. m \in 0 .. Len(grown) /\ m + 1 \in stops /\ \A i \in stops : m + 1 <= i
    <3> HIDE DEF stops, grown
    <3>1. stops \in SUBSET Nat
      BY <1>6
    <3>2. Least(stops) \in stops /\ \A i \in stops : Least(stops) <= i
      BY <1>7, <3>1, FirstOf
    <3>3. Least(stops) \in 1 .. Len(grown)
      BY <1>6, <3>2
    <3>4. m + 1 = Least(stops) /\ m \in 0 .. Len(grown)
      BY <1>6, <3>3
    <3> QED  BY <3>2, <3>4
  <2>2. out' = SubSeq(grown, 1, m) /\ status' = "stopped"
    BY <1>1, <1>7
  <2>3. SubSeq(grown, 1, m) \in Str
    <3> HIDE DEF grown, m
    <3>1. m \in Nat /\ m <= Len(grown) /\ 1 \in Nat \ {0}
      BY <1>6, <2>1
    <3> QED  BY <1>4, <3>1, StrCut
  <2> HIDE DEF grown, m
  <2>4. StopsAt(SubSeq(grown, 1, m)) = {}
    <3> SUFFICES ASSUME NEW i \in StopsAt(SubSeq(grown, 1, m)) PROVE FALSE
      OBVIOUS
    <3>1. i \in stops /\ i <= m
      BY <1>3, <1>4, <2>1, StopsOfPrefix
    <3>2. m + 1 <= i /\ i \in Nat /\ m \in Nat
      BY <1>6, <2>1, <3>1
    <3> QED  BY <3>1, <3>2
  <2>5. TypesKept'
    BY <1>2, <1>3, <1>4, <2>2, <2>3 DEF TypesKept
  <2>6. CutAtFirstStop'
    BY <1>4, <1>5, <1>7, <2>2, <2>4 DEF CutAtFirstStop, m
  <2> QED  BY <2>5, <2>6 DEF SInv
<1>8. CASE stops = {}
  <2>1. out' = grown
    BY <1>1, <1>8
  <2> HIDE DEF grown
  <2>2. TypesKept'
    BY <1>2, <1>3, <1>4, <2>1 DEF TypesKept
  <2>3. CutAtFirstStop'
    BY <1>4, <1>5, <1>8, <2>1 DEF CutAtFirstStop
  <2> QED  BY <2>2, <2>3 DEF SInv
<1> QED  BY <1>7, <1>8

(* No step disturbs the invariant of the stop strings.                     *)
LEMMA SaidStep ==
  ASSUME WellFormed, SInv, [SpeechNext]_speechVars
  PROVE  SInv'
<1>1. CASE Sample
  BY <1>1, SampleCuts
<1>2. CASE End \/ Read \/ UNCHANGED speechVars
  <2>1. UNCHANGED <<role, meant, said, out>> /\ (status' = "speaking" => status = "speaking")
    BY <1>2 DEF End, Read, speechVars
  <2>2. StopsAt(out)' = StopsAt(out) /\ StopsAt(said)' = StopsAt(said)
    BY <2>1 DEF StopsAt, From
  <2>3. TypesKept'
    BY <2>1 DEF SInv, TypesKept
  <2>4. CutAtFirstStop'
    BY <2>1, <2>2 DEF SInv, CutAtFirstStop
  <2> QED  BY <2>3, <2>4 DEF SInv
<1> QED  BY <1>1, <1>2 DEF SpeechNext

(* The output of a model is what it generated up to its first stop string, *)
(* however the stop string is spread over tokens, and holds none:          *)
(* inference.rs:255-286, where the loop looks for stop strings in all that *)
(* was decoded, and 305-329.                                               *)
THEOREM StopsAreCut == SpeechSpec => []CutAtFirstStop
<1> USE TextsAssumption
<1>1. SpeechInit => SInv
  BY SaidInit
<1>2. SInv /\ [SpeechNext]_speechVars => SInv'
  BY SaidStep
<1>3. SInv => CutAtFirstStop
  BY DEF SInv
<1> QED  BY <1>1, <1>2, <1>3, PTL DEF SpeechSpec

(* What First finds in a text, and what it passes by.                      *)
LEMMA NextIs ==
  ASSUME NEW s \in Str, NEW i \in Nat \ {0}, i <= Len(s) + 1, NEW S
  PROVE  /\ First(s, S, i) \in i .. Len(s) + 1
         /\ \A h \in i .. First(s, S, i) - 1 : s[h] \notin S
         /\ First(s, S, i) <= Len(s) => s[First(s, S, i)] \in S
<1> DEFINE found == {j \in i .. Len(s) : s[j] \in S} \cup {Len(s) + 1}
           n == First(s, S, i)
<1>1. Len(s) \in Nat
  BY StrIs
<1>2. found \in SUBSET Nat /\ found # {} /\ found \subseteq i .. Len(s) + 1
  BY <1>1
<1>3. n = Least(found)
  BY DEF First
<1>4. \A j : j \in found <=> (j \in i .. Len(s) /\ s[j] \in S) \/ j = Len(s) + 1
  OBVIOUS
<1> HIDE DEF found, n
<1>5. n \in found /\ \A j \in found : n <= j
  BY <1>2, <1>3, FirstOf
<1>6. n \in i .. Len(s) + 1
  BY <1>2, <1>5
<1>7. ASSUME NEW h \in i .. n - 1
      PROVE  s[h] \notin S
  <2>1. h \in i .. Len(s) /\ ~(n <= h)
    BY <1>1, <1>6
  <2> QED  BY <1>4, <1>5, <2>1
<1>8. n <= Len(s) => s[n] \in S
  <2>1. n <= Len(s) => n # Len(s) + 1
    BY <1>1, <1>6
  <2> QED  BY <1>4, <1>5, <2>1
<1> QED  BY <1>6, <1>7, <1>8 DEF n

(* The position that First finds, where one knows it.                      *)
LEMMA NextAt ==
  ASSUME NEW s \in Str, NEW i \in Nat \ {0}, NEW n \in i .. Len(s) + 1, NEW S,
         \A h \in i .. n - 1 : s[h] \notin S,
         n <= Len(s) => s[n] \in S
  PROVE  First(s, S, i) = n
<1> DEFINE m == First(s, S, i)
<1>1. Len(s) \in Nat /\ i <= Len(s) + 1
  BY StrIs
<1>2. /\ m \in i .. Len(s) + 1
      /\ \A h \in i .. m - 1 : s[h] \notin S
      /\ m <= Len(s) => s[m] \in S
  BY <1>1, NextIs
<1> HIDE DEF m
<1>3. ~(m < n)
  <2>1. m < n => m \in i .. n - 1 /\ m <= Len(s)
    BY <1>1, <1>2
  <2> QED  BY <1>2, <2>1
<1>4. ~(n < m)
  <2>1. n < m => n \in i .. m - 1 /\ n <= Len(s)
    BY <1>1, <1>2
  <2> QED  BY <1>2, <2>1
<1>5. m = n
  BY <1>1, <1>2, <1>3, <1>4
<1> QED  BY <1>5 DEF m

(* A text that is solid somewhere is trimmed to its first and last solid   *)
(* pieces.                                                                 *)
LEMMA TrimIs ==
  ASSUME NEW s \in Str, NEW f \in 1 .. Len(s), NEW l \in f .. Len(s),
         s[f] \notin Blank, s[l] \notin Blank,
         \A h \in 1 .. f - 1 : s[h] \in Blank,
         \A h \in l + 1 .. Len(s) : s[h] \in Blank
  PROVE  Trim(s) = SubSeq(s, f, l)
<1> DEFINE solid == {i \in DOMAIN s : s[i] \notin Blank}
<1>1. Len(s) \in Nat /\ DOMAIN s = 1 .. Len(s) /\ l \in 1 .. Len(s)
  BY StrIs
<1>2. solid \in SUBSET Nat /\ solid \in SUBSET (0 .. Len(s)) /\ f \in solid /\ l \in solid
  BY <1>1
<1>3. \A i \in solid : i \in 1 .. Len(s) /\ s[i] \notin Blank
  BY <1>1
<1>4. Trim(s) = IF solid = {} THEN <<>>
                       ELSE SubSeq(s, Least(solid), Greatest(solid))
  BY DEF Trim
<1> HIDE DEF solid
<1>5. \A i \in solid : f <= i /\ i <= l
  <2> SUFFICES ASSUME NEW i \in solid PROVE f <= i /\ i <= l
    OBVIOUS
  <2>1. i \in 1 .. Len(s) /\ i \notin 1 .. f - 1 /\ i \notin l + 1 .. Len(s)
    BY <1>3
  <2> QED  BY <1>1, <2>1
<1>6. Least(solid) \in solid /\ Least(solid) <= f
  BY <1>2, FirstOf
<1>7. Greatest(solid) \in solid /\ l <= Greatest(solid)
  BY <1>1, <1>2, LastOf
<1>8. Least(solid) = f /\ Greatest(solid) = l
  <2>1. Least(solid) \in Nat /\ Greatest(solid) \in Nat
    BY <1>2, <1>6, <1>7
  <2> QED  BY <1>1, <1>5, <1>6, <1>7, <2>1
<1> QED  BY <1>2, <1>4, <1>8

(* The first solid piece of a text is the first of the trimmed text.       *)
LEMMA TrimStart ==
  ASSUME NEW s \in Str, NEW f \in 1 .. Len(s),
         s[f] \notin Blank,
         \A h \in 1 .. f - 1 : s[h] \in Blank
  PROVE  Trim(s) # <<>> /\ Trim(s)[1] = s[f]
<1> DEFINE solid == {i \in 1 .. Len(s) : s[i] \notin Blank}
           l == Greatest(solid)
<1>1. Len(s) \in Nat
  BY StrIs
<1>2. solid \in SUBSET (0 .. Len(s)) /\ f \in solid
  OBVIOUS
<1>3. l \in solid /\ \A j \in solid : j <= l
  <2> HIDE DEF solid
  <2> QED  BY <1>1, <1>2, LastOf
<1> HIDE DEF l
<1>4. l \in f .. Len(s) /\ s[l] \notin Blank
  BY <1>1, <1>2, <1>3
<1>5. ASSUME NEW h \in l + 1 .. Len(s)
      PROVE  s[h] \in Blank
  <2>1. h \in 1 .. Len(s) /\ ~(h <= l)
    BY <1>1, <1>4
  <2> QED  BY <1>3, <2>1
<1> HIDE DEF solid
<1>6. Trim(s) = SubSeq(s, f, l)
  BY <1>4, <1>5, TrimIs
<1>7. f \in Nat \ {0} /\ l \in Nat /\ l <= Len(s) /\ f <= l /\ 1 \in 1 .. l - f + 1 /\ f + 1 - 1 = f
  BY <1>1, <1>4
<1>8. Len(SubSeq(s, f, l)) = l - f + 1 /\ SubSeq(s, f, l)[1] = s[f + 1 - 1] /\ SubSeq(s, f, l) \in Str
  BY <1>7, StrCut
<1>9. Len(SubSeq(s, f, l)) # 0
  BY <1>7, <1>8
<1>10. Len(<<>>) = 0
  OBVIOUS
<1> QED  BY <1>6, <1>7, <1>8, <1>9, <1>10

-----------------------------------------------------------------------------
(* Once a text is read, the result is what the code reads in the output.   *)
ReadInv ==
  /\ TypesKept
  /\ status = "read" =>
       result = IF role = "planner" THEN ReadCall(out) ELSE ReadAnswer(out)

(* At first nothing is read.                                               *)
LEMMA ReadInit == ASSUME WellFormed PROVE SpeechInit => ReadInv
BY SaidInit DEF SpeechInit, ReadInv, SInv

(* A step that reads, reads the output as it stays.                        *)
LEMMA ReadStep ==
  ASSUME WellFormed, SInv, ReadInv, [SpeechNext]_speechVars
  PROVE  ReadInv'
<1>1. TypesKept'
  BY SaidStep DEF SInv
<1>2. CASE Sample
  BY <1>1, <1>2 DEF Sample, ReadInv
<1>3. CASE End
  BY <1>1, <1>3 DEF End, ReadInv
<1>4. CASE Read
  <2>1. /\ out' = out /\ role' = role
        /\ result' = IF role = "planner" THEN ReadCall(out) ELSE ReadAnswer(out)
    BY <1>4 DEF Read
  <2>2. ReadCall(out)' = ReadCall(out') /\ ReadAnswer(out)' = ReadAnswer(out')
    OBVIOUS
  <2> QED  BY <1>1, <2>1, <2>2 DEF ReadInv
<1>5. CASE UNCHANGED speechVars
  <2>1. out' = out /\ role' = role /\ result' = result /\ status' = status
    BY <1>5 DEF speechVars
  <2>2. ReadCall(out)' = ReadCall(out') /\ ReadAnswer(out)' = ReadAnswer(out')
    OBVIOUS
  <2> QED  BY <1>1, <2>1, <2>2 DEF ReadInv
<1> QED  BY <1>2, <1>3, <1>4, <1>5 DEF SpeechNext

-----------------------------------------------------------------------------
(* A line of the output: what stands from a position b up to an end e.     *)
LineOf(s, i, b, e) ==
  /\ b \in i .. e /\ e \in i .. Len(s) + 1
  /\ \A h \in i .. e - 1 : s[h] # "\n"
  /\ e <= Len(s) => s[e] = "\n"
  /\ LineAt(s, i) \in Str
  /\ Len(LineAt(s, i)) = e - b
  /\ \A k \in 1 .. e - b : LineAt(s, i)[k] = s[b + k - 1]
  /\ \A h \in i .. b - 1 : s[h] # "Action:"
  /\ \/ b = i /\ \A h \in i .. e - 1 : s[h] # "Action:"
     \/ b < e /\ s[b] = "Action:"

(* A line begins at the first piece or after a line break.                 *)
LEMMA StartsAre ==
  ASSUME NEW s \in Str, NEW i \in Starts(s)
  PROVE  i \in 1 .. Len(s) + 1 /\ (i # 1 => s[i - 1] = "\n" /\ i - 1 \in 1 .. Len(s))
<1>1. Len(s) \in Nat /\ DOMAIN s = 1 .. Len(s)
  BY StrIs
<1>2. CASE i = 1
  BY <1>1, <1>2
<1>3. CASE i # 1
  <2>1. PICK j \in 1 .. Len(s) : s[j] = "\n" /\ i = j + 1
    BY <1>1, <1>3 DEF Starts
  <2> QED  BY <1>1, <2>1
<1> QED  BY <1>2, <1>3

(* Every start of a line has its line, from its "Action:" on.              *)
LEMMA LineIs ==
  ASSUME NEW s \in Str, NEW i \in Starts(s)
  PROVE  \E b, e \in Nat \ {0} : LineOf(s, i, b, e)
<1> DEFINE e == First(s, {"\n"}, i)
           cut == SubSeq(s, i, e - 1)
           first == First(cut, {"Action:"}, 1)
<1>1. Len(s) \in Nat /\ i \in Nat \ {0} /\ i <= Len(s) + 1 /\ i \in 1 .. Len(s) + 1
  BY StrIs, StartsAre
<1>2. /\ e \in i .. Len(s) + 1
      /\ \A h \in i .. e - 1 : s[h] # "\n"
      /\ e <= Len(s) => s[e] = "\n"
  BY <1>1, NextIs
<1>3. LineAt(s, i) = FromAction(cut)
  BY DEF LineAt
<1> HIDE DEF e
<1>4. e - 1 \in Nat /\ e - 1 <= Len(s) /\ e \in Nat \ {0} /\ i <= e
  BY <1>1, <1>2
<1>5. /\ cut \in Str /\ Len(cut) = e - i
      /\ \A k \in 1 .. e - i : cut[k] = s[i + k - 1]
  <2>1. /\ cut \in Str /\ Len(cut) = IF i <= e - 1 THEN (e - 1) - i + 1 ELSE 0
        /\ \A k \in 1 .. (e - 1) - i + 1 : cut[k] = s[i + k - 1]
    BY <1>1, <1>4, StrCut
  <2>2. (e - 1) - i + 1 = e - i /\ (~(i <= e - 1) => e - i = 0)
    BY <1>1, <1>4
  <2> QED  BY <2>1, <2>2
<1> HIDE DEF cut
<1>6. /\ first \in 1 .. e - i + 1
      /\ \A h \in 1 .. first - 1 : cut[h] # "Action:"
      /\ first <= e - i => cut[first] = "Action:"
  <2>1. 1 \in Nat \ {0} /\ 1 <= Len(cut) + 1
    BY <1>5, StrIs
  <2>2. /\ first \in 1 .. Len(cut) + 1
        /\ \A h \in 1 .. first - 1 : cut[h] \notin {"Action:"}
        /\ first <= Len(cut) => cut[first] \in {"Action:"}
    BY <1>5, <2>1, NextIs
  <2> HIDE DEF first
  <2> QED  BY <1>5, <2>2
<1>7. FromAction(cut) = IF first > e - i THEN cut ELSE From(cut, first)
  BY <1>5 DEF FromAction
<1> HIDE DEF first
<1>8. ASSUME NEW h \in i .. i + first - 2
      PROVE  s[h] # "Action:"
  <2>1. h - i + 1 \in 1 .. first - 1 /\ h - i + 1 \in 1 .. e - i /\ i + (h - i + 1) - 1 = h
    BY <1>1, <1>4, <1>6
  <2> QED  BY <1>5, <1>6, <2>1
<1>9. CASE first > e - i
  <2>1. LineAt(s, i) = cut
    BY <1>3, <1>7, <1>9
  <2>2. i + first - 2 = e - 1 /\ i \in i .. e
    BY <1>1, <1>4, <1>6, <1>9
  <2>3. \A h \in i .. e - 1 : s[h] # "Action:"
    BY <1>8, <2>2
  <2>4. \A h \in i .. i - 1 : s[h] # "Action:"
    BY <1>1
  <2>5. LineOf(s, i, i, e)
    BY <1>2, <1>5, <2>1, <2>2, <2>3, <2>4 DEF LineOf
  <2> QED  BY <1>1, <1>4, <2>5
<1>10. CASE ~(first > e - i)
  <2> DEFINE b == i + first - 1
  <2>1. b \in i .. e /\ b < e /\ b - 1 = i + first - 2 /\ b \in Nat \ {0} /\ first \in 1 .. e - i
        /\ first \in Nat \ {0} /\ first <= Len(cut) /\ Len(cut) - first + 1 = e - b
    BY <1>1, <1>4, <1>5, <1>6, <1>10
  <2>2. s[b] = "Action:"
    BY <1>5, <1>6, <2>1
  <2>3. \A h \in i .. b - 1 : s[h] # "Action:"
    BY <1>8, <2>1
  <2>4. LineAt(s, i) = From(cut, first)
    BY <1>3, <1>7, <1>10
  <2>5. /\ From(cut, first) \in Str
        /\ Len(From(cut, first)) = e - b
        /\ \A k \in 1 .. e - b : From(cut, first)[k] = cut[first + k - 1]
    <3> HIDE DEF b
    <3> QED  BY <1>5, <2>1, StrRest
  <2>6. ASSUME NEW k \in 1 .. e - b
        PROVE  cut[first + k - 1] = s[b + k - 1]
    <3>1. first + k - 1 \in 1 .. e - i /\ i + (first + k - 1) - 1 = b + k - 1
      BY <1>1, <1>4, <2>1
    <3> QED  BY <1>5, <3>1
  <2> HIDE DEF b
  <2>7. LineOf(s, i, b, e)
    BY <1>2, <2>1, <2>2, <2>3, <2>4, <2>5, <2>6 DEF LineOf
  <2> QED  BY <1>4, <2>1, <2>7
<1> QED  BY <1>9, <1>10

ActionPieces == {"Action:", " Answer:"}

(* A line is an action where its first piece is one.                       *)
LEMMA ActionLine ==
  ASSUME NEW s \in Str, NEW i \in Nat, NEW b \in Nat \ {0}, NEW e \in Nat \ {0}, LineOf(s, i, b, e)
  PROVE  IsAction(LineAt(s, i)) <=> b < e /\ s[b] \in ActionPieces
<1> DEFINE line == LineAt(s, i)
<1>1. line \in Str /\ Len(line) = e - b /\ b <= e /\ \A k \in 1 .. e - b : line[k] = s[b + k - 1]
  BY DEF LineOf
<1>2. IsAction(line) <=> line # <<>> /\ line[1] \in ActionPieces
  BY DEF IsAction, StartsWith, ActionPieces
<1> HIDE DEF line
<1>3. line = <<>> <=> Len(line) = 0
  BY <1>1, EmptySeq DEF Str
<1>4. b < e => 1 \in 1 .. e - b /\ b + 1 - 1 = b /\ e - b # 0
  OBVIOUS
<1>5. ~(b < e) => e - b = 0
  BY <1>1
<1> QED  BY <1>1, <1>2, <1>3, <1>4, <1>5 DEF line

(* A piece of the output that is on the line of an action: the line begins *)
(* at i, and the action at b.                                              *)
LEMMA LineWith ==
  ASSUME NEW s \in Str, NEW a \in 1 .. Len(s), s[a] = "Action:"
  PROVE  \E i \in Starts(s) : \E b, e \in Nat \ {0} :
           /\ LineOf(s, i, b, e) /\ s[b] = "Action:" /\ b <= a /\ a < e
           /\ \A j \in Starts(s) : i < j => a < j
<1> DEFINE before == {i \in Starts(s) : i <= a}
           i == Greatest(before)
<1>1. Len(s) \in Nat /\ DOMAIN s = 1 .. Len(s) /\ a \in Nat
  BY StrIs
<1>2. 1 \in Starts(s)
  BY DEF Starts
<1>3. before \in SUBSET (0 .. a) /\ before # {}
  <2>1. \A j \in Starts(s) : j \in Nat
    BY <1>1, StartsAre
  <2> QED  BY <1>1, <1>2, <2>1
<1>4. i \in before /\ \A j \in before : j <= i
  <2> HIDE DEF before
  <2> QED  BY <1>1, <1>3, LastOf
<1>5. i \in Starts(s) /\ i <= a /\ i \in 1 .. Len(s) + 1 /\ i \in Nat
  <2>1. i \in Starts(s) /\ i <= a
    BY <1>4
  <2> HIDE DEF i
  <2> QED  BY <1>1, <2>1, StartsAre
<1>6. ASSUME NEW j \in Starts(s), i < j
      PROVE  a < j
  <2>1. j \in Nat
    BY <1>1, StartsAre
  <2>2. ~(j <= i)
    BY <1>5, <1>6, <2>1
  <2> HIDE DEF i
  <2>3. ~(j <= a)
    BY <1>4, <2>2
  <2> QED  BY <1>1, <2>1, <2>3
<1> HIDE DEF i
<1>7. PICK b, e \in Nat \ {0} : LineOf(s, i, b, e)
  BY <1>5, LineIs
<1>8. /\ b \in i .. e /\ e \in i .. Len(s) + 1 /\ (e <= Len(s) => s[e] = "\n")
      /\ \A h \in i .. b - 1 : s[h] # "Action:"
      /\ \/ b = i /\ \A h \in i .. e - 1 : s[h] # "Action:"
         \/ b < e /\ s[b] = "Action:"
  BY <1>7 DEF LineOf
<1>9. a < e
  <2> SUFFICES ASSUME e <= a PROVE FALSE
    BY <1>1, <1>8
  <2>1. e # a
    BY <1>1, <1>8
  <2>2. e \in 1 .. Len(s) /\ s[e] = "\n"
    BY <1>1, <1>5, <1>8
  <2>3. e + 1 \in Starts(s)
    BY <1>1, <2>2 DEF Starts
  <2>4. a < e + 1
    BY <1>5, <1>6, <1>8, <2>3
  <2> QED  BY <1>1, <2>1, <2>4
<1>10. a \in i .. e - 1
  BY <1>1, <1>5, <1>8, <1>9
<1>11. s[b] = "Action:" /\ b <= a
  <2>1. a \notin i .. b - 1
    BY <1>8
  <2> QED  BY <1>1, <1>5, <1>8, <1>10, <2>1
<1> QED  BY <1>5, <1>6, <1>7, <1>9, <1>11

(* What is on the line from one of its positions on.                       *)
LEMMA LineSeen ==
  ASSUME NEW s \in Str, NEW i \in Starts(s), NEW b \in Nat \ {0}, NEW e \in Nat \ {0},
         LineOf(s, i, b, e), NEW c \in i .. e - 1
  PROVE  OnLine(s, c) = c .. e - 1 /\ c \in 1 .. Len(s) /\ c \in DOMAIN s
<1>1. Len(s) \in Nat /\ DOMAIN s = 1 .. Len(s) /\ i \in 1 .. Len(s) + 1
  BY StrIs, StartsAre
<1>2. e \in i .. Len(s) + 1 /\ (\A h \in i .. e - 1 : s[h] # "\n") /\ (e <= Len(s) => s[e] = "\n")
  BY DEF LineOf
<1>3. ASSUME NEW h \in c .. e - 1
      PROVE  h \in OnLine(s, c)
  <2>1. h \in c .. Len(s) /\ \A k \in c .. h : k \in i .. e - 1
    BY <1>1, <1>2
  <2> QED  BY <1>2, <2>1 DEF OnLine
<1>4. ASSUME NEW h \in OnLine(s, c)
      PROVE  h \in c .. e - 1
  <2>1. h \in c .. Len(s) /\ \A k \in c .. h : s[k] # "\n"
    BY DEF OnLine
  <2>2. ~(e <= h)
    <3>1. e <= h => e \in c .. h /\ e <= Len(s)
      BY <1>1, <1>2, <2>1
    <3> QED  BY <1>2, <2>1, <3>1
  <2> QED  BY <1>1, <1>2, <2>1, <2>2
<1>5. c \in 1 .. Len(s)
  BY <1>1, <1>2
<1> QED  BY <1>1, <1>3, <1>4, <1>5

(* A line ends before a later one begins.                                  *)
LEMMA LinesApart ==
  ASSUME NEW s \in Str, NEW i \in Starts(s), NEW j \in Starts(s), i < j,
         NEW b \in Nat \ {0}, NEW e \in Nat \ {0}, LineOf(s, i, b, e)
  PROVE  b < j
<1>1. Len(s) \in Nat /\ i \in 1 .. Len(s) + 1 /\ j \in 1 .. Len(s) + 1
      /\ s[j - 1] = "\n"
  <2>1. i \in 1 .. Len(s) + 1 /\ j \in 1 .. Len(s) + 1 /\ (j # 1 => s[j - 1] = "\n")
    BY StartsAre
  <2> QED  BY <2>1, StrIs
<1>2. b \in i .. e /\ e \in i .. Len(s) + 1 /\ \A h \in i .. e - 1 : s[h] # "\n"
  BY DEF LineOf
<1>3. j - 1 \notin i .. e - 1
  BY <1>1, <1>2
<1> QED  BY <1>1, <1>2, <1>3

(* The action of a line begins where what is read of the line does,        *)
LEMMA ActionBegins ==
  ASSUME NEW s \in Str, NEW i \in Starts(s), NEW b \in Nat \ {0}, NEW e \in Nat \ {0},
         LineOf(s, i, b, e), IsAction(LineAt(s, i))
  PROVE  b < e /\ b \in DOMAIN s /\ Begins(s, b)
<1>1. Len(s) \in Nat /\ i \in 1 .. Len(s) + 1 /\ (i # 1 => s[i - 1] = "\n" /\ i - 1 \in 1 .. Len(s))
  BY StrIs, StartsAre
<1>2. b < e /\ s[b] \in ActionPieces
  BY <1>1, ActionLine
<1>3. /\ b \in i .. e
      /\ \A h \in i .. e - 1 : s[h] # "\n"
      /\ \A h \in i .. b - 1 : s[h] # "Action:"
      /\ \/ b = i /\ \A h \in i .. e - 1 : s[h] # "Action:"
         \/ s[b] = "Action:"
  BY DEF LineOf
<1>4. b \in i .. e - 1
  BY <1>1, <1>2, <1>3
<1>5. OnLine(s, b) = b .. e - 1 /\ b \in DOMAIN s
  BY <1>4, LineSeen
<1>6. CASE s[b] = "Action:"
  <2>1. ASSUME NEW h \in 1 .. b - 1, s[h] = "Action:"
        PROVE  b \notin OnLine(s, h)
    <3>1. h \notin i .. b - 1
      BY <1>3, <2>1
    <3>2. i # 1 /\ i - 1 \in h .. b
      BY <1>1, <1>4, <3>1
    <3> QED  BY <1>1, <3>2 DEF OnLine
  <2> QED  BY <1>2, <1>5, <1>6, <2>1 DEF Begins
<1>7. CASE s[b] # "Action:"
  <2>1. s[b] = " Answer:" /\ b = i /\ \A h \in OnLine(s, b) : s[h] # "Action:"
    BY <1>2, <1>3, <1>5, <1>7 DEF ActionPieces
  <2>2. AtLineStart(s, b)
    BY <1>1, <2>1 DEF AtLineStart
  <2> QED  BY <1>2, <1>5, <2>1, <2>2 DEF Begins
<1> QED  BY <1>6, <1>7

(* and every action is that of a line.                                     *)
LEMMA BeginsOnLine ==
  ASSUME NEW s \in Str, NEW a \in DOMAIN s, Begins(s, a)
  PROVE  \E i \in Starts(s) : \E e \in Nat \ {0} :
           LineOf(s, i, a, e) /\ IsAction(LineAt(s, i))
<1>1. Len(s) \in Nat /\ DOMAIN s = 1 .. Len(s) /\ a \in 1 .. Len(s) /\ a \in Nat \ {0}
  BY StrIs
<1>2. CASE s[a] = "Action:"
  <2>1. PICK i \in Starts(s), b \in Nat \ {0}, e \in Nat \ {0} :
          LineOf(s, i, b, e) /\ s[b] = "Action:" /\ b <= a /\ a < e
    BY <1>1, <1>2, LineWith
  <2>2. i \in Nat /\ b \in i .. e
    BY <1>1, <2>1, StartsAre DEF LineOf
  <2>3. OnLine(s, b) = b .. e - 1
    <3>1. b \in i .. e - 1
      BY <1>1, <2>1, <2>2
    <3> QED  BY <2>1, <3>1, LineSeen
  <2>4. a \in OnLine(s, b)
    BY <1>1, <2>1, <2>3
  <2>5. b = a
    <3>1. b \notin 1 .. a - 1
      BY <1>2, <2>1, <2>4 DEF Begins
    <3> QED  BY <1>1, <2>1, <3>1
  <2>6. IsAction(LineAt(s, i))
    <3>1. s[a] \in ActionPieces
      BY <1>2 DEF ActionPieces
    <3>2. LineOf(s, i, a, e)
      BY <2>1, <2>5
    <3> QED  BY <1>1, <2>1, <2>2, <3>1, <3>2, ActionLine
  <2> QED  BY <2>1, <2>5, <2>6
<1>3. CASE s[a] # "Action:"
  <2>1. s[a] = " Answer:" /\ AtLineStart(s, a) /\ \A h \in OnLine(s, a) : s[h] # "Action:"
    BY <1>3 DEF Begins
  <2>2. a \in Starts(s)
    <3>1. a # 1 => s[a - 1] = "\n"
      BY <2>1 DEF AtLineStart
    <3>2. a # 1 => a - 1 \in DOMAIN s /\ a = (a - 1) + 1
      BY <1>1
    <3> QED  BY <3>1, <3>2 DEF Starts
  <2>3. PICK b, e \in Nat \ {0} : LineOf(s, a, b, e)
    BY <2>2, LineIs
  <2>4. /\ b \in a .. e /\ e \in a .. Len(s) + 1 /\ (e <= Len(s) => s[e] = "\n")
        /\ b = a \/ (b < e /\ s[b] = "Action:")
    <3>1. a \in Nat
      BY <1>1
    <3> QED  BY <2>3, <3>1 DEF LineOf
  <2>5. a < e
    <3>1. e # a
      <4>1. e = a => e <= Len(s) /\ s[a] = "\n"
        BY <1>1, <2>4
      <4> QED  BY <2>1, <4>1
    <3> QED  BY <1>1, <2>4, <3>1
  <2>6. OnLine(s, a) = a .. e - 1
    <3>1. a \in a .. e - 1
      BY <1>1, <2>4, <2>5
    <3> QED  BY <2>2, <2>3, <3>1, LineSeen
  <2>7. b = a
    <3>1. b < e => b \in OnLine(s, a)
      BY <1>1, <2>4, <2>6
    <3> QED  BY <2>1, <2>4, <3>1
  <2>8. IsAction(LineAt(s, a))
    <3>1. s[a] \in ActionPieces
      BY <2>1 DEF ActionPieces
    <3>2. LineOf(s, a, a, e)
      BY <2>3, <2>7
    <3> QED  BY <1>1, <2>3, <2>5, <3>1, <3>2, ActionLine
  <2> QED  BY <2>2, <2>3, <2>7, <2>8
<1> QED  BY <1>2, <1>3

(* A cut of a line is one of the text.                                     *)
LEMMA CutOfLine ==
  ASSUME NEW s \in Str, NEW line \in Str, NEW b \in Nat \ {0}, NEW e \in Nat \ {0},
         b <= e, e <= Len(s) + 1, Len(line) = e - b,
         \A k \in 1 .. e - b : line[k] = s[b + k - 1],
         NEW x \in b .. e - 1, NEW y \in x + 1 .. e - 1
  PROVE  SubSeq(line, (x - b + 1) + 1, (y - b + 1) - 1) = SubSeq(s, x + 1, y - 1)
<1> DEFINE p == (x - b + 1) + 1
           q == (y - b + 1) - 1
           u == SubSeq(line, p, q)
           v == SubSeq(s, x + 1, y - 1)
<1>1. Len(s) \in Nat
  BY StrIs
<1>2. /\ p \in Nat \ {0} /\ q \in Nat /\ q <= Len(line)
      /\ x + 1 \in Nat \ {0} /\ y - 1 \in Nat /\ y - 1 <= Len(s)
      /\ (p <= q <=> x + 1 <= y - 1) /\ q - p + 1 = (y - 1) - (x + 1) + 1
  BY <1>1
<1>3. /\ u \in Str /\ Len(u) = IF p <= q THEN q - p + 1 ELSE 0
      /\ \A k \in 1 .. q - p + 1 : u[k] = line[p + k - 1]
  <2> HIDE DEF p, q
  <2> QED  BY <1>2, StrCut
<1>4. /\ v \in Str /\ Len(v) = IF x + 1 <= y - 1 THEN (y - 1) - (x + 1) + 1 ELSE 0
      /\ \A k \in 1 .. (y - 1) - (x + 1) + 1 : v[k] = s[(x + 1) + k - 1]
  BY <1>2, StrCut
<1>5. ASSUME NEW k \in 1 .. q - p + 1
      PROVE  line[p + k - 1] = s[(x + 1) + k - 1]
  <2>1. p + k - 1 \in 1 .. e - b /\ b + (p + k - 1) - 1 = (x + 1) + k - 1
    BY <1>1
  <2> QED  BY <2>1
<1> HIDE DEF u, v, p, q
<1>6. Len(u) = Len(v) /\ \A k \in 1 .. Len(u) : k \in 1 .. q - p + 1
  BY <1>2, <1>3, <1>4
<1>7. \A k \in 1 .. Len(u) : u[k] = v[k]
  BY <1>2, <1>3, <1>4, <1>5, <1>6
<1>8. u = v
  BY <1>3, <1>4, <1>6, <1>7, SeqEqual DEF Str
<1> QED  BY <1>8 DEF u, v, p, q

(* What a line wraps, in the text's positions.                             *)
LEMMA LineWraps ==
  ASSUME NEW s \in Str, NEW i \in Starts(s), NEW b \in Nat \ {0}, NEW e \in Nat \ {0},
         LineOf(s, i, b, e), IsAction(LineAt(s, i))
  PROVE  /\ Wrapped(LineAt(s, i)) => \E x, y \in OnLine(s, b) : Wraps(s, b, x, y)
         /\ \A x, y \in OnLine(s, b) : Wraps(s, b, x, y) =>
              /\ Wrapped(LineAt(s, i))
              /\ Inside(LineAt(s, i)) = SubSeq(s, x + 1, y - 1)
<1> DEFINE line == LineAt(s, i)
           o == Opens(line)
           closes == {0} \cup {k \in DOMAIN line : line[k] = ")"}
           c == LastClose(line)
<1>1. Len(s) \in Nat /\ i \in 1 .. Len(s) + 1 /\ b < e
  BY StrIs, StartsAre, ActionBegins
<1>2. /\ b \in i .. e /\ e <= Len(s) + 1 /\ line \in Str /\ Len(line) = e - b
      /\ \A k \in 1 .. e - b : line[k] = s[b + k - 1]
  BY <1>1 DEF LineOf
<1>3. OnLine(s, b) = b .. e - 1
  <2>1. b \in i .. e - 1
    BY <1>1, <1>2
  <2> QED  BY <2>1, LineSeen
<1>4. IsAction(line)
  OBVIOUS
<1> HIDE DEF line
<1>5. /\ o \in 1 .. e - b + 1
      /\ \A h \in 1 .. o - 1 : line[h] # "("
      /\ o <= e - b => line[o] = "("
  <2>1. 1 \in Nat \ {0} /\ 1 <= Len(line) + 1
    BY <1>2, StrIs
  <2>2. /\ o \in 1 .. Len(line) + 1
        /\ \A h \in 1 .. o - 1 : line[h] \notin {"("}
        /\ o <= Len(line) => line[o] \in {"("}
    BY <1>2, <2>1, NextIs DEF Opens
  <2> HIDE DEF o
  <2> QED  BY <1>2, <2>2
<1>6. /\ c \in 0 .. e - b
      /\ c # 0 => line[c] = ")"
      /\ \A k \in 1 .. e - b : line[k] = ")" => k <= c
  <2>1. Len(line) \in Nat /\ DOMAIN line = 1 .. e - b
    BY <1>2, StrIs
  <2>2. closes \in SUBSET (0 .. Len(line)) /\ closes # {}
    BY <1>2, <2>1
  <2>3. c = Greatest(closes)
    BY DEF LastClose
  <2>4. \A k \in 1 .. e - b : line[k] = ")" => k \in closes
    BY <2>1
  <2>5. \A k \in closes : k \in 0 .. e - b /\ (k # 0 => line[k] = ")")
    BY <1>2, <2>1
  <2> HIDE DEF closes, c
  <2>6. c \in closes /\ \A k \in closes : k <= c
    BY <2>1, <2>2, <2>3, LastOf
  <2> QED  BY <2>4, <2>5, <2>6
<1>7. /\ Wrapped(line) <=> c > o
      /\ Inside(line) = SubSeq(line, o + 1, c - 1)
  BY <1>4 DEF Wrapped, Inside
<1> HIDE DEF o, closes, c
<1>8. ASSUME Wrapped(line)
      PROVE  \E x, y \in OnLine(s, b) : Wraps(s, b, x, y)
  <2> DEFINE x == b + o - 1
             y == b + c - 1
  <2>1. o \in 1 .. e - b /\ c \in 1 .. e - b /\ o < c
    BY <1>1, <1>5, <1>6, <1>7, <1>8
  <2>2. x \in OnLine(s, b) /\ y \in OnLine(s, b) /\ x < y
    BY <1>1, <1>3, <2>1
  <2>3. s[x] = "(" /\ s[y] = ")"
    <3>1. line[o] = s[b + o - 1] /\ line[c] = s[b + c - 1]
      BY <1>2, <2>1
    <3>2. line[o] = "(" /\ line[c] = ")"
      BY <1>5, <1>6, <2>1
    <3> QED  BY <3>1, <3>2
  <2>4. ASSUME NEW h \in OnLine(s, b)
        PROVE  (s[h] = "(" => x <= h) /\ (s[h] = ")" => h <= y)
    <3> DEFINE k == h - b + 1
    <3>1. k \in 1 .. e - b /\ b + k - 1 = h
      BY <1>1, <1>3
    <3>2. line[k] = s[h]
      BY <1>2, <3>1
    <3> HIDE DEF k
    <3>3. s[h] = "(" => o <= k
      <4>1. s[h] = "(" => k \notin 1 .. o - 1
        BY <1>5, <3>2
      <4> QED  BY <1>1, <1>5, <3>1, <4>1
    <3>4. s[h] = ")" => k <= c
      BY <1>6, <3>1, <3>2
    <3> QED  BY <1>1, <2>1, <3>1, <3>3, <3>4
  <2> HIDE DEF x, y
  <2>5. Wraps(s, b, x, y)
    BY <2>2, <2>3, <2>4 DEF Wraps
  <2> QED  BY <2>2, <2>5
<1>9. ASSUME NEW x \in OnLine(s, b), NEW y \in OnLine(s, b), Wraps(s, b, x, y)
      PROVE  Wrapped(line) /\ Inside(line) = SubSeq(s, x + 1, y - 1)
  <2> DEFINE p == x - b + 1
             q == y - b + 1
  <2>1. /\ s[x] = "(" /\ s[y] = ")" /\ x < y
        /\ \A h \in OnLine(s, b) : (s[h] = "(" => x <= h) /\ (s[h] = ")" => h <= y)
    BY <1>9 DEF Wraps
  <2>2. /\ p \in 1 .. e - b /\ q \in 1 .. e - b /\ p < q
        /\ b + p - 1 = x /\ b + q - 1 = y
        /\ x \in b .. e - 1 /\ y \in x + 1 .. e - 1
    <3>1. x \in b .. e - 1 /\ y \in b .. e - 1 /\ x < y
      BY <1>3, <2>1
    <3>2. x \in Int /\ y \in Int /\ b \in Int /\ e \in Int
      BY <3>1
    <3> QED  BY <3>1, <3>2
  <2>3. line[p] = "(" /\ line[q] = ")"
    BY <1>2, <2>1, <2>2
  <2>4. o = p
    <3>1. ~(p < o)
      <4>1. p < o => p \in 1 .. o - 1
        BY <1>1, <1>5, <2>2
      <4> QED  BY <1>5, <2>3, <4>1
    <3>2. ~(o < p)
      <4> SUFFICES ASSUME o < p PROVE FALSE
        OBVIOUS
      <4>1. o \in 1 .. e - b /\ b + o - 1 \in OnLine(s, b) /\ ~(x <= b + o - 1)
        BY <1>1, <1>3, <1>5, <2>2
      <4>2. line[o] = "(" /\ line[o] = s[b + o - 1]
        BY <1>2, <1>5, <4>1
      <4> QED  BY <2>1, <4>1, <4>2
    <3> QED  BY <1>1, <1>5, <2>2, <3>1, <3>2
  <2>5. c = q
    <3>1. q <= c
      BY <1>6, <2>2, <2>3
    <3>2. ~(q < c)
      <4> SUFFICES ASSUME q < c PROVE FALSE
        OBVIOUS
      <4>1. c \in 1 .. e - b /\ b + c - 1 \in OnLine(s, b) /\ ~(b + c - 1 <= y)
        BY <1>1, <1>3, <1>6, <2>2
      <4>2. line[c] = ")" /\ line[c] = s[b + c - 1]
        BY <1>2, <1>6, <4>1
      <4> QED  BY <2>1, <4>1, <4>2
    <3> QED  BY <1>1, <1>6, <2>2, <3>1, <3>2
  <2>6. SubSeq(line, (x - b + 1) + 1, (y - b + 1) - 1) = SubSeq(s, x + 1, y - 1)
    BY <1>1, <1>2, <2>2, CutOfLine
  <2> QED  BY <1>7, <2>2, <2>4, <2>5, <2>6
<1> QED  BY <1>8, <1>9 DEF line

(* A replan on a line, in the text's positions.                            *)
LEMMA LineReplans ==
  ASSUME NEW s \in Str, NEW i \in Starts(s), NEW b \in Nat \ {0}, NEW e \in Nat \ {0},
         LineOf(s, i, b, e), IsAction(LineAt(s, i))
  PROVE  Contains(LineAt(s, i), "Replan") <=> \E x \in OnLine(s, b) : s[x] = "Replan"
<1> DEFINE line == LineAt(s, i)
<1>1. i \in 1 .. Len(s) + 1 /\ Len(s) \in Nat /\ b < e
  BY StrIs, StartsAre, ActionBegins
<1>2. /\ b \in i .. e /\ Len(line) = e - b
      /\ \A k \in 1 .. e - b : line[k] = s[b + k - 1]
  BY <1>1 DEF LineOf
<1>3. OnLine(s, b) = b .. e - 1
  <2>1. b \in i .. e - 1
    BY <1>1, <1>2
  <2> QED  BY <2>1, LineSeen
<1>4. Contains(line, "Replan") <=> \E k \in 1 .. e - b : line[k] = "Replan"
  BY <1>2 DEF Contains
<1> HIDE DEF line
<1>5. ASSUME NEW k \in 1 .. e - b, line[k] = "Replan"
      PROVE  \E x \in OnLine(s, b) : s[x] = "Replan"
  <2>1. b + k - 1 \in OnLine(s, b)
    BY <1>1, <1>3
  <2> QED  BY <1>2, <1>5, <2>1
<1>6. ASSUME NEW x \in OnLine(s, b), s[x] = "Replan"
      PROVE  \E k \in 1 .. e - b : line[k] = "Replan"
  <2>1. x - b + 1 \in 1 .. e - b /\ b + (x - b + 1) - 1 = x
    BY <1>1, <1>3
  <2> QED  BY <1>2, <1>6, <2>1
<1> QED  BY <1>4, <1>5, <1>6 DEF line

-----------------------------------------------------------------------------
ActionLines(s) == {i \in Starts(s) : IsAction(LineAt(s, i))}
ThoughtLines(s) == {i \in Starts(s) : IsThought(LineAt(s, i))}
Thoughts(s) == {t \in DOMAIN s : s[t] = "Thought:" /\ AtLineStart(s, t)}

(* Where no line is an action, the thoughts are the lines that begin with  *)
(* one, and what follows it on its line is its words.                      *)
LEMMA ThoughtIs ==
  ASSUME NEW s \in Str, ActionLines(s) = {}
  PROVE  /\ ThoughtLines(s) = Thoughts(s)
         /\ \A t \in Thoughts(s) :
              Tail(LineAt(s, t)) = SubSeq(s, t + 1, First(s, {"\n"}, t) - 1)
<1>1. Len(s) \in Nat /\ DOMAIN s = 1 .. Len(s)
  BY StrIs
<1>2. ASSUME NEW i \in Starts(s), NEW b \in Nat \ {0}, NEW e \in Nat \ {0}, LineOf(s, i, b, e)
      PROVE  IsThought(LineAt(s, i)) <=> b = i /\ i < e /\ s[i] = "Thought:"
  <2> DEFINE line == LineAt(s, i)
  <2>1. i \in 1 .. Len(s) + 1 /\ i \in Nat
    BY <1>1, StartsAre
  <2>2. /\ b \in i .. e /\ line \in Str /\ Len(line) = e - b
        /\ \A k \in 1 .. e - b : line[k] = s[b + k - 1]
        /\ b = i \/ (b < e /\ s[b] = "Action:")
    BY <1>2, <2>1 DEF LineOf
  <2>3. ~(b < e /\ s[b] \in ActionPieces)
    BY <1>2, <2>1, ActionLine DEF ActionLines
  <2>4. b = i
    BY <2>2, <2>3 DEF ActionPieces
  <2>5. IsThought(line) <=> line # <<>> /\ line[1] = "Thought:"
    BY DEF IsThought, StartsWith
  <2> HIDE DEF line
  <2>6. line = <<>> <=> Len(line) = 0
    BY <2>2, EmptySeq DEF Str
  <2>7. CASE i < e
    <3>1. 1 \in 1 .. e - b /\ b + 1 - 1 = i /\ e - b # 0
      BY <2>1, <2>4, <2>7
    <3>2. line[1] = s[i]
      BY <2>2, <3>1
    <3> QED  BY <2>2, <2>4, <2>5, <2>6, <2>7, <3>1, <3>2 DEF line
  <2>8. CASE ~(i < e)
    <3>1. e - b = 0
      BY <2>1, <2>2, <2>4, <2>8
    <3> QED  BY <2>2, <2>5, <2>6, <2>8, <3>1 DEF line
  <2> QED  BY <2>7, <2>8
<1>3. ASSUME NEW i \in ThoughtLines(s)
      PROVE  i \in Thoughts(s)
  <2>1. i \in Starts(s) /\ IsThought(LineAt(s, i))
    BY DEF ThoughtLines
  <2>2. PICK b, e \in Nat \ {0} : LineOf(s, i, b, e)
    BY <2>1, LineIs
  <2>3. b = i /\ i < e /\ s[i] = "Thought:"
    BY <1>2, <2>1, <2>2
  <2>4. i \in 1 .. Len(s) + 1 /\ (i # 1 => s[i - 1] = "\n")
    BY <2>1, StartsAre
  <2>5. i \in DOMAIN s
    <3>1. i \in i .. e - 1
      BY <2>3, <2>4
    <3> QED  BY <2>1, <2>2, <3>1, LineSeen
  <2> QED  BY <2>3, <2>4, <2>5 DEF Thoughts, AtLineStart
<1>4. ASSUME NEW t \in Thoughts(s)
      PROVE  /\ t \in ThoughtLines(s)
             /\ Tail(LineAt(s, t)) = SubSeq(s, t + 1, First(s, {"\n"}, t) - 1)
  <2> DEFINE line == LineAt(s, t)
  <2>1. t \in 1 .. Len(s) /\ s[t] = "Thought:" /\ AtLineStart(s, t)
    BY <1>1 DEF Thoughts
  <2>2. t \in Starts(s)
    <3>1. t # 1 => s[t - 1] = "\n"
      BY <2>1 DEF AtLineStart
    <3>2. t # 1 => t - 1 \in DOMAIN s /\ t = (t - 1) + 1
      BY <1>1, <2>1
    <3> QED  BY <3>1, <3>2 DEF Starts
  <2>3. PICK b, e \in Nat \ {0} : LineOf(s, t, b, e)
    BY <2>2, LineIs
  <2>4. /\ b \in t .. e /\ e \in t .. Len(s) + 1 /\ (e <= Len(s) => s[e] = "\n")
        /\ \A h \in t .. e - 1 : s[h] # "\n"
        /\ line \in Str /\ Len(line) = e - b
        /\ \A k \in 1 .. e - b : line[k] = s[b + k - 1]
        /\ b = t \/ (b < e /\ s[b] = "Action:")
    <3>1. t \in Nat
      BY <2>1
    <3> QED  BY <2>3, <3>1 DEF LineOf
  <2>5. b = t
    <3>1. ~(b < e /\ s[b] \in ActionPieces)
      BY <2>1, <2>2, <2>3, ActionLine DEF ActionLines
    <3> QED  BY <2>4, <3>1 DEF ActionPieces
  <2>6. t < e
    <3>1. e = t => s[t] = "\n"
      BY <2>1, <2>4
    <3>2. e # t
      BY <2>1, <3>1
    <3> QED  BY <2>1, <2>4, <3>2
  <2>7. t \in ThoughtLines(s)
    BY <1>2, <2>1, <2>2, <2>3, <2>5, <2>6 DEF ThoughtLines
  <2>8. First(s, {"\n"}, t) = e
    <3>1. (\A h \in t .. e - 1 : s[h] \notin {"\n"}) /\ (e <= Len(s) => s[e] \in {"\n"})
      BY <2>4
    <3>2. t \in Nat \ {0}
      BY <2>1
    <3> QED  BY <2>4, <3>1, <3>2, NextAt
  <2> HIDE DEF line
  <2> DEFINE u == Tail(line)
             v == SubSeq(s, t + 1, e - 1)
  <2>9. /\ u \in Str /\ Len(u) = (e - t) - 1
        /\ \A k \in 1 .. (e - t) - 1 : u[k] = line[k + 1]
    <3>1. line # <<>>
      <4>1. Len(line) # 0
        BY <2>1, <2>4, <2>5, <2>6
      <4> QED  BY <4>1
    <3> QED  BY <2>4, <2>5, <3>1, HeadTailProperties DEF Str
  <2>10. /\ v \in Str /\ Len(v) = (e - t) - 1
         /\ \A k \in 1 .. (e - t) - 1 : v[k] = s[(t + 1) + k - 1]
    <3>1. /\ t + 1 \in Nat \ {0} /\ e - 1 \in Nat /\ e - 1 <= Len(s)
          /\ (e - 1) - (t + 1) + 1 = (e - t) - 1
          /\ (~(t + 1 <= e - 1) => (e - t) - 1 = 0)
      BY <1>1, <2>1, <2>4, <2>6
    <3> QED  BY <3>1, StrCut
  <2>11. ASSUME NEW k \in 1 .. (e - t) - 1
         PROVE  line[k + 1] = s[(t + 1) + k - 1]
    <3>1. k + 1 \in 1 .. e - b /\ b + (k + 1) - 1 = (t + 1) + k - 1
      BY <2>1, <2>5
    <3> QED  BY <2>4, <3>1
  <2> HIDE DEF u, v
  <2>12. u = v
    BY <2>9, <2>10, <2>11, SeqEqual DEF Str
  <2> QED  BY <2>7, <2>8, <2>12 DEF u, v, line
<1> QED  BY <1>3, <1>4

(* An output without an action is answered by its last thought, or by all  *)
(* of it.                                                                  *)
LEMMA AnswerSpoken ==
  ASSUME NEW s \in Str, ActionLines(s) = {}
  PROVE  ReadAnswer(s).answer = Spoken(s) /\ ReadAnswer(s).is_replan = FALSE
<1> DEFINE heard == IF ThoughtLines(s) = {} THEN <<>>
                    ELSE Trim(Tail(LineAt(s, Greatest(ThoughtLines(s)))))
           spoken == IF heard = <<>> THEN Trim(s) ELSE heard
           last == Greatest(Thoughts(s))
           words == Trim(SubSeq(s, last + 1, First(s, {"\n"}, last) - 1))
<1>1. ReadAnswer(s).answer = spoken /\ ReadAnswer(s).is_replan = FALSE
  BY DEF ReadAnswer, Joinner, ActionLines, ThoughtLines
<1>2. Spoken(s) = IF Thoughts(s) = {} \/ words = <<>> THEN Trim(s) ELSE words
  BY DEF Spoken, Thoughts
<1>3. ThoughtLines(s) = Thoughts(s)
  BY ThoughtIs
<1>4. ASSUME Thoughts(s) # {}
      PROVE  heard = words
  <2>1. Len(s) \in Nat /\ DOMAIN s = 1 .. Len(s)
    BY StrIs
  <2>2. Thoughts(s) \in SUBSET (0 .. Len(s))
    BY <2>1 DEF Thoughts
  <2>3. last \in Thoughts(s)
    BY <1>4, <2>1, <2>2, LastOf
  <2> HIDE DEF last
  <2>4. Tail(LineAt(s, last)) = SubSeq(s, last + 1, First(s, {"\n"}, last) - 1)
    BY <2>3, ThoughtIs
  <2> QED  BY <1>3, <1>4, <2>4 DEF last
<1> HIDE DEF heard, words
<1>5. CASE Thoughts(s) = {}
  <2>1. heard = <<>>
    BY <1>3, <1>5 DEF heard
  <2> QED  BY <1>1, <1>2, <1>5, <2>1
<1>6. CASE Thoughts(s) # {}
  BY <1>1, <1>2, <1>4, <1>6
<1> QED  BY <1>5, <1>6

(* The actions of a text, by their positions, and those that wrap words.   *)
Actions(s) == {a \in DOMAIN s : Begins(s, a)}
Wrapping(s) == {a \in Actions(s) : \E x, y \in OnLine(s, a) : Wraps(s, a, x, y)}
WrappedLines(s) == {i \in ActionLines(s) : Wrapped(LineAt(s, i))}

(* A line that is an action has an action, and the other way round; so for *)
(* those that wrap words.                                                  *)
LEMMA ActionsAre ==
  ASSUME NEW s \in Str
  PROVE  /\ \A i \in ActionLines(s) : \E b, e \in Nat \ {0} :
              /\ LineOf(s, i, b, e) /\ i \in Starts(s) /\ IsAction(LineAt(s, i))
              /\ b \in Actions(s)
              /\ i \in WrappedLines(s) => b \in Wrapping(s)
         /\ \A a \in Actions(s) : \E i \in ActionLines(s) : \E e \in Nat \ {0} :
              /\ LineOf(s, i, a, e) /\ i \in Starts(s) /\ IsAction(LineAt(s, i))
              /\ a \in Nat \ {0}
              /\ a \in Wrapping(s) => i \in WrappedLines(s)
<1>1. ASSUME NEW i \in ActionLines(s)
      PROVE  \E b, e \in Nat \ {0} :
               /\ LineOf(s, i, b, e) /\ i \in Starts(s) /\ IsAction(LineAt(s, i))
               /\ b \in Actions(s)
               /\ i \in WrappedLines(s) => b \in Wrapping(s)
  <2>1. i \in Starts(s) /\ IsAction(LineAt(s, i))
    BY DEF ActionLines
  <2>2. PICK b, e \in Nat \ {0} : LineOf(s, i, b, e)
    BY <2>1, LineIs
  <2>3. b \in Actions(s)
    BY <2>1, <2>2, ActionBegins DEF Actions
  <2>4. i \in WrappedLines(s) => \E x, y \in OnLine(s, b) : Wraps(s, b, x, y)
    BY <2>1, <2>2, LineWraps DEF WrappedLines
  <2>5. i \in WrappedLines(s) => b \in Wrapping(s)
    BY <2>3, <2>4 DEF Wrapping
  <2> QED  BY <2>1, <2>2, <2>3, <2>5
<1>2. ASSUME NEW a \in Actions(s)
      PROVE  \E i \in ActionLines(s) : \E e \in Nat \ {0} :
               /\ LineOf(s, i, a, e) /\ i \in Starts(s) /\ IsAction(LineAt(s, i))
               /\ a \in Nat \ {0}
               /\ a \in Wrapping(s) => i \in WrappedLines(s)
  <2>1. a \in DOMAIN s /\ Begins(s, a)
    BY DEF Actions
  <2>2. a \in Nat \ {0}
    BY <2>1, StrIs
  <2>3. PICK i \in Starts(s), e \in Nat \ {0} : LineOf(s, i, a, e) /\ IsAction(LineAt(s, i))
    BY <2>1, BeginsOnLine
  <2>4. i \in ActionLines(s)
    BY <2>3 DEF ActionLines
  <2>5. a \in Wrapping(s) => Wrapped(LineAt(s, i))
    BY <2>2, <2>3, LineWraps DEF Wrapping
  <2>6. a \in Wrapping(s) => i \in WrappedLines(s)
    BY <2>4, <2>5 DEF WrappedLines
  <2> QED  BY <2>2, <2>3, <2>4, <2>6
<1> QED  BY <1>1, <1>2

(* What the last action that wraps anything wraps is the answer: its line  *)
(* is the last that wraps anything.                                        *)
LEMMA AnswerWrapped ==
  ASSUME NEW s \in Str, NEW a \in Wrapping(s), \A b \in Wrapping(s) : b <= a,
         NEW x \in OnLine(s, a), NEW y \in OnLine(s, a), Wraps(s, a, x, y)
  PROVE  ReadAnswer(s).answer = SubSeq(s, x + 1, y - 1)
<1>1. Len(s) \in Nat
  BY StrIs
<1>2. a \in Actions(s)
  BY DEF Wrapping
<1>3. PICK i \in ActionLines(s), e \in Nat \ {0} :
        /\ LineOf(s, i, a, e) /\ i \in Starts(s) /\ IsAction(LineAt(s, i))
        /\ a \in Nat \ {0} /\ i \in WrappedLines(s)
  BY <1>2, ActionsAre
<1>4. i \in 1 .. Len(s) + 1 /\ a \in Nat \ {0}
  BY <1>3, StartsAre
<1>5. ASSUME NEW j \in WrappedLines(s)
      PROVE  j <= i
  <2>1. j \in ActionLines(s)
    BY DEF WrappedLines
  <2>2. PICK c, d \in Nat \ {0} : LineOf(s, j, c, d) /\ j \in Starts(s) /\ c \in Wrapping(s)
    BY <2>1, ActionsAre
  <2>3. j \in 1 .. Len(s) + 1
    BY <2>2, StartsAre
  <2>4. c <= a /\ j <= c
    <3>1. c \in j .. d
      BY <2>2 DEF LineOf
    <3> QED  BY <2>2, <2>3, <3>1
  <2>5. i < j => a < j
    BY <1>3, <2>2, LinesApart
  <2> QED  BY <1>1, <1>4, <2>2, <2>3, <2>4, <2>5
<1>6. WrappedLines(s) \in SUBSET (0 .. Len(s) + 1)
  <2>1. \A j \in WrappedLines(s) : j \in 1 .. Len(s) + 1
    BY StartsAre DEF WrappedLines, ActionLines
  <2> QED  BY <1>1, <2>1
<1>7. Greatest(WrappedLines(s)) = i
  <2>1. Len(s) + 1 \in Nat
    BY <1>1
  <2>2. /\ Greatest(WrappedLines(s)) \in WrappedLines(s)
        /\ \A j \in WrappedLines(s) : j <= Greatest(WrappedLines(s))
    BY <1>3, <1>6, <2>1, LastOf
  <2>3. Greatest(WrappedLines(s)) <= i /\ i <= Greatest(WrappedLines(s))
        /\ Greatest(WrappedLines(s)) \in 0 .. Len(s) + 1
    BY <1>3, <1>5, <1>6, <2>2
  <2> QED  BY <1>1, <1>4, <2>3
<1>8. ReadAnswer(s).answer = Inside(LineAt(s, Greatest(WrappedLines(s))))
  BY <1>3 DEF ReadAnswer, Joinner, ActionLines, WrappedLines
<1>9. Inside(LineAt(s, i)) = SubSeq(s, x + 1, y - 1)
  BY <1>3, <1>4, LineWraps
<1> QED  BY <1>7, <1>8, <1>9

(* Where actions wrap nothing the answer is empty.                         *)
LEMMA AnswerEmpty ==
  ASSUME NEW s \in Str, Actions(s) # {}, Wrapping(s) = {}
  PROVE  ReadAnswer(s).answer = <<>>
<1>1. ActionLines(s) # {}
  BY ActionsAre
<1>2. WrappedLines(s) = {}
  BY ActionsAre DEF WrappedLines
<1> QED  BY <1>1, <1>2 DEF ReadAnswer, Joinner, ActionLines, WrappedLines

(* A replan is asked for where an action's line says so.                   *)
LEMMA AnswerReplans ==
  ASSUME NEW s \in Str
  PROVE  ReadAnswer(s).is_replan <=> \E a \in Actions(s) : \E x \in OnLine(s, a) : s[x] = "Replan"
<1>1. ReadAnswer(s).is_replan
        <=> \E i \in ActionLines(s) : Contains(LineAt(s, i), "Replan")
  BY DEF ReadAnswer, Joinner, ActionLines
<1>2. ASSUME NEW i \in ActionLines(s), Contains(LineAt(s, i), "Replan")
      PROVE  \E a \in Actions(s) : \E x \in OnLine(s, a) : s[x] = "Replan"
  <2>1. PICK b, e \in Nat \ {0} :
          LineOf(s, i, b, e) /\ i \in Starts(s) /\ IsAction(LineAt(s, i)) /\ b \in Actions(s)
    BY ActionsAre
  <2> QED  BY <1>2, <2>1, LineReplans
<1>3. ASSUME NEW a \in Actions(s), NEW x \in OnLine(s, a), s[x] = "Replan"
      PROVE  \E i \in ActionLines(s) : Contains(LineAt(s, i), "Replan")
  <2>1. PICK i \in ActionLines(s), e \in Nat \ {0} :
          LineOf(s, i, a, e) /\ i \in Starts(s) /\ IsAction(LineAt(s, i)) /\ a \in Nat \ {0}
    BY ActionsAre
  <2> QED  BY <1>3, <2>1, LineReplans
<1> QED  BY <1>1, <1>2, <1>3

(* What the joinner says reaches the user (joinner.rs:311-389): exactly    *)
(* what the last action that wraps anything wraps, from the first          *)
(* parenthesis to the last of its line; where no action begins, the last   *)
(* thought's words or else the whole text; and a replan is read where an   *)
(* action's line says so, and nowhere else.                                *)
THEOREM AnswersSurface == SpeechSpec => []AnswerSurfaces
<1> USE TextsAssumption
<1>1. SpeechInit => SInv /\ ReadInv
  BY SaidInit, ReadInit
<1>2. SInv /\ ReadInv /\ [SpeechNext]_speechVars => (SInv /\ ReadInv)'
  BY SaidStep, ReadStep
<1>3. ReadInv => AnswerSurfaces
  <2> SUFFICES ASSUME ReadInv, role = "joinner", status = "read" PROVE AnswerSurfaces
    BY DEF AnswerSurfaces
  <2>1. out \in Str /\ result = ReadAnswer(out)
    BY DEF ReadInv, TypesKept
  <2>2. AnswerSurfaces <=>
          /\ Actions(out) = {} => result.answer = Spoken(out)
          /\ Actions(out) # {} /\ Wrapping(out) = {} => result.answer = <<>>
          /\ \A a \in Wrapping(out) : \A i, j \in OnLine(out, a) :
               Wraps(out, a, i, j) /\ (\A b \in Wrapping(out) : b <= a)
                 => result.answer = SubSeq(out, i + 1, j - 1)
          /\ result.is_replan
               <=> \E a \in Actions(out) : \E i \in OnLine(out, a) : out[i] = "Replan"
    BY DEF AnswerSurfaces, Actions, Wrapping
  <2>3. Actions(out) = {} => result.answer = Spoken(out)
    <3>1. Actions(out) = {} => ActionLines(out) = {}
      BY <2>1, ActionsAre
    <3> QED  BY <2>1, <3>1, AnswerSpoken
  <2>4. Actions(out) # {} /\ Wrapping(out) = {} => result.answer = <<>>
    BY <2>1, AnswerEmpty
  <2>5. ASSUME NEW a \in Wrapping(out), NEW i \in OnLine(out, a), NEW j \in OnLine(out, a),
               Wraps(out, a, i, j), \A b \in Wrapping(out) : b <= a
        PROVE  result.answer = SubSeq(out, i + 1, j - 1)
    BY <2>1, <2>5, AnswerWrapped
  <2>6. result.is_replan
          <=> \E a \in Actions(out) : \E i \in OnLine(out, a) : out[i] = "Replan"
    BY <2>1, AnswerReplans
  <2> QED  BY <2>2, <2>3, <2>4, <2>5, <2>6
<1> QED  BY <1>1, <1>2, <1>3, PTL DEF SpeechSpec

-----------------------------------------------------------------------------
Args == Strings \cup Refs \cup Ints

(* What kinds of argument there are, and what is written for each.         *)
LEMMA ArgIs ==
  ASSUME WellFormed, NEW arg \in Args
  PROVE  \/ /\ arg.kind = "string" /\ arg.quote \in Quotes /\ arg.text \in Str
            /\ \A i \in 1 .. Len(arg.text) : arg.text[i] # arg.quote
            /\ Reference(arg.text) = <<>>
            /\ WriteArg(arg) = <<arg.quote>> \o arg.text \o <<arg.quote>>
         \/ /\ arg.kind = "ref" /\ arg.quote \in Quotes /\ arg.text \in Str
            /\ Len(arg.text) # 0 /\ \A i \in 1 .. Len(arg.text) : arg.text[i] \in Digits
            /\ WriteArg(arg) = <<arg.quote, "$">> \o arg.text \o <<arg.quote>>
         \/ /\ arg.kind = "int" /\ arg.text \in Str
            /\ Len(arg.text) # 0
            /\ \A i \in 1 .. Len(arg.text) : arg.text[i] \in Digits \/ (i = 1 /\ arg.text[i] = "-")
            /\ WriteArg(arg) = arg.text
<1>1. Seq(Digits) \subseteq Str /\ Seq(Digits \cup {"-"}) \subseteq Str
      /\ Seq(Pieces \ {"\n"}) \subseteq Str
  BY WellFormedIs, SeqMonotonic DEF Marks, Str
<1>2. \A s \in Str : DOMAIN s = 1 .. Len(s) /\ (s # <<>> => Len(s) # 0)
  BY StrIs, EmptySeq DEF Str
<1>3. CASE arg \in Strings
  <2>1. arg.kind = "string" /\ arg.quote \in Quotes /\ arg.text \in Seq(Pieces \ {"\n"})
        /\ (\A i \in DOMAIN arg.text : arg.text[i] # arg.quote)
        /\ Reference(arg.text) = <<>>
    BY <1>3 DEF Strings
  <2>2. WriteArg(arg) = <<arg.quote>> \o arg.text \o <<arg.quote>>
    BY <2>1 DEF WriteArg
  <2> QED  BY <1>1, <1>2, <2>1, <2>2
<1>4. CASE arg \in Refs
  <2>1. arg.kind = "ref" /\ arg.quote \in Quotes /\ arg.text \in Seq(Digits) /\ arg.text # <<>>
    BY <1>4 DEF Refs
  <2>2. WriteArg(arg) = <<arg.quote, "$">> \o arg.text \o <<arg.quote>>
    BY <2>1 DEF WriteArg
  <2>3. \A i \in 1 .. Len(arg.text) : arg.text[i] \in Digits
    BY <2>1
  <2> QED  BY <1>1, <1>2, <2>1, <2>2, <2>3
<1>5. CASE arg \in Ints
  <2>1. arg.kind = "int" /\ arg.text \in Seq(Digits \cup {"-"}) /\ arg.text # <<>>
        /\ (\A i \in DOMAIN arg.text : arg.text[i] = "-" => i = 1)
    BY <1>5 DEF Ints
  <2>2. WriteArg(arg) = arg.text
    BY <2>1 DEF WriteArg
  <2>3. \A i \in 1 .. Len(arg.text) : arg.text[i] \in Digits \cup {"-"}
    BY <2>1
  <2>4. arg.text \in Str /\ DOMAIN arg.text = 1 .. Len(arg.text) /\ Len(arg.text) # 0
    BY <1>1, <1>2, <2>1
  <2>5. \A i \in 1 .. Len(arg.text) : arg.text[i] \in Digits \/ (i = 1 /\ arg.text[i] = "-")
    BY <2>1, <2>3, <2>4
  <2> QED  BY <2>1, <2>2, <2>4, <2>5
<1> QED  BY <1>3, <1>4, <1>5 DEF Args

(* w is a, then t, then c.                                                 *)
Framed(w, a, t, c) ==
  /\ w \in Str
  /\ Len(w) = Len(a) + Len(t) + Len(c)
  /\ \A i \in 1 .. Len(a) : w[i] = a[i]
  /\ \A i \in 1 .. Len(t) : w[Len(a) + i] = t[i]
  /\ \A i \in 1 .. Len(c) : w[Len(a) + Len(t) + i] = c[i]

(* A text between two others.                                              *)
LEMMA Between ==
  ASSUME NEW a \in Str, NEW t \in Str, NEW c \in Str, NEW w, w = a \o t \o c
  PROVE  Framed(w, a, t, c)
<1> DEFINE v == a \o t
<1>1. Len(a) \in Nat /\ Len(t) \in Nat /\ Len(c) \in Nat
  BY StrIs
<1>2. /\ v \in Str /\ Len(v) = Len(a) + Len(t)
      /\ \A i \in 1 .. Len(a) : v[i] = a[i]
      /\ \A i \in 1 .. Len(t) : v[Len(a) + i] = t[i]
  BY StrJoin
<1>3. w = v \o c
  OBVIOUS
<1> HIDE DEF v
<1>4. /\ w \in Str /\ Len(w) = Len(v) + Len(c)
      /\ \A i \in 1 .. Len(v) : w[i] = v[i]
      /\ \A i \in 1 .. Len(c) : w[Len(v) + i] = c[i]
  <2>1. v \in Str
    BY <1>2
  <2>2. Appended(v \o c, v, c)
    BY <2>1, StrJoined
  <2>3. Appended(w, v, c)
    BY <2>2, <1>3
  <2> QED  BY <2>3 DEF Appended
<1>5. \A i \in 1 .. Len(a) : i \in 1 .. Len(v)
  BY <1>1, <1>2
<1>6. \A i \in 1 .. Len(t) : Len(a) + i \in 1 .. Len(v)
  BY <1>1, <1>2
<1>7. \A i \in 1 .. Len(a) : w[i] = a[i]
  BY <1>2, <1>4, <1>5
<1>8. \A i \in 1 .. Len(t) : w[Len(a) + i] = t[i]
  BY <1>2, <1>4, <1>6
<1>9. Len(w) = Len(a) + Len(t) + Len(c) /\ \A i \in 1 .. Len(c) : w[Len(a) + Len(t) + i] = c[i]
  BY <1>2, <1>4
<1> QED  BY <1>4, <1>7, <1>8, <1>9 DEF Framed

Solid(p) == p \notin Blank

(* What the pieces that the grammar uses are not.                          *)
LEMMA MarksAre ==
  ASSUME WellFormed
  PROVE  /\ \A q \in Quotes : q \in Pieces /\ <<q>> \in Str /\ <<q, "$">> \in Str
              /\ Solid(q) /\ q \notin {")", "#", ",", " ", "$", "-", "1.f("} /\ q \notin Digits
         /\ \A d \in Digits : d \in Pieces /\ Solid(d) /\ d \notin {")", "#", ",", " ", "$", "-", "{", "1.f("}
              /\ d \notin Quotes
         /\ "-" \in Pieces /\ Solid("-") /\ "-" \notin Digits /\ "," \notin Digits /\ " " \notin Digits
         /\ <<",", " ">> \in Str /\ <<"1.f(">> \in Str /\ <<")">> \in Str
<1>1. \A q \in Quotes : q \in Marks
  BY DEF Marks
<1>2. {")", ",", " ", "$", "-", "1.f("} \subseteq Marks
  BY DEF Marks
<1>3. \A q \in Quotes : Solid(q) /\ q \notin {")", "#", ",", " ", "$", "-", "1.f("}
  BY DEF Quotes, Solid, Blank
<1>4. \A q \in Quotes : q \in Pieces /\ q \notin Digits /\ <<q>> \in Str /\ <<q, "$">> \in Str
  BY <1>1, <1>2, WellFormedIs, StrIs
<1>5. \A d \in Digits : d \in Pieces /\ Solid(d) /\ d \notin {")", "#", ",", " ", "$", "-", "{", "1.f("}
                        /\ d \notin Quotes
  BY <1>1, <1>2, WellFormedIs DEF Solid
<1>6. "-" \in Pieces /\ Solid("-") /\ "-" \notin Digits /\ "," \notin Digits /\ " " \notin Digits
  BY <1>2, WellFormedIs DEF Solid, Blank
<1>7. <<",", " ">> \in Str /\ <<"1.f(">> \in Str /\ <<")">> \in Str
  BY <1>2, WellFormedIs, StrIs
<1> QED  BY <1>3, <1>4, <1>5, <1>6, <1>7

(* Texts of one piece and of two.                                          *)
LEMMA OneOrTwo ==
  /\ \A p : Len(<<p>>) = 1 /\ <<p>>[1] = p
  /\ \A p, q : Len(<<p, q>>) = 2 /\ <<p, q>>[1] = p /\ <<p, q>>[2] = q
OBVIOUS

(* A quoted argument: where its quotes and its text are.                   *)
LEMMA QuotedIs ==
  ASSUME WellFormed, NEW q \in Quotes, NEW t \in Str,
         NEW w, w = <<q>> \o t \o <<q>>
  PROVE  /\ w \in Str /\ Len(w) = Len(t) + 2 /\ w[1] = q /\ w[Len(t) + 2] = q
         /\ \A i \in 1 .. Len(t) : w[i + 1] = t[i]
<1>1. <<q>> \in Str
  BY MarksAre
<1>2. Len(t) \in Nat /\ 1 \in 1 .. 1 /\ Len(<<q>>) = 1 /\ <<q>>[1] = q
  BY StrIs, OneOrTwo
<1> DEFINE a == <<q>>
<1> HIDE DEF a
<1>3. w = a \o t \o a /\ Len(a) = 1 /\ a[1] = q /\ a \in Str
  BY <1>1, <1>2 DEF a
<1>4. /\ w \in Str
      /\ Len(w) = Len(a) + Len(t) + Len(a)
      /\ \A i \in 1 .. Len(a) : w[i] = a[i]
      /\ \A i \in 1 .. Len(t) : w[Len(a) + i] = t[i]
      /\ \A i \in 1 .. Len(a) : w[Len(a) + Len(t) + i] = a[i]
  <2>1. a \in Str /\ t \in Str /\ w = a \o t \o a
    BY <1>3
  <2>2. Framed(w, a, t, a)
    BY <2>1, Between
  <2> QED  BY <2>2 DEF Framed
<1>5. w[1] = q /\ w[1 + Len(t) + 1] = q /\ \A i \in 1 .. Len(t) : w[1 + i] = t[i]
  BY <1>2, <1>3, <1>4
<1>6. 1 + Len(t) + 1 = Len(t) + 2 /\ \A i \in 1 .. Len(t) : 1 + i = i + 1
  BY <1>2
<1> QED  BY <1>3, <1>4, <1>5, <1>6

(* A reference is the quoted text "$" and its number.                      *)
LEMMA RefIs ==
  ASSUME WellFormed, NEW q \in Quotes, NEW t \in Str
  PROVE  /\ <<"$">> \o t \in Str
         /\ <<q, "$">> \o t \o <<q>> = <<q>> \o (<<"$">> \o t) \o <<q>>
<1>1. <<"$">> \in Str /\ <<q>> \in Str /\ <<q, "$">> \in Str
  BY MarksAre, WellFormedIs, StrIs DEF Marks
<1>2. <<"$">> \o t \in Str
  BY <1>1, StrJoin
<1>3. <<q, "$">> = <<q>> \o <<"$">>
  OBVIOUS
<1>4. (<<q>> \o <<"$">>) \o t = <<q>> \o (<<"$">> \o t)
  BY <1>1, ConcatAssociative DEF Str
<1> QED  BY <1>2, <1>3, <1>4

(* The text of a reference: "$" and its number.                            *)
LEMMA RefText ==
  ASSUME WellFormed, NEW t \in Str
  PROVE  /\ <<"$">> \in Str /\ Len(<<"$">>) = 1
         /\ Len(<<"$">> \o t) = 1 + Len(t) /\ (<<"$">> \o t)[1] = "$"
         /\ \A i \in 1 .. Len(t) : (<<"$">> \o t)[1 + i] = t[i]
<1>1. <<"$">> \in Str
  BY WellFormedIs, StrIs DEF Marks
<1>2. Len(<<"$">>) = 1 /\ <<"$">>[1] = "$" /\ 1 \in 1 .. 1
  OBVIOUS
<1>3. /\ Len(<<"$">> \o t) = Len(<<"$">>) + Len(t)
      /\ \A i \in 1 .. Len(<<"$">>) : (<<"$">> \o t)[i] = <<"$">>[i]
      /\ \A i \in 1 .. Len(t) : (<<"$">> \o t)[Len(<<"$">>) + i] = t[i]
  BY <1>1, StrJoin
<1> QED  BY <1>1, <1>2, <1>3

(* Every argument begins and ends with something solid.                    *)
LEMMA ArgEnds ==
  ASSUME WellFormed, NEW arg \in Args
  PROVE  LET w == WriteArg(arg) IN
         /\ w \in Str /\ Len(w) \in Nat \ {0} /\ Solid(w[1]) /\ Solid(w[Len(w)])
         /\ w[1] \notin {")", "#", ",", "1.f("}
<1> DEFINE w == WriteArg(arg)
<1>1. w \in Str /\ Len(w) \in Nat
  BY WrittenArg, StrIs DEF Args
<1>2. ASSUME NEW q \in Quotes, NEW t \in Str, w = <<q>> \o t \o <<q>>
      PROVE  Len(w) # 0 /\ w[1] = q /\ w[Len(w)] = q
  <2>1. Len(w) = Len(t) + 2 /\ w[1] = q /\ w[Len(t) + 2] = q /\ Len(t) \in Nat
    BY <1>2, QuotedIs, StrIs
  <2> QED  BY <2>1
<1>3. CASE arg.kind = "string"
  <2>1. arg.quote \in Quotes /\ arg.text \in Str /\ w = <<arg.quote>> \o arg.text \o <<arg.quote>>
    BY <1>3, ArgIs
  <2> HIDE DEF w
  <2>2. Len(w) # 0 /\ w[1] = arg.quote /\ w[Len(w)] = arg.quote
    BY <1>2, <2>1
  <2>3. Len(w) # 0 /\ Solid(w[1]) /\ Solid(w[Len(w)]) /\ w[1] \notin {")", "#", ",", "1.f("}
    BY <2>1, <2>2, MarksAre
  <2> QED  BY <1>1, <2>3 DEF w
<1>4. CASE arg.kind = "ref"
  <2>1. arg.quote \in Quotes /\ arg.text \in Str
        /\ w = <<arg.quote, "$">> \o arg.text \o <<arg.quote>>
    BY <1>4, ArgIs
  <2> HIDE DEF w
  <2>2. w = <<arg.quote>> \o (<<"$">> \o arg.text) \o <<arg.quote>> /\ <<"$">> \o arg.text \in Str
    BY <2>1, RefIs
  <2>3. Len(w) # 0 /\ w[1] = arg.quote /\ w[Len(w)] = arg.quote
    BY <1>2, <2>1, <2>2
  <2>4. Len(w) # 0 /\ Solid(w[1]) /\ Solid(w[Len(w)]) /\ w[1] \notin {")", "#", ",", "1.f("}
    BY <2>1, <2>3, MarksAre
  <2> QED  BY <1>1, <2>4 DEF w
<1>5. CASE arg.kind = "int"
  <2>1. Len(w) # 0 /\ \A i \in 1 .. Len(w) : w[i] \in Digits \/ w[i] = "-"
    BY <1>5, ArgIs
  <2> HIDE DEF w
  <2>2. 1 \in 1 .. Len(w) /\ Len(w) \in 1 .. Len(w)
    BY <1>1, <2>1
  <2>3. \A p : p \in Digits \/ p = "-" => Solid(p) /\ p \notin {")", "#", ",", "1.f("}
    BY MarksAre
  <2> QED  BY <1>1, <2>1, <2>2, <2>3 DEF w
<1> QED  BY <1>3, <1>4, <1>5, ArgIs

(* A parenthesis in a legible argument is followed, within the argument,   *)
(* by something solid that begins no comment.                              *)
LEMMA LegibleIs ==
  ASSUME WellFormed, NEW arg \in Args, Legible(arg),
         NEW o \in 1 .. Len(WriteArg(arg)), WriteArg(arg)[o] = ")"
  PROVE  \E h \in o + 1 .. Len(WriteArg(arg)) :
           /\ Solid(WriteArg(arg)[h]) /\ WriteArg(arg)[h] # "#"
           /\ \A g \in o + 1 .. h - 1 : WriteArg(arg)[g] \in Blank
<1> DEFINE w == WriteArg(arg)
           t == arg.text
           q == arg.quote
<1>1. w \in Str /\ Len(w) \in Nat
  BY WrittenArg, StrIs DEF Args
<1>2. CASE arg.kind = "string"
  <2>1. q \in Quotes /\ t \in Str /\ w = <<q>> \o t \o <<q>> /\ Len(t) \in Nat /\ DOMAIN t = 1 .. Len(t)
    BY <1>2, ArgIs, StrIs
  <2>2. /\ Len(w) = Len(t) + 2 /\ w[1] = q /\ w[Len(t) + 2] = q
        /\ \A i \in 1 .. Len(t) : w[i + 1] = t[i]
    <3> HIDE DEF w, t, q
    <3> QED  BY <2>1, QuotedIs
  <2>3. \A j \in 1 .. Len(t) : t[j] = ")" => ~StartsWith(Trim(From(t, j + 1)), {"#"})
    BY <1>2, <2>1 DEF Legible
  <2> HIDE DEF w, t, q
  <2>4. Solid(q) /\ q # ")" /\ q # "#"
    BY <2>1, MarksAre
  <2>5. o - 1 \in 1 .. Len(t) /\ (o - 1) + 1 = o
    <3>1. o # 1 /\ o # Len(t) + 2 /\ o \in 1 .. Len(w)
      BY <2>2, <2>4 DEF w
    <3> QED  BY <2>1, <2>2, <3>1
  <2>6. t[o - 1] = ")" /\ ~StartsWith(Trim(From(t, o)), {"#"})
    <3>1. t[o - 1] = ")"
      BY <2>2, <2>5 DEF w
    <3> QED  BY <2>3, <2>5, <3>1
  <2> DEFINE solid == {j \in o .. Len(t) : Solid(t[j])}
  <2>7. CASE solid = {}
    <3>1. \A g \in o + 1 .. Len(w) - 1 : g - 1 \in o .. Len(t) /\ g - 1 \in 1 .. Len(t) /\ (g - 1) + 1 = g
      BY <2>1, <2>2, <2>5
    <3>2. \A g \in o + 1 .. Len(w) - 1 : w[g] \in Blank
      <4>1. \A j \in o .. Len(t) : t[j] \in Blank
        BY <2>7 DEF Solid
      <4> QED  BY <2>2, <3>1, <4>1
    <3>3. Len(w) \in o + 1 .. Len(w) /\ w[Len(w)] = q
      BY <2>1, <2>2, <2>5
    <3> QED  BY <2>4, <3>2, <3>3 DEF w
  <2>8. CASE solid # {}
    <3> DEFINE j == Least(solid)
    <3>1. solid \in SUBSET Nat
      BY <2>1, <2>5
    <3>2. j \in solid /\ \A k \in solid : j <= k
      <4> HIDE DEF solid
      <4> QED  BY <2>8, <3>1, FirstOf
    <3> HIDE DEF j
    <3>3. j \in o .. Len(t) /\ Solid(t[j])
      BY <3>2
    <3>4. \A g \in o .. j - 1 : t[g] \in Blank
      <4> SUFFICES ASSUME NEW g \in o .. j - 1 PROVE t[g] \in Blank
        OBVIOUS
      <4>1. g \in o .. Len(t) /\ ~(j <= g)
        BY <2>1, <2>5, <3>3
      <4> QED  BY <3>2, <4>1 DEF Solid
    <3> HIDE DEF solid
    <3> DEFINE r == From(t, o)
    <3>5. /\ r \in Str /\ Len(r) = Len(t) - o + 1
          /\ \A k \in 1 .. Len(t) - o + 1 : r[k] = t[o + k - 1]
      <4>1. o \in Nat \ {0} /\ o <= Len(t)
        BY <2>1, <2>5, <3>3
      <4> QED  BY <2>1, <4>1, StrRest
    <3> HIDE DEF r
    <3>6. j - o + 1 \in 1 .. Len(r) /\ o + (j - o + 1) - 1 = j
      BY <2>1, <2>5, <3>3, <3>5
    <3>7. r[j - o + 1] = t[j]
      BY <3>5, <3>6
    <3>8. \A g \in 1 .. (j - o + 1) - 1 : r[g] \in Blank
      <4> SUFFICES ASSUME NEW g \in 1 .. (j - o + 1) - 1 PROVE r[g] \in Blank
        OBVIOUS
      <4>1. o + g - 1 \in o .. j - 1 /\ g \in 1 .. Len(t) - o + 1
        BY <2>1, <2>5, <3>3
      <4> QED  BY <3>4, <3>5, <4>1
    <3>9. Trim(r) # <<>> /\ Trim(r)[1] = t[j]
      <4> DEFINE f == j - o + 1
      <4>1. f \in 1 .. Len(r) /\ r[f] \notin Blank /\ \A h \in 1 .. f - 1 : r[h] \in Blank
        BY <3>3, <3>6, <3>7, <3>8 DEF Solid
      <4>2. r[f] = t[j]
        BY <3>7
      <4> HIDE DEF f
      <4> QED  BY <3>5, <4>1, <4>2, TrimStart
    <3>10. t[j] # "#"
      BY <2>6, <3>9 DEF StartsWith, r
    <3>11. j \in 1 .. Len(t) /\ j + 1 \in o + 1 .. Len(w) /\ w[j + 1] = t[j]
      <4>1. j \in 1 .. Len(t) /\ j + 1 \in o + 1 .. Len(w)
        BY <2>1, <2>2, <2>5, <3>3
      <4> QED  BY <2>2, <4>1
    <3>12. \A g \in o + 1 .. (j + 1) - 1 : w[g] \in Blank
      <4> SUFFICES ASSUME NEW g \in o + 1 .. (j + 1) - 1 PROVE w[g] \in Blank
        OBVIOUS
      <4>1. g - 1 \in o .. j - 1 /\ g - 1 \in 1 .. Len(t) /\ (g - 1) + 1 = g
        BY <2>1, <2>5, <3>3
      <4> QED  BY <2>2, <3>4, <4>1
    <3>13. Solid(w[j + 1]) /\ w[j + 1] # "#"
      BY <3>3, <3>10, <3>11
    <3> QED  BY <3>11, <3>12, <3>13 DEF w
  <2> QED  BY <2>7, <2>8
<1>3. CASE arg.kind = "ref"
  <2>1. /\ q \in Quotes /\ t \in Str /\ Len(t) \in Nat /\ w = <<q, "$">> \o t \o <<q>>
        /\ \A i \in 1 .. Len(t) : t[i] \in Digits
    BY <1>3, ArgIs, StrIs
  <2>2. <<"$">> \o t \in Str /\ w = <<q>> \o (<<"$">> \o t) \o <<q>>
    BY <2>1, RefIs
  <2>3. /\ <<"$">> \in Str /\ Len(<<"$">>) = 1
        /\ Len(<<"$">> \o t) = 1 + Len(t) /\ (<<"$">> \o t)[1] = "$"
        /\ \A i \in 1 .. Len(t) : (<<"$">> \o t)[1 + i] = t[i]
    BY <2>1, RefText
  <2> DEFINE u == <<"$">> \o t
  <2> HIDE DEF w, t, q, u
  <2>4. /\ Len(w) = Len(u) + 2 /\ w[1] = q /\ w[Len(u) + 2] = q
        /\ \A i \in 1 .. Len(u) : w[i + 1] = u[i]
    BY <2>1, <2>2, QuotedIs DEF u
  <2>5. \A i \in 1 .. Len(u) : u[i] = "$" \/ u[i] \in Digits
    <3> SUFFICES ASSUME NEW i \in 1 .. Len(u) PROVE u[i] = "$" \/ u[i] \in Digits
      OBVIOUS
    <3>1. i = 1 \/ (i - 1 \in 1 .. Len(t) /\ 1 + (i - 1) = i)
      BY <2>1, <2>3 DEF u
    <3> QED  BY <2>1, <2>3, <3>1 DEF u
  <2>6. o = 1 \/ o = Len(u) + 2 \/ (o - 1 \in 1 .. Len(u) /\ (o - 1) + 1 = o)
    <3>1. o \in 1 .. Len(w) /\ Len(u) \in Nat
      BY <2>1, <2>3 DEF u, w
    <3> QED  BY <2>4, <3>1
  <2>7. q # ")" /\ "$" # ")" /\ \A d \in Digits : d # ")"
    BY <2>1, MarksAre
  <2>8. w[o] # ")"
    <3>1. CASE o - 1 \in 1 .. Len(u) /\ (o - 1) + 1 = o
      <4>1. w[o] = u[o - 1]
        BY <2>4, <3>1
      <4> QED  BY <2>5, <2>7, <3>1, <4>1
    <3> QED  BY <2>4, <2>6, <2>7, <3>1
  <2> QED  BY <2>8 DEF w
<1>4. CASE arg.kind = "int"
  <2>1. \A i \in 1 .. Len(w) : w[i] \in Digits \/ w[i] = "-"
    BY <1>4, ArgIs
  <2> QED  BY <2>1, MarksAre
<1> QED  BY <1>2, <1>3, <1>4, ArgIs

-----------------------------------------------------------------------------
(* Where each of the joined texts stands: At(seqs, k) pieces come before    *)
(* the text after the k-th.                                                *)
At(seqs, k) == Len(Joined(seqs)[k])

(* Every joined text begins where those before it end.                     *)
LEMMA AtIs ==
  ASSUME NEW seqs \in Seq(Str)
  PROVE  /\ FlattenSeq(seqs) = Joined(seqs)[Len(seqs)]
         /\ \A k \in 0 .. Len(seqs) : Joined(seqs)[k] \in Str /\ At(seqs, k) \in Nat
         /\ At(seqs, 0) = 0
         /\ \A k \in 1 .. Len(seqs) :
              /\ seqs[k] \in Str /\ Len(seqs[k]) \in Nat /\ k - 1 \in 0 .. Len(seqs)
              /\ Joined(seqs)[k] = Joined(seqs)[k - 1] \o seqs[k]
              /\ At(seqs, k) = At(seqs, k - 1) + Len(seqs[k])
<1>1. Len(seqs) \in Nat /\ \A k \in 1 .. Len(seqs) : seqs[k] \in Str
  OBVIOUS
<1>2. FlattenSeq(seqs) = Joined(seqs)[Len(seqs)]
  BY FlattenIsJoined DEF Str
<1>3. /\ Joined(seqs)[0] = <<>>
      /\ \A k \in 1 .. Len(seqs) : Joined(seqs)[k] = Joined(seqs)[k - 1] \o seqs[k]
      /\ \A k \in 0 .. Len(seqs) : Joined(seqs)[k] \in Str
  BY JoinedIs DEF Str
<1>4. At(seqs, 0) = 0
  BY <1>3 DEF At
<1>5. \A k \in 0 .. Len(seqs) : At(seqs, k) \in Nat
  BY <1>3, StrIs DEF At
<1>6. ASSUME NEW k \in 1 .. Len(seqs)
      PROVE  /\ Len(seqs[k]) \in Nat /\ k - 1 \in 0 .. Len(seqs)
             /\ At(seqs, k) = At(seqs, k - 1) + Len(seqs[k])
  <2>1. k - 1 \in 0 .. Len(seqs)
    BY <1>1
  <2>2. Len(seqs[k]) \in Nat
    BY <1>1, StrIs
  <2>3. Len(Joined(seqs)[k - 1] \o seqs[k]) = Len(Joined(seqs)[k - 1]) + Len(seqs[k])
    BY <1>1, <1>3, <2>1, StrJoin
  <2> QED  BY <1>3, <2>1, <2>2, <2>3 DEF At
<1> QED  BY <1>1, <1>2, <1>3, <1>4, <1>5, <1>6

(* What is joined stays where it is.                                       *)
LEMMA JoinKeeps ==
  ASSUME NEW seqs \in Seq(Str), NEW k \in 1 .. Len(seqs), NEW o \in 1 .. Len(seqs[k]),
         NEW m \in k .. Len(seqs)
  PROVE  /\ At(seqs, k - 1) + o <= At(seqs, m)
         /\ Joined(seqs)[m][At(seqs, k - 1) + o] = seqs[k][o]
<1> DEFINE x == At(seqs, k - 1) + o
           n == Len(seqs) - k
           P == {d \in Nat : d <= n => x <= At(seqs, k + d) /\ Joined(seqs)[k + d][x] = seqs[k][o]}
<1>1. Len(seqs) \in Nat /\ n \in Nat /\ k \in Nat /\ k + 0 = k
  OBVIOUS
<1>2. /\ At(seqs, k - 1) \in Nat /\ Len(seqs[k]) \in Nat /\ seqs[k] \in Str
      /\ Joined(seqs)[k - 1] \in Str
      /\ Joined(seqs)[k] = Joined(seqs)[k - 1] \o seqs[k]
      /\ At(seqs, k) = At(seqs, k - 1) + Len(seqs[k])
  BY AtIs
<1>3. 0 \in P
  <2>1. x <= At(seqs, k)
    BY <1>2
  <2>2. Joined(seqs)[k][x] = seqs[k][o]
    <3>1. (Joined(seqs)[k - 1] \o seqs[k])[Len(Joined(seqs)[k - 1]) + o] = seqs[k][o]
      BY <1>2, StrJoin
    <3> QED  BY <1>2, <3>1 DEF At
  <2> QED  BY <1>1, <2>1, <2>2
<1>4. ASSUME NEW d \in 0 .. n - 1, d \in P
      PROVE  d + 1 \in P
  <2> DEFINE i == k + d
  <2>1. d + 1 \in Nat /\ i \in 0 .. Len(seqs) /\ i + 1 \in 1 .. Len(seqs) /\ (i + 1) - 1 = i
        /\ k + (d + 1) = i + 1 /\ d <= n
    BY <1>1
  <2>2. x <= At(seqs, i) /\ Joined(seqs)[i][x] = seqs[k][o]
    BY <1>4, <2>1
  <2> HIDE DEF P, i
  <2>3. /\ At(seqs, i) \in Nat /\ Joined(seqs)[i] \in Str
        /\ Joined(seqs)[i + 1] = Joined(seqs)[i] \o seqs[i + 1]
        /\ At(seqs, i + 1) = At(seqs, i) + Len(seqs[i + 1])
        /\ Len(seqs[i + 1]) \in Nat /\ seqs[i + 1] \in Str
    <3>1. At(seqs, i) \in Nat /\ Joined(seqs)[i] \in Str
      BY <2>1, AtIs
    <3>2. ASSUME NEW j \in 1 .. Len(seqs), j = i + 1
          PROVE  /\ Joined(seqs)[j] = Joined(seqs)[i] \o seqs[j]
                 /\ At(seqs, j) = At(seqs, i) + Len(seqs[j])
                 /\ Len(seqs[j]) \in Nat /\ seqs[j] \in Str
      <4>1. j - 1 = i
        BY <2>1, <3>2
      <4> QED  BY <4>1, AtIs
    <3> QED  BY <2>1, <3>1, <3>2
  <2>4. x \in 1 .. Len(Joined(seqs)[i])
    BY <1>2, <2>2, <2>3 DEF At
  <2>5. Joined(seqs)[i + 1][x] = seqs[k][o]
    BY <2>2, <2>3, <2>4, StrJoin
  <2>6. x <= At(seqs, i + 1)
    BY <1>2, <2>2, <2>3
  <2> QED  BY <2>1, <2>5, <2>6 DEF P
<1> HIDE DEF P, n, x
<1>5. \A d \in 0 .. n : d \in P
  BY <1>1, <1>3, <1>4, Climb
<1>6. m - k \in 0 .. n /\ m - k <= n /\ k + (m - k) = m
  BY <1>1 DEF n
<1>7. m - k \in P
  BY <1>5, <1>6
<1> QED  BY <1>6, <1>7 DEF P, x

(* Everything that is joined comes from one of the texts.                  *)
LEMMA JoinCovers ==
  ASSUME NEW seqs \in Seq(Str), NEW p \in 1 .. At(seqs, Len(seqs))
  PROVE  \E k \in 1 .. Len(seqs) : \E o \in 1 .. Len(seqs[k]) : p = At(seqs, k - 1) + o
<1> DEFINE n == Len(seqs)
           Within(k) == \E o \in 1 .. Len(seqs[k]) : p = At(seqs, k - 1) + o
           P == {m \in Nat : p <= At(seqs, m) => \E k \in 1 .. n : Within(k)}
<1>1. n \in Nat
  OBVIOUS
<1>2. At(seqs, n) \in Nat /\ p \in Nat /\ 1 <= p
  <2>1. n \in 0 .. n
    BY <1>1
  <2>2. At(seqs, n) \in Nat
    BY <2>1, AtIs
  <2> QED  BY <2>2
<1>3. 0 \in P
  <2>1. At(seqs, 0) = 0
    BY AtIs
  <2> QED  BY <1>2, <2>1
<1>4. ASSUME NEW m \in 0 .. n - 1, m \in P
      PROVE  m + 1 \in P
  <2>1. m + 1 \in Nat /\ m + 1 \in 1 .. n /\ (m + 1) - 1 = m /\ m \in 0 .. n
    BY <1>1
  <2>2. /\ At(seqs, m) \in Nat /\ Len(seqs[m + 1]) \in Nat
        /\ At(seqs, m + 1) = At(seqs, m) + Len(seqs[m + 1])
    BY <2>1, AtIs
  <2>3. CASE p <= At(seqs, m)
    <3>1. \E k \in 1 .. n : Within(k)
      BY <1>4, <2>3
    <3> QED  BY <2>1, <3>1
  <2>4. CASE ~(p <= At(seqs, m)) /\ p <= At(seqs, m + 1)
    <3>1. p - At(seqs, m) \in 1 .. Len(seqs[m + 1]) /\ p = At(seqs, m) + (p - At(seqs, m))
      BY <1>2, <2>2, <2>4
    <3>2. Within(m + 1)
      BY <2>1, <3>1
    <3> QED  BY <2>1, <3>2
  <2>5. CASE ~(p <= At(seqs, m + 1))
    BY <2>1, <2>5
  <2> QED  BY <2>3, <2>4, <2>5
<1> HIDE DEF P
<1>5. n \in P
  <2>1. \A m \in 0 .. n : m \in P
    BY <1>1, <1>3, <1>4, Climb
  <2> QED  BY <1>1, <2>1
<1>6. p <= At(seqs, n)
  BY <1>2
<1> QED  BY <1>5, <1>6 DEF P

-----------------------------------------------------------------------------
(* The line a planner writes: its body, and the k-th argument in it.       *)
Body(args) == FlattenSeq(Parts(args))
Sep(k) == IF k = 1 THEN 0 ELSE 2

(* A part of the body: the separator, but for the first, and an argument.  *)
LEMMA PartIs ==
  ASSUME WellFormed, NEW args \in Calls, NEW k \in 1 .. Len(args)
  PROVE  /\ args[k] \in Args
         /\ Len(Parts(args)[k]) = Sep(k) + Len(WriteArg(args[k]))
         /\ \A o \in 1 .. Len(WriteArg(args[k])) :
              Parts(args)[k][Sep(k) + o] = WriteArg(args[k])[o]
         /\ k # 1 => Parts(args)[k][1] = "," /\ Parts(args)[k][2] = " "
<1> DEFINE w == WriteArg(args[k])
<1>1. args \in Seq(Args)
  BY WellFormedIs DEF Args
<1>2. args[k] \in Args /\ DOMAIN args = 1 .. Len(args)
  BY <1>1
<1>3. w \in Str /\ Len(w) \in Nat
  BY <1>2, ArgEnds
<1>4. Parts(args)[k] = IF k = 1 THEN w ELSE <<",", " ">> \o w
  BY <1>2 DEF Parts
<1> HIDE DEF w
<1>5. CASE k = 1
  <2>1. Parts(args)[k] = w /\ Sep(k) = 0 /\ \A o \in 1 .. Len(w) : 0 + o = o
    BY <1>3, <1>4, <1>5 DEF Sep
  <2> QED  BY <1>2, <1>3, <1>5, <2>1 DEF w
<1>6. CASE k # 1
  <2>1. <<",", " ">> \in Str
    BY MarksAre
  <2>2. Len(<<",", " ">>) = 2 /\ <<",", " ">>[1] = "," /\ <<",", " ">>[2] = " "
        /\ 1 \in 1 .. 2 /\ 2 \in 1 .. 2
    OBVIOUS
  <2> DEFINE c == <<",", " ">>
  <2> HIDE DEF c
  <2>3. /\ Len(c \o w) = Len(c) + Len(w)
        /\ \A i \in 1 .. Len(c) : (c \o w)[i] = c[i]
        /\ \A i \in 1 .. Len(w) : (c \o w)[Len(c) + i] = w[i]
    BY <1>3, <2>1, StrJoin DEF c
  <2>4. Parts(args)[k] = c \o w /\ Sep(k) = 2 /\ Len(c) = 2 /\ c[1] = "," /\ c[2] = " "
    BY <1>4, <1>6, <2>2 DEF Sep, c
  <2> QED  BY <1>2, <1>6, <2>2, <2>3, <2>4 DEF w
<1> QED  BY <1>5, <1>6

(* Where the k-th argument begins in the body, and what stands there.      *)
Begin(args, k) == At(Parts(args), k - 1) + Sep(k) + 1

(* The body of a call, and how long it is.                                 *)
LEMMA BodyIs ==
  ASSUME WellFormed, NEW args \in Calls
  PROVE  /\ Body(args) \in Str /\ Len(args) \in Nat
         /\ Len(Body(args)) = At(Parts(args), Len(args))
         /\ At(Parts(args), 0) = 0
         /\ \A k \in 0 .. Len(args) : At(Parts(args), k) \in Nat
<1>1. Parts(args) \in Seq(Str) /\ Len(Parts(args)) = Len(args) /\ Body(args) \in Str
  BY WrittenCall DEF Body
<1>2. Len(args) \in Nat
  <2>1. args \in Seq(Args)
    BY WellFormedIs DEF Args
  <2> QED  BY <2>1
<1>3. /\ FlattenSeq(Parts(args)) = Joined(Parts(args))[Len(Parts(args))]
      /\ \A k \in 0 .. Len(Parts(args)) : At(Parts(args), k) \in Nat
      /\ At(Parts(args), 0) = 0
  BY <1>1, AtIs
<1> QED  BY <1>1, <1>2, <1>3 DEF Body, At

(* What is written for the k-th argument stands at its place in the body,  *)
(* after its separator.                                                    *)
LEMMA ArgStands ==
  ASSUME WellFormed, NEW args \in Calls, NEW k \in 1 .. Len(args)
  PROVE  LET w == WriteArg(args[k])
             b == Begin(args, k)
         IN /\ b \in Nat \ {0} /\ At(Parts(args), k) = b + Len(w) - 1
            /\ At(Parts(args), k) <= Len(Body(args))
            /\ \A o \in 1 .. Len(w) : Body(args)[b + o - 1] = w[o]
            /\ k # 1 => Body(args)[At(Parts(args), k - 1) + 1] = ","
                        /\ Body(args)[At(Parts(args), k - 1) + 2] = " "
<1> DEFINE w == WriteArg(args[k])
           b == Begin(args, k)
           P == Parts(args)
<1>1. P \in Seq(Str) /\ Len(P) = Len(args) /\ Len(args) \in Nat
  BY WrittenCall, BodyIs
<1>2. /\ args[k] \in Args /\ Len(P[k]) = Sep(k) + Len(w)
      /\ \A o \in 1 .. Len(w) : P[k][Sep(k) + o] = w[o]
      /\ k # 1 => P[k][1] = "," /\ P[k][2] = " "
  BY PartIs
<1>3. Len(w) \in Nat \ {0} /\ Sep(k) \in Nat /\ (k # 1 => Sep(k) = 2)
  BY <1>2, ArgEnds DEF Sep
<1>4. b = At(P, k - 1) + Sep(k) + 1
  BY DEF Begin
<1> HIDE DEF w, P, b
<1>5. At(P, k) = At(P, k - 1) + Len(P[k]) /\ At(P, k - 1) \in Nat
  BY <1>1, AtIs
<1> DEFINE x == At(P, k - 1)
           c == Sep(k)
           l == Len(w)
           m == Len(P[k])
<1>6. /\ x \in Nat /\ c \in Nat /\ l \in Nat \ {0} /\ m = c + l /\ b = x + c + 1
      /\ At(P, k) = x + m /\ (k # 1 => c = 2)
  BY <1>4, <1>2, <1>3, <1>5
<1> HIDE DEF x, c, l, m
<1>7. ASSUME NEW o \in 1 .. m
      PROVE  x + o <= Len(Body(args)) /\ Body(args)[x + o] = P[k][o]
  <2>1. Len(P) \in k .. Len(P) /\ k \in 1 .. Len(P)
    BY <1>1
  <2>2. Body(args) = Joined(P)[Len(P)]
    BY <1>1, AtIs DEF Body, P
  <2> QED  BY <1>1, <2>1, <2>2, JoinKeeps DEF At, x, m
<1>8. At(P, k) <= Len(Body(args)) /\ At(P, k) = b + l - 1 /\ b \in Nat \ {0}
  <2>1. m \in 1 .. m
    BY <1>6
  <2>2. x + m <= Len(Body(args))
    BY <1>7, <2>1
  <2>3. x + m = b + l - 1 /\ b \in Nat \ {0}
    BY <1>6
  <2> QED  BY <1>6, <2>2, <2>3
<1>9. ASSUME NEW o \in 1 .. l
      PROVE  Body(args)[b + o - 1] = w[o]
  <2>1. c + o \in 1 .. m /\ x + (c + o) = b + o - 1
    BY <1>6
  <2>2. P[k][c + o] = w[o]
    BY <1>2 DEF c, l
  <2> QED  BY <1>7, <2>1, <2>2
<1>10. ASSUME k # 1
       PROVE  Body(args)[x + 1] = "," /\ Body(args)[x + 2] = " "
  <2>1. 1 \in 1 .. m /\ 2 \in 1 .. m
    BY <1>6, <1>10
  <2> QED  BY <1>2, <1>7, <1>10, <2>1
<1>11. /\ b \in Nat \ {0} /\ At(P, k) = b + Len(w) - 1 /\ At(P, k) <= Len(Body(args))
       /\ \A o \in 1 .. Len(w) : Body(args)[b + o - 1] = w[o]
       /\ k # 1 => Body(args)[At(P, k - 1) + 1] = "," /\ Body(args)[At(P, k - 1) + 2] = " "
  <2>1. l = Len(w) /\ x = At(P, k - 1)
    BY DEF l, x
  <2> QED  BY <1>8, <1>9, <1>10, <2>1
<1> QED  BY <1>11 DEF w, b, P

Separates(p) == p \in {",", " "}

(* A piece of the body that separates nothing is a piece of an argument.   *)
LEMMA BodyPieces ==
  ASSUME WellFormed, NEW args \in Calls, NEW p \in 1 .. Len(Body(args)),
         ~Separates(Body(args)[p])
  PROVE  \E k \in 1 .. Len(args) : \E o \in 1 .. Len(WriteArg(args[k])) :
           p = Begin(args, k) + o - 1
<1> DEFINE P == Parts(args)
<1>1. P \in Seq(Str) /\ Len(P) = Len(args) /\ Len(args) \in Nat /\ Len(Body(args)) = At(P, Len(P))
  BY WrittenCall, BodyIs
<1>2. \A i \in 1 .. Len(args) : i - 1 \in 0 .. Len(args)
  BY <1>1
<1>3. \A x, c, l, o \in Nat :
        x + o = (x + c + 1) + (o - c) - 1 /\ (o \in 1 .. c + l /\ o > c => o - c \in 1 .. l)
  OBVIOUS
<1>4. \A l, o : l \in Nat /\ o \in 1 .. l => o \in Nat /\ o >= 1
  OBVIOUS
<1> HIDE DEF P
<1>5. PICK k \in 1 .. Len(P) : \E o \in 1 .. Len(P[k]) : p = At(P, k - 1) + o
  <2>1. p \in 1 .. At(P, Len(P))
    BY <1>1
  <2> QED  BY <1>1, <2>1, JoinCovers
<1>6. PICK o \in 1 .. Len(P[k]) : p = At(P, k - 1) + o
  BY <1>5
<1> DEFINE w == WriteArg(args[k])
<1>7. k \in 1 .. Len(args) /\ args[k] \in Args /\ Len(P[k]) = Sep(k) + Len(w)
  BY <1>1, PartIs DEF P
<1>8. Len(w) \in Nat /\ At(P, k - 1) \in Nat /\ Begin(args, k) = At(P, k - 1) + Sep(k) + 1
  <2>1. k - 1 \in 0 .. Len(args)
    BY <1>2, <1>7
  <2> QED  BY <1>7, <2>1, ArgEnds, BodyIs DEF P, Begin
<1> HIDE DEF w
<1> DEFINE x == At(P, k - 1)
           c == Sep(k)
           l == Len(w)
           m == Len(P[k])
<1>9. x \in Nat /\ l \in Nat /\ m = c + l /\ Begin(args, k) = x + c + 1 /\ p = x + o
  BY <1>6, <1>7, <1>8
<1>10. c \in Nat /\ o \in Nat /\ o >= 1 /\ o \in 1 .. c + l
  <2>1. c \in Nat
    BY DEF Sep
  <2> HIDE DEF c
  <2>2. m \in Nat
    BY <1>9, <2>1
  <2>3. o \in 1 .. m
    OBVIOUS
  <2> HIDE DEF m
  <2>4. o \in Nat /\ o >= 1
    BY <1>4, <2>2, <2>3
  <2> QED  BY <1>9, <2>1, <2>3, <2>4
<1>11. o > c
  <2>1. CASE k = 1
    BY <1>10, <2>1 DEF Sep
  <2>2. CASE k # 1
    <3>1. Body(args)[x + 1] = "," /\ Body(args)[x + 2] = " "
      BY <1>7, <2>2, ArgStands DEF P
    <3>2. c = 2
      BY <2>2 DEF Sep
    <3> HIDE DEF x, c, l, m
    <3>3. o # 1 /\ o # 2
      <4>1. Separates(Body(args)[x + 1]) /\ Separates(Body(args)[x + 2])
        BY <3>1 DEF Separates
      <4> QED  BY <1>9, <4>1
    <3> QED  BY <1>10, <3>2, <3>3
  <2> QED  BY <2>1, <2>2
<1> HIDE DEF x, c, l, m
<1>12. o - c \in 1 .. l /\ p = Begin(args, k) + (o - c) - 1
  BY <1>9, <1>10, <1>11, <1>3
<1> QED  BY <1>7, <1>12 DEF l, w

(* A written call: the name, the body and a parenthesis.                   *)
LEMMA CallIs ==
  ASSUME WellFormed, NEW args \in Calls
  PROVE  /\ WriteCall(args) \in Str
         /\ Len(WriteCall(args)) = Len(Body(args)) + 2
         /\ WriteCall(args)[1] = "1.f("
         /\ \A p \in 1 .. Len(Body(args)) : WriteCall(args)[p + 1] = Body(args)[p]
         /\ WriteCall(args)[Len(Body(args)) + 2] = ")"
<1> DEFINE a == <<"1.f(">>
           c == <<")">>
           t == Body(args)
           line == WriteCall(args)
<1>1. a \in Str /\ c \in Str /\ Len(a) = 1 /\ Len(c) = 1 /\ a[1] = "1.f(" /\ c[1] = ")" /\ 1 \in 1 .. 1
  <2>1. a \in Str /\ c \in Str
    BY MarksAre
  <2>2. Len(a) = 1 /\ Len(c) = 1 /\ a[1] = "1.f(" /\ c[1] = ")" /\ 1 \in 1 .. 1
    OBVIOUS
  <2> QED  BY <2>1, <2>2
<1>2. t \in Str /\ Len(t) \in Nat
  BY BodyIs, StrIs
<1>3. line = a \o t \o c /\ line \in Str
  BY WrittenCall DEF Body
<1> HIDE DEF a, c, t, line
<1>4. /\ Len(line) = Len(a) + Len(t) + Len(c)
      /\ \A i \in 1 .. Len(a) : line[i] = a[i]
      /\ \A i \in 1 .. Len(t) : line[Len(a) + i] = t[i]
      /\ \A i \in 1 .. Len(c) : line[Len(a) + Len(t) + i] = c[i]
  <2>1. a \in Str /\ t \in Str /\ c \in Str
    BY <1>1, <1>2
  <2>2. Framed(line, a, t, c)
    BY <1>3, <2>1, Between
  <2> QED  BY <2>2 DEF Framed
<1>5. line[1] = "1.f(" /\ line[1 + Len(t) + 1] = ")" /\ \A p \in 1 .. Len(t) : line[1 + p] = t[p]
  BY <1>1, <1>4
<1>6. /\ Len(line) = Len(t) + 2 /\ 1 + Len(t) + 1 = Len(t) + 2
      /\ \A p \in 1 .. Len(t) : 1 + p = p + 1
  BY <1>1, <1>2, <1>4
<1> QED  BY <1>3, <1>5, <1>6 DEF t, line

(* No parenthesis before the last ends a legible call.                     *)
LEMMA ClosesLast ==
  ASSUME WellFormed, NEW args \in Calls, \A k \in 1 .. Len(args) : Legible(args[k])
  PROVE  /\ Closes(WriteCall(args)) # {}
         /\ Least(Closes(WriteCall(args))) = Len(Body(args)) + 2
<1> DEFINE t == Body(args)
           line == WriteCall(args)
           closes == Closes(line)
           n == Len(t)
<1>1. /\ line \in Str /\ Len(line) = n + 2 /\ line[1] = "1.f(" /\ line[n + 2] = ")"
      /\ \A p \in 1 .. n : line[p + 1] = t[p]
  BY CallIs
<1>2. t \in Str /\ n \in Nat /\ Len(args) \in Nat
  BY BodyIs, StrIs
<1>3. DOMAIN line = 1 .. n + 2
  BY <1>1, StrIs
<1>4. \A i : i \in closes <=>
        /\ i \in 1 .. n + 2 /\ line[i] = ")"
        /\ \/ Trim(From(line, i + 1)) = <<>>
           \/ Trim(From(line, i + 1))[1] = "#"
  BY <1>3 DEF Closes
<1> HIDE DEF t, n, line, closes
<1>5. n + 2 \in closes
  <2>1. n + 2 \in 1 .. n + 2 /\ n + 2 + 1 \in Nat \ {0} /\ ~(n + 2 + 1 <= n + 2)
    BY <1>2
  <2>2. From(line, n + 2 + 1) \in Str /\ Len(From(line, n + 2 + 1)) = 0
    BY <1>1, <2>1, StrRest
  <2>3. From(line, n + 2 + 1) = <<>>
    BY <2>2, EmptySeq DEF Str
  <2>4. Trim(<<>>) = <<>>
    BY DEF Trim
  <2> QED  BY <1>1, <1>4, <2>1, <2>3, <2>4
<1>6. ASSUME NEW i \in closes
      PROVE  n + 2 <= i
  <2> SUFFICES ASSUME ~(n + 2 <= i) PROVE FALSE
    OBVIOUS
  <2>1. i \in 1 .. n + 2 /\ line[i] = ")"
    BY <1>4
  <2>2. i # 1
    BY <1>1, <2>1
  <2> DEFINE p == i - 1
  <2>3. p \in 1 .. n /\ p + 1 = i /\ p \in Nat
    BY <1>2, <2>1, <2>2
  <2> HIDE DEF p
  <2>4. t[p] = ")"
    BY <1>1, <2>1, <2>3
  <2>5. ~Separates(t[p])
    BY <2>4 DEF Separates
  <2>6. PICK k \in 1 .. Len(args) : \E o \in 1 .. Len(WriteArg(args[k])) :
          p = Begin(args, k) + o - 1
    BY <2>3, <2>5, BodyPieces DEF t, n
  <2> DEFINE w == WriteArg(args[k])
             b == Begin(args, k)
  <2>7. PICK o \in 1 .. Len(w) : p = b + o - 1
    BY <2>6
  <2>8. /\ b \in Nat \ {0} /\ b + Len(w) - 1 <= n
        /\ \A j \in 1 .. Len(w) : t[b + j - 1] = w[j]
    BY ArgStands DEF t, n
  <2>9. args[k] \in Args /\ Len(w) \in Nat
    BY PartIs, ArgEnds
  <2>10. w[o] = ")"
    BY <2>4, <2>7, <2>8
  <2>11. PICK h \in o + 1 .. Len(w) :
           /\ Solid(w[h]) /\ w[h] # "#"
           /\ \A g \in o + 1 .. h - 1 : w[g] \in Blank
    BY <2>9, <2>10, LegibleIs
  <2> HIDE DEF w, b
  <2> DEFINE l == Len(w)
             f == h - o
             m == (n + 2) - (i + 1) + 1
             r == From(line, i + 1)
  <2> HIDE DEF l, f, m, r
  <2>12. /\ b \in Nat \ {0} /\ b + l - 1 <= n /\ o \in 1 .. l /\ h \in o + 1 .. l
         /\ l \in Nat /\ f = h - o /\ m = (n + 2) - (i + 1) + 1 /\ i = b + o
    BY <2>3, <2>7, <2>8, <2>9 DEF l, f, m
  <2>13. /\ f \in Nat \ {0} /\ b + h - 1 \in 1 .. n /\ (b + h - 1) + 1 = (i + 1) + f - 1
         /\ i + 1 \in Nat \ {0} /\ i + 1 <= n + 2 /\ f \in 1 .. m
    BY <1>2, <2>12
  <2>14. h \in 1 .. Len(w)
    BY <2>12 DEF l
  <2>15. r \in Str /\ Len(r) = m /\ \A g \in 1 .. m : r[g] = line[(i + 1) + g - 1]
    <3>1. /\ From(line, i + 1) \in Str
          /\ Len(From(line, i + 1)) = IF i + 1 <= Len(line) THEN Len(line) - (i + 1) + 1 ELSE 0
          /\ \A g \in 1 .. Len(line) - (i + 1) + 1 : From(line, i + 1)[g] = line[(i + 1) + g - 1]
      BY <1>1, <2>13, StrRest
    <3>2. Len(line) - (i + 1) + 1 = m /\ i + 1 <= Len(line)
      BY <1>1, <2>12, <2>13
    <3> QED  BY <3>1, <3>2 DEF r
  <2>16. r[f] = w[h]
    <3>1. r[f] = line[(b + h - 1) + 1]
      BY <2>13, <2>15
    <3>2. line[(b + h - 1) + 1] = t[b + h - 1]
      BY <1>1, <2>13
    <3>3. t[b + h - 1] = w[h]
      BY <2>8, <2>14
    <3> QED  BY <3>1, <3>2, <3>3
  <2>17. ASSUME NEW g \in 1 .. f - 1
         PROVE  r[g] \in Blank
    <3>1. /\ o + g \in o + 1 .. h - 1 /\ o + g \in 1 .. l /\ b + (o + g) - 1 \in 1 .. n
          /\ (b + (o + g) - 1) + 1 = (i + 1) + g - 1 /\ g \in 1 .. m
      BY <1>2, <2>12, <2>13
    <3>2. r[g] = line[(i + 1) + g - 1]
      BY <2>15, <3>1
    <3>3. line[(b + (o + g) - 1) + 1] = t[b + (o + g) - 1]
      BY <1>1, <3>1
    <3>4. t[b + (o + g) - 1] = w[o + g]
      BY <2>8, <3>1 DEF l
    <3>5. r[g] = w[o + g]
      BY <3>1, <3>2, <3>3, <3>4
    <3> QED  BY <2>11, <3>1, <3>5
  <2>18. f \in 1 .. Len(r) /\ r[f] \notin Blank
    BY <2>11, <2>13, <2>15, <2>16 DEF Solid
  <2>19. Trim(r) # <<>> /\ Trim(r)[1] = r[f]
    BY <2>15, <2>17, <2>18, TrimStart
  <2>20. r[f] # "#"
    BY <2>11, <2>16
  <2> QED  BY <1>4, <2>19, <2>20 DEF r
<1>7. closes \in SUBSET Nat /\ closes # {}
  <2>1. \A i \in closes : i \in Nat
    BY <1>2, <1>4
  <2> QED  BY <1>5, <2>1
<1>8. Least(closes) = n + 2
  <2>1. Least(closes) \in closes /\ Least(closes) <= n + 2
    BY <1>5, <1>7, FirstOf
  <2>2. n + 2 <= Least(closes) /\ Least(closes) \in Nat
    BY <1>6, <1>7, <2>1
  <2> QED  BY <1>2, <2>1, <2>2
<1> QED  BY <1>7, <1>8 DEF t, n, line, closes

(* The arguments of a legible call are read from its body.                 *)
LEMMA CallIsRead ==
  ASSUME WellFormed, NEW args \in Calls, \A k \in 1 .. Len(args) : Legible(args[k])
  PROVE  ReadCall(WriteCall(args)) = ParseArgs(Body(args))
<1> DEFINE t == Body(args)
           line == WriteCall(args)
           n == Len(t)
           l == Least(Closes(line))
<1>1. /\ line \in Str /\ Len(line) = n + 2 /\ line[1] = "1.f("
      /\ \A p \in 1 .. n : line[p + 1] = t[p]
  BY CallIs
<1>2. t \in Str /\ n \in Nat /\ Len(args) \in Nat /\ n = At(Parts(args), Len(args))
  BY BodyIs, StrIs
<1>3. l = n + 2 /\ Closes(line) # {}
  BY ClosesLast
<1>4. ReadCall(line)
        = IF line = <<>> \/ line[1] # "1.f(" \/ Closes(line) = {} THEN Unread
          ELSE ParseArgs(Trim(SubSeq(line, 2, l - 1)))
  BY DEF ReadCall
<1> HIDE DEF t, n, line, l
<1>5. line # <<>>
  <2>1. Len(line) # 0
    BY <1>1, <1>2
  <2>2. Len(<<>>) = 0
    OBVIOUS
  <2> QED  BY <2>1, <2>2
<1>6. SubSeq(line, 2, l - 1) = t
  <2> DEFINE c == SubSeq(line, 2, n + 1)
  <2>1. l - 1 = n + 1 /\ 2 \in Nat \ {0} /\ n + 1 \in Nat /\ n + 1 <= n + 2 /\ (n + 1) - 2 + 1 = n
        /\ (~(2 <= n + 1) => n = 0)
    BY <1>2, <1>3
  <2>2. c \in Str /\ Len(c) = n /\ \A k \in 1 .. n : c[k] = line[2 + k - 1]
    <3>1. /\ c \in Str /\ Len(c) = IF 2 <= n + 1 THEN (n + 1) - 2 + 1 ELSE 0
          /\ \A k \in 1 .. (n + 1) - 2 + 1 : c[k] = line[2 + k - 1]
      BY <1>1, <2>1, StrCut
    <3> QED  BY <2>1, <3>1
  <2>3. \A k \in 1 .. n : 2 + k - 1 = k + 1
    OBVIOUS
  <2> HIDE DEF c
  <2>4. \A k \in 1 .. n : c[k] = t[k]
    BY <1>1, <2>2, <2>3
  <2>5. c = t
    BY <1>2, <2>2, <2>4, SeqEqual DEF Str, n
  <2> QED  BY <2>1, <2>5 DEF c
<1>7. Trim(t) = t
  <2>1. CASE Len(args) = 0
    <3>1. n = 0
      BY <1>2, <2>1, BodyIs
    <3>2. t = <<>>
      BY <1>2, <3>1, EmptySeq DEF Str, n
    <3> QED  BY <3>2 DEF Trim
  <2>2. CASE Len(args) # 0
    <3> DEFINE v == WriteArg(args[1])
               k == Len(args)
               w == WriteArg(args[k])
               b == Begin(args, k)
    <3>1. 1 \in 1 .. Len(args) /\ k \in 1 .. Len(args)
      BY <1>2, <2>2
    <3>2. args[1] \in Args /\ args[k] \in Args
      BY <3>1, PartIs
    <3>3. Len(v) \in Nat \ {0} /\ Solid(v[1]) /\ Len(w) \in Nat \ {0} /\ Solid(w[Len(w)])
      BY <3>2, ArgEnds
    <3>4. Begin(args, 1) = 1
      <4>1. 1 - 1 = 0 /\ Sep(1) = 0 /\ At(Parts(args), 0) = 0
        BY BodyIs DEF Sep
      <4> QED  BY <4>1 DEF Begin
    <3>5. t[1 + 1 - 1] = v[1] /\ 1 + Len(v) - 1 <= n
      <4>1. 1 \in 1 .. Len(v)
        BY <3>3
      <4>2. /\ At(Parts(args), 1) = Begin(args, 1) + Len(v) - 1 /\ At(Parts(args), 1) <= n
            /\ \A o \in 1 .. Len(v) : t[Begin(args, 1) + o - 1] = v[o]
        BY <3>1, ArgStands DEF t, n
      <4> HIDE DEF v
      <4> QED  BY <3>4, <4>1, <4>2
    <3>6. t[b + Len(w) - 1] = w[Len(w)] /\ n = b + Len(w) - 1
      <4>1. Len(w) \in 1 .. Len(w)
        BY <3>3
      <4> QED  BY <1>2, <3>1, <4>1, ArgStands DEF t, n
    <3>7. 1 \in 1 .. n /\ n \in 1 .. n /\ 1 + 1 - 1 = 1
      BY <1>2, <3>3, <3>5
    <3> HIDE DEF v, w, b, k
    <3>8. t[1] \notin Blank /\ t[n] \notin Blank
      BY <3>3, <3>5, <3>6, <3>7 DEF Solid
    <3>9. (\A h \in 1 .. 1 - 1 : t[h] \in Blank) /\ (\A h \in n + 1 .. n : t[h] \in Blank)
      BY <1>2
    <3>10. Trim(t) = SubSeq(t, 1, n)
      BY <1>2, <3>7, <3>8, <3>9, TrimIs DEF n
    <3>11. SubSeq(t, 1, n) = t
      BY <1>2, SubSeqFull DEF Str, n
    <3> QED  BY <3>10, <3>11
  <2> QED  BY <2>1, <2>2
<1> QED  BY <1>1, <1>3, <1>4, <1>5, <1>6, <1>7 DEF t, line

-----------------------------------------------------------------------------
HandsOn(n, v, next, f) ==
  f = [i \in 1 .. n + 1 |-> IF i > n THEN <<>> ELSE v[i] \o f[next[i]]]

(* A recursive function that hands on to a later position exists: it is    *)
(* built from the end of the text back.                                    *)
LEMMA HandOn ==
  ASSUME NEW n \in Nat, NEW v, NEW next, \A i \in 1 .. n : next[i] \in i + 1 .. n + 1
  PROVE  \E f : HandsOn(n, v, next, f)
<1> DEFINE Is(f, m) ==
             f = [i \in n + 1 - m .. n + 1 |-> IF i > n THEN <<>> ELSE v[i] \o f[next[i]]]
           P == {m \in Nat : m <= n => \E f : Is(f, m)}
<1>1. 0 \in P
  <2>1. \A i \in n + 1 - 0 .. n + 1 : i > n
    OBVIOUS
  <2>2. Is([i \in n + 1 - 0 .. n + 1 |-> <<>>], 0)
    BY <2>1
  <2> HIDE DEF Is
  <2> QED  BY <2>2
<1>2. ASSUME NEW m \in 0 .. n - 1, m \in P
      PROVE  m + 1 \in P
  <2> DEFINE lo == n - m
  <2>1. PICK f : Is(f, m)
    <3> HIDE DEF Is
    <3> QED  BY <1>2
  <2>2. f = [i \in n + 1 - m .. n + 1 |-> IF i > n THEN <<>> ELSE v[i] \o f[next[i]]]
    BY <2>1
  <2>3. lo \in 1 .. n /\ n + 1 - m = lo + 1 /\ n + 1 - (m + 1) = lo /\ ~(lo > n) /\ lo \in lo .. n + 1
    OBVIOUS
  <2>4. \A i \in lo .. n + 1 : i # lo => i \in lo + 1 .. n + 1
    OBVIOUS
  <2>5. \A i \in lo .. n + 1 : ~(i > n) => next[i] \in lo + 1 .. n + 1 /\ next[i] # lo /\ next[i] \in lo .. n + 1
    <3> SUFFICES ASSUME NEW i \in lo .. n + 1, ~(i > n)
                 PROVE  next[i] \in lo + 1 .. n + 1 /\ next[i] # lo /\ next[i] \in lo .. n + 1
      OBVIOUS
    <3>1. i \in 1 .. n
      BY <2>3
    <3>2. next[i] \in i + 1 .. n + 1
      BY <3>1
    <3> QED  BY <2>3, <3>2
  <2> DEFINE g == [i \in lo .. n + 1 |-> IF i = lo THEN v[i] \o f[next[i]] ELSE f[i]]
  <2> HIDE DEF lo, Is
  <2>6. /\ g[lo] = v[lo] \o f[next[lo]]
        /\ \A i \in lo + 1 .. n + 1 : i \in lo .. n + 1 /\ i # lo
    <3>1. g[lo] = v[lo] \o f[next[lo]]
      BY <2>3
    <3>2. \A i \in lo + 1 .. n + 1 : i \in lo .. n + 1 /\ i # lo
      BY <2>3
    <3> QED  BY <3>1, <3>2
  <2>7. \A i \in lo + 1 .. n + 1 : g[i] = f[i]
    BY <2>6
  <2>8. ASSUME NEW i \in lo .. n + 1
        PROVE  g[i] = IF i > n THEN <<>> ELSE v[i] \o g[next[i]]
    <3>1. CASE i = lo
      <4>1. next[lo] \in lo + 1 .. n + 1
        BY <2>3, <2>5
      <4> QED  BY <2>3, <2>6, <2>7, <3>1, <4>1
    <3>2. CASE i # lo
      <4>1. i \in lo + 1 .. n + 1
        BY <2>4, <3>2
      <4>2. f[i] = IF i > n THEN <<>> ELSE v[i] \o f[next[i]]
        BY <2>2, <2>3, <4>1
      <4>3. ~(i > n) => g[next[i]] = f[next[i]]
        BY <2>5, <2>7
      <4> QED  BY <2>7, <4>1, <4>2, <4>3
    <3> QED  BY <3>1, <3>2
  <2>9. g = [i \in lo .. n + 1 |-> g[i]]
    OBVIOUS
  <2> HIDE DEF g
  <2>10. g = [i \in lo .. n + 1 |-> IF i > n THEN <<>> ELSE v[i] \o g[next[i]]]
    BY <2>8, <2>9
  <2>11. Is(g, m + 1)
    BY <2>3, <2>10 DEF Is
  <2> QED  BY <2>11
<1> HIDE DEF P
<1>3. n \in P
  <2>1. \A m \in 0 .. n : m \in P
    BY <1>1, <1>2, Climb
  <2> QED  BY <2>1
<1>4. n + 1 - n = 1 /\ n <= n
  OBVIOUS
<1>5. PICK f : Is(f, n)
  <2> HIDE DEF Is
  <2> QED  BY <1>3, <1>4 DEF P
<1>6. f = [i \in n + 1 - n .. n + 1 |-> IF i > n THEN <<>> ELSE v[i] \o f[next[i]]]
  BY <1>5
<1>7. f = [i \in 1 .. n + 1 |-> IF i > n THEN <<>> ELSE v[i] \o f[next[i]]]
  BY <1>4, <1>6
<1> QED  BY <1>7 DEF HandsOn

(* The four ways to read on, and how far each goes.                        *)
CloseOf(raw, i) == First(raw, {raw[i]}, i + 1)
LastDigit(raw, i) ==
  Greatest({i} \cup {j \in i + 1 .. Len(raw) : \A h \in i + 1 .. j : raw[h] \in Digits})
Comma(raw, i) == First(raw, {","}, i)

Skipped(i) == [args |-> <<>>, next |-> i + 1]
ReadString(raw, i) ==
  [args |-> <<String(SubSeq(raw, i + 1, CloseOf(raw, i) - 1))>>,
   next |-> IF CloseOf(raw, i) > Len(raw) THEN CloseOf(raw, i) ELSE CloseOf(raw, i) + 1]
ReadInteger(raw, i) ==
  [args |-> <<Integer(SubSeq(raw, i, LastDigit(raw, i)))>>, next |-> LastDigit(raw, i) + 1]
ReadOther(raw, i) ==
  [args |-> <<[kind |-> "other", text |-> Trim(SubSeq(raw, i, Comma(raw, i) - 1))]>>,
   next |-> Comma(raw, i)]

SkipPieces == Blank \cup {","}
NumberPieces == Digits \cup {"-"}

LEMMA ReadArgIs ==
  ASSUME WellFormed, NEW raw, NEW i
  PROVE  /\ raw[i] \in SkipPieces => ReadArg(raw, i) = Skipped(i)
         /\ raw[i] \in Quotes => ReadArg(raw, i) = ReadString(raw, i)
         /\ raw[i] \in NumberPieces => ReadArg(raw, i) = ReadInteger(raw, i)
         /\ raw[i] \notin SkipPieces \cup Quotes \cup NumberPieces =>
              ReadArg(raw, i) = ReadOther(raw, i)
<1> DEFINE p == raw[i]
           read == ReadArg(raw, i)
<1>1. read = CASE p \in SkipPieces -> Skipped(i)
               [] p \in Quotes -> ReadString(raw, i)
               [] p \in NumberPieces -> ReadInteger(raw, i)
               [] OTHER -> ReadOther(raw, i)
  BY DEF ReadArg, SkipPieces, NumberPieces, Skipped, ReadString, ReadInteger, ReadOther,
         CloseOf, LastDigit, Comma
<1>2. \A q \in Quotes : q \notin NumberPieces /\ q \notin SkipPieces
  BY MarksAre DEF Solid, NumberPieces, SkipPieces
<1>3. \A d \in NumberPieces : d \notin SkipPieces
  BY MarksAre DEF Solid, NumberPieces, SkipPieces
<1> HIDE DEF p, read
<1>4. /\ p \in SkipPieces => read = Skipped(i)
      /\ p \in Quotes => read = ReadString(raw, i)
      /\ p \in NumberPieces => read = ReadInteger(raw, i)
      /\ p \notin SkipPieces \cup Quotes \cup NumberPieces => read = ReadOther(raw, i)
  BY <1>1, <1>2, <1>3
<1> QED  BY <1>4 DEF p, read

(* Reading goes on behind what is read.                                    *)
LEMMA ReadOn ==
  ASSUME WellFormed, NEW raw \in Str, NEW i \in 1 .. Len(raw)
  PROVE  ReadArg(raw, i).next \in i + 1 .. Len(raw) + 1
<1> DEFINE n == Len(raw)
           next == ReadArg(raw, i).next
           close == CloseOf(raw, i)
           last == LastDigit(raw, i)
           comma == Comma(raw, i)
<1>1. n \in Nat
  BY StrIs
<1>2. i \in Nat \ {0} /\ i + 1 \in Nat \ {0} /\ i + 1 <= n + 1 /\ i <= n + 1 /\ i <= n
  BY <1>1
<1>3. close \in i + 1 .. n + 1
  BY <1>2, NextIs DEF CloseOf
<1>4. last \in i .. n
  <2> DEFINE S == {i} \cup {j \in i + 1 .. n : \A h \in i + 1 .. j : raw[h] \in Digits}
  <2>1. S \in SUBSET (0 .. n) /\ S # {} /\ i \in S
    BY <1>1
  <2>2. last = Greatest(S)
    BY DEF LastDigit
  <2> HIDE DEF S, last
  <2>3. last \in S /\ i <= last
    BY <1>1, <2>1, <2>2, LastOf
  <2>4. last \in 0 .. n
    BY <2>1, <2>3
  <2> QED  BY <1>1, <2>3, <2>4
<1>5. comma \in i .. n + 1 /\ (comma = i => raw[i] \in SkipPieces)
  <2>1. comma \in i .. n + 1 /\ (comma <= n => raw[comma] \in {","})
    BY <1>2, NextIs DEF Comma
  <2> HIDE DEF comma
  <2>2. comma = i => raw[i] \in {","}
    BY <1>2, <2>1
  <2> QED  BY <2>1, <2>2 DEF SkipPieces
<1>6. /\ Skipped(i).next = i + 1
      /\ ReadString(raw, i).next = IF close > n THEN close ELSE close + 1
      /\ ReadInteger(raw, i).next = last + 1
      /\ ReadOther(raw, i).next = comma
  BY DEF Skipped, ReadString, ReadInteger, ReadOther
<1> HIDE DEF close, last, comma, n
<1>7. CASE raw[i] \in SkipPieces
  <2>1. next = i + 1
    BY <1>6, <1>7, ReadArgIs
  <2> HIDE DEF next
  <2>2. next \in i + 1 .. n + 1
    BY <1>1, <1>2, <2>1
  <2> QED  BY <2>2 DEF next, n
<1>8. CASE raw[i] \in Quotes
  <2>1. next = IF close > n THEN close ELSE close + 1
    BY <1>6, <1>8, ReadArgIs
  <2> HIDE DEF next
  <2>2. next \in i + 1 .. n + 1
    BY <1>1, <1>2, <1>3, <2>1
  <2> QED  BY <2>2 DEF next, n
<1>9. CASE raw[i] \in NumberPieces
  <2>1. next = last + 1
    BY <1>6, <1>9, ReadArgIs
  <2> HIDE DEF next
  <2>2. next \in i + 1 .. n + 1
    BY <1>1, <1>2, <1>4, <2>1
  <2> QED  BY <2>2 DEF next, n
<1>10. CASE raw[i] \notin SkipPieces \cup Quotes \cup NumberPieces
  <2>1. next = comma /\ comma # i /\ comma \in i .. n + 1
    BY <1>5, <1>6, <1>10, ReadArgIs
  <2> HIDE DEF next
  <2>2. next \in i + 1 .. n + 1
    BY <1>1, <1>2, <2>1
  <2> QED  BY <2>2 DEF next, n
<1> QED  BY <1>7, <1>8, <1>9, <1>10

(* parse_args_string reads on from argument to argument.                   *)
LEMMA ParseIs ==
  ASSUME WellFormed, NEW raw \in Str
  PROVE  \E f : /\ ParseArgs(raw) = f[1]
                /\ f[Len(raw) + 1] = <<>>
                /\ \A i \in 1 .. Len(raw) :
                     f[i] = ReadArg(raw, i).args \o f[ReadArg(raw, i).next]
<1> DEFINE n == Len(raw)
           v == [i \in 1 .. n |-> ReadArg(raw, i).args]
           next == [i \in 1 .. n |-> ReadArg(raw, i).next]
           args[i \in 1 .. n + 1] ==
             IF i > n THEN <<>> ELSE ReadArg(raw, i).args \o args[ReadArg(raw, i).next]
<1>1. n \in Nat
  BY StrIs
<1>2. \A i \in 1 .. n : next[i] \in i + 1 .. n + 1
  BY ReadOn
<1>3. PICK f : HandsOn(n, v, next, f)
  <2> HIDE DEF n, v, next
  <2> QED  BY <1>1, <1>2, HandOn
<1>4. f = [i \in 1 .. n + 1 |-> IF i > n THEN <<>> ELSE v[i] \o f[next[i]]]
  BY <1>3 DEF HandsOn
<1>5. \A i \in 1 .. n + 1 : ~(i > n) => i \in 1 .. n
  BY <1>1
<1>6. f = [i \in 1 .. n + 1 |->
             IF i > n THEN <<>> ELSE ReadArg(raw, i).args \o f[ReadArg(raw, i).next]]
  BY <1>4, <1>5
<1>7. args = [i \in 1 .. n + 1 |->
                IF i > n THEN <<>> ELSE ReadArg(raw, i).args \o args[ReadArg(raw, i).next]]
  BY <1>6
<1>8. ParseArgs(raw) = args[1]
  BY DEF ParseArgs
<1> HIDE DEF args
<1>9. n + 1 \in 1 .. n + 1 /\ n + 1 > n /\ \A i \in 1 .. n : i \in 1 .. n + 1 /\ ~(i > n)
  BY <1>1
<1> HIDE DEF n
<1>10. args[n + 1] = <<>>
  BY <1>7, <1>9
<1>11. \A i \in 1 .. n : args[i] = ReadArg(raw, i).args \o args[ReadArg(raw, i).next]
  BY <1>7, <1>9
<1> QED  BY <1>8, <1>10, <1>11 DEF n

-----------------------------------------------------------------------------
(* What stands in quotes is read as a string.                              *)
LEMMA ReadQuoted ==
  ASSUME WellFormed, NEW raw \in Str, NEW i \in Nat \ {0}, NEW q \in Quotes,
         NEW u \in Str, \A j \in 1 .. Len(u) : u[j] # q,
         i + Len(u) + 1 <= Len(raw),
         raw[i] = q, raw[i + Len(u) + 1] = q,
         \A j \in 1 .. Len(u) : raw[i + j] = u[j]
  PROVE  ReadArg(raw, i) = [args |-> <<String(u)>>, next |-> i + Len(u) + 2]
<1> DEFINE n == Len(raw)
           m == Len(u)
           close == CloseOf(raw, i)
<1>1. n \in Nat /\ m \in Nat
  BY StrIs
<1>2. close = i + m + 1
  <2>1. i + 1 \in Nat \ {0} /\ i + m + 1 \in i + 1 .. n + 1
    BY <1>1
  <2>2. ASSUME NEW h \in i + 1 .. (i + m + 1) - 1
        PROVE  raw[h] \notin {raw[i]}
    <3>1. h - i \in 1 .. m /\ i + (h - i) = h
      BY <1>1
    <3>2. raw[h] = u[h - i] /\ u[h - i] # q
      BY <3>1
    <3> QED  BY <3>2
  <2> DEFINE S == {raw[i]}
  <2>3. raw[i + m + 1] \in S /\ \A h \in i + 1 .. (i + m + 1) - 1 : raw[h] \notin S
    BY <2>2
  <2> HIDE DEF S, m
  <2>4. First(raw, S, i + 1) = i + m + 1
    BY <2>1, <2>3, NextAt
  <2> QED  BY <2>4 DEF S, CloseOf
<1>3. SubSeq(raw, i + 1, (i + m + 1) - 1) = u
  <2> DEFINE c == SubSeq(raw, i + 1, i + m)
  <2>1. /\ i + 1 \in Nat \ {0} /\ i + m \in Nat /\ i + m <= n /\ (i + m) - (i + 1) + 1 = m
        /\ (~(i + 1 <= i + m) => m = 0) /\ (i + m + 1) - 1 = i + m
    BY <1>1
  <2>2. c \in Str /\ Len(c) = m /\ \A k \in 1 .. m : c[k] = raw[(i + 1) + k - 1]
    <3>1. /\ c \in Str /\ Len(c) = IF i + 1 <= i + m THEN (i + m) - (i + 1) + 1 ELSE 0
          /\ \A k \in 1 .. (i + m) - (i + 1) + 1 : c[k] = raw[(i + 1) + k - 1]
      <4> HIDE DEF m
      <4> QED  BY <2>1, StrCut
    <3> QED  BY <2>1, <3>1
  <2>3. \A k \in 1 .. m : (i + 1) + k - 1 = i + k
    BY <1>1
  <2> HIDE DEF c
  <2>4. \A k \in 1 .. m : c[k] = u[k]
    BY <2>2, <2>3
  <2>5. c = u
    BY <2>2, <2>4, SeqEqual DEF Str
  <2> QED  BY <2>1, <2>5 DEF c
<1>4. ReadArg(raw, i) = ReadString(raw, i)
  <2>1. raw[i] \in Quotes
    OBVIOUS
  <2> QED  BY <2>1, ReadArgIs
<1>5. ~(close > n) /\ close + 1 = i + m + 2
  <2>1. i + m + 1 <= n
    OBVIOUS
  <2> HIDE DEF close, m, n
  <2> QED  BY <1>1, <1>2, <2>1
<1>6. ReadString(raw, i) = [args |-> <<String(SubSeq(raw, i + 1, close - 1))>>,
                             next |-> IF close > n THEN close ELSE close + 1]
  BY DEF ReadString
<1> HIDE DEF close, n, m
<1>7. ReadArg(raw, i) = [args |-> <<String(u)>>, next |-> i + m + 2]
  BY <1>2, <1>3, <1>4, <1>5, <1>6
<1> QED  BY <1>7 DEF m

(* A reference whose number fits is read as one.                           *)
LEMMA RefIsRead ==
  ASSUME WellFormed, NEW t \in Str, Len(t) # 0, t \in Fits.ref,
         \A j \in 1 .. Len(t) : t[j] \in Digits
  PROVE  String(<<"$">> \o t) = [kind |-> "ref", text |-> t]
<1> DEFINE u == <<"$">> \o t
<1>1. Len(u) = 1 + Len(t) /\ u[1] = "$" /\ (\A j \in 1 .. Len(t) : u[1 + j] = t[j]) /\ u \in Str
  BY RefText, StrJoin
<1>2. Len(t) \in Nat
  BY StrIs
<1> HIDE DEF u
<1>3. Len(u) > 1 /\ 1 \in 1 .. Len(t) /\ 1 + 1 = 2
  BY <1>1, <1>2
<1>4. u[2] # "{"
  <2>1. u[2] = t[1] /\ t[1] \in Digits
    BY <1>1, <1>3
  <2> QED  BY <2>1, MarksAre
<1>5. From(u, 2) = t
  <2>1. 2 \in Nat \ {0} /\ 2 <= Len(u) /\ Len(u) - 2 + 1 = Len(t)
    BY <1>1, <1>2, <1>3
  <2>2. /\ From(u, 2) \in Str /\ Len(From(u, 2)) = Len(t)
        /\ \A k \in 1 .. Len(t) : From(u, 2)[k] = u[2 + k - 1]
    BY <1>1, <2>1, StrRest
  <2>3. \A k \in 1 .. Len(t) : 2 + k - 1 = 1 + k
    BY <1>2
  <2>4. \A k \in 1 .. Len(t) : From(u, 2)[k] = t[k]
    BY <1>1, <2>2, <2>3
  <2> QED  BY <2>2, <2>4, SeqEqual DEF Str
<1>6. Reference(u) = t
  BY <1>1, <1>3, <1>4, <1>5 DEF Reference
<1>7. t # <<>>
  <2>1. Len(<<>>) = 0
    OBVIOUS
  <2> QED  BY <2>1
<1> QED  BY <1>6, <1>7 DEF String, u

(* A number that fits is read up to its last digit.                        *)
LEMMA ReadNumber ==
  ASSUME WellFormed, NEW raw \in Str, NEW i \in Nat \ {0}, NEW t \in Str,
         Len(t) # 0, t \in Fits.int,
         \A j \in 1 .. Len(t) : t[j] \in Digits \/ (j = 1 /\ t[j] = "-"),
         i + Len(t) - 1 <= Len(raw),
         \A j \in 1 .. Len(t) : raw[i + j - 1] = t[j],
         i + Len(t) <= Len(raw) => raw[i + Len(t)] \notin Digits
  PROVE  ReadArg(raw, i) = [args |-> <<[kind |-> "int", text |-> t]>>, next |-> i + Len(t)]
<1> DEFINE n == Len(raw)
           m == Len(t)
           digits == {j \in i + 1 .. Len(raw) : \A h \in i + 1 .. j : raw[h] \in Digits}
           last == LastDigit(raw, i)
<1>1. n \in Nat /\ m \in Nat \ {0} /\ i + m - 1 <= n
  BY StrIs
<1>2. raw[i] \in Digits \cup {"-"}
  <2>1. 1 \in 1 .. m /\ i + 1 - 1 = i
    BY <1>1
  <2>2. raw[i] = t[1] /\ (t[1] \in Digits \/ t[1] = "-")
    BY <2>1
  <2> QED  BY <2>2
<1>3. \A h \in i + 1 .. i + m - 1 : raw[h] \in Digits
  <2> SUFFICES ASSUME NEW h \in i + 1 .. i + m - 1 PROVE raw[h] \in Digits
    OBVIOUS
  <2>1. h - i + 1 \in 1 .. m /\ h - i + 1 # 1 /\ i + (h - i + 1) - 1 = h
    BY <1>1
  <2>2. raw[h] = t[h - i + 1]
    BY <2>1
  <2> QED  BY <2>1, <2>2
<1>4. i + m <= n => raw[i + m] \notin Digits
  OBVIOUS
<1>5. last = i + m - 1
  <2> DEFINE S == {i} \cup digits
  <2>1. \A j : j \in S <=> j = i \/ (j \in i + 1 .. n /\ \A h \in i + 1 .. j : raw[h] \in Digits)
    OBVIOUS
  <2>2. S \in SUBSET (0 .. n) /\ S # {}
    <3>1. i \in 0 .. n
      BY <1>1
    <3>2. \A j \in i + 1 .. n : j \in 0 .. n
      BY <1>1
    <3> QED  BY <3>1, <3>2
  <2>3. last = Greatest(S)
    BY DEF LastDigit
  <2> HIDE DEF S, digits, last, m, n
  <2>4. last \in S /\ \A j \in S : j <= last
    BY <1>1, <2>2, <2>3, LastOf
  <2>5. i + m - 1 \in S
    <3>1. i + m - 1 = i \/ i + m - 1 \in i + 1 .. n
      BY <1>1
    <3> QED  BY <1>3, <2>1, <3>1
  <2>6. i + m - 1 <= last
    BY <2>4, <2>5
  <2>7. ~(i + m <= last)
    <3> SUFFICES ASSUME i + m <= last PROVE FALSE
      OBVIOUS
    <3>1. last \in i + 1 .. n
      <4>1. last = i \/ last \in i + 1 .. n
        BY <2>1, <2>4
      <4> QED  BY <1>1, <4>1
    <3>2. \A h \in i + 1 .. last : raw[h] \in Digits
      <4>1. last # i
        BY <3>1
      <4> QED  BY <2>1, <2>4, <4>1
    <3>3. i + m \in i + 1 .. last /\ i + m <= n
      BY <1>1, <3>1
    <3> QED  BY <1>4, <3>2, <3>3
  <2>8. last \in Nat
    <3>1. last \in 0 .. n
      BY <2>2, <2>4
    <3> QED  BY <1>1, <3>1
  <2> QED  BY <1>1, <2>6, <2>7, <2>8
<1>6. ReadArg(raw, i) = [args |-> <<Integer(SubSeq(raw, i, last))>>, next |-> last + 1]
  <2>1. raw[i] \in NumberPieces
    BY <1>2 DEF NumberPieces
  <2>2. ReadArg(raw, i) = ReadInteger(raw, i)
    BY <2>1, ReadArgIs
  <2> QED  BY <2>2 DEF ReadInteger
<1> HIDE DEF last, digits
<1>7. SubSeq(raw, i, i + m - 1) = t
  <2> DEFINE c == SubSeq(raw, i, i + m - 1)
  <2>1. i + m - 1 \in Nat /\ i + m - 1 <= n /\ i <= i + m - 1 /\ (i + m - 1) - i + 1 = m
    BY <1>1
  <2>2. c \in Str /\ Len(c) = m /\ \A k \in 1 .. m : c[k] = raw[i + k - 1]
    <3>1. /\ c \in Str /\ Len(c) = IF i <= i + m - 1 THEN (i + m - 1) - i + 1 ELSE 0
          /\ \A k \in 1 .. (i + m - 1) - i + 1 : c[k] = raw[i + k - 1]
      <4> HIDE DEF m
      <4> QED  BY <2>1, StrCut
    <3> QED  BY <2>1, <3>1
  <2> HIDE DEF c
  <2>3. \A k \in 1 .. m : c[k] = t[k]
    BY <2>2
  <2>4. c = t
    BY <2>2, <2>3, SeqEqual DEF Str
  <2> QED  BY <2>4 DEF c
<1>8. Integer(t) = [kind |-> "int", text |-> t]
  BY DEF Integer
<1>9. last + 1 = i + m
  <2> HIDE DEF m
  <2> QED  BY <1>1, <1>5
<1> QED  BY <1>5, <1>6, <1>7, <1>8, <1>9

-----------------------------------------------------------------------------
Meant(arg) == [kind |-> arg.kind, text |-> arg.text]

(* An argument that is legible is read as it was meant, up to its end.     *)
Stands(raw, i, w) ==
  /\ i + Len(w) - 1 <= Len(raw)
  /\ \A o \in 1 .. Len(w) : raw[i + o - 1] = w[o]
  /\ i + Len(w) <= Len(raw) => raw[i + Len(w)] \notin Digits

LEMMA ReadWritten ==
  ASSUME WellFormed, NEW raw \in Str, NEW i \in Nat \ {0},
         NEW arg \in Args, Legible(arg),
         NEW w, w = WriteArg(arg), Stands(raw, i, w)
  PROVE  ReadArg(raw, i) = [args |-> <<Meant(arg)>>, next |-> i + Len(w)]
<1>1. ASSUME NEW q \in Quotes, NEW u \in Str, w = <<q>> \o u \o <<q>>,
             \A j \in 1 .. Len(u) : u[j] # q
      PROVE  ReadArg(raw, i) = [args |-> <<String(u)>>, next |-> i + Len(w)]
  <2> DEFINE m == Len(u)
  <2>1. m \in Nat /\ Len(raw) \in Nat
    BY StrIs
  <2>2. /\ Len(w) = m + 2 /\ w[1] = q /\ w[m + 2] = q
        /\ \A j \in 1 .. m : w[j + 1] = u[j]
    <3>1. w = <<q>> \o u \o <<q>>
      BY <1>1
    <3> QED  BY <3>1, QuotedIs
  <2> HIDE DEF m
  <2>3. 1 \in 1 .. Len(w) /\ m + 2 \in 1 .. Len(w) /\ i + 1 - 1 = i /\ i + (m + 2) - 1 = i + m + 1
        /\ i + Len(w) - 1 = i + m + 1 /\ i + Len(w) = i + m + 2
    BY <2>1, <2>2
  <2>4. raw[i] = q /\ raw[i + m + 1] = q
    <3>1. raw[i + 1 - 1] = w[1] /\ raw[i + (m + 2) - 1] = w[m + 2]
      BY <2>3 DEF Stands
    <3> QED  BY <2>2, <2>3, <3>1
  <2>5. ASSUME NEW j \in 1 .. m
        PROVE  raw[i + j] = u[j]
    <3>1. j + 1 \in 1 .. Len(w) /\ i + (j + 1) - 1 = i + j
      BY <2>1, <2>2
    <3>2. raw[i + (j + 1) - 1] = w[j + 1]
      BY <3>1 DEF Stands
    <3> QED  BY <2>2, <3>1, <3>2
  <2>6. i + m + 1 <= Len(raw)
    BY <2>3 DEF Stands
  <2>7. ReadArg(raw, i) = [args |-> <<String(u)>>, next |-> i + m + 2]
    BY <1>1, <2>4, <2>5, <2>6, ReadQuoted DEF m
  <2> QED  BY <2>3, <2>7
<1>2. CASE arg.kind = "string"
  <2>1. /\ arg.quote \in Quotes /\ arg.text \in Str /\ w = <<arg.quote>> \o arg.text \o <<arg.quote>>
        /\ \A j \in 1 .. Len(arg.text) : arg.text[j] # arg.quote
        /\ Reference(arg.text) = <<>>
    BY <1>2, ArgIs
  <2>2. ReadArg(raw, i) = [args |-> <<String(arg.text)>>, next |-> i + Len(w)]
    BY <1>1, <2>1
  <2>3. String(arg.text) = Meant(arg)
    BY <1>2, <2>1 DEF String, Meant
  <2> QED  BY <2>2, <2>3
<1>3. CASE arg.kind = "ref"
  <2> DEFINE q == arg.quote
             t == arg.text
             u == <<"$">> \o t
  <2>1. /\ q \in Quotes /\ t \in Str /\ w = <<q, "$">> \o t \o <<q>>
        /\ Len(t) # 0 /\ \A j \in 1 .. Len(t) : t[j] \in Digits
    BY <1>3, ArgIs
  <2>2. t \in Fits.ref
    BY <1>3 DEF Legible
  <2> HIDE DEF q, t
  <2>3. u \in Str /\ w = <<q>> \o u \o <<q>>
    BY <2>1, RefIs
  <2>4. \A j \in 1 .. Len(u) : u[j] # q
    <3>1. q # "$" /\ \A d \in Digits : d # q
      BY <2>1, MarksAre
    <3>2. Len(u) = 1 + Len(t) /\ u[1] = "$" /\ \A j \in 1 .. Len(t) : u[1 + j] = t[j]
      BY <2>1, RefText
    <3>3. Len(t) \in Nat
      BY <2>1, StrIs
    <3> HIDE DEF u
    <3> SUFFICES ASSUME NEW j \in 1 .. Len(u) PROVE u[j] # q
      OBVIOUS
    <3>4. j = 1 \/ (j - 1 \in 1 .. Len(t) /\ 1 + (j - 1) = j)
      BY <3>2, <3>3
    <3> QED  BY <2>1, <3>1, <3>2, <3>4
  <2>5. String(u) = [kind |-> "ref", text |-> t]
    BY <2>1, <2>2, RefIsRead
  <2> HIDE DEF u
  <2>6. ReadArg(raw, i) = [args |-> <<String(u)>>, next |-> i + Len(w)]
    BY <1>1, <2>1, <2>3, <2>4
  <2> QED  BY <1>3, <2>5, <2>6 DEF Meant, t
<1>4. CASE arg.kind = "int"
  <2> DEFINE t == arg.text
  <2>1. /\ t \in Str /\ Len(t) # 0 /\ w = t
        /\ \A j \in 1 .. Len(t) : t[j] \in Digits \/ (j = 1 /\ t[j] = "-")
    BY <1>4, ArgIs
  <2>2. t \in Fits.int
    BY <1>4 DEF Legible
  <2> HIDE DEF t
  <2>3. ReadArg(raw, i) = [args |-> <<[kind |-> "int", text |-> t]>>, next |-> i + Len(t)]
    <3>1. /\ i + Len(t) - 1 <= Len(raw)
          /\ \A o \in 1 .. Len(t) : raw[i + o - 1] = t[o]
          /\ i + Len(t) <= Len(raw) => raw[i + Len(t)] \notin Digits
      BY <2>1 DEF Stands
    <3> QED  BY <2>1, <2>2, <3>1, ReadNumber
  <2> QED  BY <1>4, <2>1, <2>3 DEF Meant, t
<1> QED  BY <1>2, <1>3, <1>4, ArgIs

(* The k-th argument is read where it stands in the body.                  *)
LEMMA ReadInBody ==
  ASSUME WellFormed, NEW args \in Calls, NEW k \in 1 .. Len(args), Legible(args[k])
  PROVE  /\ Begin(args, k) \in 1 .. Len(Body(args))
         /\ ReadArg(Body(args), Begin(args, k))
              = [args |-> <<Meant(args[k])>>, next |-> At(Parts(args), k) + 1]
<1> DEFINE w == WriteArg(args[k])
           b == Begin(args, k)
           t == Body(args)
           e == At(Parts(args), k)
<1>1. /\ b \in Nat \ {0} /\ e = b + Len(w) - 1 /\ e <= Len(t)
      /\ \A o \in 1 .. Len(w) : t[b + o - 1] = w[o]
  BY ArgStands
<1>2. args[k] \in Args /\ Len(w) \in Nat \ {0}
  BY PartIs, ArgEnds
<1>3. t \in Str /\ Len(t) \in Nat /\ Len(args) \in Nat /\ Len(t) = At(Parts(args), Len(args))
  BY BodyIs, StrIs
<1>4. e + 1 <= Len(t) => t[e + 1] \notin Digits
  <2>1. CASE k = Len(args)
    <3>1. e = Len(t)
      BY <1>3, <2>1
    <3> HIDE DEF e, t
    <3> QED  BY <1>3, <3>1
  <2>2. CASE k # Len(args)
    <3>1. k + 1 \in 1 .. Len(args) /\ k + 1 # 1 /\ (k + 1) - 1 = k
      BY <1>3, <2>2
    <3>2. t[At(Parts(args), (k + 1) - 1) + 1] = ","
      BY <3>1, ArgStands
    <3>3. t[e + 1] = ","
      BY <3>1, <3>2
    <3> QED  BY <3>3, MarksAre
  <2> QED  BY <2>1, <2>2
<1> DEFINE l == Len(w)
<1> HIDE DEF b, t, e, l
<1>5. b + l - 1 <= Len(t) /\ b + l = e + 1 /\ b \in 1 .. Len(t)
  <2>1. l \in Nat \ {0} /\ b \in Nat \ {0} /\ e = b + l - 1 /\ e <= Len(t) /\ Len(t) \in Nat
    BY <1>1, <1>2, <1>3 DEF l
  <2> QED  BY <2>1
<1>6. ReadArg(t, b) = [args |-> <<Meant(args[k])>>, next |-> b + Len(w)]
  <2>1. Stands(t, b, w)
    BY <1>1, <1>4, <1>5 DEF Stands, l
  <2>2. b \in Nat \ {0} /\ t \in Str /\ args[k] \in Args
    BY <1>1, <1>2, <1>3
  <2> QED  BY <2>1, <2>2, ReadWritten
<1>7. ReadArg(t, b) = [args |-> <<Meant(args[k])>>, next |-> e + 1]
  BY <1>5, <1>6 DEF l
<1> QED  BY <1>5, <1>7 DEF b, t, e

(* The commas and the blanks between the arguments are skipped.            *)
LEMMA SkipSeparator ==
  ASSUME WellFormed, NEW args \in Calls, NEW k \in 1 .. Len(args), k # 1
  PROVE  LET a == At(Parts(args), k - 1)
             t == Body(args)
         IN /\ a + 1 \in 1 .. Len(t) /\ a + 2 \in 1 .. Len(t) /\ Begin(args, k) = a + 3
            /\ ReadArg(t, a + 1) = [args |-> <<>>, next |-> a + 2]
            /\ ReadArg(t, a + 2) = [args |-> <<>>, next |-> a + 3]
<1> DEFINE a == At(Parts(args), k - 1)
           t == Body(args)
           w == WriteArg(args[k])
<1>1. /\ t[a + 1] = "," /\ t[a + 2] = " "
      /\ At(Parts(args), k) = Begin(args, k) + Len(w) - 1 /\ At(Parts(args), k) <= Len(t)
  BY ArgStands
<1>2. Len(w) \in Nat \ {0}
  BY PartIs, ArgEnds
<1>3. Len(t) \in Nat /\ a \in Nat
  <2>1. k - 1 \in 0 .. Len(args)
    BY BodyIs
  <2> QED  BY <2>1, BodyIs, StrIs
<1>4. Begin(args, k) = a + 2 + 1
  BY DEF Begin, Sep
<1> HIDE DEF a, t, w
<1>5. Begin(args, k) = a + 3 /\ a + 1 \in Nat /\ (a + 1) + 1 = a + 2 /\ (a + 2) + 1 = a + 3
  BY <1>3, <1>4
<1>6. a + 1 \in 1 .. Len(t) /\ a + 2 \in 1 .. Len(t)
  <2> DEFINE l == Len(w)
             e == At(Parts(args), k)
  <2>1. l \in Nat \ {0} /\ e = a + 3 + l - 1 /\ e <= Len(t)
    BY <1>1, <1>2, <1>5
  <2> HIDE DEF l, e
  <2> QED  BY <1>3, <2>1
<1>7. t[a + 1] \in SkipPieces /\ t[a + 2] \in SkipPieces
  BY <1>1 DEF Blank, SkipPieces
<1>8. ReadArg(t, a + 1) = [args |-> <<>>, next |-> (a + 1) + 1]
  BY <1>7, ReadArgIs DEF Skipped
<1>9. ReadArg(t, a + 2) = [args |-> <<>>, next |-> (a + 2) + 1]
  BY <1>7, ReadArgIs DEF Skipped
<1>10. /\ ReadArg(t, a + 1) = [args |-> <<>>, next |-> a + 2]
       /\ ReadArg(t, a + 2) = [args |-> <<>>, next |-> a + 3]
  BY <1>5, <1>8, <1>9
<1> QED  BY <1>5, <1>6, <1>10 DEF a, t

(* What is read from the body of a legible call is what was meant.         *)
LEMMA BodyIsRead ==
  ASSUME WellFormed, NEW args \in Calls, \A k \in 1 .. Len(args) : Legible(args[k])
  PROVE  ParseArgs(Body(args)) = [k \in 1 .. Len(args) |-> Meant(args[k])]
<1> DEFINE n == Len(args)
           t == Body(args)
           res == [k \in 1 .. n |-> Meant(args[k])]
           U == {Meant(args[k]) : k \in 1 .. n}
           upto(k) == At(Parts(args), k)
<1>1. /\ t \in Str /\ n \in Nat /\ Len(t) = upto(n) /\ upto(0) = 0
      /\ \A k \in 0 .. n : upto(k) \in Nat
  BY BodyIs
<1>2. res \in Seq(U) /\ Len(res) = n /\ \A k \in 1 .. n : res[k] = Meant(args[k])
  <2>1. n \in Nat /\ \A k \in 1 .. n : Meant(args[k]) \in U
    BY <1>1
  <2> HIDE DEF n, U
  <2> QED  BY <2>1
<1>3. PICK f : /\ ParseArgs(t) = f[1]
               /\ f[Len(t) + 1] = <<>>
               /\ \A i \in 1 .. Len(t) :
                    f[i] = ReadArg(t, i).args \o f[ReadArg(t, i).next]
  <2> HIDE DEF t
  <2> QED  BY <1>1, ParseIs
<1> HIDE DEF t, res, U
<1> DEFINE P == {d \in Nat : d <= n => f[upto(n - d) + 1] = SubSeq(res, n - d + 1, n)}
<1>4. 0 \in P
  <2>1. n - 0 = n /\ n + 1 > n
    BY <1>1
  <2>2. SubSeq(res, n + 1, n) = <<>>
    BY <1>1, <2>1, SubSeqEmpty
  <2>3. f[upto(n) + 1] = <<>>
    BY <1>1, <1>3
  <2> QED  BY <2>1, <2>2, <2>3
<1>5. ASSUME NEW d \in 0 .. n - 1, d \in P
      PROVE  d + 1 \in P
  <2> DEFINE k == n - d
             b == Begin(args, k)
             s == SubSeq(res, k + 1, n)
  <2>1. k \in 1 .. n /\ n - (d + 1) = k - 1 /\ d + 1 \in Nat /\ d <= n /\ n \in k .. n
        /\ (k - 1) + 1 = k /\ k - 1 \in 0 .. n
    BY <1>1
  <2>2. f[upto(k) + 1] = s
    BY <1>5, <2>1
  <2> HIDE DEF k
  <2>3. b \in 1 .. Len(t) /\ ReadArg(t, b) = [args |-> <<Meant(args[k])>>, next |-> upto(k) + 1]
    BY <2>1, ReadInBody DEF t
  <2>4. ReadArg(t, b).args = <<res[k]>> /\ ReadArg(t, b).next = upto(k) + 1
    BY <1>2, <2>1, <2>3
  <2> HIDE DEF b
  <2>5. f[b] = <<res[k]>> \o s
    BY <1>3, <2>2, <2>3, <2>4
  <2>6. SubSeq(res, k, n) = <<res[k]>> \o s
    BY <1>2, <2>1, SubSeqRecursiveFirst
  <2>7. SubSeq(res, k, n) \in Seq(U)
    <3>1. k \in Nat \ {0} /\ n \in Nat /\ n <= Len(res)
      BY <1>1, <1>2, <2>1
    <3> QED  BY <1>2, <3>1, Cut
  <2>8. f[upto(k - 1) + 1] = SubSeq(res, k, n)
    <3>1. CASE k = 1
      <4>1. b = 0 + 0 + 1 /\ upto(k - 1) = 0
        <5>1. k - 1 = 0 /\ Sep(k) = 0
          BY <3>1 DEF Sep
        <5> QED  BY <1>1, <5>1 DEF b, Begin
      <4>2. b = upto(k - 1) + 1
        BY <4>1
      <4> QED  BY <2>5, <2>6, <4>2
    <3>2. CASE k # 1
      <4> DEFINE a == upto(k - 1)
      <4>1. /\ a + 1 \in 1 .. Len(t) /\ a + 2 \in 1 .. Len(t) /\ b = a + 3
            /\ ReadArg(t, a + 1) = [args |-> <<>>, next |-> a + 2]
            /\ ReadArg(t, a + 2) = [args |-> <<>>, next |-> a + 3]
        BY <2>1, <3>2, SkipSeparator DEF t, b
      <4> HIDE DEF a
      <4>2. f[a + 2] = <<>> \o f[a + 3] /\ f[a + 1] = <<>> \o f[a + 2]
        <5>1. /\ ReadArg(t, a + 1).args = <<>> /\ ReadArg(t, a + 1).next = a + 2
              /\ ReadArg(t, a + 2).args = <<>> /\ ReadArg(t, a + 2).next = a + 3
          BY <4>1
        <5> QED  BY <1>3, <4>1, <5>1
      <4>3. f[a + 3] = SubSeq(res, k, n)
        BY <2>5, <2>6, <4>1
      <4>4. \A r \in Seq(U) : <<>> \o r = r
        BY ConcatEmptySeq
      <4>5. f[a + 1] = SubSeq(res, k, n)
        BY <2>7, <4>2, <4>3, <4>4
      <4> QED  BY <4>5 DEF a
    <3> QED  BY <3>1, <3>2
  <2> QED  BY <2>1, <2>8
<1> HIDE DEF P
<1>6. n \in P
  <2>1. \A d \in 0 .. n : d \in P
    <3> HIDE DEF n
    <3> QED  BY <1>1, <1>4, <1>5, Climb
  <2> QED  BY <1>1, <2>1
<1>7. f[upto(n - n) + 1] = SubSeq(res, n - n + 1, n)
  <2>1. n <= n
    BY <1>1
  <2> QED  BY <1>6, <2>1 DEF P
<1>8. n - n = 0 /\ 0 + 1 = 1 /\ upto(n - n) + 1 = 1 /\ n - n + 1 = 1
  <2>1. n - n = 0
    BY <1>1
  <2> QED  BY <1>1, <2>1
<1>9. f[1] = res
  <2>1. SubSeq(res, 1, n) = res
    BY <1>2, SubSeqFull
  <2> QED  BY <1>7, <1>8, <2>1
<1> QED  BY <1>3, <1>9 DEF t, res

(* A call that a planner finished is read as it was meant                  *)
(* (plan.rs:113-121, 193-287): the arguments end at the call's own         *)
(* parenthesis, and each is read where it stands, with its commas,         *)
(* parentheses and quotes of the other kind, unless a string has a         *)
(* parenthesis with a comment's # after it or a number is too large.       *)
THEOREM CallsAreReadAsMeant == SpeechSpec => []CallReadAsMeant
<1> USE TextsAssumption
<1>1. SpeechInit => SInv /\ ReadInv
  BY SaidInit, ReadInit
<1>2. SInv /\ ReadInv /\ [SpeechNext]_speechVars => (SInv /\ ReadInv)'
  BY SaidStep, ReadStep
<1>3. ReadInv => CallReadAsMeant
  <2> SUFFICES ASSUME ReadInv, role = "planner", status = "read", out = WriteCall(meant),
                      \A i \in DOMAIN meant : Legible(meant[i])
               PROVE  result = [i \in DOMAIN meant |-> Meant(meant[i])]
    BY DEF CallReadAsMeant, Meant
  <2>1. meant \in Calls /\ result = ReadCall(WriteCall(meant))
    BY DEF ReadInv, TypesKept
  <2>2. DOMAIN meant = 1 .. Len(meant)
    <3>1. meant \in Seq(Args)
      BY <2>1, WellFormedIs DEF Args
    <3> QED  BY <3>1
  <2>3. result = ParseArgs(Body(meant))
    BY <2>1, <2>2, CallIsRead
  <2> QED  BY <2>1, <2>2, <2>3, BodyIsRead
<1> QED  BY <1>1, <1>2, <1>3, PTL DEF SpeechSpec
=============================================================================
