------------------------------- MODULE Lemmas -------------------------------
(***************************************************************************)
(* What the proofs need of operators that several modules use: the first   *)
(* of some numbers, what a loop that compacts a queue leaves, and how a    *)
(* set that gains or loses a member counts.                                *)
(***************************************************************************)
EXTENDS Queues, FiniteSets, FiniteSetTheorems, SequenceTheorems, WellFoundedInduction, TLAPS

\* Some number is the least.
LEMMA LeastOf ==
  ASSUME NEW S \in SUBSET Nat, S # {}
  PROVE  \E m \in S : \A y \in S : m <= y
<1> DEFINE R == OpToRel(<, Nat)
<1>1. \A x, y \in Nat : x < y => <<x, y>> \in R
  BY DEF OpToRel
<1>2. PICK x \in S : \A y \in S : ~(<<y, x>> \in R)
  <2>1. IsWellFoundedOn(R, Nat)
    BY NatLessThanWellFounded
  <2> HIDE DEF R
  <2> QED
    BY <2>1, WFMin
<1> HIDE DEF R
<1>3. \A y \in S : x <= y
  <2> TAKE y \in S
  <2>1. x \in Nat /\ y \in Nat
    OBVIOUS
  <2>2. ~(y < x)
    BY <1>1, <1>2, <2>1, Zenon
  <2> QED
    BY <2>1, <2>2
<1> QED
  BY <1>3

\* One member more or less of a finite set.
LEMMA OneMore ==
  ASSUME NEW S, IsFiniteSet(S), NEW x, x \notin S
  PROVE  /\ IsFiniteSet(S \cup {x}) /\ Cardinality(S) \in Nat
         /\ Cardinality(S \cup {x}) = Cardinality(S) + 1
BY FS_AddElement, FS_CardinalityType

LEMMA OneLess ==
  ASSUME NEW S, IsFiniteSet(S), NEW x \in S
  PROVE  /\ IsFiniteSet(S \ {x}) /\ Cardinality(S) \in Nat
         /\ Cardinality(S \ {x}) = Cardinality(S) - 1
BY FS_RemoveElement, FS_CardinalityType

-----------------------------------------------------------------------------
\* f is what the loop has kept after each of the first n entries.
Loop(f, n, q, stay) ==
  f = [i \in 0 .. n |-> IF i = 0 THEN <<>>
                        ELSE IF i \in stay THEN Append(f[i - 1], q[i]) ELSE f[i - 1]]

LEMMA LoopRuns ==
  ASSUME NEW n \in Nat, NEW q, NEW stay
  PROVE  \E f : Loop(f, n, q, stay)
<1> USE DEF Loop
<1> DEFINE Runs(k) == \E f : Loop(f, k, q, stay)
           Stuck == {k \in Nat : ~Runs(k)}
<1>1. Stuck = {}
  <2>1. SUFFICES ASSUME Stuck # {}
                 PROVE  FALSE
    OBVIOUS
  <2>3. PICK k \in Stuck : \A y \in Stuck : k <= y
    <3>1. Stuck \in SUBSET Nat
      OBVIOUS
    <3> HIDE DEF Stuck
    <3> QED
      BY <2>1, <3>1, LeastOf
  <2>4. k # 0
    <3>1. [i \in {0} |-> <<>>] = [i \in 0 .. 0 |-> IF i = 0 THEN <<>>
                       ELSE IF i \in stay THEN Append([j \in {0} |-> <<>>][i - 1], q[i])
                       ELSE [j \in {0} |-> <<>>][i - 1]]
      OBVIOUS
    <3>2. Runs(0)
      BY <3>1
    <3> QED
      BY <3>2
  <2>5. PICK f : f = [i \in 0 .. k - 1 |-> IF i = 0 THEN <<>>
                       ELSE IF i \in stay THEN Append(f[i - 1], q[i]) ELSE f[i - 1]]
    <3>1. k - 1 \in Nat /\ k - 1 < k /\ k \in Nat
      BY <2>4
    <3>2. ~(k <= k - 1)
      BY <3>1
    <3>3. k - 1 \notin Stuck
      <4> HIDE DEF Stuck
      <4> QED
        BY <2>3, <3>2
    <3> QED
      BY <3>1, <3>3
  <2> DEFINE g == [i \in 0 .. k |-> IF i < k THEN f[i]
                       ELSE IF k \in stay THEN Append(f[k - 1], q[k]) ELSE f[k - 1]]
  <2>6. ASSUME NEW i \in 0 .. k
        PROVE  g[i] = IF i = 0 THEN <<>>
                      ELSE IF i \in stay THEN Append(g[i - 1], q[i]) ELSE g[i - 1]
    <3>1. k \in Nat /\ (i # 0 => g[i - 1] = f[i - 1])
      BY <2>4
    <3>2. CASE i = k
      BY <2>4, <3>1, <3>2
    <3>3. CASE i < k
      <4>1. i \in 0 .. k - 1
        BY <3>1, <3>3
      <4>2. f[i] = IF i = 0 THEN <<>>
                      ELSE IF i \in stay THEN Append(f[i - 1], q[i]) ELSE f[i - 1]
        BY <2>5, <4>1
      <4> QED
        BY <3>1, <3>3, <4>2
    <3> QED
      BY <3>1, <3>2, <3>3
  <2>7. g = [i \in 0 .. k |-> IF i = 0 THEN <<>>
                       ELSE IF i \in stay THEN Append(g[i - 1], q[i]) ELSE g[i - 1]]
    <3>1. g = [i \in 0 .. k |-> g[i]]
      OBVIOUS
    <3> HIDE DEF g
    <3> QED
      BY <2>6, <3>1
  <2> HIDE DEF g
  <2> QED
    BY <2>3, <2>7
<1> QED
  BY <1>1

\* What compaction leaves: entries that stay, in no larger number, each of
\* which stays once.
LEMMA CompactedSeq ==
  ASSUME NEW S, NEW q \in Seq(S), NEW stay, \A j \in stay : j \in Nat /\ 1 <= j /\ j <= Len(q)
  PROVE  /\ Compacted(q, stay) \in Seq(S)
         /\ Len(Compacted(q, stay)) <= Len(q)
         /\ \A j \in 1 .. Len(Compacted(q, stay)) : \E i \in stay : Compacted(q, stay)[j] = q[i]
         /\ \A i \in stay : \E j \in 1 .. Len(Compacted(q, stay)) : Compacted(q, stay)[j] = q[i]
         /\ (\A i, j \in stay : q[i] = q[j] => i = j)
              => \A i, j \in 1 .. Len(Compacted(q, stay)) :
                   Compacted(q, stay)[i] = Compacted(q, stay)[j] => i = j
<1> DEFINE n == Len(q)
           kept == CHOOSE f : Loop(f, n, q, stay)
<1>1. n \in Nat /\ \A i \in 1 .. n : q[i] \in S
  OBVIOUS
<1>2. kept = [i \in 0 .. n |-> IF i = 0 THEN <<>>
                       ELSE IF i \in stay THEN Append(kept[i - 1], q[i]) ELSE kept[i - 1]]
  <2>1. n \in Nat
    OBVIOUS
  <2> HIDE DEF n
  <2>2. \E f : Loop(f, n, q, stay)
    BY <2>1, LoopRuns
  <2>3. Loop(kept, n, q, stay)
    BY <2>2
  <2> HIDE DEF kept
  <2> QED
    BY <2>3 DEF Loop
<1>3. Compacted(q, stay) = kept[n]
  BY DEF Compacted, Loop
<1> DEFINE Once == \A i, j \in stay : q[i] = q[j] => i = j
           Upto(i) == {j \in stay : j <= i}
           Fits(i) == /\ kept[i] \in Seq(S) /\ Len(kept[i]) <= i
                      /\ \A j \in 1 .. Len(kept[i]) : \E m \in Upto(i) : kept[i][j] = q[m]
                      /\ \A m \in Upto(i) : \E j \in 1 .. Len(kept[i]) : kept[i][j] = q[m]
                      /\ Once => \A j, m \in 1 .. Len(kept[i]) : kept[i][j] = kept[i][m] => j = m
           Bad == {i \in 0 .. n : ~Fits(i)}
<1> HIDE DEF kept
<1> HIDE DEF n
<1>4. kept[0] = <<>> /\ \A i \in 1 .. n : kept[i] = IF i \in stay THEN Append(kept[i - 1], q[i])
                                                     ELSE kept[i - 1]
  <2>1. n \in Nat
    BY <1>1
  <2>2. 0 \in 0 .. n /\ \A i \in 1 .. n : i \in 0 .. n /\ i # 0
    BY <2>1
  <2> QED
    BY <1>2, <2>2
<1>10. \A j \in stay : j \in Nat /\ 1 <= j /\ j <= n
  BY DEF n
<1>5. Fits(0)
  <2>1. Upto(0) = {}
    BY <1>10
  <2> HIDE DEF Upto
  <2> QED
    BY <1>4, <2>1
<1>6. ASSUME NEW i \in 1 .. n, Fits(i - 1)
      PROVE  Fits(i)
  <2> DEFINE a == kept[i - 1]
             b == kept[i]
  <2>1. i \in Nat /\ i - 1 \in Nat /\ q[i] \in S
    BY <1>1
  <2>2. /\ a \in Seq(S) /\ Len(a) <= i - 1 /\ Len(a) \in Nat
        /\ \A j \in 1 .. Len(a) : \E m \in Upto(i - 1) : a[j] = q[m]
        /\ \A m \in Upto(i - 1) : \E j \in 1 .. Len(a) : a[j] = q[m]
        /\ Once => \A j, m \in 1 .. Len(a) : a[j] = a[m] => j = m
    <3> HIDE DEF kept, Upto, Once
    <3>1. /\ a \in Seq(S) /\ Len(a) <= i - 1
          /\ \A j \in 1 .. Len(a) : \E m \in Upto(i - 1) : a[j] = q[m]
          /\ \A m \in Upto(i - 1) : \E j \in 1 .. Len(a) : a[j] = q[m]
          /\ Once => \A j, m \in 1 .. Len(a) : a[j] = a[m] => j = m
      BY <1>6, Zenon
    <3> QED
      BY <3>1
  <2>3. CASE i \in stay
    <3>1. b = Append(a, q[i])
      BY <1>4, <2>3
    <3>2. Upto(i) = Upto(i - 1) \cup {i} /\ i \notin Upto(i - 1) /\ Upto(i) \subseteq stay
      <4>1. \A j \in stay : j <= i <=> j <= i - 1 \/ j = i
        BY <1>10, <2>1
      <4>2. ~(i <= i - 1) /\ i <= i
        BY <2>1
      <4> QED
        BY <2>3, <4>1, <4>2
    <3>3. /\ b \in Seq(S) /\ Len(b) = Len(a) + 1 /\ b[Len(a) + 1] = q[i]
          /\ \A j \in 1 .. Len(a) : b[j] = a[j]
      <4>1. a \in Seq(S) /\ q[i] \in S
        BY <2>1, <2>2
      <4> HIDE DEF a, b
      <4> QED
        BY <3>1, <4>1
    <3> HIDE DEF a, b, Upto
    <3>4. Len(b) <= i
      BY <2>1, <2>2, <3>3
    <3>5. \A j \in 1 .. Len(b) : j \in 1 .. Len(a) \/ j = Len(a) + 1
      BY <2>2, <3>3
    <3>6. \A j \in 1 .. Len(a) : j \in 1 .. Len(b)
      BY <2>2, <3>3
    <3>7. Len(a) + 1 \in 1 .. Len(b)
      BY <2>2, <3>3
    <3>8. \A j \in 1 .. Len(b) : \E m \in Upto(i) : b[j] = q[m]
      <4> SUFFICES ASSUME NEW j \in 1 .. Len(b)
                   PROVE  \E m \in Upto(i) : b[j] = q[m]
        OBVIOUS
      <4>1. CASE j \in 1 .. Len(a)
        <5>1. PICK m \in Upto(i - 1) : a[j] = q[m]
          BY <2>2, <4>1
        <5> QED
          BY <3>2, <3>3, <4>1, <5>1
      <4>2. CASE j = Len(a) + 1
        BY <3>2, <3>3, <4>2
      <4> QED
        BY <3>5, <4>1, <4>2
    <3>9. \A m \in Upto(i) : \E j \in 1 .. Len(b) : b[j] = q[m]
      BY <2>2, <3>2, <3>3, <3>6, <3>7
    <3>10. ASSUME Once, NEW j \in 1 .. Len(b), NEW m \in 1 .. Len(b), b[j] = b[m]
           PROVE  j = m
      <4>1. \A k \in 1 .. Len(a) : a[k] # q[i]
        <5> SUFFICES ASSUME NEW k \in 1 .. Len(a), a[k] = q[i]
                     PROVE  FALSE
          OBVIOUS
        <5>1. PICK x \in Upto(i - 1) : a[k] = q[x]
          BY <2>2
        <5>2. x = i
          BY <2>3, <3>2, <3>10, <5>1
        <5> QED
          BY <3>2, <5>1, <5>2
      <4> QED
        BY <2>2, <3>3, <3>5, <3>10, <4>1
    <3> QED
      BY <3>3, <3>4, <3>8, <3>9, <3>10 DEF b
  <2>4. CASE i \notin stay
    <3>1. b = a
      BY <1>4, <2>4
    <3>2. Upto(i) = Upto(i - 1)
      BY <1>10, <2>1, <2>4
    <3> HIDE DEF Upto, a, b
    <3> QED
      BY <2>1, <2>2, <3>1, <3>2 DEF b
  <2> QED
    BY <2>3, <2>4
<1> HIDE DEF Fits
<1>7. Bad = {}
  <2>1. SUFFICES ASSUME Bad # {}
                 PROVE  FALSE
    OBVIOUS
  <2>3. PICK k \in Bad : \A y \in Bad : k <= y
    <3>1. Bad \in SUBSET Nat
      BY <1>1
    <3> HIDE DEF Bad
    <3> QED
      BY <2>1, <3>1, LeastOf
  <2>4. k \in 1 .. n /\ k - 1 \in 0 .. n /\ k - 1 < k /\ k \in Nat /\ k - 1 \in Nat
    BY <1>1, <1>5, <2>3
  <2>5. Fits(k - 1)
    BY <2>3, <2>4
  <2> QED
    BY <1>6, <2>3, <2>4, <2>5
<1>8. Fits(n)
  BY <1>1, <1>7
<1>9. Upto(n) = stay
  BY <1>10
<1> HIDE DEF Upto
<1> HIDE DEF kept, Once
<1> QED
  BY <1>3, <1>8, <1>9 DEF Fits, n, Once

-----------------------------------------------------------------------------
\* A sequence behind its first m entries
LEMMA RestSeq ==
  ASSUME NEW S, NEW q \in Seq(S), NEW m \in Nat, m <= Len(q)
  PROVE  /\ SubSeq(q, m + 1, Len(q)) \in Seq(S)
         /\ Len(SubSeq(q, m + 1, Len(q))) = Len(q) - m
         /\ \A j \in 1 .. Len(q) - m : SubSeq(q, m + 1, Len(q))[j] = q[m + j]
<1> DEFINE r == SubSeq(q, m + 1, Len(q))
<1>1. Len(q) \in Nat /\ \A i \in 1 .. Len(q) : q[i] \in S
  OBVIOUS
<1>2. \A i \in m + 1 .. Len(q) : i \in 1 .. Len(q)
  BY <1>1
<1>3. \A i \in m + 1 .. Len(q) : q[i] \in S
  BY <1>1, <1>2
<1>4. \A j \in 1 .. Len(q) - m : m + 1 + j - 1 = m + j
  OBVIOUS
<1>5. Len(q) \in Nat
  BY <1>1
<1>6. m + 1 \in Int /\ Len(q) \in Int /\ Len(q) - (m + 1) + 1 = Len(q) - m
  BY <1>5
<1>7. m + 1 <= Len(q) \/ Len(q) - m = 0
  BY <1>5
<1> HIDE DEF r
<1>8. /\ r \in Seq(S)
      /\ Len(r) = IF m + 1 <= Len(q) THEN Len(q) - (m + 1) + 1 ELSE 0
      /\ \A j \in 1 .. Len(q) - (m + 1) + 1 : r[j] = q[m + 1 + j - 1]
  BY <1>3, <1>6, SubSeqProperties DEF r
<1>9. Len(r) = Len(q) - m
  BY <1>6, <1>7, <1>8
<1>10. \A j \in 1 .. Len(q) - m : r[j] = q[m + j]
  BY <1>4, <1>6, <1>8
<1> QED
  BY <1>8, <1>9, <1>10 DEF r

\* and its first n entries
LEMMA FrontSeq ==
  ASSUME NEW S, NEW q \in Seq(S), NEW n \in Nat, n <= Len(q)
  PROVE  /\ SubSeq(q, 1, n) \in Seq(S) /\ Len(SubSeq(q, 1, n)) = n
         /\ \A j \in 1 .. n : SubSeq(q, 1, n)[j] = q[j]
<1> DEFINE r == SubSeq(q, 1, n)
<1>1. Len(q) \in Nat /\ \A i \in 1 .. Len(q) : q[i] \in S
  OBVIOUS
<1>2. \A i \in 1 .. n : i \in 1 .. Len(q)
  BY <1>1
<1>3. \A i \in 1 .. n : q[i] \in S
  BY <1>1, <1>2
<1> HIDE DEF r
<1>4. n \in Int /\ 1 \in Int /\ n - 1 + 1 = n /\ (1 <= n \/ n = 0)
  OBVIOUS
<1>5. /\ r \in Seq(S)
      /\ Len(r) = IF 1 <= n THEN n - 1 + 1 ELSE 0
      /\ \A j \in 1 .. n - 1 + 1 : r[j] = q[1 + j - 1]
  BY <1>3, <1>4, SubSeqProperties DEF r
<1>6. \A j \in 1 .. n : 1 + j - 1 = j
  OBVIOUS
<1> QED
  BY <1>4, <1>5, <1>6 DEF r
=============================================================================
