-------------------------- MODULE SelectionsProofs --------------------------
(***************************************************************************)
(* What choosing positions of a sequence returns: every chosen element,    *)
(* once, in the order of the sequence, and nothing else.                   *)
(***************************************************************************)
EXTENDS Selections, Sequences, FiniteSetTheorems, FunctionTheorems, TLAPS

\* Ranks grow with the positions, from one up to their number.
LEMMA RanksGrow ==
    ASSUME NEW I \in SUBSET Int, IsFiniteSet(I)
    PROVE  /\ Cardinality(I) \in Nat
           /\ \A i \in I : Rank(I, i) \in 1 .. Cardinality(I)
           /\ \A i, j \in I : i < j => Rank(I, i) < Rank(I, j)
<1>1. Cardinality(I) \in Nat
  BY FS_CardinalityType
<1> DEFINE Upto(i) == {j \in I : j <= i}
<1>2. ASSUME NEW i \in I
      PROVE  IsFiniteSet(Upto(i)) /\ Cardinality(Upto(i)) \in 1 .. Cardinality(I)
  <2>1. IsFiniteSet(Upto(i)) /\ Cardinality(Upto(i)) <= Cardinality(I)
    BY FS_Subset
  <2>2. Cardinality(Upto(i)) \in Nat
    BY <2>1, FS_CardinalityType
  <2>3. i \in Upto(i)
    OBVIOUS
  <2>4. Cardinality(Upto(i)) # 0
    <3> HIDE DEF Upto
    <3> QED BY <2>1, <2>3, FS_EmptySet
  <2> QED BY <1>1, <2>1, <2>2, <2>4
<1>3. ASSUME NEW i \in I, NEW j \in I, i < j
      PROVE  Cardinality(Upto(i)) < Cardinality(Upto(j))
  <2>0. i \in Int /\ j \in Int /\ \A k \in I : k \in Int
    OBVIOUS
  <2>1. Upto(i) \in SUBSET Upto(j) /\ j \in Upto(j) /\ j \notin Upto(i)
    <3>1. j \in Upto(j) /\ j \notin Upto(i)
      BY <1>3, <2>0
    <3>2. ASSUME NEW k \in Upto(i) PROVE k \in Upto(j)
      BY <1>3, <2>0
    <3> QED BY <3>1, <3>2
  <2>2. Upto(i) # Upto(j)
    <3> HIDE DEF Upto
    <3> QED BY <2>1
  <2>3. Cardinality(Upto(i)) <= Cardinality(Upto(j))
        /\ (Cardinality(Upto(j)) = Cardinality(Upto(i)) => Upto(j) = Upto(i))
    <3> HIDE DEF Upto
    <3> QED BY <1>2, <2>1, FS_Subset
  <2>4. Cardinality(Upto(i)) \in Int /\ Cardinality(Upto(j)) \in Int
    BY <1>2
  <2> HIDE DEF Upto
  <2> QED BY <2>2, <2>3, <2>4
<1> QED BY <1>1, <1>2, <1>3 DEF Rank

\* Every number up to that of the positions is the rank of one of them.
LEMMA RanksFill ==
    ASSUME NEW I \in SUBSET Int, IsFiniteSet(I), NEW n \in 1 .. Cardinality(I)
    PROVE  \E i \in I : Rank(I, i) = n
<1> DEFINE rank == [i \in I |-> Rank(I, i)]
           N == 1 .. Cardinality(I)
<1>1. Cardinality(I) \in Nat
  BY FS_CardinalityType
<1>2. rank \in [I -> N]
  BY RanksGrow
<1>3. \A i, j \in I : rank[i] = rank[j] => i = j
  <2> SUFFICES ASSUME NEW i \in I, NEW j \in I, rank[i] = rank[j], i # j
               PROVE  FALSE
    OBVIOUS
  <2>1. i < j \/ j < i
    OBVIOUS
  <2>2. Rank(I, i) < Rank(I, j) \/ Rank(I, j) < Rank(I, i)
    BY <2>1, RanksGrow
  <2>3. Rank(I, i) \in Int /\ Rank(I, j) \in Int
    BY RanksGrow
  <2> QED BY <2>2, <2>3
<1>4. rank \in Injection(I, N)
  BY <1>2, <1>3 DEF Injection, IsInjective
<1>5. IsFiniteSet(N) /\ Cardinality(N) = Cardinality(I)
  BY <1>1, FS_Interval
<1>6. rank \in Surjection(I, N)
  <2> HIDE DEF rank, N
  <2> QED BY <1>4, <1>5, FS_Injection
<1>7. PICK i \in I : rank[i] = n
  BY <1>6 DEF Surjection
<1> QED BY <1>7

LEMMA NthIs ==
    ASSUME NEW I \in SUBSET Int, IsFiniteSet(I)
    PROVE  /\ Cardinality(I) \in Nat
           /\ \A n \in 1 .. Cardinality(I) : Nth(I, n) \in I /\ Rank(I, Nth(I, n)) = n
           /\ \A m, n \in 1 .. Cardinality(I) : m < n => Nth(I, m) < Nth(I, n)
           /\ \A i \in I : Rank(I, i) \in 1 .. Cardinality(I) /\ Nth(I, Rank(I, i)) = i
<1>1. Cardinality(I) \in Nat
  BY FS_CardinalityType
<1>2. ASSUME NEW n \in 1 .. Cardinality(I)
      PROVE  Nth(I, n) \in I /\ Rank(I, Nth(I, n)) = n
  BY RanksFill DEF Nth
<1>3. ASSUME NEW i \in I, NEW j \in I, Rank(I, i) = Rank(I, j)
      PROVE  i = j
  <2>1. Rank(I, i) \in Int /\ ~(i < j) /\ ~(j < i)
    BY <1>3, RanksGrow
  <2> QED BY <2>1
<1>4. ASSUME NEW i \in I
      PROVE  Rank(I, i) \in 1 .. Cardinality(I) /\ Nth(I, Rank(I, i)) = i
  BY <1>2, <1>3, RanksGrow
<1>5. ASSUME NEW m \in 1 .. Cardinality(I), NEW n \in 1 .. Cardinality(I), m < n
      PROVE  Nth(I, m) < Nth(I, n)
  <2>1. Nth(I, m) \in I /\ Nth(I, n) \in I
        /\ Rank(I, Nth(I, m)) = m /\ Rank(I, Nth(I, n)) = n
    BY <1>2
  <2>2. ~(Nth(I, n) < Nth(I, m))
    <3>1. Nth(I, n) < Nth(I, m) => Rank(I, Nth(I, n)) < Rank(I, Nth(I, m))
      BY <2>1, RanksGrow
    <3> QED BY <1>1, <1>5, <2>1, <3>1
  <2>4. Nth(I, m) # Nth(I, n)
    BY <1>1, <1>5, <2>1
  <2>3. Nth(I, m) \in Int /\ Nth(I, n) \in Int
    BY <2>1
  <2> QED BY <2>2, <2>3, <2>4
<1> QED BY <1>1, <1>2, <1>4, <1>5

\* Choosing positions keeps the chosen elements, all of them and only them,
\* in the order of the sequence.
THEOREM ChosenIs ==
    ASSUME NEW S, NEW q \in Seq(S), NEW I \in SUBSET DOMAIN q
    PROVE  /\ Chosen(q, I) \in Seq(S)
           /\ Len(Chosen(q, I)) = Cardinality(I) /\ Cardinality(I) \in Nat
           /\ \A n \in 1 .. Len(Chosen(q, I)) :
                 Nth(I, n) \in I /\ Chosen(q, I)[n] = q[Nth(I, n)]
           /\ \A m, n \in 1 .. Len(Chosen(q, I)) : m < n => Nth(I, m) < Nth(I, n)
           /\ \A i \in I : \E n \in 1 .. Len(Chosen(q, I)) :
                 Nth(I, n) = i /\ Chosen(q, I)[n] = q[i]
<1>1. I \in SUBSET Int /\ DOMAIN q = 1 .. Len(q) /\ Len(q) \in Nat
  OBVIOUS
<1>2. IsFiniteSet(I)
  <2>1. IsFiniteSet(1 .. Len(q))
    BY <1>1, FS_Interval
  <2>2. I \in SUBSET (1 .. Len(q))
    BY <1>1
  <2> QED BY <2>1, <2>2, FS_Subset
<1>3. /\ Cardinality(I) \in Nat
      /\ \A n \in 1 .. Cardinality(I) : Nth(I, n) \in I
      /\ \A m, n \in 1 .. Cardinality(I) : m < n => Nth(I, m) < Nth(I, n)
      /\ \A i \in I : Rank(I, i) \in 1 .. Cardinality(I) /\ Nth(I, Rank(I, i)) = i
  BY <1>1, <1>2, NthIs
<1>4. \A n \in 1 .. Cardinality(I) : q[Nth(I, n)] \in S
  BY <1>3
<1>5. Chosen(q, I) \in Seq(S) /\ Len(Chosen(q, I)) = Cardinality(I)
      /\ \A n \in 1 .. Cardinality(I) : Chosen(q, I)[n] = q[Nth(I, n)]
  BY <1>3, <1>4 DEF Chosen
<1> QED BY <1>3, <1>5

\* The first and the last of some positions.
LEMMA FirstAndLast ==
    ASSUME NEW I \in SUBSET Int, IsFiniteSet(I), I # {}
    PROVE  /\ \E i \in I : \A j \in I : i <= j
           /\ \E i \in I : \A j \in I : j <= i
<1> DEFINE N == Cardinality(I)
<1>1. N \in Nat /\ N # 0
  BY FS_CardinalityType, FS_EmptySet
<1>2. /\ \A n \in 1 .. N : Nth(I, n) \in I
      /\ \A m, n \in 1 .. N : m < n => Nth(I, m) < Nth(I, n)
      /\ \A i \in I : Rank(I, i) \in 1 .. N /\ Nth(I, Rank(I, i)) = i
  BY NthIs
<1> HIDE DEF N
<1>3. ASSUME NEW j \in I
      PROVE  Nth(I, 1) <= j /\ j <= Nth(I, N)
  <2>1. PICK n \in 1 .. N : Nth(I, n) = j
    BY <1>2
  <2>2. 1 \in 1 .. N /\ N \in 1 .. N /\ (n = 1 \/ 1 < n) /\ (n = N \/ n < N)
    BY <1>1
  <2>3. Nth(I, 1) \in Int /\ Nth(I, N) \in Int
    BY <1>2, <2>2
  <2>4. Nth(I, 1) <= Nth(I, n)
    BY <1>2, <2>2, <2>3, <2>1
  <2>5. Nth(I, n) <= Nth(I, N)
    BY <1>2, <2>2, <2>3, <2>1
  <2> QED BY <2>1, <2>4, <2>5
<1>4. Nth(I, 1) \in I /\ Nth(I, N) \in I
  BY <1>1, <1>2
<1> QED BY <1>3, <1>4
=============================================================================
