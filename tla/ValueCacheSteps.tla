-------------------------- MODULE ValueCacheSteps --------------------------
(***************************************************************************)
(* What a chain of calls does in ValueCache, seen through one key.  A step *)
(* of the model handles packets of several keys, in several processes, and *)
(* runs through up to four slots; to one page, and to one process, it is a *)
(* step of EchoClient.  This module goes there in four parts: what a queue *)
(* is when only the packets that change one key count; what each slot does *)
(* to the state; that the wiring stands (direct pages have empty queues, a *)
(* page is never told of an element that it does not have); and what each  *)
(* chain of slots means for every page and every process.                  *)
(***************************************************************************)
EXTENDS ValueCache, EchoClient

-----------------------------------------------------------------------------
(* Ranks.  The positions of a finite set of them are numbered 1, 2, 3...   *)
Upto(R, i) == {j \in R : j <= i}

(* Every position has a rank, and a later one a greater rank.              *)
LEMMA RankProperties ==
  ASSUME NEW n \in Nat, NEW R, R \subseteq 1..n
  PROVE  /\ IsFiniteSet(R) /\ Cardinality(R) \in Nat
         /\ \A i \in R : /\ IsFiniteSet(Upto(R, i))
                         /\ Cardinality(Upto(R, i)) \in 1..Cardinality(R)
         /\ \A i, j \in R : i < j => Cardinality(Upto(R, i)) < Cardinality(Upto(R, j))
<1>1. IsFiniteSet(1..n)
  BY FS_Interval
<1>2. IsFiniteSet(R) /\ Cardinality(R) \in Nat
  BY <1>1, FS_Subset, FS_CardinalityType
<1>3. ASSUME NEW i
      PROVE  /\ IsFiniteSet(Upto(R, i)) /\ Cardinality(Upto(R, i)) \in Nat
             /\ Cardinality(Upto(R, i)) <= Cardinality(R)
  <2>1. Upto(R, i) \in SUBSET R
    BY DEF Upto
  <2> QED
    BY <1>2, <2>1, FS_Subset, FS_CardinalityType
<1>4. ASSUME NEW i \in R PROVE Cardinality(Upto(R, i)) # 0
  <2>1. i \in Upto(R, i)
    BY DEF Upto
  <2> QED
    BY <1>3, <2>1, FS_EmptySet
<1>5. ASSUME NEW i \in R, NEW j \in R, i < j
      PROVE  Cardinality(Upto(R, i)) < Cardinality(Upto(R, j))
  <2>0. i \in Int /\ j \in Int /\ \A l \in R : l \in Int
    OBVIOUS
  <2>1. Upto(R, i) \in SUBSET Upto(R, j) /\ j \in Upto(R, j) /\ j \notin Upto(R, i)
    <3>1. ASSUME NEW l \in R, l <= i PROVE l <= j
      BY <1>5, <2>0, <3>1
    <3>2. ~ (j <= i) /\ j <= j
      BY <1>5, <2>0
    <3> QED
      BY <3>1, <3>2 DEF Upto
  <2>2. /\ Cardinality(Upto(R, i)) <= Cardinality(Upto(R, j))
        /\ Cardinality(Upto(R, j)) # Cardinality(Upto(R, i))
    <3>1. IsFiniteSet(Upto(R, j)) /\ Upto(R, i) # Upto(R, j)
      BY <1>3, <2>1
    <3> QED
      BY <2>1, <3>1, FS_Subset
  <2> QED
    BY <1>3, <2>2
<1> QED
  BY <1>2, <1>3, <1>4, <1>5

(* Every rank is that of exactly one position, which Nth returns.          *)
LEMMA NthProperties ==
  ASSUME NEW n \in Nat, NEW R, R \subseteq 1..n, NEW k \in 1..Cardinality(R)
  PROVE  /\ Nth(R, k) \in R
         /\ Cardinality(Upto(R, Nth(R, k))) = k
         /\ \A i \in R : Cardinality(Upto(R, i)) = k => i = Nth(R, k)
<1> DEFINE f == [i \in R |-> Cardinality(Upto(R, i))]
           C == Cardinality(R)
<1>1. /\ IsFiniteSet(R) /\ C \in Nat
      /\ \A i \in R : Cardinality(Upto(R, i)) \in 1..C
      /\ \A i, j \in R : i < j => Cardinality(Upto(R, i)) < Cardinality(Upto(R, j))
  BY RankProperties
<1>2. \A i, j \in R : Cardinality(Upto(R, i)) = Cardinality(Upto(R, j)) => i = j
  <2> SUFFICES ASSUME NEW i \in R, NEW j \in R, i # j
               PROVE  Cardinality(Upto(R, i)) # Cardinality(Upto(R, j))
    OBVIOUS
  <2>1. i < j \/ j < i
    OBVIOUS
  <2> QED
    BY <1>1, <2>1
<1>3. f \in Injection(R, 1..C)
  BY <1>1, <1>2 DEF Injection, IsInjective
<1>4. IsFiniteSet(1..C) /\ Cardinality(1..C) = C
  <2> HIDE DEF C
  <2>1. C \in Int /\ 1 \in Int
    BY <1>1
  <2>2. IsFiniteSet(1..C) /\ Cardinality(1..C) = IF 1 > C THEN 0 ELSE C - 1 + 1
    BY <2>1, FS_Interval
  <2> QED
    BY <1>1, <2>2
<1>5. f \in Surjection(R, 1..C)
  <2> HIDE DEF f
  <2> QED
    BY <1>3, <1>4, FS_Injection
<1>6. \E i \in R : Cardinality(Upto(R, i)) = k
  BY <1>5 DEF Surjection
<1>7. Nth(R, k) \in R /\ Cardinality(Upto(R, Nth(R, k))) = k
  BY <1>6 DEF Nth, Upto
<1> QED
  BY <1>2, <1>7

(* The picked elements form a sequence of elements of q.                   *)
LEMMA PickType ==
  ASSUME NEW S, NEW q \in Seq(S), NEW R, R \subseteq 1..Len(q)
  PROVE  /\ IsFiniteSet(R) /\ Cardinality(R) \in Nat
         /\ Pick(q, R) \in Seq(S)
         /\ Len(Pick(q, R)) = Cardinality(R)
         /\ \A n \in 1..Cardinality(R) : Pick(q, R)[n] = q[Nth(R, n)] /\ Nth(R, n) \in R
         /\ Pick(q, R) = <<>> <=> R = {}
<1>1. Len(q) \in Nat /\ \A i \in 1..Len(q) : q[i] \in S
  BY LenProperties, ElementOfSeq
<1>2. IsFiniteSet(R) /\ Cardinality(R) \in Nat
  BY <1>1, RankProperties
<1>3. \A n \in 1..Cardinality(R) : Nth(R, n) \in R
  BY <1>1, NthProperties
<1>4. Pick(q, R) \in [1..Cardinality(R) -> S]
  BY <1>1, <1>3 DEF Pick
<1>5. Pick(q, R) \in Seq(S) /\ Len(Pick(q, R)) = Cardinality(R)
  BY <1>2, <1>4, SeqDef, LenProperties
<1>6. Pick(q, R) = <<>> <=> Cardinality(R) = 0
  BY <1>5, EmptyLen
<1>7. Cardinality(R) = 0 <=> R = {}
  BY <1>2, FS_EmptySet
<1> QED
  BY <1>2, <1>3, <1>5, <1>6, <1>7 DEF Pick

(* Something appended elsewhere is not picked.                             *)
LEMMA PickAppendOld ==
  ASSUME NEW S, NEW q \in Seq(S), NEW m \in S, NEW R, R \subseteq 1..Len(q)
  PROVE  Pick(Append(q, m), R) = Pick(q, R)
<1>1. /\ Len(q) \in Nat
      /\ \A i \in 1..Len(q) : Append(q, m)[i] = q[i]
  BY LenProperties, AppendProperties
<1>2. \A n \in 1..Cardinality(R) : Nth(R, n) \in R
  BY PickType
<1> QED
  BY <1>1, <1>2 DEF Pick

(* Something appended at a new position is picked last.                    *)
LEMMA PickAppendNew ==
  ASSUME NEW S, NEW q \in Seq(S), NEW m \in S, NEW R, R \subseteq 1..Len(q)
  PROVE  Pick(Append(q, m), R \cup {Len(q) + 1}) = Append(Pick(q, R), m)
<1> DEFINE L == Len(q) + 1
           T == R \cup {L}
           C == Cardinality(R)
<1>1. /\ L \in Nat /\ Len(q) \in Nat
      /\ Append(q, m) \in Seq(S) /\ Len(Append(q, m)) = L
      /\ \A i \in 1..Len(q) : Append(q, m)[i] = q[i]
      /\ Append(q, m)[L] = m
  BY LenProperties, AppendProperties
<1>2. /\ IsFiniteSet(R) /\ C \in Nat
      /\ Pick(q, R) \in Seq(S) /\ Len(Pick(q, R)) = C
      /\ \A n \in 1..C : Pick(q, R)[n] = q[Nth(R, n)] /\ Nth(R, n) \in R
  BY PickType
<1>3. L \notin R /\ T \subseteq 1..L /\ \A i \in R : i \in Nat /\ i < L
  <2>1. ASSUME NEW i \in R PROVE i \in Nat /\ i < L /\ i \in 1..L
    <3>1. i \in 1..Len(q)
      OBVIOUS
    <3> QED
      BY <1>1, <3>1
  <2>2. L \in 1..L /\ ~ (L < L)
    BY <1>1
  <2> QED
    BY <2>1, <2>2
<1>4. Cardinality(T) = C + 1
  BY <1>2, <1>3, FS_AddElement
<1>5. /\ Pick(Append(q, m), T) \in Seq(S)
      /\ Len(Pick(Append(q, m), T)) = C + 1
      /\ \A n \in 1..(C + 1) : Pick(Append(q, m), T)[n] = Append(q, m)[Nth(T, n)]
  <2> DEFINE a == Append(q, m)
  <2>1. a \in Seq(S) /\ T \subseteq 1..Len(a)
    BY <1>1, <1>3
  <2> HIDE DEF T, a
  <2>2. /\ Pick(a, T) \in Seq(S)
        /\ Len(Pick(a, T)) = Cardinality(T)
        /\ \A n \in 1..Cardinality(T) : Pick(a, T)[n] = a[Nth(T, n)]
    BY <2>1, PickType
  <2> QED
    BY <1>4, <2>2 DEF a
<1>6. /\ Append(Pick(q, R), m) \in Seq(S)
      /\ Len(Append(Pick(q, R), m)) = C + 1
      /\ \A n \in 1..C : Append(Pick(q, R), m)[n] = Pick(q, R)[n]
      /\ Append(Pick(q, R), m)[C + 1] = m
  BY <1>2, AppendProperties
<1>7. ASSUME NEW n \in 1..(C + 1), NEW i \in T, Cardinality(Upto(T, i)) = n
      PROVE  i = Nth(T, n)
  <2> HIDE DEF T, L
  <2>1. L \in Nat /\ T \subseteq 1..L /\ n \in 1..Cardinality(T)
    BY <1>1, <1>3, <1>4
  <2> QED
    BY <1>7, <2>1, NthProperties
<1>8. ASSUME NEW n \in 1..C PROVE Nth(T, n) = Nth(R, n)
  <2>1. Nth(R, n) \in R /\ Cardinality(Upto(R, Nth(R, n))) = n
    BY <1>1, NthProperties
  <2>2. Upto(T, Nth(R, n)) = Upto(R, Nth(R, n))
    BY <1>3, <2>1 DEF Upto
  <2>3. n \in 1..(C + 1) /\ Nth(R, n) \in T
    BY <1>2, <2>1
  <2> QED
    BY <1>7, <2>1, <2>2, <2>3
<1>9. Nth(T, C + 1) = L
  <2>1. Upto(T, L) = T
    BY <1>1, <1>3 DEF Upto
  <2>2. C + 1 \in 1..(C + 1) /\ L \in T
    BY <1>2
  <2> HIDE DEF T, L
  <2> QED
    BY <1>4, <1>7, <2>1, <2>2
<1>10. ASSUME NEW n \in 1..(C + 1)
       PROVE  Pick(Append(q, m), T)[n] = Append(Pick(q, R), m)[n]
  <2> HIDE DEF T, L
  <2>1. CASE n = C + 1
    BY <1>1, <1>5, <1>6, <1>9, <2>1
  <2>2. CASE n # C + 1
    <3>1. n \in 1..C
      BY <1>2, <2>2
    <3>2. Pick(Append(q, m), T)[n] = Append(q, m)[Nth(R, n)]
      BY <1>5, <1>8, <3>1
    <3>3. Append(q, m)[Nth(R, n)] = q[Nth(R, n)]
      BY <1>1, <1>2, <3>1
    <3> QED
      BY <1>2, <1>6, <3>1, <3>2, <3>3
  <2> QED
    BY <2>1, <2>2
<1> QED
  <2> HIDE DEF T, L, C
  <2>1. \A n \in 1..Len(Pick(Append(q, m), T)) :
          Pick(Append(q, m), T)[n] = Append(Pick(q, R), m)[n]
    BY <1>5, <1>10
  <2>2. Pick(Append(q, m), T) = Append(Pick(q, R), m)
    BY <1>5, <1>6, <2>1, SeqEqual
  <2> QED
    BY <2>2 DEF T, L

(* Without the first element the positions shift down by one.              *)
LEMMA PickTail ==
  ASSUME NEW S, NEW q \in Seq(S), q # <<>>, NEW R, R \subseteq 1..Len(q),
         NEW T, T = {i \in 1..(Len(q) - 1) : i + 1 \in R}
  PROVE  /\ 1 \notin R => Pick(Tail(q), T) = Pick(q, R)
         /\ 1 \in R => /\ Pick(q, R) # <<>>
                       /\ Head(Pick(q, R)) = Head(q)
                       /\ Pick(Tail(q), T) = Tail(Pick(q, R))
<1> DEFINE C == Cardinality(R)
           D == Cardinality(T)
           s == Pick(q, R)
           t == Pick(Tail(q), T)
           o == IF 1 \in R THEN 1 ELSE 0
<1>1. /\ Len(q) \in Nat \ {0}
      /\ Tail(q) \in Seq(S) /\ Len(Tail(q)) = Len(q) - 1
      /\ \A i \in 1..(Len(q) - 1) : Tail(q)[i] = q[i + 1]
      /\ Head(q) = q[1]
  BY LenProperties, HeadTailProperties, EmptySeq
<1>2. /\ IsFiniteSet(R) /\ C \in Nat /\ D = C - o /\ IsFiniteSet(T)
  <2> DEFINE n == Len(q)
  <2>1. n \in Nat /\ R \subseteq 1..n /\ T = {i \in 1..(n - 1) : i + 1 \in R}
    BY <1>1
  <2> HIDE DEF n
  <2> QED
    BY <2>1, ShiftCard
<1>3. /\ s \in Seq(S) /\ Len(s) = C
      /\ \A n \in 1..C : s[n] = q[Nth(R, n)] /\ Nth(R, n) \in R
      /\ s = <<>> <=> R = {}
  BY PickType
<1>4. T \subseteq 1..(Len(q) - 1) /\ \A i \in T : i \in Nat /\ i + 1 \in R
  BY <1>1
<1>5. /\ t \in Seq(S) /\ Len(t) = D /\ D \in Nat
      /\ \A n \in 1..D : t[n] = Tail(q)[Nth(T, n)] /\ Nth(T, n) \in T
  <2> DEFINE a == Tail(q)
  <2>1. a \in Seq(S) /\ T \subseteq 1..Len(a)
    BY <1>1, <1>4
  <2> HIDE DEF a
  <2>2. /\ Pick(a, T) \in Seq(S) /\ Cardinality(T) \in Nat
        /\ Len(Pick(a, T)) = Cardinality(T)
        /\ \A n \in 1..Cardinality(T) : Pick(a, T)[n] = a[Nth(T, n)] /\ Nth(T, n) \in T
    BY <2>1, PickType
  <2> QED
    BY <2>2 DEF a
(* the rank of a position that is shifted                                  *)
<1>6. ASSUME NEW i \in T
      PROVE  Cardinality(Upto(R, i + 1)) = Cardinality(Upto(T, i)) + o
  <2> DEFINE U == Upto(R, i + 1)
             n == Len(q)
  <2>1. n \in Nat /\ U \subseteq 1..n /\ i \in 1..(n - 1)
    BY <1>1, <1>4 DEF Upto
  <2>2. Upto(T, i) = {j \in 1..(n - 1) : j + 1 \in U}
    <3>1. ASSUME NEW j \in 1..(n - 1) PROVE j <= i <=> j + 1 <= i + 1
      BY <2>1
    <3> QED
      BY <3>1 DEF Upto
  <2>3. 1 \in U <=> 1 \in R
    BY <2>1 DEF Upto
  <2> HIDE DEF U, n
  <2>4. /\ Cardinality({j \in 1..(n - 1) : j + 1 \in U}) =
             Cardinality(U) - (IF 1 \in U THEN 1 ELSE 0)
        /\ Cardinality(U) \in Nat
    BY <2>1, ShiftCard
  <2>5. Cardinality(Upto(T, i)) = Cardinality(U) - o
    BY <2>2, <2>3, <2>4
  <2>6. o \in Int
    OBVIOUS
  <2> HIDE DEF o
  <2> QED
    BY <2>4, <2>5, <2>6 DEF U
<1>7. ASSUME NEW n \in 1..D
      PROVE  /\ t[n] = s[n + o]
             /\ n + o \in 1..C
  <2>1. n + o \in 1..C
    BY <1>2
  <2>2. Nth(T, n) \in T /\ Cardinality(Upto(T, Nth(T, n))) = n
    <3> DEFINE l == Len(q) - 1
    <3>1. l \in Nat /\ T \subseteq 1..l
      BY <1>1, <1>4
    <3> HIDE DEF l
    <3> QED
      BY <3>1, NthProperties
  <2>3. /\ Nth(T, n) + 1 \in R
        /\ Cardinality(Upto(R, Nth(T, n) + 1)) = n + o
    BY <1>4, <1>6, <2>2
  <2>4. Nth(T, n) + 1 = Nth(R, n + o)
    <3> DEFINE l == Len(q)
               k == n + o
               i == Nth(T, n) + 1
    <3>1. l \in Nat /\ R \subseteq 1..l /\ k \in 1..Cardinality(R)
      BY <1>1, <2>1
    <3>2. i \in R /\ Cardinality(Upto(R, i)) = k
      BY <2>3
    <3> HIDE DEF l, k, i
    <3>3. i = Nth(R, k)
      BY <3>1, <3>2, NthProperties
    <3> QED
      BY <3>3 DEF i, k
  <2>5. Tail(q)[Nth(T, n)] = q[Nth(T, n) + 1]
    BY <1>1, <1>4, <2>2
  <2> HIDE DEF s, t, o
  <2> QED
    BY <1>3, <1>5, <2>1, <2>4, <2>5
<1>8. CASE 1 \notin R
  <2>1. D = C /\ \A n \in 1..D : t[n] = s[n]
    <3>1. o = 0
      BY <1>8
    <3>2. \A n \in 1..D : n + 0 = n
      BY <1>5
    <3> HIDE DEF o
    <3> QED
      BY <1>2, <1>7, <3>1, <3>2
  <2> HIDE DEF s, t, C, D
  <2>2. t = s
    BY <1>3, <1>5, <2>1, SeqEqual
  <2> QED
    BY <1>8, <2>2 DEF s, t
<1>9. CASE 1 \in R
  <2>1. s # <<>>
    BY <1>3, <1>9
  <2>2. Head(s) = q[1]
    <3>1. Upto(R, 1) = {1}
      <4>1. ASSUME NEW j \in R, j <= 1 PROVE j = 1
        <5>1. j \in 1..Len(q)
          OBVIOUS
        <5> QED
          BY <1>1, <4>1, <5>1
      <4>2. 1 <= 1
        OBVIOUS
      <4>3. ASSUME NEW j PROVE j \in Upto(R, 1) <=> j = 1
        BY <1>9, <4>1, <4>2 DEF Upto
      <4> QED
        BY <4>3
    <3>2. Cardinality(Upto(R, 1)) = 1
      BY <3>1, FS_Singleton
    <3>3. 1 \in 1..C
      <4>1. Cardinality(R) # 0
        BY <1>2, <1>9, FS_EmptySet
      <4> QED
        BY <1>2, <4>1
    <3>4. Nth(R, 1) = 1
      BY <1>1, <1>9, <3>2, <3>3, NthProperties
    <3>5. s[1] = q[1]
      BY <1>3, <3>3, <3>4
    <3> HIDE DEF s
    <3>6. Head(s) = s[1]
      BY <1>3, <2>1, HeadTailProperties
    <3> QED
      BY <3>5, <3>6
  <2>3. t = Tail(s)
    <3> HIDE DEF s, t, C, D
    <3>1. /\ Tail(s) \in Seq(S) /\ Len(Tail(s)) = C - 1
          /\ \A n \in 1..(C - 1) : Tail(s)[n] = s[n + 1]
      BY <1>3, <2>1, HeadTailProperties
    <3>2. o = 1
      BY <1>9
    <3> HIDE DEF o
    <3>3. Len(t) = Len(Tail(s)) /\ \A n \in 1..Len(t) : t[n] = Tail(s)[n]
      BY <1>2, <1>5, <1>7, <3>1, <3>2
    <3> QED
      BY <1>5, <3>1, <3>3, SeqEqual
  <2> QED
    BY <1>1, <1>9, <2>1, <2>2, <2>3
<1> QED
  BY <1>8, <1>9

-----------------------------------------------------------------------------
(* The elements of q that belong to X, each through f.                     *)
At(q, X) == {i \in 1..Len(q) : q[i] \in X}
Through(q, X, f) == [n \in DOMAIN Pick(q, At(q, X)) |-> f[Pick(q, At(q, X))[n]]]

(* They form a sequence.                                                   *)
ThroughFacts(q, X, T, f) ==
  /\ Pick(q, At(q, X)) \in Seq(X)
  /\ Through(q, X, f) \in Seq(T)
  /\ Len(Through(q, X, f)) = Len(Pick(q, At(q, X)))
  /\ \A n \in 1..Len(Pick(q, At(q, X))) : Through(q, X, f)[n] = f[Pick(q, At(q, X))[n]]

(* What gets through is typed.                                             *)
LEMMA ThroughType ==
  ASSUME NEW S, NEW X, NEW T, NEW f \in [X -> T], NEW q \in Seq(S)
  PROVE  ThroughFacts(q, X, T, f)
<1> DEFINE R == At(q, X)
           s == Pick(q, R)
<1>1. R \subseteq 1..Len(q) /\ \A i \in R : q[i] \in X
  BY DEF At
<1> HIDE DEF R
<1>2. /\ s \in Seq(S) /\ Len(s) = Cardinality(R) /\ Cardinality(R) \in Nat
      /\ \A n \in 1..Len(s) : s[n] = q[Nth(R, n)] /\ Nth(R, n) \in R
  BY <1>1, PickType
<1>3. \A n \in 1..Len(s) : s[n] \in X
  BY <1>1, <1>2
<1> HIDE DEF s
<1>4. s \in [1..Len(s) -> S] /\ Len(s) \in Nat
  BY <1>2, LenProperties
<1>5. s \in [1..Len(s) -> X]
  BY <1>3, <1>4
<1>6. s \in Seq(X)
  BY <1>4, <1>5, SeqDef
<1> DEFINE g == [n \in DOMAIN s |-> f[s[n]]]
<1>7. g \in [1..Len(s) -> T] /\ \A n \in 1..Len(s) : g[n] = f[s[n]]
  BY <1>3, <1>4
<1> HIDE DEF g
<1>8. g \in Seq(T) /\ Len(g) = Len(s)
  <2>1. g \in Seq(T)
    BY <1>4, <1>7, SeqDef
  <2> QED
    BY <1>4, <1>7, <2>1, LenProperties
<1> QED
  BY <1>6, <1>7, <1>8 DEF g, s, R, Through, ThroughFacts

(* What is appended comes out last, if it belongs to X.                    *)
AppendFacts(q, m, X, f) ==
  /\ m \notin X => Through(Append(q, m), X, f) = Through(q, X, f)
  /\ m \in X => Through(Append(q, m), X, f) = Append(Through(q, X, f), f[m])

(* What gets through of a queue to which m is appended.                    *)
LEMMA ThroughAppend ==
  ASSUME NEW S, NEW X, NEW T, NEW f \in [X -> T], NEW q \in Seq(S), NEW m \in S
  PROVE  AppendFacts(q, m, X, f)
<1> DEFINE a == Append(q, m)
           R == At(q, X)
<1>1. /\ Len(q) \in Nat /\ a \in Seq(S) /\ Len(a) = Len(q) + 1
      /\ \A i \in 1..Len(q) : a[i] = q[i]
      /\ a[Len(q) + 1] = m
  BY LenProperties, AppendProperties
<1>2. R \subseteq 1..Len(q)
  BY DEF At
<1>3. CASE m \notin X
  <2>1. At(a, X) = R
    BY <1>1, <1>3 DEF At
  <2>2. Pick(a, R) = Pick(q, R)
    BY <1>2, PickAppendOld
  <2> QED
    BY <1>3, <2>1, <2>2 DEF Through, AppendFacts
<1>4. CASE m \in X
  <2>1. At(a, X) = R \cup {Len(q) + 1}
    BY <1>1, <1>4 DEF At
  <2>2. Pick(a, At(a, X)) = Append(Pick(q, R), m)
    <3> HIDE DEF R
    <3> QED
      BY <1>2, <2>1, PickAppendNew, Zenon
  <2> DEFINE s == Pick(q, R)
             t == Pick(a, At(a, X))
             g == Through(q, X, f)
             h == Through(a, X, f)
  <2>3. /\ s \in Seq(X) /\ g \in Seq(T) /\ Len(g) = Len(s)
        /\ \A n \in 1..Len(s) : g[n] = f[s[n]]
    <3>1. ThroughFacts(q, X, T, f)
      BY ThroughType
    <3> QED
      BY <3>1 DEF ThroughFacts
  <2>4. /\ t \in Seq(X) /\ h \in Seq(T) /\ Len(h) = Len(t)
        /\ \A n \in 1..Len(t) : h[n] = f[t[n]]
    <3>1. ThroughFacts(a, X, T, f)
      BY <1>1, ThroughType
    <3> QED
      BY <3>1 DEF ThroughFacts
  <2>5. t = Append(s, m)
    BY <2>2
  <2> HIDE DEF s, t, g, h
  <2>6. /\ Len(s) \in Nat /\ Len(t) = Len(s) + 1
        /\ \A n \in 1..Len(s) : t[n] = s[n]
        /\ t[Len(s) + 1] = m
    BY <1>4, <2>3, <2>5, LenProperties, AppendProperties
  <2>7. f[m] \in T
    BY <1>4
  <2>8. /\ Append(g, f[m]) \in Seq(T) /\ Len(Append(g, f[m])) = Len(s) + 1
        /\ \A n \in 1..Len(s) : Append(g, f[m])[n] = g[n]
        /\ Append(g, f[m])[Len(s) + 1] = f[m]
    BY <2>3, <2>7, AppendProperties
  <2>9. ASSUME NEW n \in 1..Len(h) PROVE h[n] = Append(g, f[m])[n]
    <3>1. n \in 1..(Len(s) + 1) /\ h[n] = f[t[n]]
      BY <2>4, <2>6
    <3>2. CASE n = Len(s) + 1
      BY <2>6, <2>8, <3>1, <3>2
    <3>3. CASE n # Len(s) + 1
      <4>1. n \in 1..Len(s)
        BY <2>6, <3>1, <3>3
      <4> QED
        BY <2>3, <2>6, <2>8, <3>1, <4>1
    <3> QED
      BY <3>2, <3>3
  <2>10. Len(h) = Len(Append(g, f[m]))
    BY <2>4, <2>6, <2>8
  <2>11. h = Append(g, f[m])
    BY <2>4, <2>8, <2>9, <2>10, SeqEqual
  <2> QED
    BY <1>4, <2>11 DEF g, h, AppendFacts
<1> QED
  BY <1>3, <1>4

(* What is taken from the head comes out first, if it belongs to X.        *)
TailFacts(q, X, f) ==
  /\ Head(q) \notin X => Through(Tail(q), X, f) = Through(q, X, f)
  /\ Head(q) \in X => /\ Through(q, X, f) # <<>>
                      /\ Head(Through(q, X, f)) = f[Head(q)]
                      /\ Through(Tail(q), X, f) = Tail(Through(q, X, f))

(* What gets through of a queue whose head is taken.                       *)
LEMMA ThroughTail ==
  ASSUME NEW S, NEW X, NEW T, NEW f \in [X -> T], NEW q \in Seq(S), q # <<>>
  PROVE  TailFacts(q, X, f)
<1> DEFINE a == Tail(q)
           R == At(q, X)
           s == Pick(q, R)
           t == Pick(a, At(a, X))
           g == Through(q, X, f)
           h == Through(a, X, f)
<1>1. /\ Len(q) \in Nat \ {0}
      /\ a \in Seq(S) /\ Len(a) = Len(q) - 1
      /\ \A i \in 1..(Len(q) - 1) : a[i] = q[i + 1]
      /\ Head(q) = q[1]
  BY LenProperties, HeadTailProperties, EmptySeq
<1>2. R \subseteq 1..Len(q) /\ (1 \in R <=> Head(q) \in X)
  BY <1>1 DEF At
<1>3. At(a, X) = {i \in 1..(Len(q) - 1) : i + 1 \in R}
  BY <1>1 DEF At
<1>4. /\ 1 \notin R => t = s
      /\ 1 \in R => s # <<>> /\ Head(s) = Head(q) /\ t = Tail(s)
  <2> DEFINE U == At(a, X)
  <2>1. U = {i \in 1..(Len(q) - 1) : i + 1 \in R}
    BY <1>3
  <2> HIDE DEF R, U
  <2>2. /\ 1 \notin R => Pick(Tail(q), U) = Pick(q, R)
        /\ 1 \in R => /\ Pick(q, R) # <<>>
                      /\ Head(Pick(q, R)) = Head(q)
                      /\ Pick(Tail(q), U) = Tail(Pick(q, R))
    BY <1>2, <2>1, PickTail
  <2> QED
    BY <2>2 DEF U
<1>5. /\ s \in Seq(X) /\ g \in Seq(T) /\ Len(g) = Len(s)
      /\ \A n \in 1..Len(s) : g[n] = f[s[n]]
  <2>1. ThroughFacts(q, X, T, f)
    BY ThroughType
  <2> QED
    BY <2>1 DEF ThroughFacts
<1>6. /\ t \in Seq(X) /\ h \in Seq(T) /\ Len(h) = Len(t)
      /\ \A n \in 1..Len(t) : h[n] = f[t[n]]
  <2>1. ThroughFacts(a, X, T, f)
    BY <1>1, ThroughType
  <2> QED
    BY <2>1 DEF ThroughFacts
<1>7. CASE Head(q) \notin X
  <2>1. t = s
    BY <1>2, <1>4, <1>7
  <2> HIDE DEF s, t, g, h
  <2>2. h = g
    BY <1>5, <1>6, <2>1, SeqEqual
  <2> QED
    BY <1>7, <2>2 DEF g, h, TailFacts
<1>8. CASE Head(q) \in X
  <2>1. s # <<>> /\ Head(s) = Head(q) /\ t = Tail(s)
    BY <1>2, <1>4, <1>8
  <2> HIDE DEF s, t, g, h, a
  <2>2. /\ Len(s) \in Nat \ {0} /\ Head(s) = s[1] /\ Len(t) = Len(s) - 1
        /\ \A n \in 1..(Len(s) - 1) : t[n] = s[n + 1]
    BY <1>5, <2>1, LenProperties, HeadTailProperties, EmptySeq
  <2>3. g # <<>>
    BY <1>5, <2>2, EmptyLen
  <2>4. /\ Head(g) = g[1] /\ Tail(g) \in Seq(T) /\ Len(Tail(g)) = Len(s) - 1
        /\ \A n \in 1..(Len(s) - 1) : Tail(g)[n] = g[n + 1]
    BY <1>5, <2>3, HeadTailProperties
  <2>5. Head(g) = f[Head(q)]
    BY <1>5, <2>1, <2>2, <2>4
  <2>6. ASSUME NEW n \in 1..Len(h) PROVE h[n] = Tail(g)[n]
    <3>1. n \in 1..(Len(s) - 1) /\ n + 1 \in 1..Len(s) /\ n \in 1..Len(t)
      BY <1>6, <2>2
    <3> QED
      BY <1>5, <1>6, <2>2, <2>4, <3>1
  <2>7. Len(h) = Len(Tail(g))
    BY <1>6, <2>2, <2>4
  <2>8. h = Tail(g)
    BY <1>6, <2>4, <2>6, <2>7, SeqEqual
  <2> QED
    BY <1>8, <2>3, <2>5, <2>8 DEF g, h, a, TailFacts
<1> QED
  BY <1>7, <1>8

-----------------------------------------------------------------------------
(* CVariantMap: a function on some of the keys.                            *)
LEMMA MapsAre ==
  ASSUME NEW f
  PROVE  f \in Maps <=> f \in [DOMAIN f -> AnyValue] /\ DOMAIN f \subseteq Keys
BY DEF Maps

UpSet(k) == {x \in Packets : Carries(x, k)}
UpMap(k) == [pkt \in UpSet(k) |-> pkt.vals[k]]
DownSet(k, B) == {x \in Messages(B) : Carries(x.pkt, k)}
DownMap(k, B) == [m \in DownSet(k, B) |-> [val |-> m.pkt.vals[k], by |-> m.by]]

(* The changes of k in a queue of packets.                                 *)
LEMMA UpThrough ==
  ASSUME NEW k, NEW q \in Seq(Packets)
  PROVE  /\ UpMap(k) \in [UpSet(k) -> AnyValue]
         /\ UpOf(q, k) = Through(q, UpSet(k), UpMap(k))
<1> DEFINE X == UpSet(k)
<1>1. ASSUME NEW x \in X PROVE x.vals[k] \in AnyValue
  BY MapsAre DEF Packets, Carries, UpSet
<1>2. UpMap(k) \in [X -> AnyValue] /\ \A x \in X : UpMap(k)[x] = x.vals[k]
  BY <1>1 DEF UpMap
<1>3. \A i \in 1..Len(q) : q[i] \in Packets
  BY ElementOfSeq
<1>4. At(q, X) = {i \in 1..Len(q) : Carries(q[i], k)}
  BY <1>3 DEF At, UpSet
<1> DEFINE s == Pick(q, At(q, X))
<1> HIDE DEF X
<1>5. s \in Seq(X)
  BY <1>2, ThroughType DEF ThroughFacts
<1>6. \A n \in DOMAIN s : s[n] \in X
  BY <1>5, ElementOfSeq, LenProperties
<1>7. UpOf(q, k) = [n \in DOMAIN s |-> s[n].vals[k]]
  BY <1>4 DEF UpOf
<1> HIDE DEF s
<1>8. [n \in DOMAIN s |-> s[n].vals[k]] = [n \in DOMAIN s |-> UpMap(k)[s[n]]]
  BY <1>2, <1>6
<1>9. UpOf(q, k) = Through(q, X, UpMap(k))
  BY <1>7, <1>8 DEF s, Through
<1> QED
  BY <1>2, <1>9 DEF X

(* The broadcasts of k in a queue of messages.                             *)
LEMMA DownThrough ==
  ASSUME NEW k, NEW B, NEW q \in Seq(Messages(B))
  PROVE  /\ DownMap(k, B) \in [DownSet(k, B) -> Told(AnyValue, B)]
         /\ DownOf(q, k) = Through(q, DownSet(k, B), DownMap(k, B))
<1> DEFINE X == DownSet(k, B)
           D(x) == [val |-> x.pkt.vals[k], by |-> x.by]
<1>1. ASSUME NEW x \in X PROVE D(x) \in Told(AnyValue, B)
  BY MapsAre DEF Packets, Carries, Messages, Told, DownSet
<1>2. DownMap(k, B) \in [X -> Told(AnyValue, B)] /\ \A x \in X : DownMap(k, B)[x] = D(x)
  BY <1>1 DEF DownMap
<1>3. \A i \in 1..Len(q) : q[i] \in Messages(B)
  BY ElementOfSeq
<1>4. At(q, X) = {i \in 1..Len(q) : Carries(q[i].pkt, k)}
  BY <1>3 DEF At, DownSet
<1> DEFINE s == Pick(q, At(q, X))
<1> HIDE DEF X
<1>5. s \in Seq(X)
  BY <1>2, ThroughType DEF ThroughFacts
<1>6. \A n \in DOMAIN s : s[n] \in X
  BY <1>5, ElementOfSeq, LenProperties
<1>7. DownOf(q, k) = [n \in DOMAIN s |-> D(s[n])]
  BY <1>4 DEF DownOf
<1> HIDE DEF s
<1>8. [n \in DOMAIN s |-> D(s[n])] = [n \in DOMAIN s |-> DownMap(k, B)[s[n]]]
  BY <1>2, <1>6
<1>9. DownOf(q, k) = Through(q, X, DownMap(k, B))
  BY <1>7, <1>8 DEF s, Through
<1> QED
  BY <1>2, <1>9 DEF X

(* A packet appended to the queue to the hub.                              *)
LEMMA UpAppend ==
  ASSUME NEW k, NEW q \in Seq(Packets), NEW pkt \in Packets
  PROVE  /\ UpOf(q, k) \in Seq(AnyValue)
         /\ ~ Carries(pkt, k) => UpOf(Append(q, pkt), k) = UpOf(q, k)
         /\ Carries(pkt, k) => UpOf(Append(q, pkt), k) = Append(UpOf(q, k), pkt.vals[k])
<1> DEFINE X == UpSet(k)
<1>1. Append(q, pkt) \in Seq(Packets)
  BY AppendProperties
<1>2. /\ UpMap(k) \in [X -> AnyValue]
      /\ UpOf(q, k) = Through(q, X, UpMap(k))
      /\ UpOf(Append(q, pkt), k) = Through(Append(q, pkt), X, UpMap(k))
  BY <1>1, UpThrough
<1>3. /\ pkt \in X <=> Carries(pkt, k)
      /\ pkt \in X => UpMap(k)[pkt] = pkt.vals[k]
  BY DEF UpMap, UpSet
<1> HIDE DEF X
<1>4. /\ pkt \notin X => Through(Append(q, pkt), X, UpMap(k)) = Through(q, X, UpMap(k))
      /\ pkt \in X => Through(Append(q, pkt), X, UpMap(k)) =
                        Append(Through(q, X, UpMap(k)), UpMap(k)[pkt])
  <2>1. AppendFacts(q, pkt, X, UpMap(k))
    BY <1>2, ThroughAppend
  <2> QED
    BY <2>1 DEF AppendFacts
<1>5. Through(q, X, UpMap(k)) \in Seq(AnyValue)
  BY <1>2, ThroughType DEF ThroughFacts
<1> QED
  BY <1>2, <1>3, <1>4, <1>5

(* The oldest packet taken from the queue to the hub.                      *)
LEMMA UpTail ==
  ASSUME NEW k, NEW q \in Seq(Packets), q # <<>>
  PROVE  /\ ~ Carries(Head(q), k) => UpOf(Tail(q), k) = UpOf(q, k)
         /\ Carries(Head(q), k) => /\ UpOf(q, k) # <<>>
                                   /\ Head(UpOf(q, k)) = Head(q).vals[k]
                                   /\ UpOf(Tail(q), k) = Tail(UpOf(q, k))
<1> DEFINE X == UpSet(k)
<1>1. Tail(q) \in Seq(Packets) /\ Head(q) \in Packets
  BY HeadTailProperties
<1>2. /\ UpMap(k) \in [X -> AnyValue]
      /\ UpOf(q, k) = Through(q, X, UpMap(k))
      /\ UpOf(Tail(q), k) = Through(Tail(q), X, UpMap(k))
  BY <1>1, UpThrough
<1>3. /\ Head(q) \in X <=> Carries(Head(q), k)
      /\ Head(q) \in X => UpMap(k)[Head(q)] = Head(q).vals[k]
  BY <1>1 DEF UpMap, UpSet
<1> HIDE DEF X
<1>4. /\ Head(q) \notin X => Through(Tail(q), X, UpMap(k)) = Through(q, X, UpMap(k))
      /\ Head(q) \in X => /\ Through(q, X, UpMap(k)) # <<>>
                          /\ Head(Through(q, X, UpMap(k))) = UpMap(k)[Head(q)]
                          /\ Through(Tail(q), X, UpMap(k)) = Tail(Through(q, X, UpMap(k)))
  <2>1. TailFacts(q, X, UpMap(k))
    BY <1>2, ThroughTail
  <2> QED
    BY <2>1 DEF TailFacts
<1> QED
  BY <1>2, <1>3, <1>4

(* A message appended to the queue to a client.                            *)
LEMMA DownAppend ==
  ASSUME NEW k, NEW B, NEW q \in Seq(Messages(B)), NEW m \in Messages(B)
  PROVE  /\ DownOf(q, k) \in Seq(Told(AnyValue, B))
         /\ ~ Carries(m.pkt, k) => DownOf(Append(q, m), k) = DownOf(q, k)
         /\ Carries(m.pkt, k) =>
              DownOf(Append(q, m), k) =
                Append(DownOf(q, k), [val |-> m.pkt.vals[k], by |-> m.by])
<1> DEFINE X == DownSet(k, B)
           f == DownMap(k, B)
<1>1. Append(q, m) \in Seq(Messages(B))
  BY AppendProperties
<1>2. /\ f \in [X -> Told(AnyValue, B)]
      /\ DownOf(q, k) = Through(q, X, f)
      /\ DownOf(Append(q, m), k) = Through(Append(q, m), X, f)
  BY <1>1, DownThrough
<1>3. /\ m \in X <=> Carries(m.pkt, k)
      /\ m \in X => f[m] = [val |-> m.pkt.vals[k], by |-> m.by]
  BY DEF DownMap, DownSet
<1> HIDE DEF X, f
<1>4. /\ m \notin X => Through(Append(q, m), X, f) = Through(q, X, f)
      /\ m \in X => Through(Append(q, m), X, f) = Append(Through(q, X, f), f[m])
  <2>1. AppendFacts(q, m, X, f)
    BY <1>2, ThroughAppend
  <2> QED
    BY <2>1 DEF AppendFacts
<1>5. Through(q, X, f) \in Seq(Told(AnyValue, B))
  BY <1>2, ThroughType DEF ThroughFacts
<1> QED
  BY <1>2, <1>3, <1>4, <1>5

(* The oldest message taken from the queue to a client.                    *)
LEMMA DownTail ==
  ASSUME NEW k, NEW B, NEW q \in Seq(Messages(B)), q # <<>>
  PROVE  /\ ~ Carries(Head(q).pkt, k) => DownOf(Tail(q), k) = DownOf(q, k)
         /\ Carries(Head(q).pkt, k) =>
              /\ DownOf(q, k) # <<>>
              /\ Head(DownOf(q, k)) = [val |-> Head(q).pkt.vals[k], by |-> Head(q).by]
              /\ DownOf(Tail(q), k) = Tail(DownOf(q, k))
<1> DEFINE X == DownSet(k, B)
           f == DownMap(k, B)
<1>1. Tail(q) \in Seq(Messages(B)) /\ Head(q) \in Messages(B)
  BY HeadTailProperties
<1>2. /\ f \in [X -> Told(AnyValue, B)]
      /\ DownOf(q, k) = Through(q, X, f)
      /\ DownOf(Tail(q), k) = Through(Tail(q), X, f)
  BY <1>1, DownThrough
<1>3. /\ Head(q) \in X <=> Carries(Head(q).pkt, k)
      /\ Head(q) \in X => f[Head(q)] = [val |-> Head(q).pkt.vals[k], by |-> Head(q).by]
  BY <1>1 DEF DownMap, DownSet
<1> HIDE DEF X, f
<1>4. /\ Head(q) \notin X => Through(Tail(q), X, f) = Through(q, X, f)
      /\ Head(q) \in X => /\ Through(q, X, f) # <<>>
                          /\ Head(Through(q, X, f)) = f[Head(q)]
                          /\ Through(Tail(q), X, f) = Tail(Through(q, X, f))
  <2>1. TailFacts(q, X, f)
    BY <1>2, ThroughTail
  <2> QED
    BY <2>1 DEF TailFacts
<1> QED
  BY <1>2, <1>3, <1>4

(* Empty queues carry nothing.                                             *)
LEMMA NothingThrough == ASSUME NEW k PROVE UpOf(<<>>, k) = <<>> /\ DownOf(<<>>, k) = <<>>
<1>1. ASSUME NEW R, R = {} PROVE Pick(<<>>, R) = <<>>
  <2>1. <<>> \in Seq({}) /\ R \subseteq 1..Len(<<>>)
    BY <1>1, EmptySeq
  <2> QED
    BY <1>1, <2>1, PickType
<1>2. /\ {i \in 1..Len(<<>>) : Carries(<<>>[i], k)} = {}
      /\ {i \in 1..Len(<<>>) : Carries(<<>>[i].pkt, k)} = {}
  OBVIOUS
<1>3. /\ Pick(<<>>, {i \in 1..Len(<<>>) : Carries(<<>>[i], k)}) = <<>>
      /\ Pick(<<>>, {i \in 1..Len(<<>>) : Carries(<<>>[i].pkt, k)}) = <<>>
  BY <1>1, <1>2
<1> QED
  BY <1>3 DEF UpOf, DownOf

(* The types of what a queue carries of key k.                             *)
LEMMA UpType == ASSUME NEW k, NEW q \in Seq(Packets) PROVE UpOf(q, k) \in Seq(AnyValue)
<1>1. /\ UpMap(k) \in [UpSet(k) -> AnyValue]
      /\ UpOf(q, k) = Through(q, UpSet(k), UpMap(k))
  BY UpThrough
<1> DEFINE X == UpSet(k)
           f == UpMap(k)
<1>2. f \in [X -> AnyValue]
  BY <1>1
<1> HIDE DEF X, f
<1>3. ThroughFacts(q, X, AnyValue, f)
  BY <1>2, ThroughType
<1>4. Through(q, X, f) \in Seq(AnyValue)
  BY <1>3 DEF ThroughFacts
<1> QED
  BY <1>1, <1>4 DEF X, f

(* A queue of messages, seen through one key, is one of broadcasts.        *)
LEMMA DownType ==
  ASSUME NEW k, NEW B, NEW q \in Seq(Messages(B))
  PROVE  DownOf(q, k) \in Seq(Told(AnyValue, B))
<1>1. /\ DownMap(k, B) \in [DownSet(k, B) -> Told(AnyValue, B)]
      /\ DownOf(q, k) = Through(q, DownSet(k, B), DownMap(k, B))
  BY DownThrough
<1> DEFINE X == DownSet(k, B)
           f == DownMap(k, B)
           V == Told(AnyValue, B)
<1>2. f \in [X -> V]
  BY <1>1
<1> HIDE DEF X, f, V
<1>3. ThroughFacts(q, X, V, f)
  BY <1>2, ThroughType
<1>4. Through(q, X, f) \in Seq(V)
  BY <1>3 DEF ThroughFacts
<1> QED
  BY <1>1, <1>4 DEF X, f, V

-----------------------------------------------------------------------------
(* The types, with counters that could be negative: that they are not is   *)
(* shown last.                                                             *)
PageEl == [made : BOOLEAN, val : AnyValue, saved : BOOLEAN, pending : Int]
CacheEl == [val : AnyValue, saved : BOOLEAN, pending : Int]
PageMsgs == Messages(Pages \cup {Nobody})
Reasons == {"write failed", "overtaken"}

States ==
  [page : [Pages -> [Keys -> PageEl]], cache : [Procs -> [Keys -> CacheEl]],
   toCache : [Pages -> Seq(Packets)], toPage : [Pages -> Seq(PageMsgs)],
   toCore : [Guis -> Seq(Packets)], toProc : [Guis -> Seq(Messages(Procs))],
   disk : [Keys -> AnyValue], blame : [Keys -> SUBSET Reasons]]

(* What setValuesFromCache leaves alone, and what it does to an element.   *)
LEMMA FromCacheType ==
  ASSUME NEW p \in Pages, NEW el \in [Keys -> PageEl], NEW m \in PageMsgs
  PROVE  /\ FromCache(el, p, m) \in [Keys -> PageEl]
         /\ \A k \in Keys : FromCache(el, p, m)[k].made = el[k].made
         /\ \A k \in Keys : k \notin DOMAIN m.pkt.vals => FromCache(el, p, m)[k] = el[k]
<1>1. ASSUME NEW k \in Keys, k \in DOMAIN m.pkt.vals PROVE m.pkt.vals[k] \in AnyValue
  BY <1>1, MapsAre DEF PageMsgs, Messages, Packets
<1>2. m.pkt.saved \in BOOLEAN
  BY DEF PageMsgs, Messages, Packets
<1>3. ASSUME NEW k \in Keys
      PROVE  /\ FromCache(el, p, m)[k] \in PageEl
             /\ FromCache(el, p, m)[k].made = el[k].made
             /\ k \notin DOMAIN m.pkt.vals => FromCache(el, p, m)[k] = el[k]
  <2>1. CASE ~ el[k].made \/ k \notin DOMAIN m.pkt.vals
    <3>1. FromCache(el, p, m)[k] = el[k]
      BY <2>1 DEF FromCache
    <3> QED
      BY <3>1
  <2>2. CASE el[k].made /\ k \in DOMAIN m.pkt.vals /\ m.by = p
    <3>1. FromCache(el, p, m)[k] = [el[k] EXCEPT !.pending = @ - 1]
      BY <2>2 DEF FromCache
    <3>2. el[k] \in PageEl
      OBVIOUS
    <3>3. [el[k] EXCEPT !.pending = @ - 1] \in PageEl
      BY <3>2 DEF PageEl
    <3>4. [el[k] EXCEPT !.pending = @ - 1].made = el[k].made
      BY <3>2 DEF PageEl
    <3> QED
      BY <2>2, <3>1, <3>3, <3>4
  <2>3. CASE el[k].made /\ k \in DOMAIN m.pkt.vals /\ m.by # p
    <3>1. \/ FromCache(el, p, m)[k] = el[k]
          \/ FromCache(el, p, m)[k] = [el[k] EXCEPT !.val = m.pkt.vals[k],
                                                    !.saved = m.pkt.saved]
      BY <2>3 DEF FromCache
    <3> QED
      BY <1>1, <1>2, <2>3, <3>1 DEF PageEl
  <2> QED
    BY <2>1, <2>2, <2>3
<1>4. FromCache(el, p, m) = [k \in Keys |-> FromCache(el, p, m)[k]]
  BY DEF FromCache
<1> QED
  BY <1>3, <1>4

(* What emitting valuesChanged does to the pages of r.                     *)
PagesAfter(S, T, r, pkt, by) ==
  /\ \A p \in Pages : T.page[p] = IF p \in PagesOf(r) \cap MainPages
                                  THEN FromCache(S.page[p], p, [pkt |-> pkt, by |-> by])
                                  ELSE S.page[p]
  /\ \A p \in Pages : T.toPage[p] = IF p \in PagesOf(r) \ MainPages
                                    THEN Append(S.toPage[p], [pkt |-> pkt, by |-> by])
                                    ELSE S.toPage[p]

(* Emitting valuesChanged does this, and nothing else.                     *)
LEMMA EmitEffect ==
  ASSUME NEW S \in States, NEW r \in Procs, NEW pkt \in Packets,
         NEW by \in Pages \cup {Nobody}, NEW T, T = EmitValuesChanged(S, r, pkt, by)
  PROVE  /\ T \in States
         /\ T.cache = S.cache /\ T.toCache = S.toCache /\ T.toCore = S.toCore
         /\ T.toProc = S.toProc /\ T.disk = S.disk /\ T.blame = S.blame
         /\ PagesAfter(S, T, r, pkt, by)
<1> DEFINE m == [pkt |-> pkt, by |-> by]
           P == [p \in Pages |-> IF p \in PagesOf(r) \cap MainPages
                                 THEN FromCache(S.page[p], p, m) ELSE S.page[p]]
           Q == [p \in Pages |-> IF p \in PagesOf(r) \ MainPages
                                 THEN Append(S.toPage[p], m) ELSE S.toPage[p]]
<1>1. m \in PageMsgs
  BY DEF PageMsgs, Messages
<1>2. T = [S EXCEPT !.page = P, !.toPage = Q]
  BY DEF EmitValuesChanged
<1>3. S.page \in [Pages -> [Keys -> PageEl]] /\ S.toPage \in [Pages -> Seq(PageMsgs)]
  BY DEF States
<1> HIDE DEF m
<1>4. P \in [Pages -> [Keys -> PageEl]]
  BY <1>1, <1>3, FromCacheType
<1>5. Q \in [Pages -> Seq(PageMsgs)]
  BY <1>1, <1>3, AppendProperties
<1>6. /\ \A p \in Pages : P[p] = IF p \in PagesOf(r) \cap MainPages
                                 THEN FromCache(S.page[p], p, m) ELSE S.page[p]
      /\ \A p \in Pages : Q[p] = IF p \in PagesOf(r) \ MainPages
                                 THEN Append(S.toPage[p], m) ELSE S.toPage[p]
  OBVIOUS
<1> HIDE DEF P, Q
<1>7. /\ T \in States
      /\ T.cache = S.cache /\ T.toCache = S.toCache /\ T.toCore = S.toCore
      /\ T.toProc = S.toProc /\ T.disk = S.disk /\ T.blame = S.blame
      /\ T.page = P /\ T.toPage = Q
  BY <1>2, <1>4, <1>5 DEF States
<1> QED
  BY <1>6, <1>7 DEF PagesAfter, m

(* What saving does.                                                       *)
LEMMA SaveEffect ==
  ASSUME NEW S \in States, NEW r \in Procs, NEW vals \in Maps, NEW ok,
         NEW T, T = SaveRequested(S, r, vals, ok)
  PROVE  /\ T \in States
         /\ T.page = S.page /\ T.cache = S.cache
         /\ T.toCache = S.toCache /\ T.toPage = S.toPage
         /\ T.toCore = S.toCore /\ T.toProc = S.toProc
<1>1. CASE r # Core
  BY <1>1 DEF SaveRequested
<1>2. CASE r = Core
  <2> DEFINE D == [k \in Keys |-> IF k \in ok \cap DOMAIN vals THEN vals[k] ELSE S.disk[k]]
             B == [k \in Keys |->
                       IF k \notin DOMAIN vals THEN S.blame[k]
                       ELSE IF k \notin ok THEN S.blame[k] \cup {"write failed"}
                       ELSE IF vals[k] = S.cache[Core][k].val THEN {}
                       ELSE S.blame[k] \cup {"overtaken"}]
  <2>1. T = [S EXCEPT !.disk = D, !.blame = B]
    BY <1>2 DEF SaveRequested
  <2>2. D \in [Keys -> AnyValue]
    BY MapsAre DEF States
  <2>3. B \in [Keys -> SUBSET Reasons]
    <3>1. \A k \in Keys : S.blame[k] \in SUBSET Reasons
      BY DEF States
    <3>2. "write failed" \in Reasons /\ "overtaken" \in Reasons
      BY DEF Reasons
    <3> QED
      BY <3>1, <3>2
  <2> HIDE DEF D, B
  <2> QED
    BY <2>1, <2>2, <2>3 DEF States
<1> QED
  BY <1>1, <1>2

-----------------------------------------------------------------------------
(* The packet with which changeValuesFromRemote tells the pages.           *)
News(c, r, pkt, origin) ==
  Packet([k \in Ratified(c, r, pkt, origin) |-> pkt.vals[k]], pkt.saved, TRUE)

(* What changeValuesFromRemote does, but for saving.                       *)
RemoteEffect(S, T, r, pkt, origin) ==
  /\ T \in States
  /\ T.toCache = S.toCache /\ T.toCore = S.toCore /\ T.toProc = S.toProc
  /\ \A g \in Procs \ {r} : T.cache[g] = S.cache[g]
  /\ \A k \in Keys : T.cache[r][k].val =
       IF Carries(pkt, k) /\ origin # r /\ S.cache[r][k].pending = 0
       THEN pkt.vals[k] ELSE S.cache[r][k].val
  /\ \A k \in Keys : T.cache[r][k].pending =
       IF Carries(pkt, k) /\ origin = r THEN S.cache[r][k].pending - 1
       ELSE S.cache[r][k].pending
  /\ IF pkt.changed /\ Ratified(S.cache[r], r, pkt, origin) # {}
     THEN PagesAfter(S, T, r, News(S.cache[r], r, pkt, origin), Nobody)
     ELSE T.page = S.page /\ T.toPage = S.toPage

(* The news is a packet.                                                   *)
LEMMA NewsType ==
  ASSUME NEW pkt \in Packets, NEW c, NEW r, NEW origin
  PROVE  /\ News(c, r, pkt, origin) \in Packets
         /\ News(c, r, pkt, origin).changed
         /\ News(c, r, pkt, origin).saved = pkt.saved
         /\ DOMAIN News(c, r, pkt, origin).vals = Ratified(c, r, pkt, origin)
         /\ \A k \in Ratified(c, r, pkt, origin) :
              News(c, r, pkt, origin).vals[k] = pkt.vals[k]
<1> DEFINE R == Ratified(c, r, pkt, origin)
           f == [k \in R |-> pkt.vals[k]]
<1>1. pkt.vals \in Maps /\ pkt.saved \in BOOLEAN
  BY DEF Packets
<1>2. R \subseteq DOMAIN pkt.vals
  BY DEF Ratified
<1> HIDE DEF R
<1>3. \A k \in R : pkt.vals[k] \in AnyValue /\ k \in Keys
  BY <1>1, <1>2, MapsAre
<1>4. f \in [R -> AnyValue] /\ DOMAIN f = R /\ R \subseteq Keys
  BY <1>3
<1>5. f \in Maps
  BY <1>4, MapsAre
<1>6. \A k \in R : f[k] = pkt.vals[k]
  OBVIOUS
<1>7. News(c, r, pkt, origin) = [vals |-> f, saved |-> pkt.saved, changed |-> TRUE]
  BY DEF News, Packet, R
<1> HIDE DEF f
<1> QED
  BY <1>1, <1>4, <1>5, <1>6, <1>7 DEF Packets, R

(* changeValuesFromRemote does what RemoteEffect says.                     *)
LEMMA RemoteEffectHolds ==
  ASSUME NEW S \in States, NEW r \in Procs, NEW pkt \in Packets, NEW origin, NEW ok,
         NEW T, T = ChangeValuesFromRemote(S, r, pkt, origin, ok)
  PROVE  RemoteEffect(S, T, r, pkt, origin)
<1> DEFINE c == S.cache[r]
           R == Ratified(c, r, pkt, origin)
           d == [k \in Keys |->
                     IF k \in DOMAIN pkt.vals /\ origin = r
                     THEN [c[k] EXCEPT !.pending = @ - 1]
                     ELSE IF k \in R
                     THEN [c[k] EXCEPT !.val = pkt.vals[k], !.saved = pkt.saved]
                     ELSE c[k]]
           A == [S EXCEPT !.cache[r] = d]
           N == News(c, r, pkt, origin)
           V(X, vals) == IF pkt.saved THEN SaveRequested(X, r, vals, ok) ELSE X
<1>1. /\ pkt.vals \in Maps /\ pkt.saved \in BOOLEAN /\ DOMAIN pkt.vals \subseteq Keys
      /\ \A k \in DOMAIN pkt.vals : pkt.vals[k] \in AnyValue
  BY MapsAre DEF Packets
<1>2. c \in [Keys -> CacheEl] /\ S.cache \in [Procs -> [Keys -> CacheEl]]
  BY DEF States
<1>3. R = {k \in DOMAIN pkt.vals : origin # r /\ c[k].pending = 0}
  BY DEF Ratified
<1>4. N \in Packets /\ N.vals \in Maps
  BY NewsType DEF Packets
<1>5. T = IF DOMAIN pkt.vals = {} THEN S
          ELSE IF ~ pkt.changed THEN V(S, pkt.vals)
          ELSE IF origin = r THEN V(A, pkt.vals)
          ELSE IF R = {} THEN A
          ELSE EmitValuesChanged(V(A, N.vals), r, N, Nobody)
  BY DEF ChangeValuesFromRemote, News
<1> HIDE DEF c, R, N
(* the cache                                                               *)
<1>6. ASSUME NEW k \in Keys
      PROVE  /\ d[k] \in CacheEl
             /\ d[k].val = IF k \in DOMAIN pkt.vals /\ origin # r /\ c[k].pending = 0
                           THEN pkt.vals[k] ELSE c[k].val
             /\ d[k].pending = IF k \in DOMAIN pkt.vals /\ origin = r
                               THEN c[k].pending - 1 ELSE c[k].pending
  <2>1. c[k] \in CacheEl
    BY <1>2
  <2>2. CASE k \in DOMAIN pkt.vals /\ origin = r
    BY <2>1, <2>2 DEF CacheEl
  <2>3. CASE k \in R
    <3>1. k \in DOMAIN pkt.vals /\ origin # r /\ c[k].pending = 0
      BY <1>3, <2>3
    <3> QED
      BY <1>1, <2>1, <2>3, <3>1 DEF CacheEl
  <2>4. CASE ~ (k \in DOMAIN pkt.vals /\ origin = r) /\ k \notin R
    BY <1>3, <2>1, <2>4 DEF CacheEl
  <2> QED
    BY <2>2, <2>3, <2>4
<1>7. d \in [Keys -> CacheEl]
  BY <1>6
<1> HIDE DEF d
<1>8. /\ A \in States
      /\ A.page = S.page /\ A.toPage = S.toPage /\ A.toCache = S.toCache
      /\ A.toCore = S.toCore /\ A.toProc = S.toProc
      /\ A.cache[r] = d /\ \A g \in Procs \ {r} : A.cache[g] = S.cache[g]
  BY <1>2, <1>7 DEF States
<1> HIDE DEF A
(* saving                                                                  *)
<1>9. ASSUME NEW X \in States, NEW vals \in Maps
      PROVE  /\ V(X, vals) \in States
             /\ V(X, vals).page = X.page /\ V(X, vals).cache = X.cache
             /\ V(X, vals).toCache = X.toCache /\ V(X, vals).toPage = X.toPage
             /\ V(X, vals).toCore = X.toCore /\ V(X, vals).toProc = X.toProc
  BY SaveEffect
<1> HIDE DEF V
<1>10. CASE DOMAIN pkt.vals = {}
  <2>1. T = S /\ R = {} /\ \A k \in Keys : ~ Carries(pkt, k)
    BY <1>3, <1>5, <1>10 DEF Carries
  <2> QED
    BY <2>1 DEF RemoteEffect, R, c
<1>11. CASE DOMAIN pkt.vals # {} /\ ~ pkt.changed
  <2>1. T = V(S, pkt.vals) /\ \A k \in Keys : ~ Carries(pkt, k)
    BY <1>5, <1>11 DEF Carries
  <2>2. /\ T \in States
        /\ T.page = S.page /\ T.cache = S.cache
        /\ T.toCache = S.toCache /\ T.toPage = S.toPage
        /\ T.toCore = S.toCore /\ T.toProc = S.toProc
    BY <1>1, <1>9, <2>1
  <2> QED
    BY <1>11, <2>1, <2>2 DEF RemoteEffect
<1>12. CASE DOMAIN pkt.vals # {} /\ pkt.changed /\ origin = r
  <2>1. T = V(A, pkt.vals) /\ R = {} /\ \A k \in Keys : Carries(pkt, k) <=> k \in DOMAIN pkt.vals
    BY <1>3, <1>5, <1>12 DEF Carries
  <2>2. /\ T \in States
        /\ T.page = S.page /\ T.cache = A.cache
        /\ T.toCache = S.toCache /\ T.toPage = S.toPage
        /\ T.toCore = S.toCore /\ T.toProc = S.toProc
    BY <1>1, <1>8, <1>9, <2>1
  <2> QED
    BY <1>6, <1>8, <1>12, <2>1, <2>2 DEF RemoteEffect, c, R
<1>13. CASE DOMAIN pkt.vals # {} /\ pkt.changed /\ origin # r /\ R = {}
  <2>1. T = A /\ \A k \in Keys : Carries(pkt, k) <=> k \in DOMAIN pkt.vals
    BY <1>5, <1>13 DEF Carries
  <2> QED
    BY <1>6, <1>8, <1>13, <2>1 DEF RemoteEffect, c, R
<1>14. CASE DOMAIN pkt.vals # {} /\ pkt.changed /\ origin # r /\ R # {}
  <2> DEFINE X == V(A, N.vals)
  <2>1. T = EmitValuesChanged(X, r, N, Nobody)
        /\ \A k \in Keys : Carries(pkt, k) <=> k \in DOMAIN pkt.vals
    BY <1>5, <1>14 DEF Carries
  <2>2. /\ X \in States
        /\ X.page = S.page /\ X.cache = A.cache
        /\ X.toCache = S.toCache /\ X.toPage = S.toPage
        /\ X.toCore = S.toCore /\ X.toProc = S.toProc
    BY <1>4, <1>8, <1>9
  <2> HIDE DEF X
  <2>3. /\ T \in States
        /\ T.cache = X.cache /\ T.toCache = X.toCache /\ T.toCore = X.toCore
        /\ T.toProc = X.toProc
        /\ PagesAfter(X, T, r, N, Nobody)
    BY <1>4, <2>1, <2>2, EmitEffect
  <2>4. PagesAfter(S, T, r, N, Nobody)
    BY <2>2, <2>3 DEF PagesAfter
  <2> QED
    BY <1>6, <1>8, <1>14, <2>1, <2>2, <2>3, <2>4 DEF RemoteEffect, c, R, N
<1> QED
  BY <1>10, <1>11, <1>12, <1>13, <1>14

-----------------------------------------------------------------------------
(* What changeValues does for a packet that is not empty.                  *)
ChangeEffect(S, T, r, pkt, by) ==
  /\ T \in States /\ T.toCache = S.toCache
  /\ \A g \in Procs \ {r} : T.cache[g] = S.cache[g]
  /\ \A k \in Keys : T.cache[r][k].val =
       IF Carries(pkt, k) THEN pkt.vals[k] ELSE S.cache[r][k].val
  /\ \A k \in Keys : T.cache[r][k].pending =
       IF Carries(pkt, k) /\ r # Core THEN S.cache[r][k].pending + 1
       ELSE S.cache[r][k].pending
  /\ IF pkt.changed THEN PagesAfter(S, T, r, pkt, by)
     ELSE T.page = S.page /\ T.toPage = S.toPage
  /\ T.toCore = IF r = Core THEN S.toCore
                ELSE [S.toCore EXCEPT ![r] = Append(@, pkt)]
  /\ T.toProc = IF r # Core THEN S.toProc
                ELSE [g \in Guis |-> Append(S.toProc[g], [pkt |-> pkt, by |-> Core])]

(* Telling every process appends the packet to every DBus connection.      *)
LEMMA TellEffect ==
  ASSUME NEW S \in States, NEW pkt \in Packets, NEW origin \in Procs, NEW ok,
         NEW T, T = ChangeSettings(S, pkt, origin, ok)
  PROVE  /\ T \in States
         /\ T.toProc = [g \in Guis |-> Append(S.toProc[g], [pkt |-> pkt, by |-> origin])]
         /\ \E U : /\ U = ChangeValuesFromRemote(S, Core, pkt, origin, ok)
                   /\ RemoteEffect(S, U, Core, pkt, origin)
                   /\ T.page = U.page /\ T.cache = U.cache /\ T.toCache = U.toCache
                   /\ T.toPage = U.toPage /\ T.toCore = U.toCore
                   /\ T.disk = U.disk /\ T.blame = U.blame
<1> DEFINE U == ChangeValuesFromRemote(S, Core, pkt, origin, ok)
           Q == [g \in Guis |-> Append(U.toProc[g], [pkt |-> pkt, by |-> origin])]
<1>1. T = [U EXCEPT !.toProc = Q]
  BY DEF ChangeSettings
<1>2. RemoteEffect(S, U, Core, pkt, origin)
  BY RemoteEffectHolds, CacheAssumption
<1>3. U \in States /\ U.toProc = S.toProc
  BY <1>2 DEF RemoteEffect
<1> HIDE DEF U
<1>4. Q \in [Guis -> Seq(Messages(Procs))]
  <2>1. [pkt |-> pkt, by |-> origin] \in Messages(Procs)
    BY DEF Messages
  <2>2. U.toProc \in [Guis -> Seq(Messages(Procs))]
    BY <1>3 DEF States
  <2> QED
    BY <2>1, <2>2, AppendProperties
<1>5. Q = [g \in Guis |-> Append(S.toProc[g], [pkt |-> pkt, by |-> origin])]
  BY <1>3
<1> HIDE DEF Q
<1>6. /\ T \in States /\ T.toProc = Q
      /\ T.page = U.page /\ T.cache = U.cache /\ T.toCache = U.toCache
      /\ T.toPage = U.toPage /\ T.toCore = U.toCore
      /\ T.disk = U.disk /\ T.blame = U.blame
  BY <1>1, <1>3, <1>4 DEF States
<1> QED
  BY <1>2, <1>5, <1>6 DEF U

(* changeValues does what ChangeEffect says.                               *)
LEMMA ChangeEffectHolds ==
  ASSUME NEW S \in States, NEW r \in Procs, NEW pkt \in Packets,
         NEW by \in Pages \cup {Nobody}, NEW ok, DOMAIN pkt.vals # {},
         NEW T, T = ChangeValues(S, r, pkt, by, ok)
  PROVE  ChangeEffect(S, T, r, pkt, by)
<1> DEFINE d == [k \in Keys |-> IF k \in DOMAIN pkt.vals
                                THEN Taken(S.cache[r][k], pkt.vals[k], pkt)
                                ELSE S.cache[r][k]]
           A == [S EXCEPT !.cache[r] = d]
           B == IF pkt.changed THEN EmitValuesChanged(A, r, pkt, by) ELSE A
<1>1. /\ pkt.vals \in Maps /\ pkt.saved \in BOOLEAN /\ DOMAIN pkt.vals \subseteq Keys
      /\ \A k \in DOMAIN pkt.vals : pkt.vals[k] \in AnyValue
  BY MapsAre DEF Packets
<1>2. S.cache[r] \in [Keys -> CacheEl] /\ S.cache \in [Procs -> [Keys -> CacheEl]]
  BY DEF States
<1>3. T = IF r = Core THEN ChangeSettings(B, pkt, Core, ok)
          ELSE [B EXCEPT !.toCore[r] = Append(@, pkt)]
  BY <1>2 DEF ChangeValues, States
<1>4. ASSUME NEW k \in Keys
      PROVE  /\ d[k] \in CacheEl
             /\ d[k].val = IF Carries(pkt, k) THEN pkt.vals[k] ELSE S.cache[r][k].val
             /\ d[k].pending = IF Carries(pkt, k) THEN S.cache[r][k].pending + 1
                               ELSE S.cache[r][k].pending
  <2>1. S.cache[r][k] \in CacheEl
    BY <1>2
  <2>2. CASE Carries(pkt, k)
    BY <1>1, <2>1, <2>2 DEF Carries, Taken, CacheEl
  <2>3. CASE ~ Carries(pkt, k)
    BY <1>1, <2>1, <2>3 DEF Carries, Taken, CacheEl
  <2> QED
    BY <2>2, <2>3
<1>5. d \in [Keys -> CacheEl]
  BY <1>4
<1> HIDE DEF d
<1>6. /\ A \in States
      /\ A.page = S.page /\ A.toPage = S.toPage /\ A.toCache = S.toCache
      /\ A.toCore = S.toCore /\ A.toProc = S.toProc
      /\ A.cache[r] = d /\ \A g \in Procs \ {r} : A.cache[g] = S.cache[g]
  BY <1>2, <1>5 DEF States
<1> HIDE DEF A
<1>7. /\ B \in States /\ B.cache = A.cache
      /\ B.toCache = S.toCache /\ B.toCore = S.toCore /\ B.toProc = S.toProc
      /\ IF pkt.changed THEN PagesAfter(S, B, r, pkt, by)
         ELSE B.page = S.page /\ B.toPage = S.toPage
  <2>1. CASE ~ pkt.changed
    BY <1>6, <2>1
  <2>2. CASE pkt.changed
    <3>1. B = EmitValuesChanged(A, r, pkt, by)
      BY <2>2
    <3> HIDE DEF B
    <3>2. /\ B \in States
          /\ B.cache = A.cache /\ B.toCache = A.toCache /\ B.toCore = A.toCore
          /\ B.toProc = A.toProc
          /\ PagesAfter(A, B, r, pkt, by)
      BY <1>6, <3>1, EmitEffect
    <3>3. PagesAfter(S, B, r, pkt, by)
      BY <1>6, <3>2 DEF PagesAfter
    <3> QED
      BY <1>6, <2>2, <3>2, <3>3
  <2> QED
    BY <2>1, <2>2
<1> HIDE DEF B
<1>8. CASE r # Core
  <2>1. B.toCore \in [Guis -> Seq(Packets)] /\ r \in Guis
    BY <1>7, <1>8 DEF States, Guis
  <2>2. Append(B.toCore[r], pkt) \in Seq(Packets)
    BY <2>1, AppendProperties
  <2> DEFINE Q == [B.toCore EXCEPT ![r] = Append(B.toCore[r], pkt)]
  <2>3. Q \in [Guis -> Seq(Packets)]
    BY <2>1, <2>2
  <2>4. T = [B EXCEPT !.toCore = Q]
    BY <1>3, <1>7, <1>8 DEF States
  <2>5. Q = [S.toCore EXCEPT ![r] = Append(@, pkt)]
    BY <1>7
  <2> HIDE DEF Q
  <2>6. /\ T \in States /\ T.toCore = Q /\ T.toProc = B.toProc
        /\ T.cache = B.cache /\ T.page = B.page
        /\ T.toCache = B.toCache /\ T.toPage = B.toPage
    BY <1>7, <2>3, <2>4 DEF States
  <2>7. IF pkt.changed THEN PagesAfter(S, T, r, pkt, by)
        ELSE T.page = S.page /\ T.toPage = S.toPage
    BY <1>7, <2>6 DEF PagesAfter
  <2> QED
    BY <1>4, <1>6, <1>7, <1>8, <2>5, <2>6, <2>7 DEF ChangeEffect
<1>9. CASE r = Core
  <2>1. T = ChangeSettings(B, pkt, Core, ok) /\ Core \in Procs
    BY <1>3, <1>9, CacheAssumption
  <2>2. /\ T \in States
        /\ T.toProc = [g \in Guis |-> Append(B.toProc[g], [pkt |-> pkt, by |-> Core])]
        /\ \E U : /\ U = ChangeValuesFromRemote(B, Core, pkt, Core, ok)
                  /\ RemoteEffect(B, U, Core, pkt, Core)
                  /\ T.page = U.page /\ T.cache = U.cache /\ T.toCache = U.toCache
                  /\ T.toPage = U.toPage /\ T.toCore = U.toCore
                  /\ T.disk = U.disk /\ T.blame = U.blame
    BY <1>7, <2>1, TellEffect
  <2>3. PICK U : /\ RemoteEffect(B, U, Core, pkt, Core)
                 /\ T.page = U.page /\ T.cache = U.cache /\ T.toCache = U.toCache
                 /\ T.toPage = U.toPage /\ T.toCore = U.toCore
    BY <2>2
  <2>4. Ratified(B.cache[Core], Core, pkt, Core) = {}
    BY DEF Ratified
  <2>5. /\ U.toCache = B.toCache /\ U.toCore = B.toCore
        /\ \A g \in Procs \ {Core} : U.cache[g] = B.cache[g]
        /\ \A k \in Keys : U.cache[Core][k].val = B.cache[Core][k].val
        /\ \A k \in Keys : U.cache[Core][k].pending =
             IF Carries(pkt, k) THEN B.cache[Core][k].pending - 1
             ELSE B.cache[Core][k].pending
        /\ U.page = B.page /\ U.toPage = B.toPage
    BY <2>3, <2>4 DEF RemoteEffect
  <2>6. ASSUME NEW k \in Keys
        PROVE  /\ T.cache[Core][k].val =
                    IF Carries(pkt, k) THEN pkt.vals[k] ELSE S.cache[Core][k].val
               /\ T.cache[Core][k].pending = S.cache[Core][k].pending
    <3>1. S.cache[Core][k].pending \in Int
      BY <1>2, <1>9 DEF CacheEl
    <3> QED
      BY <1>4, <1>6, <1>7, <1>9, <2>3, <2>5, <3>1
  <2>7. IF pkt.changed THEN PagesAfter(S, T, r, pkt, by)
        ELSE T.page = S.page /\ T.toPage = S.toPage
    BY <1>7, <2>3, <2>5 DEF PagesAfter
  <2> QED
    BY <1>6, <1>7, <1>9, <2>2, <2>3, <2>5, <2>6, <2>7 DEF ChangeEffect
<1> QED
  BY <1>8, <1>9

-----------------------------------------------------------------------------
(* Packets of keys that exist in a page with the elements el, and messages *)
(* to page p.                                                              *)
MadePackets(el) == {pkt \in Packets : \A k \in DOMAIN pkt.vals : el[k].made}
PageMessages(p, el) ==
  {m \in Messages(PagesOf(Home[p]) \cup {Nobody}) :
     m.pkt.changed /\ (m.by = p => m.pkt \in MadePackets(el))}

(***************************************************************************)
(* How pages, caches and queues are wired: nothing is queued for a page of *)
(* the main thread, none of its changes is ever pending, nor one of the    *)
(* core's, and a page sends only what it has.  While page x of the main    *)
(* thread is at it, its changes of the keys K are pending.                 *)
(***************************************************************************)
WiredBut(S, x, K) ==
  /\ \A p \in MainPages : S.toCache[p] = <<>> /\ S.toPage[p] = <<>>
  /\ \A p \in MainPages, k \in Keys :
       S.page[p][k].pending = IF p = x /\ k \in K THEN 1 ELSE 0
  /\ \A k \in Keys : S.cache[Core][k].pending = 0
  /\ \A p \in Pages, k \in Keys : ~ S.page[p][k].made => S.page[p][k].pending = 0
  /\ \A p \in Pages : S.toCache[p] \in Seq(MadePackets(S.page[p]))
  /\ \A p \in Pages : S.toPage[p] \in Seq(PageMessages(p, S.page[p]))

(* An element that a step leaves alone, but for its saved flag.            *)
SameEl(e, f) == f.made = e.made /\ f.val = e.val /\ f.pending = e.pending

(* What the pages of r are told of key k: nothing,                         *)
PagesSame(S, T, r, k) ==
  \A p \in PagesOf(r) : /\ SameEl(S.page[p][k], T.page[p][k])
                        /\ DownOf(T.toPage[p], k) = DownOf(S.toPage[p], k)

(* or the value v of b.                                                    *)
PagesTold(S, T, r, k, v, b) ==
  \A p \in PagesOf(r) :
    /\ T.page[p][k].made = S.page[p][k].made
    /\ IF p \notin MainPages
       THEN /\ SameEl(S.page[p][k], T.page[p][k])
            /\ DownOf(T.toPage[p], k) = Append(DownOf(S.toPage[p], k), [val |-> v, by |-> b])
       ELSE /\ DownOf(T.toPage[p], k) = DownOf(S.toPage[p], k)
            /\ IF p = b
               THEN /\ T.page[p][k].val = S.page[p][k].val
                    /\ T.page[p][k].pending = S.page[p][k].pending - 1
               ELSE /\ T.page[p][k].pending = S.page[p][k].pending
                    /\ S.page[p][k].made /\ v \in Accepts[p] => T.page[p][k].val = v

(* Emitting valuesChanged tells the pages what it says.                    *)
LEMMA PagesAfterKey ==
  ASSUME NEW S \in States, NEW T \in States, NEW r \in Procs, NEW pkt \in Packets,
         pkt.changed, NEW b \in Pages \cup {Nobody}, PagesAfter(S, T, r, pkt, b),
         \A p \in MainPages \ {b}, k \in Keys : S.page[p][k].pending = 0,
         b \in Pages => \A k \in DOMAIN pkt.vals : S.page[b][k].made,
         NEW k \in Keys
  PROVE  /\ k \in DOMAIN pkt.vals => PagesTold(S, T, r, k, pkt.vals[k], b)
         /\ k \notin DOMAIN pkt.vals => PagesSame(S, T, r, k)
         /\ \A g \in Procs \ {r} : PagesSame(S, T, g, k)
<1> DEFINE m == [pkt |-> pkt, by |-> b]
<1>0. m \in PageMsgs /\ m.pkt = pkt /\ m.by = b
  BY DEF PageMsgs, Messages
<1> HIDE DEF m
<1>1. \A p \in Pages : S.page[p] \in [Keys -> PageEl] /\ S.toPage[p] \in Seq(PageMsgs)
  BY DEF States
<1>2. \A p \in Pages :
        /\ T.page[p] = IF p \in PagesOf(r) \cap MainPages
                       THEN FromCache(S.page[p], p, m) ELSE S.page[p]
        /\ T.toPage[p] = IF p \in PagesOf(r) \ MainPages
                         THEN Append(S.toPage[p], m) ELSE S.toPage[p]
  BY DEF PagesAfter, m
<1>3. \A g \in Procs : PagesOf(g) \subseteq Pages
  BY DEF PagesOf
<1>4. ASSUME NEW g \in Procs \ {r} PROVE PagesSame(S, T, g, k)
  <2>1. \A p \in PagesOf(g) : p \notin PagesOf(r)
    BY DEF PagesOf
  <2> QED
    BY <1>2, <1>3, <2>1 DEF PagesSame, SameEl
<1>5. ASSUME NEW p \in PagesOf(r), p \notin MainPages
      PROVE  /\ T.page[p] = S.page[p]
             /\ k \in DOMAIN pkt.vals =>
                  DownOf(T.toPage[p], k) =
                    Append(DownOf(S.toPage[p], k), [val |-> pkt.vals[k], by |-> b])
             /\ k \notin DOMAIN pkt.vals => DownOf(T.toPage[p], k) = DownOf(S.toPage[p], k)
  <2>1. T.page[p] = S.page[p] /\ T.toPage[p] = Append(S.toPage[p], m)
    BY <1>2, <1>3, <1>5
  <2> DEFINE q == S.toPage[p]
             B == Pages \cup {Nobody}
  <2>2. q \in Seq(Messages(B)) /\ m \in Messages(B)
    BY <1>0, <1>1, <1>3 DEF PageMsgs
  <2> HIDE DEF q, B
  <2>3. /\ ~ Carries(m.pkt, k) => DownOf(Append(q, m), k) = DownOf(q, k)
        /\ Carries(m.pkt, k) =>
             DownOf(Append(q, m), k) =
               Append(DownOf(q, k), [val |-> m.pkt.vals[k], by |-> m.by])
    BY <2>2, DownAppend
  <2> QED
    BY <1>0, <2>1, <2>3 DEF q, Carries
<1>6. ASSUME NEW p \in PagesOf(r), p \in MainPages
      PROVE  /\ T.toPage[p] = S.toPage[p]
             /\ k \notin DOMAIN pkt.vals => T.page[p][k] = S.page[p][k]
             /\ k \in DOMAIN pkt.vals =>
                  /\ T.page[p][k].made = S.page[p][k].made
                  /\ IF p = b
                     THEN /\ T.page[p][k].val = S.page[p][k].val
                          /\ T.page[p][k].pending = S.page[p][k].pending - 1
                     ELSE /\ T.page[p][k].pending = S.page[p][k].pending
                          /\ S.page[p][k].made /\ pkt.vals[k] \in Accepts[p] =>
                               T.page[p][k].val = pkt.vals[k]
  <2> DEFINE el == S.page[p]
  <2>1. /\ T.toPage[p] = S.toPage[p]
        /\ T.page[p] = FromCache(el, p, m)
        /\ el \in [Keys -> PageEl]
    BY <1>1, <1>2, <1>3, <1>6
  <2>2. /\ FromCache(el, p, m)[k].made = el[k].made
        /\ k \notin DOMAIN pkt.vals => FromCache(el, p, m)[k] = el[k]
    <3> HIDE DEF el
    <3> QED
      BY <1>0, <1>3, <2>1, FromCacheType
  <2>3. ASSUME k \in DOMAIN pkt.vals, p = b
        PROVE  /\ FromCache(el, p, m)[k].val = el[k].val
               /\ FromCache(el, p, m)[k].pending = el[k].pending - 1
    <3>1. el[k].made /\ el[k] \in PageEl
      BY <1>3, <2>1, <2>3
    <3>2. FromCache(el, p, m)[k] = [el[k] EXCEPT !.pending = @ - 1]
      BY <1>0, <2>3, <3>1 DEF FromCache
    <3> QED
      BY <3>1, <3>2 DEF PageEl
  <2>4. ASSUME k \in DOMAIN pkt.vals, p # b
        PROVE  /\ FromCache(el, p, m)[k].pending = el[k].pending
               /\ el[k].made /\ pkt.vals[k] \in Accepts[p] =>
                    FromCache(el, p, m)[k].val = pkt.vals[k]
    <3>1. el[k].pending = 0 /\ el[k] \in PageEl
      BY <1>6, <2>1, <2>4
    <3>2. CASE el[k].made /\ pkt.vals[k] \in Accepts[p]
      <4>1. FromCache(el, p, m)[k] = [el[k] EXCEPT !.val = pkt.vals[k], !.saved = pkt.saved]
        BY <1>0, <2>4, <3>1, <3>2 DEF FromCache
      <4> QED
        BY <3>1, <4>1 DEF PageEl
    <3>3. CASE ~ (el[k].made /\ pkt.vals[k] \in Accepts[p])
      <4>1. FromCache(el, p, m)[k] = el[k]
        BY <1>0, <2>4, <3>1, <3>3 DEF FromCache
      <4> QED
        BY <3>3, <4>1
    <3> QED
      BY <3>2, <3>3
  <2> QED
    BY <2>1, <2>2, <2>3, <2>4
<1>7. ASSUME k \in DOMAIN pkt.vals PROVE PagesTold(S, T, r, k, pkt.vals[k], b)
  BY <1>5, <1>6, <1>7 DEF PagesTold, SameEl
<1>8. ASSUME k \notin DOMAIN pkt.vals PROVE PagesSame(S, T, r, k)
  BY <1>5, <1>6, <1>8 DEF PagesSame, SameEl
<1> QED
  BY <1>4, <1>7, <1>8

(***************************************************************************)
(* Making things in a page only adds to what is allowed in its queues.     *)
(***************************************************************************)
LEMMA MadeMonotonic ==
  ASSUME NEW p \in Pages, NEW el, NEW fl, \A k \in Keys : el[k].made => fl[k].made
  PROVE  /\ MadePackets(el) \subseteq MadePackets(fl)
         /\ PageMessages(p, el) \subseteq PageMessages(p, fl)
         /\ \A q \in Seq(MadePackets(el)) : q \in Seq(MadePackets(fl))
         /\ \A q \in Seq(PageMessages(p, el)) : q \in Seq(PageMessages(p, fl))
<1>1. \A pkt \in Packets : DOMAIN pkt.vals \subseteq Keys
  BY MapsAre DEF Packets
<1>2. MadePackets(el) \subseteq MadePackets(fl)
  BY <1>1 DEF MadePackets
<1>3. PageMessages(p, el) \subseteq PageMessages(p, fl)
  BY <1>2 DEF PageMessages
<1> QED
  BY <1>2, <1>3, SeqMonotonic

(* Emitting valuesChanged keeps the wiring, and ends the change of b.      *)
LEMMA PagesAfterWired ==
  ASSUME NEW S \in States, NEW T \in States, NEW r \in Procs, NEW pkt \in Packets,
         pkt.changed, NEW b \in PagesOf(r) \cup {Nobody}, PagesAfter(S, T, r, pkt, b),
         WiredBut(S, b, DOMAIN pkt.vals), T.toCache = S.toCache,
         b \in Pages => \A k \in DOMAIN pkt.vals : S.page[b][k].made,
         \A k \in Keys : T.cache[Core][k].pending = 0
  PROVE  /\ WiredBut(T, Nobody, {})
         /\ \A p \in Pages, k \in Keys : T.page[p][k].made = S.page[p][k].made
<1> DEFINE m == [pkt |-> pkt, by |-> b]
<1> USE CacheAssumption
<1>0. m \in PageMsgs /\ m.pkt = pkt /\ m.by = b
  BY DEF PageMsgs, Messages, PagesOf
<1> HIDE DEF m
<1>1. \A p \in Pages : S.page[p] \in [Keys -> PageEl]
  BY DEF States
<1>2. \A p \in Pages :
        /\ T.page[p] = IF p \in PagesOf(r) \cap MainPages
                       THEN FromCache(S.page[p], p, m) ELSE S.page[p]
        /\ T.toPage[p] = IF p \in PagesOf(r) \ MainPages
                         THEN Append(S.toPage[p], m) ELSE S.toPage[p]
  BY DEF PagesAfter, m
<1>3. ASSUME NEW p \in Pages, NEW k \in Keys PROVE T.page[p][k].made = S.page[p][k].made
  BY <1>0, <1>1, <1>2, FromCacheType
<1>4. ASSUME NEW p \in Pages
      PROVE  /\ T.toCache[p] \in Seq(MadePackets(T.page[p]))
             /\ T.toPage[p] \in Seq(PageMessages(p, T.page[p]))
  <2>1. S.toCache[p] \in Seq(MadePackets(S.page[p])) /\ S.toPage[p] \in Seq(PageMessages(p, S.page[p]))
    BY DEF WiredBut
  <2>2. S.toCache[p] \in Seq(MadePackets(T.page[p])) /\ S.toPage[p] \in Seq(PageMessages(p, T.page[p]))
    <3> DEFINE el == S.page[p]
               fl == T.page[p]
    <3>1. \A k \in Keys : el[k].made => fl[k].made
      BY <1>3
    <3> HIDE DEF el, fl
    <3>2. /\ \A q \in Seq(MadePackets(el)) : q \in Seq(MadePackets(fl))
          /\ \A q \in Seq(PageMessages(p, el)) : q \in Seq(PageMessages(p, fl))
      BY <3>1, MadeMonotonic
    <3> QED
      BY <2>1, <3>2 DEF el, fl
  <2>3. ASSUME p \in PagesOf(r) PROVE m \in PageMessages(p, T.page[p])
    <3>1. m \in Messages(PagesOf(Home[p]) \cup {Nobody})
      BY <1>0, <2>3 DEF Messages, PageMsgs, PagesOf
    <3>2. m.by = p => m.pkt \in MadePackets(T.page[p])
      <4>1. \A k \in DOMAIN pkt.vals : k \in Keys
        BY MapsAre DEF Packets
      <4> QED
        BY <1>0, <1>3, <4>1 DEF MadePackets
    <3> QED
      BY <1>0, <3>1, <3>2 DEF PageMessages
  <2>4. p \in PagesOf(r) => Append(S.toPage[p], m) \in Seq(PageMessages(p, T.page[p]))
    BY <2>2, <2>3, AppendProperties
  <2> QED
    BY <1>2, <2>2, <2>4
<1>5. ASSUME NEW p \in MainPages
      PROVE  T.toCache[p] = <<>> /\ T.toPage[p] = <<>>
  BY <1>2 DEF WiredBut
<1>6. ASSUME NEW p \in MainPages, NEW k \in Keys PROVE T.page[p][k].pending = 0
  <2>0. S.page[p][k] \in PageEl
    BY <1>1
  <2>1. CASE p \notin PagesOf(r)
    <3>1. p # b
      BY <2>1
    <3> QED
      <4>1. T.page[p] = S.page[p]
        BY <1>2, <2>1
      <4>2. S.page[p][k].pending = 0
        BY <3>1 DEF WiredBut
      <4> QED
        BY <4>1, <4>2
  <2>2. CASE p \in PagesOf(r) /\ k \notin DOMAIN pkt.vals
    <3>1. T.page[p][k] = S.page[p][k]
      BY <1>0, <1>1, <1>2, <2>2, FromCacheType
    <3> QED
      BY <2>2, <3>1 DEF WiredBut
  <2>3. CASE p \in PagesOf(r) /\ k \in DOMAIN pkt.vals
    <3>1. \A d \in MainPages \ {b}, j \in Keys : S.page[d][j].pending = 0
      BY DEF WiredBut
    <3>2. PagesTold(S, T, r, k, pkt.vals[k], b)
      <4>1. b \in Pages \cup {Nobody}
        BY DEF PagesOf
      <4> QED
        BY <2>3, <3>1, <4>1, PagesAfterKey
    <3>3. T.page[p][k].pending = IF p = b THEN S.page[p][k].pending - 1
                                 ELSE S.page[p][k].pending
      BY <2>3, <3>2 DEF PagesTold
    <3>4. S.page[p][k].pending = IF p = b THEN 1 ELSE 0
      BY <2>3 DEF WiredBut
    <3> QED
      BY <3>3, <3>4
  <2> QED
    BY <2>1, <2>2, <2>3
<1>7. ASSUME NEW p \in Pages, NEW k \in Keys, ~ T.page[p][k].made
      PROVE  T.page[p][k].pending = 0
  <2>1. CASE p \in MainPages
    BY <1>6, <2>1
  <2>2. CASE p \notin MainPages
    <3>1. T.page[p] = S.page[p]
      BY <1>2, <2>2
    <3>2. ~ S.page[p][k].made => S.page[p][k].pending = 0
      BY DEF WiredBut
    <3> QED
      BY <1>7, <3>1, <3>2
  <2> QED
    BY <2>1, <2>2
<1> QED
  BY <1>3, <1>4, <1>5, <1>6, <1>7 DEF WiredBut

-----------------------------------------------------------------------------
SameCache(e, f) == f.val = e.val /\ f.pending = e.pending

(* What happens between the processes to key k: nothing,                   *)
UpSame(S, T, k) == \A g \in Guis : UpOf(T.toCore[g], k) = UpOf(S.toCore[g], k)

ProcsSame(S, T, k) ==
  /\ \A r \in Procs : SameCache(S.cache[r][k], T.cache[r][k])
  /\ \A g \in Guis : DownOf(T.toProc[g], k) = DownOf(S.toProc[g], k)

(* or all are told the value v of b,                                       *)
ProcsTold(S, T, k, v, b) ==
  /\ T.cache[Core][k].val = v /\ T.cache[Core][k].pending = S.cache[Core][k].pending
  /\ \A g \in Guis :
       /\ SameCache(S.cache[g][k], T.cache[g][k])
       /\ DownOf(T.toProc[g], k) = Append(DownOf(S.toProc[g], k), [val |-> v, by |-> b])

(* or process r changes it to v.                                           *)
ProcChanges(S, T, r, k, v) ==
  /\ \A g \in Procs \ {r} : SameCache(S.cache[g][k], T.cache[g][k])
  /\ T.cache[r][k].val = v /\ T.cache[r][k].pending = S.cache[r][k].pending + 1
  /\ \A g \in Guis : DownOf(T.toProc[g], k) = DownOf(S.toProc[g], k)
  /\ \A g \in Guis : UpOf(T.toCore[g], k) =
       IF g = r THEN Append(UpOf(S.toCore[g], k), v) ELSE UpOf(S.toCore[g], k)

(* Nothing happens to the hub of r.                                        *)
HubSame(S, T, r, k) ==
  T.cache[r][k].val = S.cache[r][k].val /\ PagesSame(S, T, r, k)

SameMade(S, T) == \A p \in Pages, k \in Keys : T.page[p][k].made = S.page[p][k].made

(* What changeValues of r does to key k.                                   *)
ChangeKeyFacts(S, T, r, pkt, b, k) ==
  /\ Carries(pkt, k) =>
       /\ T.cache[r][k].val = pkt.vals[k] /\ PagesTold(S, T, r, k, pkt.vals[k], b)
       /\ r = Core => ProcsTold(S, T, k, pkt.vals[k], Core) /\ UpSame(S, T, k)
       /\ r # Core => ProcChanges(S, T, r, k, pkt.vals[k])
  /\ ~ Carries(pkt, k) =>
       HubSame(S, T, r, k) /\ ProcsSame(S, T, k) /\ UpSame(S, T, k)
  /\ \A g \in Procs \ {r} : HubSame(S, T, g, k)

(* What changeValues does, key by key, and that it keeps the wiring.       *)
LEMMA ChangeKeys ==
  ASSUME NEW S \in States, NEW r \in Procs, NEW pkt \in Packets,
         NEW b \in PagesOf(r) \cup {Nobody}, NEW ok,
         NEW T, T = ChangeValues(S, r, pkt, b, ok),
         WiredBut(S, b, IF pkt.changed THEN DOMAIN pkt.vals ELSE {}),
         b \in Pages => \A k \in DOMAIN pkt.vals : S.page[b][k].made
  PROVE  /\ T \in States /\ WiredBut(T, Nobody, {}) /\ SameMade(S, T)
         /\ T.toCache = S.toCache
         /\ \A k \in Keys : ChangeKeyFacts(S, T, r, pkt, b, k)
<1> USE CacheAssumption
<1>1. CASE DOMAIN pkt.vals = {}
  <2>1. T = S
    BY <1>1 DEF ChangeValues
  <2>2. WiredBut(S, Nobody, {})
    BY <1>1 DEF WiredBut
  <2>3. \A k \in Keys : ~ Carries(pkt, k)
    BY <1>1 DEF Carries
  <2> QED
    BY <2>1, <2>2, <2>3 DEF SameMade, ChangeKeyFacts, HubSame, PagesSame, SameEl, ProcsSame,
                            SameCache, UpSame
<1>2. CASE DOMAIN pkt.vals # {}
  <2>0. b \in Pages \cup {Nobody}
    BY DEF PagesOf
  <2>1. ChangeEffect(S, T, r, pkt, b)
    BY <1>2, <2>0, ChangeEffectHolds
  <2>2. T \in States /\ T.toCache = S.toCache
    BY <2>1 DEF ChangeEffect
  <2>3. \A k \in Keys : T.cache[Core][k].pending = 0
    <3>1. \A k \in Keys : S.cache[Core][k].pending = 0
      BY DEF WiredBut
    <3>2. CASE r = Core
      BY <2>1, <3>1, <3>2 DEF ChangeEffect
    <3>3. CASE r # Core
      BY <2>1, <3>1, <3>3 DEF ChangeEffect
    <3> QED
      BY <3>2, <3>3
  <2>4. WiredBut(T, Nobody, {}) /\ SameMade(S, T)
    <3>1. CASE pkt.changed
      <4>1. PagesAfter(S, T, r, pkt, b) /\ WiredBut(S, b, DOMAIN pkt.vals)
        BY <2>1, <3>1 DEF ChangeEffect
      <4> QED
        BY <2>2, <2>3, <3>1, <4>1, PagesAfterWired DEF SameMade
    <3>2. CASE ~ pkt.changed
      <4>1. T.page = S.page /\ T.toPage = S.toPage
        BY <2>1, <3>2 DEF ChangeEffect
      <4> QED
        BY <2>2, <2>3, <3>2, <4>1 DEF WiredBut, SameMade
    <3> QED
      BY <3>1, <3>2
  <2>5. ASSUME NEW k \in Keys PROVE ChangeKeyFacts(S, T, r, pkt, b, k)
    (* the pages                                                           *)
    <3>1. /\ Carries(pkt, k) =>
               T.cache[r][k].val = pkt.vals[k] /\ PagesTold(S, T, r, k, pkt.vals[k], b)
          /\ ~ Carries(pkt, k) => HubSame(S, T, r, k)
          /\ \A g \in Procs \ {r} : HubSame(S, T, g, k)
      <4>1. /\ T.cache[r][k].val = IF Carries(pkt, k) THEN pkt.vals[k] ELSE S.cache[r][k].val
            /\ \A g \in Procs \ {r} : T.cache[g][k].val = S.cache[g][k].val
        BY <2>1 DEF ChangeEffect
      <4>2. CASE pkt.changed
        <5>1. PagesAfter(S, T, r, pkt, b)
          BY <2>1, <4>2 DEF ChangeEffect
        <5>2. \A p \in MainPages \ {b}, j \in Keys : S.page[p][j].pending = 0
          BY DEF WiredBut
        <5>3. /\ k \in DOMAIN pkt.vals => PagesTold(S, T, r, k, pkt.vals[k], b)
              /\ k \notin DOMAIN pkt.vals => PagesSame(S, T, r, k)
              /\ \A g \in Procs \ {r} : PagesSame(S, T, g, k)
          BY <2>0, <2>2, <4>2, <5>1, <5>2, PagesAfterKey
        <5> QED
          BY <4>1, <4>2, <5>3 DEF HubSame, Carries
      <4>3. CASE ~ pkt.changed
        <5>1. T.page = S.page /\ T.toPage = S.toPage
          BY <2>1, <4>3 DEF ChangeEffect
        <5>2. \A g \in Procs : PagesSame(S, T, g, k)
          BY <5>1 DEF PagesSame, SameEl
        <5> QED
          BY <4>1, <4>3, <5>2 DEF HubSame, Carries
      <4> QED
        BY <4>2, <4>3
    (* the processes                                                       *)
    <3>2. ASSUME r = Core
          PROVE  /\ UpSame(S, T, k)
                 /\ Carries(pkt, k) => ProcsTold(S, T, k, pkt.vals[k], Core)
                 /\ ~ Carries(pkt, k) => ProcsSame(S, T, k)
      <4> DEFINE m == [pkt |-> pkt, by |-> Core]
      <4>1. m \in Messages(Procs) /\ m.pkt = pkt /\ m.by = Core
        BY DEF Messages
      <4> HIDE DEF m
      <4>2. /\ T.toCore = S.toCore
            /\ \A g \in Guis : T.toProc[g] = Append(S.toProc[g], m)
            /\ \A g \in Procs \ {Core} : T.cache[g] = S.cache[g]
            /\ T.cache[Core][k].val = IF Carries(pkt, k) THEN pkt.vals[k]
                                      ELSE S.cache[Core][k].val
            /\ T.cache[Core][k].pending = S.cache[Core][k].pending
        BY <2>1, <3>2 DEF ChangeEffect, m
      <4>3. ASSUME NEW g \in Guis
            PROVE  /\ ~ Carries(pkt, k) => DownOf(T.toProc[g], k) = DownOf(S.toProc[g], k)
                   /\ Carries(pkt, k) => DownOf(T.toProc[g], k) =
                        Append(DownOf(S.toProc[g], k), [val |-> pkt.vals[k], by |-> Core])
        <5> DEFINE q == S.toProc[g]
        <5>1. q \in Seq(Messages(Procs)) /\ T.toProc[g] = Append(q, m)
          BY <4>2 DEF States
        <5> HIDE DEF q
        <5>2. /\ ~ Carries(m.pkt, k) => DownOf(Append(q, m), k) = DownOf(q, k)
              /\ Carries(m.pkt, k) => DownOf(Append(q, m), k) =
                   Append(DownOf(q, k), [val |-> m.pkt.vals[k], by |-> m.by])
          <6>1. m \in Messages(Procs)
            BY <4>1
          <6>2. q \in Seq(Messages(Procs))
            BY <5>1
          <6> QED
            BY <6>1, <6>2, DownAppend, SMTT(30)
        <5> QED
          BY <4>1, <5>1, <5>2 DEF q
      <4>4. \A g \in Guis : g \in Procs \ {Core}
        BY DEF Guis
      <4> QED
        BY <4>2, <4>3, <4>4 DEF UpSame, ProcsTold, ProcsSame, SameCache
    <3>3. ASSUME r # Core
          PROVE  /\ Carries(pkt, k) => ProcChanges(S, T, r, k, pkt.vals[k])
                 /\ ~ Carries(pkt, k) => ProcsSame(S, T, k) /\ UpSame(S, T, k)
      <4>1. /\ T.toCore = [S.toCore EXCEPT ![r] = Append(@, pkt)]
            /\ T.toProc = S.toProc
            /\ \A g \in Procs \ {r} : T.cache[g] = S.cache[g]
            /\ T.cache[r][k].val = IF Carries(pkt, k) THEN pkt.vals[k] ELSE S.cache[r][k].val
            /\ T.cache[r][k].pending = IF Carries(pkt, k) THEN S.cache[r][k].pending + 1
                                       ELSE S.cache[r][k].pending
        BY <2>1, <3>3 DEF ChangeEffect
      <4>2. ASSUME NEW g \in Guis
            PROVE  UpOf(T.toCore[g], k) =
                     IF g = r /\ Carries(pkt, k) THEN Append(UpOf(S.toCore[g], k), pkt.vals[k])
                     ELSE UpOf(S.toCore[g], k)
        <5> DEFINE q == S.toCore[g]
        <5>1. q \in Seq(Packets) /\ T.toCore[g] = IF g = r THEN Append(q, pkt) ELSE q
          BY <4>1 DEF States
        <5> HIDE DEF q
        <5>2. /\ ~ Carries(pkt, k) => UpOf(Append(q, pkt), k) = UpOf(q, k)
              /\ Carries(pkt, k) => UpOf(Append(q, pkt), k) = Append(UpOf(q, k), pkt.vals[k])
          BY <5>1, UpAppend
        <5> QED
          BY <5>1, <5>2 DEF q
      <4> QED
        BY <4>1, <4>2 DEF UpSame, ProcChanges, ProcsSame, SameCache
    <3> QED
      BY <3>1, <3>2, <3>3 DEF ChangeKeyFacts
  <2> QED
    BY <2>2, <2>4, <2>5
<1> QED
  BY <1>1, <1>2

(* What changeValuesFromRemote of r does to key k.                         *)
RemoteKeyFacts(S, T, r, pkt, origin, k) ==
  /\ \A g \in Procs \ {r} : HubSame(S, T, g, k) /\ SameCache(S.cache[g][k], T.cache[g][k])
  /\ IF Carries(pkt, k) /\ origin # r /\ S.cache[r][k].pending = 0
     THEN /\ T.cache[r][k].val = pkt.vals[k] /\ PagesTold(S, T, r, k, pkt.vals[k], Nobody)
     ELSE HubSame(S, T, r, k)
  /\ T.cache[r][k].pending = IF Carries(pkt, k) /\ origin = r THEN S.cache[r][k].pending - 1
                             ELSE S.cache[r][k].pending

(***************************************************************************)
(* What changeValuesFromRemote does, key by key, and that it keeps the     *)
(* wiring.                                                                 *)
(***************************************************************************)
LEMMA RemoteKeys ==
  ASSUME NEW S \in States, NEW r \in Procs, NEW pkt \in Packets, NEW origin, NEW ok,
         NEW T, T = ChangeValuesFromRemote(S, r, pkt, origin, ok),
         WiredBut(S, Nobody, {}), r = Core => origin # r
  PROVE  /\ T \in States /\ WiredBut(T, Nobody, {}) /\ SameMade(S, T)
         /\ T.toCache = S.toCache /\ T.toCore = S.toCore /\ T.toProc = S.toProc
         /\ \A k \in Keys : RemoteKeyFacts(S, T, r, pkt, origin, k)
<1> USE CacheAssumption
<1> DEFINE R == Ratified(S.cache[r], r, pkt, origin)
           N == News(S.cache[r], r, pkt, origin)
<1>1. RemoteEffect(S, T, r, pkt, origin)
  BY RemoteEffectHolds
<1>2. /\ T \in States
      /\ T.toCache = S.toCache /\ T.toCore = S.toCore /\ T.toProc = S.toProc
      /\ \A g \in Procs \ {r} : T.cache[g] = S.cache[g]
      /\ \A k \in Keys : T.cache[r][k].val =
           IF Carries(pkt, k) /\ origin # r /\ S.cache[r][k].pending = 0
           THEN pkt.vals[k] ELSE S.cache[r][k].val
      /\ \A k \in Keys : T.cache[r][k].pending =
           IF Carries(pkt, k) /\ origin = r THEN S.cache[r][k].pending - 1
           ELSE S.cache[r][k].pending
      /\ IF pkt.changed /\ R # {} THEN PagesAfter(S, T, r, N, Nobody)
         ELSE T.page = S.page /\ T.toPage = S.toPage
  BY <1>1 DEF RemoteEffect
<1>3. /\ N \in Packets /\ N.changed /\ DOMAIN N.vals = R
      /\ \A k \in R : N.vals[k] = pkt.vals[k]
  BY NewsType
<1>4. \A k \in Keys : k \in R <=> k \in DOMAIN pkt.vals /\ origin # r /\ S.cache[r][k].pending = 0
  BY DEF Ratified
<1> HIDE DEF R, N
<1>5. \A k \in Keys : T.cache[Core][k].pending = 0
  <2>1. \A k \in Keys : S.cache[Core][k].pending = 0
    BY DEF WiredBut
  <2>2. CASE r = Core
    BY <1>2, <2>1, <2>2
  <2>3. CASE r # Core
    BY <1>2, <2>1, <2>3
  <2> QED
    BY <2>2, <2>3
<1>6. CASE pkt.changed /\ R # {}
  <2>1. PagesAfter(S, T, r, N, Nobody) /\ WiredBut(S, Nobody, DOMAIN N.vals) /\ Nobody \notin Pages
    BY <1>2, <1>6 DEF WiredBut
  <2>2. WiredBut(T, Nobody, {}) /\ SameMade(S, T)
    BY <1>2, <1>3, <1>5, <2>1, PagesAfterWired DEF SameMade
  <2>3. ASSUME NEW k \in Keys PROVE RemoteKeyFacts(S, T, r, pkt, origin, k)
    <3>1. \A p \in MainPages \ {Nobody}, j \in Keys : S.page[p][j].pending = 0
      BY DEF WiredBut
    <3>2. /\ k \in R => PagesTold(S, T, r, k, N.vals[k], Nobody)
          /\ k \notin R => PagesSame(S, T, r, k)
          /\ \A g \in Procs \ {r} : PagesSame(S, T, g, k)
      BY <1>2, <1>3, <2>1, <3>1, PagesAfterKey
    <3>3. Carries(pkt, k) <=> k \in DOMAIN pkt.vals
      BY <1>6 DEF Carries
    <3>4. \A g \in Procs \ {r} : HubSame(S, T, g, k) /\ SameCache(S.cache[g][k], T.cache[g][k])
      BY <1>2, <3>2 DEF HubSame, SameCache
    <3>5. k \notin R => HubSame(S, T, r, k)
      BY <1>2, <1>4, <3>2, <3>3 DEF HubSame
    <3> QED
      BY <1>2, <1>3, <1>4, <3>2, <3>3, <3>4, <3>5 DEF RemoteKeyFacts
  <2> QED
    BY <1>2, <2>2, <2>3
<1>7. CASE ~ (pkt.changed /\ R # {})
  <2>1. T.page = S.page /\ T.toPage = S.toPage
    BY <1>2, <1>7
  <2>2. WiredBut(T, Nobody, {}) /\ SameMade(S, T)
    BY <1>2, <1>5, <2>1 DEF WiredBut, SameMade
  <2>3. ASSUME NEW k \in Keys PROVE RemoteKeyFacts(S, T, r, pkt, origin, k)
    <3>1. ~ (Carries(pkt, k) /\ origin # r /\ S.cache[r][k].pending = 0)
      BY <1>4, <1>7 DEF Carries
    <3>2. \A g \in Procs : PagesSame(S, T, g, k)
      BY <2>1 DEF PagesSame, SameEl
    <3> QED
      BY <1>2, <3>1, <3>2 DEF RemoteKeyFacts, HubSame, SameCache
  <2> QED
    BY <1>2, <2>2, <2>3
<1> QED
  BY <1>6, <1>7

(* What the core does to key k when it serves changeSettings of GUI o.     *)
TellKeyFacts(S, T, pkt, o, k) ==
  /\ UpSame(S, T, k)
  /\ \A g \in Guis : HubSame(S, T, g, k)
  /\ Carries(pkt, k) => /\ ProcsTold(S, T, k, pkt.vals[k], o)
                        /\ PagesTold(S, T, Core, k, pkt.vals[k], Nobody)
  /\ ~ Carries(pkt, k) => ProcsSame(S, T, k) /\ HubSame(S, T, Core, k)

(* What changeSettings does for a GUI process o, key by key.               *)
LEMMA TellKeys ==
  ASSUME NEW S \in States, NEW pkt \in Packets, NEW o \in Guis, NEW ok,
         NEW T, T = ChangeSettings(S, pkt, o, ok), WiredBut(S, Nobody, {})
  PROVE  /\ T \in States /\ WiredBut(T, Nobody, {}) /\ SameMade(S, T)
         /\ T.toCache = S.toCache
         /\ \A k \in Keys : TellKeyFacts(S, T, pkt, o, k)
<1> USE CacheAssumption
<1>0. o \in Procs /\ o # Core /\ \A g \in Guis : g \in Procs \ {Core}
  BY DEF Guis
<1> DEFINE m == [pkt |-> pkt, by |-> o]
<1>m. m \in Messages(Procs) /\ m.pkt = pkt /\ m.by = o
  BY <1>0 DEF Messages
<1>1. /\ T \in States
      /\ T.toProc = [g \in Guis |-> Append(S.toProc[g], m)]
      /\ \E U : /\ U = ChangeValuesFromRemote(S, Core, pkt, o, ok)
                /\ T.page = U.page /\ T.cache = U.cache /\ T.toCache = U.toCache
                /\ T.toPage = U.toPage /\ T.toCore = U.toCore
  BY <1>0, TellEffect
<1> HIDE DEF m
<1>2. PICK U : /\ U = ChangeValuesFromRemote(S, Core, pkt, o, ok)
               /\ T.page = U.page /\ T.cache = U.cache /\ T.toCache = U.toCache
               /\ T.toPage = U.toPage /\ T.toCore = U.toCore
  BY <1>1
<1>3. /\ U \in States /\ WiredBut(U, Nobody, {}) /\ SameMade(S, U)
      /\ U.toCache = S.toCache /\ U.toCore = S.toCore
      /\ \A k \in Keys : RemoteKeyFacts(S, U, Core, pkt, o, k)
  BY <1>0, <1>2, RemoteKeys
<1>4. WiredBut(T, Nobody, {}) /\ SameMade(S, T) /\ T.toCache = S.toCache
  BY <1>2, <1>3 DEF WiredBut, SameMade
<1>5. ASSUME NEW k \in Keys PROVE TellKeyFacts(S, T, pkt, o, k)
  <2>1. /\ \A g \in Procs \ {Core} : HubSame(S, U, g, k) /\ SameCache(S.cache[g][k], U.cache[g][k])
        /\ IF Carries(pkt, k)
           THEN U.cache[Core][k].val = pkt.vals[k] /\ PagesTold(S, U, Core, k, pkt.vals[k], Nobody)
           ELSE HubSame(S, U, Core, k)
        /\ U.cache[Core][k].pending = S.cache[Core][k].pending
    <3>1. S.cache[Core][k].pending = 0
      BY DEF WiredBut
    <3> QED
      BY <1>0, <1>3, <3>1 DEF RemoteKeyFacts
  <2>2. /\ \A g \in Procs \ {Core} : HubSame(S, T, g, k) /\ SameCache(S.cache[g][k], T.cache[g][k])
        /\ IF Carries(pkt, k)
           THEN T.cache[Core][k].val = pkt.vals[k] /\ PagesTold(S, T, Core, k, pkt.vals[k], Nobody)
           ELSE HubSame(S, T, Core, k)
        /\ T.cache[Core][k].pending = S.cache[Core][k].pending
    BY <1>2, <2>1 DEF HubSame, PagesSame, PagesTold
  <2>3. UpSame(S, T, k)
    BY <1>2, <1>3 DEF UpSame
  <2>4. ASSUME NEW g \in Guis
        PROVE  /\ ~ Carries(pkt, k) => DownOf(T.toProc[g], k) = DownOf(S.toProc[g], k)
               /\ Carries(pkt, k) => DownOf(T.toProc[g], k) =
                    Append(DownOf(S.toProc[g], k), [val |-> pkt.vals[k], by |-> o])
    <3> DEFINE q == S.toProc[g]
    <3>1. q \in Seq(Messages(Procs)) /\ T.toProc[g] = Append(q, m)
      BY <1>1 DEF States
    <3> HIDE DEF q
    <3>2. /\ ~ Carries(m.pkt, k) => DownOf(Append(q, m), k) = DownOf(q, k)
          /\ Carries(m.pkt, k) => DownOf(Append(q, m), k) =
               Append(DownOf(q, k), [val |-> m.pkt.vals[k], by |-> m.by])
      <4>1. m \in Messages(Procs)
        BY <1>m
      <4>2. q \in Seq(Messages(Procs))
        BY <3>1
      <4> QED
        BY <4>1, <4>2, DownAppend, SMTT(30)
    <3> QED
      BY <1>m, <3>1, <3>2 DEF q
  <2>5. Carries(pkt, k) => ProcsTold(S, T, k, pkt.vals[k], o)
    BY <1>0, <2>2, <2>4 DEF ProcsTold
  <2>6. ~ Carries(pkt, k) => ProcsSame(S, T, k)
    BY <1>0, <2>2, <2>4 DEF ProcsSame, HubSame, SameCache
  <2> QED
    BY <1>0, <2>2, <2>3, <2>5, <2>6 DEF TellKeyFacts
<1> QED
  BY <1>1, <1>4, <1>5

-----------------------------------------------------------------------------
(***************************************************************************)
(* What EchoClient sees of page p of key k, in a state S, and of process r *)
(* when the processes A are synchronized.                                  *)
(***************************************************************************)
PageView(S, p, k) ==
  [hub |-> S.cache[Home[p]][k].val,
   val |-> S.page[p][k].val, pending |-> S.page[p][k].pending,
   up |-> UpOf(S.toCache[p], k), down |-> DownOf(S.toPage[p], k),
   attached |-> {q \in PagesOf(Home[p]) : S.page[q][k].made}]

ProcView(S, A, r, k) ==
  [hub |-> S.cache[Core][k].val,
   val |-> S.cache[r][k].val, pending |-> S.cache[r][k].pending,
   up |-> IF r = Core THEN <<>> ELSE UpOf(S.toCore[r], k),
   down |-> IF r = Core THEN <<>> ELSE DownOf(S.toProc[r], k),
   attached |-> A \cup {Core}]

PageViews == Views(AnyValue, Pages \cup {Nobody})
ProcViews == Views(AnyValue, Procs)

(* The views are typed.                                                    *)
LEMMA ViewsTyped ==
  ASSUME NEW S \in States, NEW k \in Keys
  PROVE  /\ \A p \in Pages : PageView(S, p, k) \in PageViews
         /\ \A A \in SUBSET Guis : \A r \in Procs : ProcView(S, A, r, k) \in ProcViews
<1> USE CacheAssumption
<1>1. ASSUME NEW p \in Pages PROVE PageView(S, p, k) \in PageViews
  <2> DEFINE q == S.toPage[p]
             B == Pages \cup {Nobody}
  <2>1. UpOf(S.toCache[p], k) \in Seq(AnyValue)
    <3>1. S.toCache[p] \in Seq(Packets)
      BY DEF States
    <3> QED
      BY <3>1, UpType
  <2>2. DownOf(q, k) \in Seq(Told(AnyValue, B))
    <3>1. q \in Seq(Messages(B))
      BY DEF States, PageMsgs
    <3> HIDE DEF q, B
    <3> QED
      BY <3>1, DownType
  <2>3. /\ S.cache[Home[p]][k].val \in AnyValue
        /\ S.page[p][k].val \in AnyValue /\ S.page[p][k].pending \in Int
    <3>1. Home[p] \in Procs
      OBVIOUS
    <3>2. S.cache[Home[p]][k] \in CacheEl /\ S.page[p][k] \in PageEl
      BY <3>1 DEF States
    <3> QED
      BY <3>2 DEF CacheEl, PageEl
  <2>4. {d \in PagesOf(Home[p]) : S.page[d][k].made} \in SUBSET (Pages \cup {Nobody})
    BY DEF PagesOf
  <2> QED
    BY <2>1, <2>2, <2>3, <2>4 DEF PageView, PageViews, Views
<1>2. ASSUME NEW A \in SUBSET Guis, NEW r \in Procs PROVE ProcView(S, A, r, k) \in ProcViews
  <2>1. <<>> \in Seq(AnyValue) /\ <<>> \in Seq(Told(AnyValue, Procs))
    BY EmptySeq
  <2>2. ASSUME r # Core
        PROVE  /\ UpOf(S.toCore[r], k) \in Seq(AnyValue)
               /\ DownOf(S.toProc[r], k) \in Seq(Told(AnyValue, Procs))
    <3> DEFINE q == S.toProc[r]
    <3>1. S.toCore[r] \in Seq(Packets) /\ q \in Seq(Messages(Procs))
      BY <2>2 DEF States, Guis
    <3> HIDE DEF q
    <3>2. DownOf(q, k) \in Seq(Told(AnyValue, Procs))
      BY <3>1, DownType
    <3> QED
      BY <3>1, <3>2, UpType DEF q
  <2>3. /\ S.cache[Core][k].val \in AnyValue
        /\ S.cache[r][k].val \in AnyValue /\ S.cache[r][k].pending \in Int
    <3>1. S.cache[Core][k] \in CacheEl /\ S.cache[r][k] \in CacheEl
      BY DEF States
    <3> QED
      BY <3>1 DEF CacheEl
  <2>4. A \cup {Core} \in SUBSET Procs
    BY DEF Guis
  <2> QED
    BY <2>1, <2>2, <2>3, <2>4 DEF ProcView, ProcViews, Views
<1> QED
  BY <1>1, <1>2

-----------------------------------------------------------------------------
(***************************************************************************)
(* What a step from X to Y does to key k in process r: nothing, or page b  *)
(* changes it, or takes a message, or reads the cache, or the cache tells  *)
(* its pages a change of b.                                                *)
(***************************************************************************)
PageStays(X, Y, p, k) == Stays(p, PageView(X, p, k), PageView(Y, p, k))

PagesButStay(X, Y, r, k, N) ==
  /\ Y.cache[r][k].val = X.cache[r][k].val
  /\ \A p \in PagesOf(r) \ N : PageStays(X, Y, p, k)

PageChanges(X, Y, r, k, b) ==
  /\ b \in PagesOf(r) \ MainPages
  /\ Changes(b, PageView(X, b, k), PageView(Y, b, k))
  /\ PagesButStay(X, Y, r, k, {b})

PageReceives(X, Y, r, k, b) ==
  /\ b \in PagesOf(r) \ MainPages
  /\ Receives(b, Accepts[b], PageView(X, b, k), PageView(Y, b, k))
  /\ PagesButStay(X, Y, r, k, {b})

PageAttaches(X, Y, r, k, b) ==
  /\ b \in PagesOf(r) /\ Y.page[b][k].made
  /\ Attaches(Accepts[b], PageView(X, b, k), PageView(Y, b, k))
  /\ PagesButStay(X, Y, r, k, {b})

CacheTells(X, Y, r, k, b) ==
  /\ b \in PagesOf(r) \cup {Nobody}
  /\ \A p \in PagesOf(r) \cap MainPages :
       /\ Called(p, Accepts[p], PageView(X, p, k), PageView(Y, p, k))
       /\ p = b => Y.page[p][k].val = Y.cache[r][k].val
  /\ \A p \in PagesOf(r) \ MainPages : Posted(p, b, PageView(X, p, k), PageView(Y, p, k))

PageMoves(X, Y, r, k) ==
  \/ PagesButStay(X, Y, r, k, {})
  \/ \E b \in Pages : PageChanges(X, Y, r, k, b) \/ PageReceives(X, Y, r, k, b)
                      \/ PageAttaches(X, Y, r, k, b)
  \/ \E b \in Pages \cup {Nobody} : CacheTells(X, Y, r, k, b)

(* The same for the processes: N are the processes that may take messages. *)
ProcStays(X, A, Y, B, r, k) == Stays(r, ProcView(X, A, r, k), ProcView(Y, B, r, k))

ProcsButStay(X, A, Y, B, k, N) ==
  /\ Y.cache[Core][k].val = X.cache[Core][k].val
  /\ \A r \in Procs \ N : ProcStays(X, A, Y, B, r, k)

CacheChanges(X, A, Y, B, k, b) ==
  /\ b \in Guis
  /\ Changes(b, ProcView(X, A, b, k), ProcView(Y, B, b, k))
  /\ ProcsButStay(X, A, Y, B, k, {b})

CacheReceives(X, A, Y, B, k, b) ==
  /\ b \in Guis
  /\ Receives(b, Values, ProcView(X, A, b, k), ProcView(Y, B, b, k))
  /\ ProcsButStay(X, A, Y, B, k, {b})

CacheAttaches(X, A, Y, B, k, b) ==
  /\ b \in Guis /\ b \in B
  /\ Attaches(Values, ProcView(X, A, b, k), ProcView(Y, B, b, k))
  /\ ProcsButStay(X, A, Y, B, k, {b})

CoreTells(X, A, Y, B, k, b) ==
  /\ b \in Procs
  /\ Called(Core, Values, ProcView(X, A, Core, k), ProcView(Y, B, Core, k))
  /\ \A r \in Guis : Posted(r, b, ProcView(X, A, r, k), ProcView(Y, B, r, k))

ProcMoves(X, A, Y, B, N, k) ==
  \/ ProcsButStay(X, A, Y, B, k, {})
  \/ \E b \in Procs : CacheChanges(X, A, Y, B, k, b) \/ CacheAttaches(X, A, Y, B, k, b)
                      \/ CoreTells(X, A, Y, B, k, b)
  \/ \E b \in N : CacheReceives(X, A, Y, B, k, b)

(* To each page, and to each process, this is a step of EchoClient.        *)
LEMMA PageMovesAreSteps ==
  ASSUME NEW X, NEW Y, NEW k \in Keys, NEW p \in Pages, PageMoves(X, Y, Home[p], k)
  PROVE  ClientStep(p, Accepts[p], Pages \cup {Nobody}, PageView(X, p, k), PageView(Y, p, k))
<1>1. p \in PagesOf(Home[p])
  BY DEF PagesOf
<1> QED
  BY <1>1 DEF PageMoves, PagesButStay, PageStays, PageChanges, PageReceives, PageAttaches,
              CacheTells, ClientStep

(* The same for the processes.                                             *)
LEMMA ProcMovesAreSteps ==
  ASSUME NEW X, NEW A, NEW Y, NEW B, NEW N, NEW k \in Keys, NEW r \in Procs,
         ProcMoves(X, A, Y, B, N, k)
  PROVE  ClientStep(r, Values, Procs, ProcView(X, A, r, k), ProcView(Y, B, r, k))
<1>1. r = Core \/ r \in Guis
  BY DEF Guis
<1> QED
  BY <1>1 DEF ProcMoves, ProcsButStay, ProcStays, CacheChanges, CacheReceives,
              CacheAttaches, CoreTells, ClientStep

(***************************************************************************)
(* While a process takes no message, an empty queue to it means that the   *)
(* core's value has not changed.                                           *)
(***************************************************************************)
LEMMA NothingMissed ==
  ASSUME NEW X \in States, NEW Y \in States, NEW k \in Keys, NEW A, NEW B, NEW N,
         ProcMoves(X, A, Y, B, N, k), NEW g \in Guis \ N, DownOf(Y.toProc[g], k) = <<>>
  PROVE  DownOf(X.toProc[g], k) = <<>> /\ Y.cache[Core][k].val = X.cache[Core][k].val
<1> DEFINE x == ProcView(X, A, g, k)
           y == ProcView(Y, B, g, k)
<1>0. g \in Procs /\ g # Core
  BY DEF Guis
<1>1. /\ x.down = DownOf(X.toProc[g], k) /\ x.hub = X.cache[Core][k].val
      /\ y.down = DownOf(Y.toProc[g], k) /\ y.hub = Y.cache[Core][k].val
  BY <1>0 DEF ProcView
<1>2. \/ Stays(g, x, y) \/ Changes(g, x, y) \/ Attaches(Values, x, y)
      \/ \E b \in Procs : Posted(g, b, x, y)
  BY <1>0 DEF ProcMoves, ProcsButStay, ProcStays, CacheChanges, CacheReceives,
              CacheAttaches, CoreTells
<1>3. DownOf(X.toProc[g], k) \in Seq(Told(AnyValue, Procs))
  <2> DEFINE q == X.toProc[g]
  <2>1. q \in Seq(Messages(Procs))
    BY DEF States
  <2> HIDE DEF q
  <2>2. DownOf(q, k) \in Seq(Told(AnyValue, Procs))
    BY <2>1, DownType
  <2> QED
    BY <2>2 DEF q
<1> HIDE DEF x, y
<1>4. \A b : ~ Posted(g, b, x, y)
  <2>1. \A m : Append(x.down, m) # <<>>
    BY <1>1, <1>3
  <2> QED
    BY <1>1, <2>1 DEF Posted
<1> QED
  BY <1>1, <1>2, <1>4 DEF Stays, Changes, Attaches

-----------------------------------------------------------------------------
(* Nothing of key k changes from X to S in the pages of r,                 *)
PagesKept(X, S, r, k) ==
  \A p \in PagesOf(r) :
    /\ SameEl(X.page[p][k], S.page[p][k])
    /\ DownOf(S.toPage[p], k) = DownOf(X.toPage[p], k)
    /\ UpOf(S.toCache[p], k) = UpOf(X.toCache[p], k)

(* or only what precedes the telling of the value v of page b:             *)
PagesReady(X, S, r, k, v, b) ==
  /\ \A p \in PagesOf(r) : /\ DownOf(S.toPage[p], k) = DownOf(X.toPage[p], k)
                           /\ S.page[p][k].made = X.page[p][k].made
  /\ \A p \in PagesOf(r) \ {b} :
       /\ SameEl(X.page[p][k], S.page[p][k])
       /\ UpOf(S.toCache[p], k) = UpOf(X.toCache[p], k)
  /\ b \in PagesOf(r) \cap MainPages =>
       /\ S.page[b][k].val = v /\ S.page[b][k].pending = X.page[b][k].pending + 1
       /\ UpOf(S.toCache[b], k) = UpOf(X.toCache[b], k)
  /\ b \in PagesOf(r) \ MainPages =>
       /\ SameEl(X.page[b][k], S.page[b][k])
       /\ UpOf(X.toCache[b], k) # <<>> /\ v = Head(UpOf(X.toCache[b], k))
       /\ UpOf(S.toCache[b], k) = Tail(UpOf(X.toCache[b], k))

(* The pages of r stay as they are in two steps.                           *)
LEMMA StayMoves ==
  ASSUME NEW X, NEW S, NEW Y, NEW r, NEW k,
         S.cache[r][k].val = X.cache[r][k].val, PagesKept(X, S, r, k),
         HubSame(S, Y, r, k), Y.toCache = S.toCache
  PROVE  PagesButStay(X, Y, r, k, {})
<1>1. ASSUME NEW p \in PagesOf(r) PROVE PageStays(X, Y, p, k)
  <2>1. Home[p] = r
    BY DEF PagesOf
  <2>2. /\ Y.page[p][k].made = X.page[p][k].made /\ Y.page[p][k].val = X.page[p][k].val
        /\ Y.page[p][k].pending = X.page[p][k].pending
        /\ DownOf(Y.toPage[p], k) = DownOf(X.toPage[p], k)
        /\ UpOf(Y.toCache[p], k) = UpOf(X.toCache[p], k)
    BY DEF PagesKept, HubSame, PagesSame, SameEl
  <2> QED
    BY <2>1, <2>2 DEF PageStays, Stays, PageView, HubSame
<1> QED
  BY <1>1 DEF PagesButStay, HubSame

(* The pages of r are told a change.                                       *)
LEMMA ToldMoves ==
  ASSUME NEW X \in States, NEW S, NEW Y, NEW r, NEW k \in Keys, NEW v,
         NEW b \in PagesOf(r) \cup {Nobody},
         \A p \in MainPages : X.toCache[p] = <<>> /\ X.toPage[p] = <<>>,
         PagesReady(X, S, r, k, v, b), PagesTold(S, Y, r, k, v, b),
         Y.cache[r][k].val = v, Y.toCache = S.toCache
  PROVE  CacheTells(X, Y, r, k, b)
<1>0. ASSUME NEW p \in PagesOf(r) PROVE p \in Pages /\ Home[p] = r /\ p # Nobody
  BY CacheAssumption DEF PagesOf
<1>1. ASSUME NEW p \in PagesOf(r) \cap MainPages
      PROVE  /\ Called(p, Accepts[p], PageView(X, p, k), PageView(Y, p, k))
             /\ p = b => Y.page[p][k].val = Y.cache[r][k].val
  <2>1. /\ UpOf(X.toCache[p], k) = <<>> /\ DownOf(X.toPage[p], k) = <<>>
    BY NothingThrough
  <2>2. X.page[p][k].pending \in Int
    BY <1>0 DEF States, PageEl
  <2>3. /\ Y.page[p][k].made = X.page[p][k].made
        /\ DownOf(Y.toPage[p], k) = DownOf(X.toPage[p], k)
        /\ UpOf(Y.toCache[p], k) = UpOf(X.toCache[p], k)
    BY DEF PagesReady, PagesTold, SameEl
  <2>4. CASE p = b
    <3>1. /\ Y.page[p][k].val = v
          /\ Y.page[p][k].pending = X.page[p][k].pending
      BY <2>2, <2>4 DEF PagesReady, PagesTold
    <3> QED
      BY <1>0, <2>1, <2>3, <3>1 DEF Called, PageView
  <2>5. CASE p # b
    <3>1. /\ Y.page[p][k].pending = X.page[p][k].pending
          /\ X.page[p][k].made /\ v \in Accepts[p] => Y.page[p][k].val = v
      BY <2>5 DEF PagesReady, PagesTold, SameEl
    <3> QED
      BY <1>0, <2>1, <2>3, <2>5, <3>1 DEF Called, PageView
  <2> QED
    BY <2>4, <2>5
<1>2. ASSUME NEW p \in PagesOf(r) \ MainPages
      PROVE  Posted(p, b, PageView(X, p, k), PageView(Y, p, k))
  <2>1. /\ Y.page[p][k].made = X.page[p][k].made /\ Y.page[p][k].val = X.page[p][k].val
        /\ Y.page[p][k].pending = X.page[p][k].pending
        /\ DownOf(Y.toPage[p], k) = Append(DownOf(X.toPage[p], k), [val |-> v, by |-> b])
    BY DEF PagesReady, PagesTold, SameEl
  <2>2. IF p = b
        THEN /\ UpOf(X.toCache[p], k) # <<>> /\ v = Head(UpOf(X.toCache[p], k))
             /\ UpOf(Y.toCache[p], k) = Tail(UpOf(X.toCache[p], k))
        ELSE UpOf(Y.toCache[p], k) = UpOf(X.toCache[p], k)
    BY DEF PagesReady
  <2> QED
    BY <1>0, <2>1, <2>2 DEF Posted, PageView
<1> QED
  BY <1>1, <1>2 DEF CacheTells

-----------------------------------------------------------------------------
(* Between the processes: nothing of key k changes from X to S,            *)
ProcsKept(X, S, k) ==
  /\ \A r \in Procs : SameCache(X.cache[r][k], S.cache[r][k])
  /\ \A g \in Guis : /\ DownOf(S.toProc[g], k) = DownOf(X.toProc[g], k)
                     /\ UpOf(S.toCore[g], k) = UpOf(X.toCore[g], k)

(* or only what precedes the telling of the value v of process o.          *)
ProcsReady(X, S, k, v, o) ==
  /\ \A r \in Procs : SameCache(X.cache[r][k], S.cache[r][k])
  /\ \A g \in Guis : DownOf(S.toProc[g], k) = DownOf(X.toProc[g], k)
  /\ \A g \in Guis \ {o} : UpOf(S.toCore[g], k) = UpOf(X.toCore[g], k)
  /\ o \in Guis =>
       /\ UpOf(X.toCore[o], k) # <<>> /\ v = Head(UpOf(X.toCore[o], k))
       /\ UpOf(S.toCore[o], k) = Tail(UpOf(X.toCore[o], k))

(* To the processes, a step that tells nobody,                             *)
LEMMA ProcStayMoves ==
  ASSUME NEW X, NEW S, NEW Y, NEW A, NEW k,
         ProcsKept(X, S, k), ProcsSame(S, Y, k), UpSame(S, Y, k)
  PROVE  ProcsButStay(X, A, Y, A, k, {})
<1> USE CacheAssumption
<1>1. ASSUME NEW r \in Procs PROVE ProcStays(X, A, Y, A, r, k)
  <2>1. /\ Y.cache[r][k].val = X.cache[r][k].val
        /\ Y.cache[r][k].pending = X.cache[r][k].pending
        /\ Y.cache[Core][k].val = X.cache[Core][k].val
    BY DEF ProcsKept, ProcsSame, SameCache
  <2>2. r # Core => /\ DownOf(Y.toProc[r], k) = DownOf(X.toProc[r], k)
                    /\ UpOf(Y.toCore[r], k) = UpOf(X.toCore[r], k)
    BY DEF ProcsKept, ProcsSame, UpSame, Guis
  <2> QED
    BY <2>1, <2>2 DEF ProcStays, Stays, ProcView
<1> QED
  BY <1>1 DEF ProcsButStay, ProcsKept, ProcsSame, SameCache

(* a step in which the core tells a change of o,                           *)
LEMMA ProcToldMoves ==
  ASSUME NEW X, NEW S, NEW Y, NEW A, NEW k, NEW v, NEW o \in Procs,
         ProcsReady(X, S, k, v, o), ProcsTold(S, Y, k, v, o), UpSame(S, Y, k)
  PROVE  CoreTells(X, A, Y, A, k, o)
<1> USE CacheAssumption
<1>1. Called(Core, Values, ProcView(X, A, Core, k), ProcView(Y, A, Core, k))
  <2>1. Y.cache[Core][k].pending = X.cache[Core][k].pending
    BY DEF ProcsReady, ProcsTold, SameCache
  <2> QED
    BY <2>1 DEF Called, ProcView
<1>2. ASSUME NEW r \in Guis PROVE Posted(r, o, ProcView(X, A, r, k), ProcView(Y, A, r, k))
  <2>0. r # Core /\ r \in Procs
    BY DEF Guis
  <2>1. /\ Y.cache[r][k].val = X.cache[r][k].val
        /\ Y.cache[r][k].pending = X.cache[r][k].pending
        /\ DownOf(Y.toProc[r], k) = Append(DownOf(X.toProc[r], k), [val |-> v, by |-> o])
    BY <2>0 DEF ProcsReady, ProcsTold, SameCache
  <2>2. IF o = r
        THEN /\ UpOf(X.toCore[r], k) # <<>> /\ v = Head(UpOf(X.toCore[r], k))
             /\ UpOf(Y.toCore[r], k) = Tail(UpOf(X.toCore[r], k))
        ELSE UpOf(Y.toCore[r], k) = UpOf(X.toCore[r], k)
    BY DEF ProcsReady, UpSame
  <2>3. Y.cache[Core][k].val = v
    BY DEF ProcsTold
  <2> QED
    BY <2>0, <2>1, <2>2, <2>3 DEF Posted, ProcView
<1> QED
  BY <1>1, <1>2 DEF CoreTells

(* and a step in which the cache of r changes.                             *)
LEMMA ProcChangeMoves ==
  ASSUME NEW X, NEW S, NEW Y, NEW A, NEW k, NEW v, NEW r \in Guis,
         ProcsKept(X, S, k), ProcChanges(S, Y, r, k, v)
  PROVE  CacheChanges(X, A, Y, A, k, r)
<1> USE CacheAssumption
<1>0. r # Core /\ r \in Procs
  BY DEF Guis
<1>c. Y.cache[Core][k].val = X.cache[Core][k].val
  BY <1>0 DEF ProcsKept, ProcChanges, SameCache
<1>1. Changes(r, ProcView(X, A, r, k), ProcView(Y, A, r, k))
  <2>1. /\ Y.cache[r][k].val = v /\ Y.cache[r][k].pending = X.cache[r][k].pending + 1
        /\ DownOf(Y.toProc[r], k) = DownOf(X.toProc[r], k)
        /\ UpOf(Y.toCore[r], k) = Append(UpOf(X.toCore[r], k), v)
    BY <1>0 DEF ProcsKept, ProcChanges, SameCache
  <2> QED
    BY <1>0, <1>c, <2>1 DEF Changes, ProcView
<1>2. ASSUME NEW g \in Procs \ {r} PROVE ProcStays(X, A, Y, A, g, k)
  <2>1. /\ Y.cache[g][k].val = X.cache[g][k].val
        /\ Y.cache[g][k].pending = X.cache[g][k].pending
    BY DEF ProcsKept, ProcChanges, SameCache
  <2>2. g # Core => /\ DownOf(Y.toProc[g], k) = DownOf(X.toProc[g], k)
                    /\ UpOf(Y.toCore[g], k) = UpOf(X.toCore[g], k)
    BY DEF ProcsKept, ProcChanges, Guis
  <2> QED
    BY <1>c, <2>1, <2>2 DEF ProcStays, Stays, ProcView
<1> QED
  BY <1>c, <1>1, <1>2 DEF CacheChanges, ProcsButStay

-----------------------------------------------------------------------------
(***************************************************************************)
(* What a step from X to Y keeps and does, while the processes N may take  *)
(* messages and the synchronized ones change from A to B.                  *)
(***************************************************************************)
StepFacts(X, A, Y, B, N) ==
  /\ Y \in States /\ WiredBut(Y, Nobody, {})
  /\ \A p \in Pages, k \in Keys : X.page[p][k].made => Y.page[p][k].made
  /\ \A r \in Procs, k \in Keys : PageMoves(X, Y, r, k)
  /\ \A k \in Keys : ProcMoves(X, A, Y, B, N, k)

(* changeValues of r, of a packet pkt of b, with what precedes it.         *)
LEMMA ChangeMoves ==
  ASSUME NEW X \in States, NEW S \in States, NEW A, NEW N, NEW r \in Procs, NEW pkt \in Packets,
         NEW b \in PagesOf(r) \cup {Nobody}, NEW ok,
         NEW Y, Y = ChangeValues(S, r, pkt, b, ok),
         WiredBut(X, Nobody, {}),
         WiredBut(S, b, IF pkt.changed THEN DOMAIN pkt.vals ELSE {}),
         b \in Pages => \A k \in DOMAIN pkt.vals : S.page[b][k].made,
         S.cache = X.cache, S.toCore = X.toCore, S.toProc = X.toProc, SameMade(X, S),
         \A k \in Keys : IF Carries(pkt, k) THEN PagesReady(X, S, r, k, pkt.vals[k], b)
                         ELSE PagesKept(X, S, r, k),
         \A g \in Procs \ {r}, k \in Keys : PagesKept(X, S, g, k)
  PROVE  StepFacts(X, A, Y, A, N)
<1> USE CacheAssumption
<1>1. /\ Y \in States /\ WiredBut(Y, Nobody, {}) /\ SameMade(S, Y)
      /\ Y.toCache = S.toCache
      /\ \A k \in Keys : ChangeKeyFacts(S, Y, r, pkt, b, k)
  BY ChangeKeys
<1>2. \A p \in MainPages : X.toCache[p] = <<>> /\ X.toPage[p] = <<>>
  BY DEF WiredBut
<1>3. ASSUME NEW g \in Procs, NEW k \in Keys PROVE PageMoves(X, Y, g, k)
  <2>0. ChangeKeyFacts(S, Y, r, pkt, b, k)
    BY <1>1
  <2>1. CASE g = r /\ Carries(pkt, k)
    <3>1. Y.cache[r][k].val = pkt.vals[k] /\ PagesTold(S, Y, r, k, pkt.vals[k], b)
      BY <2>0, <2>1 DEF ChangeKeyFacts
    <3>2. PagesReady(X, S, r, k, pkt.vals[k], b)
      BY <2>1
    <3>3. CacheTells(X, Y, r, k, b)
      BY <1>1, <1>2, <3>1, <3>2, ToldMoves
    <3>4. b \in Pages \cup {Nobody}
      BY DEF PagesOf
    <3> QED
      BY <2>1, <3>3, <3>4 DEF PageMoves
  <2>2. CASE ~ (g = r /\ Carries(pkt, k))
    <3>1. HubSame(S, Y, g, k)
      BY <2>0, <2>2 DEF ChangeKeyFacts
    <3>2. PagesKept(X, S, g, k)
      BY <2>2
    <3>3. PagesButStay(X, Y, g, k, {})
      BY <1>1, <3>1, <3>2, StayMoves
    <3> QED
      BY <3>3 DEF PageMoves
  <2> QED
    BY <2>1, <2>2
<1>4. ASSUME NEW k \in Keys PROVE ProcMoves(X, A, Y, A, N, k)
  <2>0. ChangeKeyFacts(S, Y, r, pkt, b, k)
    BY <1>1
  <2>k. ProcsKept(X, S, k)
    BY DEF ProcsKept, SameCache
  <2>1. CASE ~ Carries(pkt, k)
    <3>1. ProcsSame(S, Y, k) /\ UpSame(S, Y, k)
      BY <2>0, <2>1 DEF ChangeKeyFacts
    <3>2. ProcsButStay(X, A, Y, A, k, {})
      BY <2>k, <3>1, ProcStayMoves
    <3> QED
      BY <3>2 DEF ProcMoves
  <2>2. CASE Carries(pkt, k) /\ r = Core
    <3>1. ProcsTold(S, Y, k, pkt.vals[k], Core) /\ UpSame(S, Y, k)
      BY <2>0, <2>2 DEF ChangeKeyFacts
    <3>2. ProcsReady(X, S, k, pkt.vals[k], Core)
      BY <2>k DEF ProcsKept, ProcsReady, Guis
    <3>3. CoreTells(X, A, Y, A, k, Core)
      BY <3>1, <3>2, ProcToldMoves
    <3> QED
      BY <3>3 DEF ProcMoves
  <2>3. CASE Carries(pkt, k) /\ r # Core
    <3>1. ProcChanges(S, Y, r, k, pkt.vals[k]) /\ r \in Guis
      BY <2>0, <2>3 DEF ChangeKeyFacts, Guis
    <3>2. CacheChanges(X, A, Y, A, k, r)
      BY <2>k, <3>1, ProcChangeMoves
    <3> QED
      BY <3>2 DEF ProcMoves
  <2> QED
    BY <2>1, <2>2, <2>3
<1>5. \A p \in Pages, k \in Keys : X.page[p][k].made => Y.page[p][k].made
  BY <1>1 DEF SameMade
<1> QED
  BY <1>1, <1>3, <1>4, <1>5 DEF StepFacts

-----------------------------------------------------------------------------
(* A synchronous chain of calls determines the next state.                 *)
LEMMA BecomesState ==
  ASSUME NEW S \in States, Becomes(S)
  PROVE  State' = S
BY DEF Becomes, State, States

(* A step that leaves the queues, the values and the counters alone.       *)
LEMMA NoMoves ==
  ASSUME NEW X \in States, NEW Y \in States, NEW A, NEW N, WiredBut(X, Nobody, {}),
         Y.page = X.page, Y.toCache = X.toCache, Y.toPage = X.toPage,
         Y.toCore = X.toCore, Y.toProc = X.toProc,
         \A r \in Procs, k \in Keys : SameCache(X.cache[r][k], Y.cache[r][k])
  PROVE  StepFacts(X, A, Y, A, N)
<1> USE CacheAssumption
<1>1. WiredBut(Y, Nobody, {})
  <2>1. \A k \in Keys : Y.cache[Core][k].pending = X.cache[Core][k].pending
    BY DEF SameCache
  <2>2. \A k \in Keys : Y.cache[Core][k].pending = 0
    BY <2>1 DEF WiredBut
  <2>3. /\ \A p \in MainPages : Y.toCache[p] = <<>> /\ Y.toPage[p] = <<>>
        /\ \A p \in MainPages, k \in Keys :
             Y.page[p][k].pending = IF p = Nobody /\ k \in {} THEN 1 ELSE 0
    BY DEF WiredBut
  <2>4. \A p \in Pages, k \in Keys : ~ Y.page[p][k].made => Y.page[p][k].pending = 0
    BY DEF WiredBut
  <2>5. \A p \in Pages : /\ Y.toCache[p] \in Seq(MadePackets(Y.page[p]))
                         /\ Y.toPage[p] \in Seq(PageMessages(p, Y.page[p]))
    BY DEF WiredBut
  <2> QED
    BY <2>2, <2>3, <2>4, <2>5 DEF WiredBut
<1>2. ASSUME NEW r \in Procs, NEW k \in Keys PROVE PageMoves(X, Y, r, k)
  <2>1. PagesKept(X, X, r, k)
    BY DEF PagesKept, SameEl
  <2>2. HubSame(X, Y, r, k)
    BY DEF HubSame, PagesSame, SameEl, SameCache
  <2>3. PagesButStay(X, Y, r, k, {})
    BY <2>1, <2>2, StayMoves
  <2> QED
    BY <2>3 DEF PageMoves
<1>3. ASSUME NEW k \in Keys PROVE ProcMoves(X, A, Y, A, N, k)
  <2>1. ProcsKept(X, X, k)
    BY DEF ProcsKept, SameCache
  <2>2. ProcsSame(X, Y, k) /\ UpSame(X, Y, k)
    BY DEF ProcsSame, UpSame
  <2>3. ProcsButStay(X, A, Y, A, k, {})
    BY <2>1, <2>2, ProcStayMoves
  <2> QED
    BY <2>3 DEF ProcMoves
<1> QED
  BY <1>1, <1>2, <1>3 DEF StepFacts

-----------------------------------------------------------------------------
(* The elements el of page p after a change or a save request of its own.  *)
Wants(old, el, pkt) ==
  /\ \A k \in Keys : el[k].made = old[k].made
  /\ \A k \in Keys : IF Carries(pkt, k)
                     THEN /\ el[k].val = pkt.vals[k]
                          /\ el[k].pending = old[k].pending + 1
                     ELSE el[k].val = old[k].val /\ el[k].pending = old[k].pending
  /\ \A k \in DOMAIN pkt.vals : old[k].made

(* What is wired stays so when page p has its new elements.                *)
LEMMA WantsWired ==
  ASSUME NEW X \in States, WiredBut(X, Nobody, {}), NEW p \in Pages, NEW pkt \in Packets,
         NEW el \in [Keys -> PageEl], Wants(X.page[p], el, pkt),
         NEW S, S = [X EXCEPT !.page[p] = el]
  PROVE  /\ S \in States /\ SameMade(X, S)
         /\ S.cache = X.cache /\ S.toCache = X.toCache /\ S.toPage = X.toPage
         /\ S.toCore = X.toCore /\ S.toProc = X.toProc
         /\ S.page[p] = el /\ \A q \in Pages \ {p} : S.page[q] = X.page[q]
         /\ pkt \in MadePackets(S.page[p])
         /\ WiredBut(S, p, IF pkt.changed THEN DOMAIN pkt.vals ELSE {})
<1> USE CacheAssumption
<1>1. X.page \in [Pages -> [Keys -> PageEl]]
  BY DEF States
<1>2. /\ S.page = [X.page EXCEPT ![p] = el]
      /\ S.cache = X.cache /\ S.toCache = X.toCache /\ S.toPage = X.toPage
      /\ S.toCore = X.toCore /\ S.toProc = X.toProc
      /\ S.disk = X.disk /\ S.blame = X.blame
  BY DEF States
<1>3. [X.page EXCEPT ![p] = el] \in [Pages -> [Keys -> PageEl]]
  BY <1>1
<1>4. S \in States
  BY <1>3 DEF States
<1>5. S.page[p] = el /\ \A q \in Pages \ {p} : S.page[q] = X.page[q]
  BY <1>1, <1>2
<1>6. SameMade(X, S)
  BY <1>5 DEF SameMade, Wants
<1>7. pkt \in MadePackets(S.page[p])
  <2>1. \A k \in DOMAIN pkt.vals : k \in Keys
    BY MapsAre DEF Packets
  <2> QED
    BY <1>5, <2>1 DEF MadePackets, Wants
<1>8. WiredBut(S, p, IF pkt.changed THEN DOMAIN pkt.vals ELSE {})
  <2> DEFINE K == IF pkt.changed THEN DOMAIN pkt.vals ELSE {}
  <2>1. \A k \in Keys : k \in K <=> Carries(pkt, k)
    BY DEF Carries
  <2> HIDE DEF K
  <2>2. ASSUME NEW q \in MainPages, NEW k \in Keys
        PROVE  S.page[q][k].pending = IF q = p /\ k \in K THEN 1 ELSE 0
    <3>1. X.page[q][k].pending = 0
      BY DEF WiredBut
    <3>2. CASE q = p
      BY <1>5, <2>1, <3>1, <3>2 DEF Wants
    <3>3. CASE q # p
      BY <1>5, <3>1, <3>3
    <3> QED
      BY <3>2, <3>3
  <2>3. ASSUME NEW q \in Pages, NEW k \in Keys, ~ S.page[q][k].made
        PROVE  S.page[q][k].pending = 0
    <3>1. X.page[q][k].pending = 0
      <4>1. ~ X.page[q][k].made
        BY <1>6, <2>3 DEF SameMade
      <4>2. ~ X.page[q][k].made => X.page[q][k].pending = 0
        BY DEF WiredBut
      <4> QED
        BY <4>1, <4>2
    <3>2. CASE q = p
      <4>1. k \notin DOMAIN pkt.vals
        BY <1>5, <2>3, <3>2 DEF Wants
      <4>2. el[k].pending = X.page[p][k].pending
        BY <4>1 DEF Wants, Carries
      <4> QED
        BY <1>5, <3>1, <3>2, <4>2
    <3>3. CASE q # p
      BY <1>5, <3>1, <3>3
    <3> QED
      BY <3>2, <3>3
  <2>4. ASSUME NEW q \in Pages
        PROVE  /\ S.toCache[q] \in Seq(MadePackets(S.page[q]))
               /\ S.toPage[q] \in Seq(PageMessages(q, S.page[q]))
    <3> DEFINE xl == X.page[q]
               sl == S.page[q]
    <3>1. \A k \in Keys : xl[k].made => sl[k].made
      BY <1>6 DEF SameMade
    <3>2. S.toCache[q] \in Seq(MadePackets(xl)) /\ S.toPage[q] \in Seq(PageMessages(q, xl))
      BY <1>2 DEF WiredBut
    <3> HIDE DEF xl, sl
    <3>3. S.toCache[q] \in Seq(MadePackets(sl)) /\ S.toPage[q] \in Seq(PageMessages(q, sl))
      BY <3>1, <3>2, MadeMonotonic
    <3> QED
      BY <3>3 DEF sl
  <2>5. /\ \A q \in MainPages : S.toCache[q] = <<>> /\ S.toPage[q] = <<>>
        /\ \A k \in Keys : S.cache[Core][k].pending = 0
    BY <1>2 DEF WiredBut
  <2>6. WiredBut(S, p, K)
    BY <2>2, <2>3, <2>4, <2>5 DEF WiredBut
  <2> QED
    BY <2>6 DEF K
<1> QED
  BY <1>2, <1>4, <1>5, <1>6, <1>7, <1>8

(* A page changes values, or asks for them to be saved.                    *)
LEMMA WantMoves ==
  ASSUME NEW X \in States, WiredBut(X, Nobody, {}), NEW p \in Pages, NEW pkt \in Packets,
         NEW el \in [Keys -> PageEl], Wants(X.page[p], el, pkt), NEW ok, NEW A, NEW N,
         NEW Y, Y = WantToCache([X EXCEPT !.page[p] = el], p, pkt, ok)
  PROVE  StepFacts(X, A, Y, A, N)
<1> USE CacheAssumption
<1> DEFINE S == [X EXCEPT !.page[p] = el]
           K == IF pkt.changed THEN DOMAIN pkt.vals ELSE {}
<1>1. Y = WantToCache(S, p, pkt, ok)
  OBVIOUS
<1>2. /\ S \in States /\ SameMade(X, S)
      /\ S.cache = X.cache /\ S.toCache = X.toCache /\ S.toPage = X.toPage
      /\ S.toCore = X.toCore /\ S.toProc = X.toProc
      /\ S.page[p] = el /\ \A q \in Pages \ {p} : S.page[q] = X.page[q]
      /\ pkt \in MadePackets(S.page[p])
      /\ WiredBut(S, p, K)
  BY WantsWired
<1> HIDE DEF S
<1>3. Home[p] \in Procs /\ p \in PagesOf(Home[p])
  BY DEF PagesOf
<1>4. ASSUME NEW g \in Procs, NEW k \in Keys, g # Home[p] \/ ~ Carries(pkt, k)
      PROVE  PagesKept(X, S, g, k)
  <2>1. ASSUME NEW q \in PagesOf(g) PROVE SameEl(X.page[q][k], S.page[q][k])
    <3>1. q \in Pages /\ Home[q] = g
      BY DEF PagesOf
    <3>2. CASE q = p
      BY <1>2, <1>4, <3>1, <3>2 DEF SameEl, Wants
    <3>3. CASE q # p
      BY <1>2, <3>1, <3>3 DEF SameEl
    <3> QED
      BY <3>2, <3>3
  <2> QED
    BY <1>2, <2>1 DEF PagesKept
<1>5. CASE p \in MainPages
  <2>1. Y = ChangeValues(S, Home[p], pkt, p, ok)
    BY <1>1, <1>5 DEF WantToCache
  <2>2. \A k \in DOMAIN pkt.vals : S.page[p][k].made
    BY <1>2 DEF MadePackets
  <2>3. ASSUME NEW k \in Keys, Carries(pkt, k)
        PROVE  PagesReady(X, S, Home[p], k, pkt.vals[k], p)
    <3>1. \A q \in PagesOf(Home[p]) : q \in Pages
      BY DEF PagesOf
    <3>2. \A q \in PagesOf(Home[p]) : S.page[q][k].made = X.page[q][k].made
      BY <1>2, <3>1 DEF SameMade
    <3>3. S.page[p][k].val = pkt.vals[k] /\ S.page[p][k].pending = X.page[p][k].pending + 1
      BY <1>2, <2>3 DEF Wants
    <3> QED
      BY <1>2, <1>5, <3>1, <3>2, <3>3 DEF PagesReady, SameEl
  <2> QED
    BY <1>2, <1>3, <1>4, <2>1, <2>2, <2>3, ChangeMoves
<1>6. CASE p \notin MainPages
  <2>1. Y = [S EXCEPT !.toCache[p] = Append(@, pkt)]
    BY <1>1, <1>6 DEF WantToCache
  <2>2. S.toCache \in [Pages -> Seq(Packets)]
    BY <1>2 DEF States
  <2>3. [S.toCache EXCEPT ![p] = Append(@, pkt)] \in [Pages -> Seq(Packets)]
    BY <2>2, AppendProperties
  <2>4. /\ Y.toCache = [S.toCache EXCEPT ![p] = Append(@, pkt)]
        /\ Y.page = S.page /\ Y.cache = S.cache /\ Y.toPage = S.toPage
        /\ Y.toCore = S.toCore /\ Y.toProc = S.toProc
        /\ Y.disk = S.disk /\ Y.blame = S.blame
    BY <1>2, <2>1 DEF States
  <2>5. Y \in States
    BY <1>2, <2>1, <2>3 DEF States
  <2>6. /\ Y.toCache[p] = Append(S.toCache[p], pkt)
        /\ \A q \in Pages \ {p} : Y.toCache[q] = S.toCache[q]
    BY <2>2, <2>4
  <2>7. WiredBut(Y, Nobody, {})
    <3>1. ASSUME NEW q \in Pages PROVE Y.toCache[q] \in Seq(MadePackets(Y.page[q]))
      <4>1. S.toCache[q] \in Seq(MadePackets(S.page[q]))
        BY <1>2 DEF WiredBut
      <4>2. q = p => Append(S.toCache[q], pkt) \in Seq(MadePackets(S.page[q]))
        BY <1>2, <4>1, AppendProperties
      <4> QED
        BY <2>4, <2>6, <4>1, <4>2
    <3>2. \A q \in MainPages : q \in Pages /\ q # p
      BY <1>6
    <3>3. /\ \A q \in MainPages : S.toCache[q] = <<>> /\ S.toPage[q] = <<>>
          /\ \A q \in MainPages, k \in Keys : S.page[q][k].pending = 0
          /\ \A k \in Keys : S.cache[Core][k].pending = 0
      BY <1>2, <3>2 DEF WiredBut
    <3>4. \A q \in Pages, k \in Keys : ~ S.page[q][k].made => S.page[q][k].pending = 0
      BY <1>2 DEF WiredBut
    <3>5. \A q \in Pages : S.toPage[q] \in Seq(PageMessages(q, S.page[q]))
      BY <1>2 DEF WiredBut
    <3>6. \A q \in MainPages : Y.toCache[q] = <<>> /\ Y.toPage[q] = <<>>
      BY <2>4, <2>6, <3>2, <3>3
    <3>7. \A q \in MainPages, k \in Keys :
            Y.page[q][k].pending = IF q = Nobody /\ k \in {} THEN 1 ELSE 0
      BY <2>4, <3>3
    <3>8. \A k \in Keys : Y.cache[Core][k].pending = 0
      BY <2>4, <3>3
    <3>9. \A q \in Pages, k \in Keys : ~ Y.page[q][k].made => Y.page[q][k].pending = 0
      BY <2>4, <3>4
    <3>10. \A q \in Pages : Y.toPage[q] \in Seq(PageMessages(q, Y.page[q]))
      BY <2>4, <3>5
    <3> QED
      BY <3>1, <3>6, <3>7, <3>8, <3>9, <3>10 DEF WiredBut
  <2>8. \A k \in Keys : UpOf(Y.toCache[p], k) =
             IF Carries(pkt, k) THEN Append(UpOf(X.toCache[p], k), pkt.vals[k])
             ELSE UpOf(X.toCache[p], k)
    <3> DEFINE q == X.toCache[p]
    <3>1. q \in Seq(Packets) /\ Y.toCache[p] = Append(q, pkt)
      BY <1>2, <2>2, <2>6
    <3> HIDE DEF q
    <3>2. \A k \in Keys : UpOf(Append(q, pkt), k) =
            IF Carries(pkt, k) THEN Append(UpOf(q, k), pkt.vals[k]) ELSE UpOf(q, k)
      BY <3>1, UpAppend
    <3> QED
      BY <3>1, <3>2 DEF q
  <2>9. ASSUME NEW g \in Procs, NEW k \in Keys PROVE PageMoves(X, Y, g, k)
    <3>1. ASSUME NEW q \in PagesOf(g), q # p \/ ~ Carries(pkt, k) PROVE PageStays(X, Y, q, k)
      <4>1. q \in Pages /\ Home[q] = g
        BY DEF PagesOf
      <4>2. UpOf(Y.toCache[q], k) = UpOf(X.toCache[q], k)
        <5>1. CASE q = p
          BY <2>8, <3>1, <5>1
        <5>2. CASE q # p
          BY <1>2, <2>6, <4>1, <5>2
        <5> QED
          BY <5>1, <5>2
      <4>3. SameEl(X.page[q][k], S.page[q][k])
        <5>1. CASE q = p
          BY <1>2, <3>1, <5>1 DEF SameEl, Wants
        <5>2. CASE q # p
          BY <1>2, <4>1, <5>2 DEF SameEl
        <5> QED
          BY <5>1, <5>2
      <4> QED
        BY <1>2, <2>4, <4>1, <4>2, <4>3 DEF PageStays, Stays, PageView, SameEl
    <3>2. Y.cache[g][k].val = X.cache[g][k].val
      BY <1>2, <2>4
    <3>3. CASE g = Home[p] /\ Carries(pkt, k)
      <4>1. Changes(p, PageView(X, p, k), PageView(Y, p, k))
        <5>1. /\ Y.page[p][k].val = pkt.vals[k]
              /\ Y.page[p][k].pending = X.page[p][k].pending + 1
              /\ Y.page[p][k].made = X.page[p][k].made
          BY <1>2, <2>4, <3>3 DEF Wants
        <5> QED
          BY <1>2, <2>4, <2>8, <3>2, <3>3, <5>1 DEF Changes, PageView
      <4>2. PageChanges(X, Y, g, k, p)
        BY <1>3, <1>6, <3>1, <3>2, <3>3, <4>1 DEF PageChanges, PagesButStay
      <4> QED
        BY <4>2 DEF PageMoves
    <3>4. CASE g # Home[p] \/ ~ Carries(pkt, k)
      <4>1. \A q \in PagesOf(g) : q # p \/ ~ Carries(pkt, k)
        BY <3>4 DEF PagesOf
      <4>2. PagesButStay(X, Y, g, k, {})
        BY <3>1, <3>2, <4>1 DEF PagesButStay
      <4> QED
        BY <4>2 DEF PageMoves
    <3> QED
      BY <3>3, <3>4
  <2>10. ASSUME NEW k \in Keys PROVE ProcMoves(X, A, Y, A, N, k)
    <3>1. ProcsKept(X, S, k)
      BY <1>2 DEF ProcsKept, SameCache
    <3>2. ProcsSame(S, Y, k) /\ UpSame(S, Y, k)
      BY <2>4 DEF ProcsSame, UpSame, SameCache
    <3>3. ProcsButStay(X, A, Y, A, k, {})
      BY <3>1, <3>2, ProcStayMoves
    <3> QED
      BY <3>3 DEF ProcMoves
  <2>11. \A q \in Pages, k \in Keys : X.page[q][k].made => Y.page[q][k].made
    BY <1>2, <2>4 DEF SameMade
  <2> QED
    BY <2>5, <2>7, <2>9, <2>10, <2>11 DEF StepFacts
<1> QED
  BY <1>5, <1>6

-----------------------------------------------------------------------------
(* Nothing precedes a change that no page made.                            *)
LEMMA ReadyForNobody ==
  ASSUME NEW X, NEW S, NEW r, NEW k, NEW v, PagesKept(X, S, r, k)
  PROVE  PagesReady(X, S, r, k, v, Nobody)
<1>1. Nobody \notin PagesOf(r)
  BY CacheAssumption DEF PagesOf
<1> QED
  BY <1>1 DEF PagesReady, PagesKept, SameEl

(* What is wired says nothing about Nobody.                                *)
LEMMA WiredNobody ==
  ASSUME NEW X, NEW K, NEW b, b \notin MainPages, NEW L, NEW c, c \notin MainPages,
         WiredBut(X, b, K)
  PROVE  WiredBut(X, c, L)
<1>1. \A p \in MainPages, k \in Keys : X.page[p][k].pending = 0
  BY DEF WiredBut
<1> QED
  BY <1>1 DEF WiredBut

(* loadFromStore and clearAllValues: a change of the cache of r itself.    *)
LEMMA HubMoves ==
  ASSUME NEW X \in States, WiredBut(X, Nobody, {}), NEW r \in Procs, NEW pkt \in Packets,
         NEW ok, NEW A, NEW N, NEW Y, Y = ChangeValues(X, r, pkt, Nobody, ok)
  PROVE  StepFacts(X, A, Y, A, N)
<1>1. Nobody \notin Pages /\ Nobody \notin MainPages
  BY CacheAssumption
<1>2. WiredBut(X, Nobody, IF pkt.changed THEN DOMAIN pkt.vals ELSE {})
  BY <1>1, WiredNobody
<1>3. \A g \in Procs, k \in Keys : PagesKept(X, X, g, k)
  BY DEF PagesKept, SameEl
<1>4. \A k \in Keys : PagesReady(X, X, r, k, pkt.vals[k], Nobody)
  BY <1>3, ReadyForNobody
<1>5. SameMade(X, X)
  BY DEF SameMade
<1> QED
  BY <1>1, <1>2, <1>3, <1>4, <1>5, ChangeMoves

(* The cache takes the oldest packet of page p.                            *)
LEMMA CacheTakesMoves ==
  ASSUME NEW X \in States, WiredBut(X, Nobody, {}), NEW p \in Pages, X.toCache[p] # <<>>,
         NEW ok, NEW A, NEW N,
         NEW Y, Y = ChangeValues([X EXCEPT !.toCache[p] = Tail(@)], Home[p],
                                 Head(X.toCache[p]), p, ok)
  PROVE  StepFacts(X, A, Y, A, N)
<1> USE CacheAssumption
<1> DEFINE S == [X EXCEPT !.toCache[p] = Tail(@)]
           pkt == Head(X.toCache[p])
           q == X.toCache[p]
<1>1. p \notin MainPages /\ Home[p] \in Procs /\ p \in PagesOf(Home[p])
  BY DEF WiredBut, PagesOf
<1>2. X.toCache \in [Pages -> Seq(Packets)]
  BY DEF States
<1>3. q \in Seq(Packets) /\ q # <<>>
  BY <1>2
<1>4. Tail(q) \in Seq(Packets) /\ pkt \in Packets
  BY <1>3, HeadTailProperties
<1>5. [X.toCache EXCEPT ![p] = Tail(@)] \in [Pages -> Seq(Packets)]
  BY <1>2, <1>4
<1>6. /\ S.toCache = [X.toCache EXCEPT ![p] = Tail(@)]
      /\ S.page = X.page /\ S.cache = X.cache /\ S.toPage = X.toPage
      /\ S.toCore = X.toCore /\ S.toProc = X.toProc
  BY DEF States
<1>7. S \in States
  BY <1>5 DEF States
<1>8. S.toCache[p] = Tail(q) /\ \A d \in Pages \ {p} : S.toCache[d] = X.toCache[d]
  BY <1>2, <1>6
<1>9. Y = ChangeValues(S, Home[p], pkt, p, ok)
  OBVIOUS
<1>10. pkt \in MadePackets(X.page[p]) /\ Tail(q) \in Seq(MadePackets(X.page[p]))
  <2>1. q \in Seq(MadePackets(X.page[p]))
    BY DEF WiredBut
  <2> QED
    BY <1>3, <2>1, HeadTailProperties
<1>11. \A k \in Keys :
         /\ ~ Carries(Head(q), k) => UpOf(Tail(q), k) = UpOf(q, k)
         /\ Carries(Head(q), k) => /\ UpOf(q, k) # <<>>
                                   /\ Head(UpOf(q, k)) = Head(q).vals[k]
                                   /\ UpOf(Tail(q), k) = Tail(UpOf(q, k))
  <2> HIDE DEF q
  <2> QED
    BY <1>3, UpTail
<1> HIDE DEF S
<1>12. WiredBut(S, p, IF pkt.changed THEN DOMAIN pkt.vals ELSE {})
  <2>1. ASSUME NEW d \in Pages PROVE S.toCache[d] \in Seq(MadePackets(S.page[d]))
    <3>1. CASE d = p
      BY <1>6, <1>8, <1>10, <3>1
    <3>2. CASE d # p
      BY <1>6, <1>8, <3>2 DEF WiredBut
    <3> QED
      BY <3>1, <3>2
  <2>2. \A d \in MainPages : d \in Pages /\ d # p
    BY <1>1
  <2>3. \A d \in MainPages : S.toCache[d] = <<>> /\ S.toPage[d] = <<>>
    BY <1>6, <1>8, <2>2 DEF WiredBut
  <2>4. WiredBut(S, Nobody, {})
    BY <1>6, <2>1, <2>3 DEF WiredBut
  <2>5. Nobody \notin MainPages
    OBVIOUS
  <2> QED
    BY <1>1, <2>4, <2>5, WiredNobody
<1>13. \A k \in DOMAIN pkt.vals : S.page[p][k].made
  BY <1>6, <1>10 DEF MadePackets
<1>14. SameMade(X, S)
  BY <1>6 DEF SameMade
<1>15. ASSUME NEW k \in Keys, Carries(pkt, k)
       PROVE  PagesReady(X, S, Home[p], k, pkt.vals[k], p)
  <2>1. \A d \in PagesOf(Home[p]) \ {p} : UpOf(S.toCache[d], k) = UpOf(X.toCache[d], k)
    BY <1>8 DEF PagesOf
  <2>2. /\ UpOf(X.toCache[p], k) # <<>> /\ pkt.vals[k] = Head(UpOf(X.toCache[p], k))
        /\ UpOf(S.toCache[p], k) = Tail(UpOf(X.toCache[p], k))
    BY <1>8, <1>11, <1>15
  <2> QED
    BY <1>1, <1>6, <2>1, <2>2 DEF PagesReady, SameEl
<1>16. ASSUME NEW g \in Procs, NEW k \in Keys, g # Home[p] \/ ~ Carries(pkt, k)
       PROVE  PagesKept(X, S, g, k)
  <2>1. ASSUME NEW d \in PagesOf(g) PROVE UpOf(S.toCache[d], k) = UpOf(X.toCache[d], k)
    <3>1. d \in Pages /\ Home[d] = g
      BY DEF PagesOf
    <3>2. CASE d = p
      BY <1>8, <1>11, <1>16, <3>1, <3>2
    <3>3. CASE d # p
      BY <1>8, <3>1, <3>3
    <3> QED
      BY <3>2, <3>3
  <2> QED
    BY <1>6, <2>1 DEF PagesKept, SameEl
<1> HIDE DEF pkt, q
<1> QED
  BY <1>1, <1>4, <1>6, <1>7, <1>9, <1>12, <1>13, <1>14, <1>15, <1>16, ChangeMoves

(* What setValuesFromCache of page p does with the value of one key.       *)
TakesKey(e, f, p, m, k) ==
  k \in DOMAIN m.pkt.vals =>
    IF m.by = p THEN f.pending = e.pending - 1 /\ f.val = e.val
    ELSE /\ f.pending = e.pending
         /\ IF e.pending = 0
            THEN e.made /\ m.pkt.vals[k] \in Accepts[p] => f.val = m.pkt.vals[k]
            ELSE f.val = e.val

(* setValuesFromCache does what TakesKey says.                             *)
LEMMA FromCacheKey ==
  ASSUME NEW p \in Pages, NEW el \in [Keys -> PageEl], NEW m \in PageMsgs, NEW k \in Keys,
         m.by = p => \A j \in DOMAIN m.pkt.vals : el[j].made
  PROVE  TakesKey(el[k], FromCache(el, p, m)[k], p, m, k)
<1> SUFFICES ASSUME k \in DOMAIN m.pkt.vals
             PROVE  TakesKey(el[k], FromCache(el, p, m)[k], p, m, k)
  BY DEF TakesKey
<1> DEFINE f == FromCache(el, p, m)[k]
<1>1. el[k] \in PageEl
  OBVIOUS
<1>2. CASE m.by = p
  <2>1. f = [el[k] EXCEPT !.pending = @ - 1]
    BY <1>2 DEF FromCache
  <2>2. f.pending = el[k].pending - 1 /\ f.val = el[k].val
    BY <1>1, <2>1 DEF PageEl
  <2> HIDE DEF f
  <2> QED
    BY <1>2, <2>2 DEF TakesKey, f
<1>3. CASE m.by # p /\ el[k].made /\ el[k].pending = 0 /\ m.pkt.vals[k] \in Accepts[p]
  <2>1. f = [el[k] EXCEPT !.val = m.pkt.vals[k], !.saved = m.pkt.saved]
    BY <1>3 DEF FromCache
  <2>2. f.pending = el[k].pending /\ f.val = m.pkt.vals[k]
    BY <1>1, <2>1 DEF PageEl
  <2> HIDE DEF f
  <2> QED
    BY <1>3, <2>2 DEF TakesKey, f
<1>4. CASE m.by # p /\ ~ (el[k].made /\ el[k].pending = 0 /\ m.pkt.vals[k] \in Accepts[p])
  <2>1. f = el[k]
    BY <1>4 DEF FromCache
  <2> HIDE DEF f
  <2> QED
    BY <1>4, <2>1 DEF TakesKey, f
<1> QED
  BY <1>2, <1>3, <1>4

(* Page p takes its oldest message.                                        *)
LEMMA PageTakesMoves ==
  ASSUME NEW X \in States, WiredBut(X, Nobody, {}), NEW p \in Pages, X.toPage[p] # <<>>,
         NEW A, NEW N, NEW Y, 
         Y = [X EXCEPT !.page = [X.page EXCEPT ![p] = FromCache(@, p, Head(X.toPage[p]))],
                       !.toPage = [X.toPage EXCEPT ![p] = Tail(@)]]
  PROVE  StepFacts(X, A, Y, A, N)
<1> USE CacheAssumption
<1> DEFINE q == X.toPage[p]
           m == Head(q)
           el == X.page[p]
           fl == FromCache(el, p, m)
           B == Pages \cup {Nobody}
<1>1. p \notin MainPages /\ Home[p] \in Procs /\ p \in PagesOf(Home[p])
  BY DEF WiredBut, PagesOf
<1>2. /\ X.page \in [Pages -> [Keys -> PageEl]] /\ X.toPage \in [Pages -> Seq(PageMsgs)]
      /\ el \in [Keys -> PageEl]
  BY DEF States
<1>3. q \in Seq(PageMsgs) /\ q # <<>> /\ m \in PageMsgs /\ Tail(q) \in Seq(PageMsgs)
  BY <1>2, HeadTailProperties
<1>4. m \in PageMessages(p, el) /\ Tail(q) \in Seq(PageMessages(p, el))
  <2>1. q \in Seq(PageMessages(p, el))
    BY DEF WiredBut
  <2> QED
    BY <1>3, <2>1, HeadTailProperties
<1>5. m.pkt.changed /\ (m.by = p => \A k \in DOMAIN m.pkt.vals : el[k].made)
  BY <1>4 DEF PageMessages, MadePackets
<1>6. /\ fl \in [Keys -> PageEl]
      /\ \A k \in Keys : fl[k].made = el[k].made
      /\ \A k \in Keys : k \notin DOMAIN m.pkt.vals => fl[k] = el[k]
  <2> HIDE DEF el, m
  <2> QED
    BY <1>2, <1>3, FromCacheType
<1>7. \A k \in Keys : TakesKey(el[k], fl[k], p, m, k)
  <2> HIDE DEF el, m
  <2> QED
    BY <1>2, <1>3, <1>5, FromCacheKey
<1>8. \A k \in Keys : ~ el[k].made => fl[k] = el[k]
  BY Zenon DEF FromCache
<1>9. \A k \in Keys :
        /\ ~ Carries(Head(q).pkt, k) => DownOf(Tail(q), k) = DownOf(q, k)
        /\ Carries(Head(q).pkt, k) =>
             /\ DownOf(q, k) # <<>>
             /\ Head(DownOf(q, k)) = [val |-> Head(q).pkt.vals[k], by |-> Head(q).by]
             /\ DownOf(Tail(q), k) = Tail(DownOf(q, k))
  <2>1. q \in Seq(Messages(B)) /\ q # <<>>
    BY <1>3 DEF PageMsgs
  <2> HIDE DEF q, B
  <2> QED
    BY <2>1, DownTail
<1>10. /\ [X.page EXCEPT ![p] = fl] \in [Pages -> [Keys -> PageEl]]
       /\ [X.toPage EXCEPT ![p] = Tail(q)] \in [Pages -> Seq(PageMsgs)]
  BY <1>2, <1>3, <1>6
<1>11. Y = [X EXCEPT !.page = [X.page EXCEPT ![p] = fl], !.toPage = [X.toPage EXCEPT ![p] = Tail(q)]]
  OBVIOUS
<1> HIDE DEF fl, q, m
<1>12. /\ Y \in States
       /\ Y.page = [X.page EXCEPT ![p] = fl] /\ Y.toPage = [X.toPage EXCEPT ![p] = Tail(q)]
       /\ Y.cache = X.cache /\ Y.toCache = X.toCache
       /\ Y.toCore = X.toCore /\ Y.toProc = X.toProc
  BY <1>10, <1>11 DEF States
<1>13. /\ Y.page[p] = fl /\ \A d \in Pages \ {p} : Y.page[d] = X.page[d]
       /\ Y.toPage[p] = Tail(q) /\ \A d \in Pages \ {p} : Y.toPage[d] = X.toPage[d]
  BY <1>2, <1>12
<1>14. \A d \in Pages, k \in Keys : Y.page[d][k].made = X.page[d][k].made
  BY <1>6, <1>13
<1>15. WiredBut(Y, Nobody, {})
  <2>0. \A d \in MainPages : d \in Pages /\ d # p
    BY <1>1
  <2>1. \A d \in MainPages : Y.toCache[d] = <<>> /\ Y.toPage[d] = <<>>
    BY <1>12, <1>13, <2>0 DEF WiredBut
  <2>2. \A d \in MainPages, k \in Keys :
          Y.page[d][k].pending = IF d = Nobody /\ k \in {} THEN 1 ELSE 0
    BY <1>13, <2>0 DEF WiredBut
  <2>3. \A k \in Keys : Y.cache[Core][k].pending = 0
    BY <1>12 DEF WiredBut
  <2>4. ASSUME NEW d \in Pages, NEW k \in Keys, ~ Y.page[d][k].made
        PROVE  Y.page[d][k].pending = 0
    <3>1. ~ X.page[d][k].made /\ (~ X.page[d][k].made => X.page[d][k].pending = 0)
      BY <1>14, <2>4 DEF WiredBut
    <3>2. Y.page[d][k] = X.page[d][k]
      BY <1>8, <1>13, <3>1
    <3> QED
      BY <3>1, <3>2
  <2>5. ASSUME NEW d \in Pages
        PROVE  /\ Y.toCache[d] \in Seq(MadePackets(Y.page[d]))
               /\ Y.toPage[d] \in Seq(PageMessages(d, Y.page[d]))
    <3> DEFINE xl == X.page[d]
               yl == Y.page[d]
    <3>1. \A k \in Keys : xl[k].made => yl[k].made
      BY <1>14
    <3>2. Y.toCache[d] \in Seq(MadePackets(xl))
      BY <1>12 DEF WiredBut
    <3>3. Y.toPage[d] \in Seq(PageMessages(d, xl))
      <4>1. CASE d = p
        BY <1>4, <1>13, <4>1
      <4>2. CASE d # p
        BY <1>13, <4>2 DEF WiredBut
      <4> QED
        BY <4>1, <4>2
    <3> HIDE DEF xl, yl
    <3>4. Y.toCache[d] \in Seq(MadePackets(yl)) /\ Y.toPage[d] \in Seq(PageMessages(d, yl))
      BY <3>1, <3>2, <3>3, MadeMonotonic
    <3> QED
      BY <3>4 DEF yl
  <2> QED
    BY <2>1, <2>2, <2>3, <2>4, <2>5 DEF WiredBut
<1>16. ASSUME NEW g \in Procs, NEW k \in Keys PROVE PageMoves(X, Y, g, k)
  <2>0. Y.cache[g][k].val = X.cache[g][k].val /\ \A d \in PagesOf(g) : d \in Pages
    BY <1>12 DEF PagesOf
  <2>1. ASSUME NEW d \in PagesOf(g) \ {p} PROVE PageStays(X, Y, d, k)
    BY <1>12, <1>13, <2>0 DEF PageStays, Stays, PageView
  <2>2. CASE g = Home[p] /\ Carries(m.pkt, k)
    <3>1. Receives(p, Accepts[p], PageView(X, p, k), PageView(Y, p, k))
      <4>1. /\ PageView(X, p, k).down = DownOf(q, k) /\ PageView(Y, p, k).down = DownOf(Tail(q), k)
            /\ PageView(X, p, k).hub = X.cache[g][k].val /\ PageView(Y, p, k).hub = X.cache[g][k].val
            /\ PageView(X, p, k).up = UpOf(X.toCache[p], k)
            /\ PageView(Y, p, k).up = UpOf(X.toCache[p], k)
            /\ PageView(X, p, k).val = el[k].val /\ PageView(X, p, k).pending = el[k].pending
            /\ PageView(Y, p, k).val = fl[k].val /\ PageView(Y, p, k).pending = fl[k].pending
        BY <1>12, <1>13, <2>0, <2>2 DEF PageView, q
      <4>2. /\ p \in PageView(X, p, k).attached <=> el[k].made
            /\ p \in PageView(Y, p, k).attached <=> fl[k].made
        BY <1>1, <1>13 DEF PageView
      <4>3. /\ DownOf(q, k) # <<>> /\ DownOf(Tail(q), k) = Tail(DownOf(q, k))
            /\ Head(DownOf(q, k)).val = m.pkt.vals[k] /\ Head(DownOf(q, k)).by = m.by
        BY <1>9, <2>2 DEF m
      <4>4. k \in DOMAIN m.pkt.vals
        BY <2>2 DEF Carries
      <4> HIDE DEF el
      <4> QED
        BY <1>6, <1>7, <4>1, <4>2, <4>3, <4>4 DEF Receives, TakesKey
    <3>2. PageReceives(X, Y, g, k, p)
      BY <1>1, <2>0, <2>1, <2>2, <3>1 DEF PageReceives, PagesButStay
    <3> QED
      BY <3>2 DEF PageMoves
  <2>3. CASE g = Home[p] /\ ~ Carries(m.pkt, k)
    <3>1. PageStays(X, Y, p, k)
      <4>1. fl[k] = el[k] /\ DownOf(Y.toPage[p], k) = DownOf(X.toPage[p], k)
        BY <1>5, <1>6, <1>9, <1>13, <2>3 DEF Carries, m, q
      <4> QED
        BY <1>12, <1>13, <2>0, <2>3, <4>1 DEF PageStays, Stays, PageView
    <3>2. PagesButStay(X, Y, g, k, {})
      BY <2>0, <2>1, <3>1 DEF PagesButStay
    <3> QED
      BY <3>2 DEF PageMoves
  <2>4. CASE g # Home[p]
    <3>1. \A d \in PagesOf(g) : d # p
      BY <2>4 DEF PagesOf
    <3>2. PagesButStay(X, Y, g, k, {})
      BY <2>0, <2>1, <3>1 DEF PagesButStay
    <3> QED
      BY <3>2 DEF PageMoves
  <2> QED
    BY <2>2, <2>3, <2>4
<1>17. ASSUME NEW k \in Keys PROVE ProcMoves(X, A, Y, A, N, k)
  <2>1. ProcsKept(X, X, k) /\ ProcsSame(X, Y, k) /\ UpSame(X, Y, k)
    BY <1>12 DEF ProcsKept, ProcsSame, UpSame, SameCache
  <2>2. ProcsButStay(X, A, Y, A, k, {})
    BY <2>1, ProcStayMoves
  <2> QED
    BY <2>2 DEF ProcMoves
<1> QED
  BY <1>12, <1>14, <1>15, <1>16, <1>17 DEF StepFacts

-----------------------------------------------------------------------------
(* A CCached member is constructed: its page reads the cache.              *)
LEMMA CreateMoves ==
  ASSUME NEW X \in States, WiredBut(X, Nobody, {}), NEW p \in Pages, NEW k \in Keys,
         ~ X.page[p][k].made, NEW e \in PageEl, e.made, e.pending = 0,
         X.cache[Home[p]][k].val \in Accepts[p] => e.val = X.cache[Home[p]][k].val,
         NEW A, NEW N, NEW Y, Y = [X EXCEPT !.page = [X.page EXCEPT ![p][k] = e]]
  PROVE  StepFacts(X, A, Y, A, N)
<1> USE CacheAssumption
<1>0. Home[p] \in Procs /\ p \in PagesOf(Home[p])
  BY DEF PagesOf
<1>1. X.page \in [Pages -> [Keys -> PageEl]]
  BY DEF States
<1>2. [X.page EXCEPT ![p][k] = e] \in [Pages -> [Keys -> PageEl]]
  BY <1>1
<1>3. /\ Y \in States /\ Y.page = [X.page EXCEPT ![p][k] = e]
      /\ Y.cache = X.cache /\ Y.toCache = X.toCache /\ Y.toPage = X.toPage
      /\ Y.toCore = X.toCore /\ Y.toProc = X.toProc
  BY <1>2 DEF States
<1>4. /\ Y.page[p][k] = e
      /\ \A d \in Pages, j \in Keys : (d # p \/ j # k) => Y.page[d][j] = X.page[d][j]
  BY <1>1, <1>3
<1>5. \A d \in Pages, j \in Keys : X.page[d][j].made => Y.page[d][j].made
  BY <1>4
<1>6. X.page[p][k].pending = 0
  BY DEF WiredBut
<1>7. \A d \in Pages, j \in Keys : Y.page[d][j].pending = X.page[d][j].pending
  BY <1>4, <1>6
<1>8. WiredBut(Y, Nobody, {})
  <2>1. \A d \in MainPages : Y.toCache[d] = <<>> /\ Y.toPage[d] = <<>>
    BY <1>3 DEF WiredBut
  <2>2. \A d \in MainPages, j \in Keys :
          Y.page[d][j].pending = IF d = Nobody /\ j \in {} THEN 1 ELSE 0
    BY <1>7 DEF WiredBut
  <2>3. \A j \in Keys : Y.cache[Core][j].pending = 0
    BY <1>3 DEF WiredBut
  <2>4. ASSUME NEW d \in Pages, NEW j \in Keys, ~ Y.page[d][j].made
        PROVE  Y.page[d][j].pending = 0
    <3>1. ~ X.page[d][j].made /\ (~ X.page[d][j].made => X.page[d][j].pending = 0)
      BY <1>5, <2>4 DEF WiredBut
    <3> QED
      BY <1>7, <3>1
  <2>5. ASSUME NEW d \in Pages
        PROVE  /\ Y.toCache[d] \in Seq(MadePackets(Y.page[d]))
               /\ Y.toPage[d] \in Seq(PageMessages(d, Y.page[d]))
    <3> DEFINE xl == X.page[d]
               yl == Y.page[d]
    <3>1. \A j \in Keys : xl[j].made => yl[j].made
      BY <1>5
    <3>2. Y.toCache[d] \in Seq(MadePackets(xl)) /\ Y.toPage[d] \in Seq(PageMessages(d, xl))
      BY <1>3 DEF WiredBut
    <3> HIDE DEF xl, yl
    <3>3. Y.toCache[d] \in Seq(MadePackets(yl)) /\ Y.toPage[d] \in Seq(PageMessages(d, yl))
      BY <3>1, <3>2, MadeMonotonic
    <3> QED
      BY <3>3 DEF yl
  <2> QED
    BY <2>1, <2>2, <2>3, <2>4, <2>5 DEF WiredBut
<1>9. ASSUME NEW g \in Procs, NEW j \in Keys PROVE PageMoves(X, Y, g, j)
  <2>0. Y.cache[g][j].val = X.cache[g][j].val /\ \A d \in PagesOf(g) : d \in Pages
    BY <1>3 DEF PagesOf
  <2>1. ASSUME NEW d \in PagesOf(g), d # p \/ j # k PROVE PageStays(X, Y, d, j)
    <3>1. Y.page[d][j] = X.page[d][j] /\ Home[d] = g
      BY <1>4, <2>0, <2>1 DEF PagesOf
    <3>2. d \in PageView(Y, d, j).attached <=> d \in PageView(X, d, j).attached
      BY <3>1 DEF PageView
    <3> QED
      BY <1>3, <3>1, <3>2 DEF PageStays, Stays, PageView
  <2>2. CASE g = Home[p] /\ j = k
    <3>1. Attaches(Accepts[p], PageView(X, p, k), PageView(Y, p, k))
      BY <1>3, <1>4, <1>6 DEF Attaches, PageView
    <3>2. PageAttaches(X, Y, g, k, p)
      BY <1>0, <1>4, <2>0, <2>1, <2>2, <3>1 DEF PageAttaches, PagesButStay
    <3> QED
      BY <2>2, <3>2 DEF PageMoves
  <2>3. CASE ~ (g = Home[p] /\ j = k)
    <3>1. \A d \in PagesOf(g) : d # p \/ j # k
      BY <2>3 DEF PagesOf
    <3>2. PagesButStay(X, Y, g, j, {})
      BY <2>0, <2>1, <3>1 DEF PagesButStay
    <3> QED
      BY <3>2 DEF PageMoves
  <2> QED
    BY <2>2, <2>3
<1>10. ASSUME NEW j \in Keys PROVE ProcMoves(X, A, Y, A, N, j)
  <2>1. ProcsKept(X, X, j) /\ ProcsSame(X, Y, j) /\ UpSame(X, Y, j)
    BY <1>3 DEF ProcsKept, ProcsSame, UpSame, SameCache
  <2>2. ProcsButStay(X, A, Y, A, j, {})
    BY <2>1, ProcStayMoves
  <2> QED
    BY <2>2 DEF ProcMoves
<1> QED
  BY <1>3, <1>5, <1>8, <1>9, <1>10 DEF StepFacts

(***************************************************************************)
(* A change from another process tells the pages of r, or no one.  What    *)
(* precedes it concerns only the queues between the processes.             *)
(***************************************************************************)
LEMMA RemotePages ==
  ASSUME NEW X \in States, NEW S, NEW Y, NEW r, NEW k \in Keys, NEW v,
         WiredBut(X, Nobody, {}),
         S.page = X.page, S.toPage = X.toPage, S.toCache = X.toCache, S.cache = X.cache,
         Y.toCache = S.toCache,
         \/ HubSame(S, Y, r, k)
         \/ Y.cache[r][k].val = v /\ PagesTold(S, Y, r, k, v, Nobody)
  PROVE  PageMoves(X, Y, r, k)
<1>1. PagesKept(X, S, r, k)
  BY DEF PagesKept, SameEl
<1>2. CASE HubSame(S, Y, r, k)
  <2>1. PagesButStay(X, Y, r, k, {})
    BY <1>1, <1>2, StayMoves
  <2> QED
    BY <2>1 DEF PageMoves
<1>3. CASE Y.cache[r][k].val = v /\ PagesTold(S, Y, r, k, v, Nobody)
  <2>1. PagesReady(X, S, r, k, v, Nobody)
    BY <1>1, ReadyForNobody
  <2>2. \A p \in MainPages : X.toCache[p] = <<>> /\ X.toPage[p] = <<>>
    BY DEF WiredBut
  <2>3. CacheTells(X, Y, r, k, Nobody)
    BY <1>3, <2>1, <2>2, ToldMoves
  <2> QED
    BY <2>3 DEF PageMoves
<1> QED
  BY <1>2, <1>3

(* The core serves the oldest call of GUI process o.                       *)
LEMMA CoreTakesMoves ==
  ASSUME NEW X \in States, WiredBut(X, Nobody, {}), NEW o \in Guis, X.toCore[o] # <<>>,
         NEW ok, NEW A, NEW N,
         NEW Y, Y = ChangeSettings([X EXCEPT !.toCore[o] = Tail(@)], Head(X.toCore[o]), o, ok)
  PROVE  StepFacts(X, A, Y, A, N)
<1> USE CacheAssumption
<1> DEFINE S == [X EXCEPT !.toCore[o] = Tail(@)]
           q == X.toCore[o]
           pkt == Head(q)
<1>0. o \in Procs /\ o # Core
  BY DEF Guis
<1>1. X.toCore \in [Guis -> Seq(Packets)]
  BY DEF States
<1>2. q \in Seq(Packets) /\ q # <<>>
  BY <1>1
<1>3. Tail(q) \in Seq(Packets) /\ pkt \in Packets
  BY <1>2, HeadTailProperties
<1>4. [X.toCore EXCEPT ![o] = Tail(@)] \in [Guis -> Seq(Packets)]
  BY <1>1, <1>3
<1>5. /\ S.toCore = [X.toCore EXCEPT ![o] = Tail(@)]
      /\ S.page = X.page /\ S.cache = X.cache /\ S.toPage = X.toPage
      /\ S.toCache = X.toCache /\ S.toProc = X.toProc
  BY DEF States
<1>6. S \in States
  BY <1>4 DEF States
<1>7. S.toCore[o] = Tail(q) /\ \A g \in Guis \ {o} : S.toCore[g] = X.toCore[g]
  BY <1>1, <1>5
<1>8. Y = ChangeSettings(S, pkt, o, ok)
  OBVIOUS
<1>9. \A k \in Keys :
        /\ ~ Carries(Head(q), k) => UpOf(Tail(q), k) = UpOf(q, k)
        /\ Carries(Head(q), k) => /\ UpOf(q, k) # <<>>
                                  /\ Head(UpOf(q, k)) = Head(q).vals[k]
                                  /\ UpOf(Tail(q), k) = Tail(UpOf(q, k))
  <2> HIDE DEF q
  <2> QED
    BY <1>2, UpTail
<1> HIDE DEF S
<1>10. WiredBut(S, Nobody, {})
  BY <1>5 DEF WiredBut
<1>11. /\ Y \in States /\ WiredBut(Y, Nobody, {}) /\ SameMade(S, Y)
       /\ Y.toCache = S.toCache
       /\ \A k \in Keys : TellKeyFacts(S, Y, pkt, o, k)
  <2> HIDE DEF pkt
  <2> QED
    BY <1>3, <1>6, <1>8, <1>10, TellKeys
<1>12. ASSUME NEW g \in Procs, NEW k \in Keys PROVE PageMoves(X, Y, g, k)
  <2>1. HubSame(S, Y, g, k) \/ (Y.cache[g][k].val = pkt.vals[k]
                                /\ PagesTold(S, Y, g, k, pkt.vals[k], Nobody))
    <3>1. TellKeyFacts(S, Y, pkt, o, k)
      BY <1>11
    <3>2. CASE g # Core
      BY <3>1, <3>2 DEF TellKeyFacts, Guis
    <3>3. CASE g = Core
      BY <3>1, <3>3 DEF TellKeyFacts, ProcsTold
    <3> QED
      BY <3>2, <3>3
  <2> QED
    BY <1>5, <1>11, <2>1, RemotePages
<1>13. ASSUME NEW k \in Keys PROVE ProcMoves(X, A, Y, A, N, k)
  <2>1. TellKeyFacts(S, Y, pkt, o, k)
    BY <1>11
  <2>2. CASE Carries(pkt, k)
    <3>1. ProcsTold(S, Y, k, pkt.vals[k], o) /\ UpSame(S, Y, k)
      BY <2>1, <2>2 DEF TellKeyFacts
    <3>2. ProcsReady(X, S, k, pkt.vals[k], o)
      BY <1>5, <1>7, <1>9, <2>2 DEF ProcsReady, SameCache
    <3>3. CoreTells(X, A, Y, A, k, o)
      BY <1>0, <3>1, <3>2, ProcToldMoves
    <3> QED
      BY <1>0, <3>3 DEF ProcMoves
  <2>3. CASE ~ Carries(pkt, k)
    <3>1. ProcsSame(S, Y, k) /\ UpSame(S, Y, k)
      BY <2>1, <2>3 DEF TellKeyFacts
    <3>2. ProcsKept(X, S, k)
      BY <1>5, <1>7, <1>9, <2>3 DEF ProcsKept, SameCache
    <3>3. ProcsButStay(X, A, Y, A, k, {})
      BY <3>1, <3>2, ProcStayMoves
    <3> QED
      BY <3>3 DEF ProcMoves
  <2> QED
    BY <2>2, <2>3
<1>14. \A p \in Pages, k \in Keys : X.page[p][k].made => Y.page[p][k].made
  BY <1>5, <1>11, SMTT(30) DEF SameMade
<1> QED
  BY <1>11, <1>12, <1>13, <1>14 DEF StepFacts

(* What a queue of messages to a process loses with its oldest message.    *)
TakesDown(q, s, pkt, o, k) ==
  /\ ~ Carries(pkt, k) => DownOf(s, k) = DownOf(q, k)
  /\ Carries(pkt, k) =>
       /\ DownOf(q, k) # <<>> /\ DownOf(s, k) = Tail(DownOf(q, k))
       /\ Head(DownOf(q, k)).val = pkt.vals[k] /\ Head(DownOf(q, k)).by = o

(* S is X without the oldest message to r, the change pkt of process o.    *)
Taking(X, S, r, pkt, o) ==
  /\ S.page = X.page /\ S.cache = X.cache /\ S.toPage = X.toPage
  /\ S.toCache = X.toCache /\ S.toCore = X.toCore
  /\ \A g \in Guis \ {r} : S.toProc[g] = X.toProc[g]
  /\ \A k \in Keys : TakesDown(X.toProc[r], S.toProc[r], pkt, o, k)

(* GUI process r takes a change pkt of process o from its queue.           *)
LEMMA ReceiveMoves ==
  ASSUME NEW X \in States, WiredBut(X, Nobody, {}), NEW r \in Guis, NEW S \in States,
         NEW pkt \in Packets, NEW o \in Procs, Taking(X, S, r, pkt, o),
         NEW ok, NEW A, NEW Y, Y = ChangeValuesFromRemote(S, r, pkt, o, ok)
  PROVE  StepFacts(X, A, Y, A, {r})
<1> USE CacheAssumption
<1> USE DEF Taking
<1>0. r \in Procs /\ r # Core
  BY DEF Guis
<1>1. WiredBut(S, Nobody, {})
  BY DEF WiredBut
<1>2. /\ Y \in States /\ WiredBut(Y, Nobody, {}) /\ SameMade(S, Y)
      /\ Y.toCache = S.toCache /\ Y.toCore = S.toCore /\ Y.toProc = S.toProc
      /\ \A k \in Keys : RemoteKeyFacts(S, Y, r, pkt, o, k)
  BY <1>0, <1>1, RemoteKeys
<1>3. ASSUME NEW g \in Procs, NEW k \in Keys PROVE PageMoves(X, Y, g, k)
  <2>1. HubSame(S, Y, g, k) \/ (Y.cache[g][k].val = pkt.vals[k]
                                /\ PagesTold(S, Y, g, k, pkt.vals[k], Nobody))
    BY <1>2 DEF RemoteKeyFacts
  <2> QED
    BY <1>2, <2>1, RemotePages
<1>4. ASSUME NEW k \in Keys PROVE ProcMoves(X, A, Y, A, {r}, k)
  <2>1. RemoteKeyFacts(S, Y, r, pkt, o, k)
    BY <1>2
  <2>2. ASSUME NEW g \in Procs \ {r} PROVE ProcStays(X, A, Y, A, g, k)
    <3>1. SameCache(X.cache[g][k], Y.cache[g][k]) /\ SameCache(X.cache[Core][k], Y.cache[Core][k])
      BY <1>0, <2>1 DEF RemoteKeyFacts
    <3>2. g # Core => Y.toProc[g] = X.toProc[g] /\ Y.toCore[g] = X.toCore[g]
      BY <1>2 DEF Guis
    <3> QED
      BY <3>1, <3>2 DEF ProcStays, Stays, ProcView, SameCache
  <2>3. Y.cache[Core][k].val = X.cache[Core][k].val
    BY <1>0, <2>1 DEF RemoteKeyFacts, SameCache
  <2>4. TakesDown(X.toProc[r], Y.toProc[r], pkt, o, k) /\ Y.toCore[r] = X.toCore[r]
    BY <1>2
  <2>5. CASE Carries(pkt, k)
    <3>1. IF o = r
          THEN /\ Y.cache[r][k].pending = X.cache[r][k].pending - 1
               /\ Y.cache[r][k].val = X.cache[r][k].val
          ELSE /\ Y.cache[r][k].pending = X.cache[r][k].pending
               /\ IF X.cache[r][k].pending = 0 THEN Y.cache[r][k].val = pkt.vals[k]
                  ELSE Y.cache[r][k].val = X.cache[r][k].val
      BY <2>1, <2>5 DEF RemoteKeyFacts, HubSame
    <3>2. Receives(r, Values, ProcView(X, A, r, k), ProcView(Y, A, r, k))
      BY <1>0, <2>3, <2>4, <2>5, <3>1 DEF Receives, ProcView, TakesDown
    <3>3. CacheReceives(X, A, Y, A, k, r)
      BY <2>2, <2>3, <3>2 DEF CacheReceives, ProcsButStay
    <3> QED
      BY <3>3 DEF ProcMoves
  <2>6. CASE ~ Carries(pkt, k)
    <3>1. SameCache(X.cache[r][k], Y.cache[r][k])
      BY <2>1, <2>6 DEF RemoteKeyFacts, HubSame, SameCache
    <3>2. DownOf(Y.toProc[r], k) = DownOf(X.toProc[r], k)
      BY <2>4, <2>6 DEF TakesDown
    <3>3. ProcStays(X, A, Y, A, r, k)
      BY <1>0, <2>3, <2>4, <3>1, <3>2 DEF ProcStays, Stays, ProcView, SameCache
    <3>4. ProcsButStay(X, A, Y, A, k, {})
      BY <2>2, <2>3, <3>3 DEF ProcsButStay
    <3> QED
      BY <3>4 DEF ProcMoves
  <2> QED
    BY <2>5, <2>6
<1>5. \A p \in Pages, k \in Keys : X.page[p][k].made => Y.page[p][k].made
  BY <1>2 DEF SameMade
<1> QED
  BY <1>2, <1>3, <1>4, <1>5 DEF StepFacts

(* GUI process r takes its oldest message.                                 *)
LEMMA ProcTakesMoves ==
  ASSUME NEW X \in States, WiredBut(X, Nobody, {}), NEW r \in Guis, X.toProc[r] # <<>>,
         NEW ok, NEW A, NEW m, m = Head(X.toProc[r]), NEW S, S = [X EXCEPT !.toProc[r] = Tail(@)],
         NEW Y, Y = ChangeValuesFromRemote(S, r, m.pkt, m.by, ok)
  PROVE  StepFacts(X, A, Y, A, {r})
<1> DEFINE q == X.toProc[r]
<1>1. X.toProc \in [Guis -> Seq(Messages(Procs))]
  BY DEF States
<1>2. q \in Seq(Messages(Procs)) /\ q # <<>>
  BY <1>1
<1>3. Tail(q) \in Seq(Messages(Procs)) /\ m \in Messages(Procs)
  BY <1>2, HeadTailProperties
<1>4. [X.toProc EXCEPT ![r] = Tail(@)] \in [Guis -> Seq(Messages(Procs))]
  BY <1>1, <1>3
<1>5. /\ S.toProc = [X.toProc EXCEPT ![r] = Tail(@)]
      /\ S.page = X.page /\ S.cache = X.cache /\ S.toPage = X.toPage
      /\ S.toCache = X.toCache /\ S.toCore = X.toCore
  BY DEF States
<1>6. S \in States
  BY <1>4 DEF States
<1>7. S.toProc[r] = Tail(q) /\ \A g \in Guis \ {r} : S.toProc[g] = X.toProc[g]
  BY <1>1, <1>5
<1>8. m.pkt \in Packets /\ m.by \in Procs
  BY <1>3 DEF Messages
<1>9. ASSUME NEW k \in Keys PROVE TakesDown(q, Tail(q), m.pkt, m.by, k)
  <2>1. m = Head(q)
    OBVIOUS
  <2> HIDE DEF q
  <2>2. /\ ~ Carries(Head(q).pkt, k) => DownOf(Tail(q), k) = DownOf(q, k)
        /\ Carries(Head(q).pkt, k) =>
             /\ DownOf(q, k) # <<>>
             /\ Head(DownOf(q, k)) = [val |-> Head(q).pkt.vals[k], by |-> Head(q).by]
             /\ DownOf(Tail(q), k) = Tail(DownOf(q, k))
    BY <1>2, DownTail
  <2> QED
    BY <2>1, <2>2 DEF TakesDown
<1>10. \A k \in Keys : TakesDown(X.toProc[r], S.toProc[r], m.pkt, m.by, k)
  BY <1>7, <1>9
<1> HIDE DEF q
<1> DEFINE pkt == m.pkt
           o == m.by
<1>11. pkt \in Packets /\ o \in Procs /\ Y = ChangeValuesFromRemote(S, r, pkt, o, ok)
  BY <1>8
<1>12. Taking(X, S, r, pkt, o)
  BY <1>5, <1>7, <1>10 DEF Taking
<1> HIDE DEF pkt, o
<1> QED
  BY <1>6, <1>11, <1>12, ReceiveMoves

(* GUI process r applies the snapshot it has got from the core.            *)
LEMMA EndSyncMoves ==
  ASSUME NEW X \in States, WiredBut(X, Nobody, {}), NEW r \in Guis, NEW vals \in Maps,
         \A k \in Keys : DownOf(X.toProc[r], k) = <<>> =>
           X.cache[Core][k].val = IF k \in DOMAIN vals THEN vals[k] ELSE Invalid,
         NEW ok, NEW A, NEW N, NEW Y,
         Y = ChangeValuesFromRemote(X, r, Packet(vals, FALSE, TRUE), Nobody, ok)
  PROVE  StepFacts(X, A, Y, A \cup {r}, N)
<1> USE CacheAssumption
<1> DEFINE pkt == Packet(vals, FALSE, TRUE)
           B == A \cup {r}
<1>0. r \in Procs /\ r # Core /\ Nobody # r
  BY DEF Guis
<1>1. pkt \in Packets /\ pkt.vals = vals /\ pkt.changed
  BY DEF Packet, Packets
<1> HIDE DEF pkt
<1>2. Y = ChangeValuesFromRemote(X, r, pkt, Nobody, ok)
  BY DEF pkt
<1>3. /\ Y \in States /\ WiredBut(Y, Nobody, {}) /\ SameMade(X, Y)
      /\ Y.toCache = X.toCache /\ Y.toCore = X.toCore /\ Y.toProc = X.toProc
      /\ \A k \in Keys : RemoteKeyFacts(X, Y, r, pkt, Nobody, k)
  BY <1>0, <1>1, <1>2, RemoteKeys
<1>4. ASSUME NEW g \in Procs, NEW k \in Keys PROVE PageMoves(X, Y, g, k)
  <2>1. HubSame(X, Y, g, k) \/ (Y.cache[g][k].val = pkt.vals[k]
                                /\ PagesTold(X, Y, g, k, pkt.vals[k], Nobody))
    BY <1>3 DEF RemoteKeyFacts
  <2> QED
    BY <1>3, <2>1, RemotePages
<1>5. ASSUME NEW k \in Keys PROVE ProcMoves(X, A, Y, B, N, k)
  <2>1. RemoteKeyFacts(X, Y, r, pkt, Nobody, k)
    BY <1>3
  <2>2. Y.cache[Core][k].val = X.cache[Core][k].val
    BY <1>0, <2>1 DEF RemoteKeyFacts, SameCache
  <2>3. ASSUME NEW g \in Procs \ {r} PROVE ProcStays(X, A, Y, B, g, k)
    <3>1. SameCache(X.cache[g][k], Y.cache[g][k])
      BY <1>0, <2>1 DEF RemoteKeyFacts
    <3>2. g \in B \cup {Core} <=> g \in A \cup {Core}
      OBVIOUS
    <3> HIDE DEF B
    <3> QED
      BY <1>3, <2>2, <3>1, <3>2 DEF ProcStays, Stays, ProcView, SameCache
  <2>4. /\ Y.cache[r][k].pending = X.cache[r][k].pending
        /\ IF k \in DOMAIN vals /\ X.cache[r][k].pending = 0 THEN Y.cache[r][k].val = vals[k]
           ELSE Y.cache[r][k].val = X.cache[r][k].val
    BY <1>0, <1>1, <2>1 DEF RemoteKeyFacts, HubSame, Carries
  <2>5. Attaches(Values, ProcView(X, A, r, k), ProcView(Y, B, r, k))
    <3>1. DownOf(X.toProc[r], k) = <<>> /\ X.cache[Core][k].val \in Values
            => k \in DOMAIN vals /\ vals[k] = X.cache[Core][k].val
      OBVIOUS
    <3> QED
      BY <1>0, <1>3, <2>2, <2>4, <3>1 DEF Attaches, ProcView
  <2>6. CacheAttaches(X, A, Y, B, k, r)
    BY <2>2, <2>3, <2>5 DEF CacheAttaches, ProcsButStay
  <2> QED
    BY <1>0, <2>6 DEF ProcMoves
<1>6. \A p \in Pages, k \in Keys : X.page[p][k].made => Y.page[p][k].made
  BY <1>3 DEF SameMade
<1> QED
  BY <1>3, <1>4, <1>5, <1>6 DEF StepFacts
=============================================================================
