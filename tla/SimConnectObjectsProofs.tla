----------------------- MODULE SimConnectObjectsProofs -----------------------
(***************************************************************************)
(* The safety invariants of SimConnectObjects, for any number of aircraft, *)
(* models, calls and faults.                                               *)
(*                                                                         *)
(* The functions of the driver are operators from a state to a state, and  *)
(* call each other, so the invariant is a predicate on such a state.  What *)
(* each function does to the fields comes first, then that it leaves a     *)
(* fine state fine, then the actions.                                      *)
(***************************************************************************)
EXTENDS SimConnectObjects, SequenceTheorems, FiniteSetTheorems, TLAPS

-----------------------------------------------------------------------------
(* Sequences.  Of the tasks only the set matters.                          *)
(* Ranks.  The positions of a finite set of them are numbered 1, 2, 3...   *)
Upto(R, i) == {j \in R : j <= i}

(* Every position has a rank, and a later one a greater rank.              *)
LEMMA RankProperties ==
  ASSUME NEW n \in Nat, NEW R, R \subseteq 1..n
  PROVE  /\ IsFiniteSet(R) /\ Cardinality(R) \in Nat
         /\ \A i \in R : /\ IsFiniteSet(Upto(R, i))
                         /\ Cardinality(Upto(R, i)) \in 1..Cardinality(R)
         /\ \A i, j \in R : i < j => Cardinality(Upto(R, i)) < Cardinality(Upto(R, j))
<1>1. IsFiniteSet(1..n)
  BY FS_Interval
<1>2. IsFiniteSet(R) /\ Cardinality(R) \in Nat
  BY <1>1, FS_Subset, FS_CardinalityType
<1>3. ASSUME NEW i
      PROVE  /\ IsFiniteSet(Upto(R, i)) /\ Cardinality(Upto(R, i)) \in Nat
             /\ Cardinality(Upto(R, i)) <= Cardinality(R)
  <2>1. Upto(R, i) \in SUBSET R
    BY DEF Upto
  <2> QED
    BY <1>2, <2>1, FS_Subset, FS_CardinalityType
<1>4. ASSUME NEW i \in R PROVE Cardinality(Upto(R, i)) # 0
  <2>1. i \in Upto(R, i)
    BY DEF Upto
  <2> QED
    BY <1>3, <2>1, FS_EmptySet
<1>5. ASSUME NEW i \in R, NEW j \in R, i < j
      PROVE  Cardinality(Upto(R, i)) < Cardinality(Upto(R, j))
  <2>0. i \in Int /\ j \in Int /\ \A l \in R : l \in Int
    OBVIOUS
  <2>1. Upto(R, i) \in SUBSET Upto(R, j) /\ j \in Upto(R, j) /\ j \notin Upto(R, i)
    <3>1. ASSUME NEW l \in R, l <= i PROVE l <= j
      BY <1>5, <2>0, <3>1
    <3>2. ~ (j <= i) /\ j <= j
      BY <1>5, <2>0
    <3> QED
      BY <3>1, <3>2 DEF Upto
  <2>2. /\ Cardinality(Upto(R, i)) <= Cardinality(Upto(R, j))
        /\ Cardinality(Upto(R, j)) # Cardinality(Upto(R, i))
    <3>1. IsFiniteSet(Upto(R, j)) /\ Upto(R, i) # Upto(R, j)
      BY <1>3, <2>1
    <3> QED
      BY <2>1, <3>1, FS_Subset
  <2> QED
    BY <1>3, <2>2
<1> QED
  BY <1>2, <1>3, <1>4, <1>5

(* Every rank is that of exactly one position, which Nth returns.          *)
LEMMA NthProperties ==
  ASSUME NEW n \in Nat, NEW R, R \subseteq 1..n, NEW k \in 1..Cardinality(R)
  PROVE  /\ Nth(R, k) \in R
         /\ Cardinality(Upto(R, Nth(R, k))) = k
         /\ \A i \in R : Cardinality(Upto(R, i)) = k => i = Nth(R, k)
<1> DEFINE f == [i \in R |-> Cardinality(Upto(R, i))]
           C == Cardinality(R)
<1>1. /\ IsFiniteSet(R) /\ C \in Nat
      /\ \A i \in R : Cardinality(Upto(R, i)) \in 1..C
      /\ \A i, j \in R : i < j => Cardinality(Upto(R, i)) < Cardinality(Upto(R, j))
  BY RankProperties
<1>2. \A i, j \in R : Cardinality(Upto(R, i)) = Cardinality(Upto(R, j)) => i = j
  <2> SUFFICES ASSUME NEW i \in R, NEW j \in R, i # j
               PROVE  Cardinality(Upto(R, i)) # Cardinality(Upto(R, j))
    OBVIOUS
  <2>1. i < j \/ j < i
    OBVIOUS
  <2> QED
    BY <1>1, <2>1
<1>3. f \in Injection(R, 1..C)
  BY <1>1, <1>2 DEF Injection, IsInjective
<1>4. IsFiniteSet(1..C) /\ Cardinality(1..C) = C
  <2> HIDE DEF C
  <2>1. C \in Int /\ 1 \in Int
    BY <1>1
  <2>2. IsFiniteSet(1..C) /\ Cardinality(1..C) = IF 1 > C THEN 0 ELSE C - 1 + 1
    BY <2>1, FS_Interval
  <2> QED
    BY <1>1, <2>2
<1>5. f \in Surjection(R, 1..C)
  <2> HIDE DEF f
  <2> QED
    BY <1>3, <1>4, FS_Injection
<1>6. \E i \in R : Cardinality(Upto(R, i)) = k
  BY <1>5 DEF Surjection
<1>7. Nth(R, k) \in R /\ Cardinality(Upto(R, Nth(R, k))) = k
  BY <1>6 DEF Nth, Upto
<1> QED
  BY <1>2, <1>7

(* What is kept are elements of q, and those at the positions R.           *)
LEMMA KeepElements ==
  ASSUME NEW T, NEW q \in Seq(T), NEW R, R \subseteq 1..Len(q)
  PROVE  Keep(q, R) \in Seq(T) /\ ToSet(Keep(q, R)) = {q[i] : i \in R}
<1>1. Len(q) \in Nat /\ DOMAIN q = 1..Len(q) /\ \A i \in 1..Len(q) : q[i] \in T
  BY LenProperties, ElementOfSeq
<1>2. CASE R = 1..Len(q)
  <2>1. Keep(q, R) = q
    BY <1>2 DEF Keep
  <2> QED
    BY <1>1, <1>2, <2>1 DEF ToSet
<1>3. CASE R # 1..Len(q)
  <2> DEFINE C == Cardinality(R)
             k == [n \in 1..C |-> q[Nth(R, n)]]
  <2>1. Keep(q, R) = k
    BY <1>3 DEF Keep
  <2>2. C \in Nat /\ \A i \in R : Cardinality(Upto(R, i)) \in 1..C
    BY <1>1, RankProperties
  <2>3. \A n \in 1..C : Nth(R, n) \in R
    BY <1>1, NthProperties
  <2>4. k \in Seq(T) /\ DOMAIN k = 1..C
    <3>1. k \in [1..C -> T]
      BY <1>1, <2>3
    <3> QED
      BY <2>2, <3>1, SeqDef
  <2>5. ASSUME NEW i \in R PROVE \E n \in 1..C : k[n] = q[i]
    <3>1. Cardinality(Upto(R, i)) \in 1..C
      BY <2>2
    <3>2. i = Nth(R, Cardinality(Upto(R, i)))
      BY <1>1, <3>1, NthProperties
    <3> QED
      BY <3>1, <3>2
  <2>6. ASSUME NEW n \in 1..C PROVE \E i \in R : k[n] = q[i]
    BY <2>3
  <2>7. ToSet(k) = {q[i] : i \in R}
    <3> HIDE DEF k, C
    <3> QED
      BY <2>4, <2>5, <2>6 DEF ToSet
  <2> QED
    BY <2>1, <2>4, <2>7
<1> QED
  BY <1>2, <1>3

(* The elements of a sequence with one appended.                           *)
LEMMA AppendElements ==
  ASSUME NEW T, NEW q \in Seq(T), NEW e \in T
  PROVE  Append(q, e) \in Seq(T) /\ ToSet(Append(q, e)) = ToSet(q) \cup {e}
<1>1. /\ Append(q, e) \in Seq(T) /\ Len(Append(q, e)) = Len(q) + 1
      /\ \A i \in 1..Len(q) : Append(q, e)[i] = q[i]
      /\ Append(q, e)[Len(q) + 1] = e
  BY AppendProperties
<1>2. Len(q) \in Nat /\ DOMAIN q = 1..Len(q) /\ DOMAIN Append(q, e) = 1..(Len(q) + 1)
  BY <1>1, LenProperties
<1>3. ASSUME NEW i \in 1..(Len(q) + 1) PROVE Append(q, e)[i] \in ToSet(q) \cup {e}
  <2>1. i \in 1..Len(q) \/ i = Len(q) + 1
    BY <1>2
  <2> QED
    BY <1>1, <1>2, <2>1 DEF ToSet
<1>4. ASSUME NEW x \in ToSet(q) \cup {e} PROVE \E i \in 1..(Len(q) + 1) : x = Append(q, e)[i]
  <2>1. x = e \/ \E i \in 1..Len(q) : x = q[i]
    BY <1>2 DEF ToSet
  <2>2. Len(q) + 1 \in 1..(Len(q) + 1) /\ \A i \in 1..Len(q) : i \in 1..(Len(q) + 1)
    BY <1>2
  <2> QED
    BY <1>1, <2>1, <2>2
<1> QED
  BY <1>1, <1>2, <1>3, <1>4 DEF ToSet

(* The elements of two sequences, one after the other.                     *)
LEMMA ConcatElements ==
  ASSUME NEW T, NEW q \in Seq(T), NEW r \in Seq(T)
  PROVE  q \o r \in Seq(T) /\ ToSet(q \o r) = ToSet(q) \cup ToSet(r)
<1> DEFINE c == q \o r
<1>1. /\ c \in Seq(T) /\ Len(c) = Len(q) + Len(r)
      /\ \A i \in 1..(Len(q) + Len(r)) :
           c[i] = IF i <= Len(q) THEN q[i] ELSE r[i - Len(q)]
  BY ConcatProperties
<1> HIDE DEF c
<1>2. /\ Len(q) \in Nat /\ DOMAIN q = 1..Len(q) /\ Len(r) \in Nat /\ DOMAIN r = 1..Len(r)
      /\ DOMAIN c = 1..(Len(q) + Len(r))
  BY <1>1, LenProperties
<1>3. ASSUME NEW i \in 1..(Len(q) + Len(r)) PROVE c[i] \in ToSet(q) \cup ToSet(r)
  <2>1. i \in 1..Len(q) \/ (i - Len(q) \in 1..Len(r) /\ ~ (i <= Len(q)))
    BY <1>2
  <2>2. CASE i \in 1..Len(q)
    <3>1. c[i] = q[i]
      BY <1>1, <1>2, <2>2
    <3> QED
      BY <1>2, <2>2, <3>1 DEF ToSet
  <2>3. CASE i - Len(q) \in 1..Len(r) /\ ~ (i <= Len(q))
    <3>1. c[i] = r[i - Len(q)]
      BY <1>1, <2>3
    <3> QED
      BY <1>2, <2>3, <3>1 DEF ToSet
  <2> QED
    BY <2>1, <2>2, <2>3
<1>4. ASSUME NEW i \in 1..Len(q) PROVE \E j \in 1..(Len(q) + Len(r)) : q[i] = c[j]
  <2>1. i \in 1..(Len(q) + Len(r)) /\ i <= Len(q)
    BY <1>2
  <2> QED
    BY <1>1, <2>1
<1>5. ASSUME NEW i \in 1..Len(r) PROVE \E j \in 1..(Len(q) + Len(r)) : r[i] = c[j]
  <2>1. Len(q) + i \in 1..(Len(q) + Len(r)) /\ ~ (Len(q) + i <= Len(q)) /\ (Len(q) + i) - Len(q) = i
    BY <1>2
  <2> QED
    BY <1>1, <2>1
<1>6. ToSet(c) = ToSet(q) \cup ToSet(r)
  <2>1. ToSet(q) \subseteq ToSet(c)
    BY <1>2, <1>4 DEF ToSet
  <2>2. ToSet(r) \subseteq ToSet(c)
    BY <1>2, <1>5 DEF ToSet
  <2>3. ASSUME NEW x \in ToSet(c) PROVE x \in ToSet(q) \cup ToSet(r)
    <3>1. PICK i \in 1..(Len(q) + Len(r)) : x = c[i]
      BY <1>2 DEF ToSet
    <3> QED
      BY <1>3, <3>1
  <2> QED
    BY <2>1, <2>2, <2>3
<1> QED
  BY <1>1, <1>6 DEF c

(* SetToSeq has the elements of the set.                                   *)
LEMMA SetToSeqElements ==
  ASSUME NEW T, NEW S, S \subseteq T, IsFiniteSet(S)
  PROVE  SetToSeq(S) \in Seq(T) /\ ToSet(SetToSeq(S)) = S
<1> DEFINE C == Cardinality(S)
           f == SetToSeq(S)
<1>1. C \in Nat
  BY FS_CardinalityType
<1>2. \E g \in [1..C -> S] : IsInjective(g)
  <2>1. \E g : g \in Bijection(1..C, S)
    BY FS_CardinalityType DEF ExistsBijection
  <2> QED
    BY <2>1 DEF Bijection, Injection, IsInjective
<1>3. f \in [1..C -> S] /\ IsInjective(f)
  BY <1>2 DEF SetToSeq
<1> HIDE DEF f
<1>4. IsFiniteSet(1..C) /\ Cardinality(1..C) = C
  <2> HIDE DEF C
  <2>1. IsFiniteSet(1..C) /\ Cardinality(1..C) = IF 1 > C THEN 0 ELSE C - 1 + 1
    BY <1>1, FS_Interval
  <2> QED
    BY <1>1, <2>1
<1>5. f \in Surjection(1..C, S)
  <2>1. f \in Injection(1..C, S)
    BY <1>3 DEF Injection, IsInjective
  <2> QED
    BY <1>4, <2>1, FS_Injection
<1>6. \A x \in S : \E i \in 1..C : f[i] = x
  BY <1>5 DEF Surjection
<1>7. f \in Seq(T)
  <2>1. f \in [1..C -> T]
    BY <1>3
  <2> QED
    BY <1>1, <2>1, SeqDef
<1>8. ToSet(f) = S
  BY <1>3, <1>6 DEF ToSet
<1> QED
  BY <1>7, <1>8 DEF f

(* All elements but one position.                                          *)
LEMMA RemoveAtElements ==
  ASSUME NEW T, NEW q \in Seq(T), NEW i \in 1..Len(q)
  PROVE  /\ RemoveAt(q, i) \in Seq(T)
         /\ ToSet(RemoveAt(q, i)) \subseteq ToSet(q)
         /\ ToSet(q) = ToSet(RemoveAt(q, i)) \cup {q[i]}
<1> DEFINE a == SubSeq(q, 1, i - 1)
           b == SubSeq(q, i + 1, Len(q))
<1>0. Len(q) \in Nat /\ DOMAIN q = 1..Len(q) /\ i \in Int /\ \A j \in 1..Len(q) : q[j] \in T
  BY LenProperties, ElementOfSeq
<1>1. /\ a \in Seq(T) /\ Len(a) = i - 1 /\ \A j \in 1..(i - 1) : a[j] = q[j]
  BY <1>0, SubSeqProperties
<1>2. /\ b \in Seq(T) /\ Len(b) = Len(q) - i /\ \A j \in 1..(Len(q) - i) : b[j] = q[i + j]
  <2>1. b = [j \in 1..(Len(q) - i) |-> q[i + j]]
    BY <1>0
  <2>2. \A j \in 1..(Len(q) - i) : i + j \in 1..Len(q)
    BY <1>0
  <2>3. b \in [1..(Len(q) - i) -> T]
    BY <1>0, <2>1, <2>2
  <2>4. Len(q) - i \in Nat
    BY <1>0
  <2> QED
    BY <2>1, <2>3, <2>4, SeqDef, LenProperties
<1>3. DOMAIN a = 1..(i - 1) /\ DOMAIN b = 1..(Len(q) - i)
  BY <1>1, <1>2, LenProperties
<1> HIDE DEF a, b
<1>4. a \o b \in Seq(T) /\ ToSet(a \o b) = ToSet(a) \cup ToSet(b)
  BY <1>1, <1>2, ConcatElements
<1>5. ToSet(a) \subseteq ToSet(q)
  <2>1. \A j \in 1..(i - 1) : j \in 1..Len(q)
    BY <1>0
  <2> QED
    BY <1>0, <1>1, <1>3, <2>1 DEF ToSet
<1>6. ToSet(b) \subseteq ToSet(q)
  <2>1. \A j \in 1..(Len(q) - i) : i + j \in 1..Len(q)
    BY <1>0
  <2> QED
    BY <1>0, <1>2, <1>3, <2>1 DEF ToSet
<1>7. ASSUME NEW j \in 1..Len(q) PROVE q[j] \in ToSet(a) \cup ToSet(b) \cup {q[i]}
  <2>1. CASE j < i
    <3>1. j \in 1..(i - 1)
      BY <1>0, <2>1
    <3> QED
      BY <1>1, <1>3, <3>1 DEF ToSet
  <2>2. CASE i < j
    <3>1. j - i \in 1..(Len(q) - i) /\ i + (j - i) = j
      BY <1>0, <2>2
    <3> QED
      BY <1>2, <1>3, <3>1 DEF ToSet
  <2>3. CASE i = j
    BY <2>3
  <2> QED
    BY <1>0, <2>1, <2>2, <2>3
<1>8. RemoveAt(q, i) = a \o b
  BY DEF RemoveAt, a, b
<1>9. q[i] \in ToSet(q) /\ ToSet(q) \subseteq ToSet(a) \cup ToSet(b) \cup {q[i]}
  BY <1>0, <1>7 DEF ToSet
<1> QED
  BY <1>4, <1>5, <1>6, <1>8, <1>9

(* The first e is taken out, if there is one.                              *)
LEMMA RemoveFirstElements ==
  ASSUME NEW T, NEW q \in Seq(T), NEW e
  PROVE  /\ RemoveFirst(q, e) \in Seq(T)
         /\ ToSet(RemoveFirst(q, e)) \subseteq ToSet(q)
         /\ ToSet(q) \subseteq ToSet(RemoveFirst(q, e)) \cup {e}
<1>1. CASE \E i \in 1..Len(q) : q[i] = e
  <2> DEFINE I == {i \in 1..Len(q) : q[i] = e}
  <2>1. I # {} /\ I \subseteq Nat
    BY <1>1, LenProperties
  <2>2. Min(I) \in I
    <3>1. PICK n \in I : \A j \in I : n <= j
      <4>1. \E n \in I : \A j \in I : <<j, n>> \notin OpToRel(<, Nat)
        BY <2>1, NatLessThanWellFounded, WFMin
      <4>2. ASSUME NEW n \in Nat, NEW j \in Nat, <<j, n>> \notin OpToRel(<, Nat)
            PROVE  n <= j
        BY <4>2 DEF OpToRel
      <4> HIDE DEF I
      <4> QED
        BY <2>1, <4>1, <4>2
    <3> QED
      BY <3>1 DEF Min
  <2>3. SelectInSeq(q, LAMBDA v : v = e) = Min(I)
    BY <2>1 DEF SelectInSeq
  <2>4. RemoveFirst(q, e) = RemoveAt(q, Min(I))
    BY <1>1, <2>3 DEF RemoveFirst
  <2>5. Min(I) \in 1..Len(q) /\ q[Min(I)] = e
    BY <2>2
  <2> HIDE DEF I
  <2> QED
    BY <2>4, <2>5, RemoveAtElements
<1>2. CASE ~ \E i \in 1..Len(q) : q[i] = e
  BY <1>2 DEF RemoveFirst
<1> QED
  BY <1>1, <1>2

-----------------------------------------------------------------------------
(* The types.                                                              *)
ObjRecords ==
  [req : Nat, model : Models \cup {""}, assigned : BOOLEAN, confirmed : BOOLEAN,
   pendingRemoved : BOOLEAN, removedWhileAdding : BOOLEAN, lights : BOOLEAN,
   old : BOOLEAN, adding : 0..ThresholdAddException,
   removals : 0..ThresholdAddedAndDirectlyRemoved]

Objs == {o \in ObjRecords : Exists(o) => o.model \in Models}

Pendings ==
  [cs : Callsigns, model : Models, adding : 0..ThresholdAddException,
   removals : 0..ThresholdAddedAndDirectlyRemoved]

PlainKinds ==
  {"remove", "match", "matchAgain", "verify", "removeMissing", "removeAgain",
   "outdated", "ready"}

Tasks ==
  [kind : PlainKinds, cs : Callsigns]
    \cup [kind : {"addNext", "addAgain"}, cs : Callsigns, model : Models]
    \cup [kind : {"model", "enabled", "enabledLater"}, cs : Callsigns, model : Models,
          on : BOOLEAN]
    \cup [kind : {"insert"}, pending : Pendings]
    \cup [kind : {"timer", "removeAll"}]

Number == Nat \ {0}
Answered ==
  [kind : {"assigned", "failed"}, req : Number, trace : Pendings]
    \cup [kind : {"removed"}, req : Number]
SimObjs == [id : Number, cs : Callsigns, model : Models]

States ==
  [objects : [Callsigns -> Objs], addPending : Seq(Pendings),
   addAgain : [Callsigns -> Models \cup {""}], tasks : Seq(Tasks), lastRequest : Nat,
   exceptions : 0..IgnoreReceiveExceptions, enabled : SUBSET Callsigns,
   rendered : SUBSET Callsigns, inSim : SUBSET SimObjs, answers : Seq(Answered)]

(* Requests are numbered as they are made, and objects after them.         *)
Numbered(s) ==
  /\ \A cs \in Callsigns : s.objects[cs].req <= s.lastRequest
  /\ \A a, b \in Callsigns :
       s.objects[a].req = s.objects[b].req /\ Exists(s.objects[a]) => a = b
  /\ \A x \in s.inSim : x.id <= s.lastRequest
  /\ \A x, y \in s.inSim : x.id = y.id => x = y
  /\ \A i \in 1..Len(s.answers) : s.answers[i].req <= s.lastRequest

(* An object is confirmed after it got its id.                             *)
Stages(s) ==
  \A cs \in Callsigns :
    /\ s.objects[cs].assigned => Exists(s.objects[cs])
    /\ s.objects[cs].confirmed => s.objects[cs].assigned

(* At most one is being added.                                             *)
OneAdded(s) ==
  \A a, b \in Callsigns : PendingAdded(s.objects[a]) /\ PendingAdded(s.objects[b]) => a = b

InSim(s, r) == \E x \in s.inSim : x.id = r
Request(a) == a.kind \in {"assigned", "failed"}
Removal(a, r) == a.kind = "removed" /\ a.req = r

(***************************************************************************)
(* Requests are answered in their order: those of assigned objects have    *)
(* been, and an object is no older than the request that is answered.      *)
(***************************************************************************)
InOrder(s) ==
  /\ \A i, j \in 1..Len(s.answers) :
       i < j /\ Request(s.answers[i]) /\ Request(s.answers[j]) =>
         s.answers[i].req < s.answers[j].req
  /\ \A i \in 1..Len(s.answers), cs \in Callsigns :
       Request(s.answers[i]) /\ s.objects[cs].assigned =>
         s.objects[cs].req < s.answers[i].req
  /\ \A i \in 1..Len(s.answers) :
       Request(s.answers[i]) /\ Exists(s.objects[s.answers[i].trace.cs]) =>
         s.answers[i].req <= s.objects[s.answers[i].trace.cs].req

(***************************************************************************)
(* The answers tell the truth: what was assigned is there or its removal   *)
(* will be told later, what was removed or has failed is not there.        *)
(***************************************************************************)
Truthful(s) ==
  /\ \A i \in 1..Len(s.answers) :
       s.answers[i].kind = "assigned" =>
         \/ InSim(s, s.answers[i].req)
         \/ \E j \in 1..Len(s.answers) : i < j /\ Removal(s.answers[j], s.answers[i].req)
  /\ \A i \in 1..Len(s.answers) :
       s.answers[i].kind \in {"failed", "removed"} => ~InSim(s, s.answers[i].req)
  /\ \A cs \in Callsigns :
       s.objects[cs].assigned =>
         \/ InSim(s, s.objects[cs].req)
         \/ \E j \in 1..Len(s.answers) : Removal(s.answers[j], s.objects[cs].req)

Sound(s) == Numbered(s) /\ Stages(s) /\ OneAdded(s) /\ InOrder(s) /\ Truthful(s)

(* What is still to be done: the tasks, and those of D that are being run. *)
DutyKinds == {"remove", "removeAgain", "removeAll", "verify"}
Duties(s, D) == {t \in ToSet(s.tasks) \cup D : t.kind \in DutyKinds}

AllGo(s, D) == [kind |-> "removeAll"] \in Duties(s, D)
ToBeRemoved(s, D, cs) ==
  \/ Task("remove", cs) \in Duties(s, D)
  \/ Task("removeAgain", cs) \in Duties(s, D)
  \/ AllGo(s, D)

(***************************************************************************)
(* R is what is in range.  An object that should not be there, or that is  *)
(* not rendered although it should, is going to be removed.                *)
(***************************************************************************)
Misplaced(s, R, cs) ==
  /\ Exists(s.objects[cs]) /\ ~s.objects[cs].pendingRemoved
  /\ cs \notin R \/ (s.objects[cs].confirmed /\ cs \notin s.rendered)

Rendering(s, R, D) ==
  /\ s.rendered \subseteq R /\ s.enabled \subseteq R
  /\ AllGo(s, D) => R = {} /\ "disconnect" \in Commands
  /\ \A cs \in s.rendered : s.objects[cs].confirmed
  /\ \A cs \in Callsigns : Misplaced(s, R, cs) => ToBeRemoved(s, D, cs)

(***************************************************************************)
(* With prompt answers, every object in the simulator has its entry, which *)
(* gets its id and is verified before it can be outdated or removed.       *)
(***************************************************************************)
Calm == Prompt /\ "disconnect" \notin Commands

Tracked(s, D) ==
  \A x \in s.inSim :
    /\ s.objects[x.cs].req = x.id /\ ~s.objects[x.cs].pendingRemoved
    /\ s.objects[x.cs].assigned \/ \E i \in 1..Len(s.answers) :
         s.answers[i].kind = "assigned" /\ s.answers[i].req = x.id
    /\ s.objects[x.cs].assigned =>
         s.objects[x.cs].confirmed \/ Task("verify", x.cs) \in Duties(s, D)
    /\ s.objects[x.cs].old => s.objects[x.cs].confirmed

Current(s) ==
  \A i \in 1..Len(s.answers) :
    Request(s.answers[i]) =>
      s.objects[s.answers[i].trace.cs].req \in {0, s.answers[i].req}

Fine(s, R, D) ==
  /\ Sound(s) /\ Rendering(s, R, D)
  /\ Calm => Tracked(s, D) /\ Current(s)

(* With prompt answers, no request waits for its answer when a timer fires. *)
Idle(s) == Calm => \A i \in 1..Len(s.answers) : ~Request(s.answers[i])

Inv ==
  /\ scenario \in Scenarios /\ simulating \in BOOLEAN
  /\ inRange \subseteq Callsigns /\ model \in [Callsigns -> Models]
  /\ commands \in Nat /\ faults \in Nat
  /\ Now \in States /\ Fine(Now, inRange, {})

-----------------------------------------------------------------------------
(* What the functions do to the fields.                                    *)
Alike(s, t) ==
  /\ t.objects = s.objects /\ t.lastRequest = s.lastRequest
  /\ t.enabled = s.enabled /\ t.rendered = s.rendered
  /\ t.inSim = s.inSim /\ t.answers = s.answers

(* The same objects and duties: nothing that Fine is about has changed.    *)
LEMMA FineAlike ==
  ASSUME NEW s, NEW t, NEW R, NEW D, NEW E, Alike(s, t), Duties(t, E) = Duties(s, D),
         Fine(s, R, D)
  PROVE  Fine(t, R, E) /\ (Idle(s) => Idle(t))
<1>1. Sound(t)
  BY DEF Alike, Fine, Sound, Numbered, Stages, OneAdded, InOrder, Truthful, InSim
<1>2. Rendering(t, R, E)
  BY DEF Alike, Fine, Rendering, Misplaced, ToBeRemoved, AllGo
<1>3. Calm => Tracked(t, E) /\ Current(t)
  BY DEF Alike, Fine, Tracked, Current
<1> QED
  BY <1>1, <1>2, <1>3 DEF Alike, Fine, Idle

(* A list of pending aircraft without some of them.                        *)
LEMMA WithoutType ==
  ASSUME NEW q \in Seq(Pendings), NEW S
  PROVE  Without(q, S) \in Seq(Pendings)
<1>1. {i \in 1..Len(q) : q[i].cs \notin S} \subseteq 1..Len(q)
  OBVIOUS
<1> QED
  BY <1>1, KeepElements DEF Without

(* The tasks but those of a kind.                                          *)
LEMMA CancelElements ==
  ASSUME NEW q \in Seq(Tasks), NEW kind, NEW S
  PROVE  /\ Cancel(q, kind, S) \in Seq(Tasks)
         /\ ToSet(Cancel(q, kind, S)) \subseteq ToSet(q)
         /\ \A t \in ToSet(q) : t.kind # kind => t \in ToSet(Cancel(q, kind, S))
<1> DEFINE R == {i \in 1..Len(q) : q[i].kind = kind => q[i].cs \notin S}
<1>1. Len(q) \in Nat /\ DOMAIN q = 1..Len(q)
  BY LenProperties
<1>2. Cancel(q, kind, S) \in Seq(Tasks) /\ ToSet(Cancel(q, kind, S)) = {q[i] : i \in R}
  <2>1. Cancel(q, kind, S) = Keep(q, R)
    BY DEF Cancel
  <2>2. R \subseteq 1..Len(q)
    OBVIOUS
  <2> HIDE DEF R
  <2> QED
    BY <2>1, <2>2, KeepElements
<1>3. ToSet(q) = {q[i] : i \in 1..Len(q)}
  BY <1>1 DEF ToSet
<1>4. {q[i] : i \in R} \subseteq {q[i] : i \in 1..Len(q)}
  OBVIOUS
<1>5. ASSUME NEW i \in 1..Len(q), q[i].kind # kind PROVE i \in R
  BY <1>5
<1> QED
  <2> HIDE DEF R
  <2> QED
    BY <1>2, <1>3, <1>4, <1>5

(* One more task that is no duty.                                          *)
LEMMA StartFields ==
  ASSUME NEW s \in States, NEW t \in Tasks, NEW D
  PROVE  /\ Start(s, t) \in States
         /\ Alike(s, Start(s, t)) /\ Start(s, t).addPending = s.addPending
         /\ t.kind \notin DutyKinds => Duties(Start(s, t), D) = Duties(s, D)
<1>1. s.tasks \in Seq(Tasks)
  BY DEF States
<1>2. Append(s.tasks, t) \in Seq(Tasks) /\ ToSet(Append(s.tasks, t)) = ToSet(s.tasks) \cup {t}
  BY <1>1, AppendElements
<1>3. Start(s, t) \in States /\ Start(s, t).tasks = Append(s.tasks, t)
  BY <1>2 DEF Start, States
<1>4. Alike(s, Start(s, t)) /\ Start(s, t).addPending = s.addPending
  BY DEF Start, States, Alike
<1>5. t.kind \notin DutyKinds => Duties(Start(s, t), D) = Duties(s, D)
  BY <1>2, <1>3 DEF Duties
<1> QED
  BY <1>3, <1>4, <1>5

(* removeFromAddPendingAndAddAgainAircraft only changes the waiting lists. *)
LEMMA ForgetFields ==
  ASSUME NEW s \in States, NEW S, NEW D
  PROVE  /\ Forget(s, S) \in States
         /\ Alike(s, Forget(s, S)) /\ Duties(Forget(s, S), D) = Duties(s, D)
         /\ Forget(s, S).tasks = s.tasks /\ Forget(s, S).exceptions = s.exceptions
<1>1. Without(s.addPending, S) \in Seq(Pendings)
  BY WithoutType DEF States
<1>2. [cs \in Callsigns |-> IF cs \in S THEN "" ELSE s.addAgain[cs]]
        \in [Callsigns -> Models \cup {""}]
  BY DEF States
<1>3. Forget(s, S) \in States
  BY <1>1, <1>2 DEF Forget, States
<1>4. /\ Alike(s, Forget(s, S)) /\ Forget(s, S).tasks = s.tasks
      /\ Forget(s, S).exceptions = s.exceptions
  BY DEF Forget, States, Alike
<1> QED
  BY <1>3, <1>4 DEF Duties

(* An aircraft waits for being added.                                      *)
LEMMA InsertPendingFields ==
  ASSUME NEW s \in States, NEW p \in Pendings, NEW D
  PROVE  /\ InsertPending(s, p) \in States
         /\ Alike(s, InsertPending(s, p)) /\ Duties(InsertPending(s, p), D) = Duties(s, D)
         /\ InsertPending(s, p).tasks = s.tasks /\ InsertPending(s, p).addAgain = s.addAgain
<1>1. Append(Without(s.addPending, {p.cs}), p) \in Seq(Pendings)
  <2>1. Without(s.addPending, {p.cs}) \in Seq(Pendings)
    BY WithoutType DEF States
  <2> QED
    BY <2>1, AppendProperties
<1>2. InsertPending(s, p) \in States
  BY <1>1 DEF InsertPending, States
<1>3. /\ Alike(s, InsertPending(s, p)) /\ InsertPending(s, p).tasks = s.tasks
      /\ InsertPending(s, p).addAgain = s.addAgain
  BY DEF InsertPending, States, Alike
<1> QED
  BY <1>2, <1>3 DEF Duties

(* The timer starts again.                                                 *)
LEMMA RestartTimerFields ==
  ASSUME NEW s \in States, NEW D
  PROVE  /\ RestartTimer(s) \in States
         /\ Alike(s, RestartTimer(s)) /\ Duties(RestartTimer(s), D) = Duties(s, D)
<1> DEFINE q == RemoveFirst(s.tasks, Timer)
<1>1. s.tasks \in Seq(Tasks) /\ Timer \in Tasks /\ Timer.kind \notin DutyKinds
  BY DEF States, Timer, Tasks, DutyKinds
<1>2. /\ q \in Seq(Tasks) /\ ToSet(q) \subseteq ToSet(s.tasks)
      /\ ToSet(s.tasks) \subseteq ToSet(q) \cup {Timer}
  BY <1>1, RemoveFirstElements
<1> HIDE DEF q
<1>3. Append(q, Timer) \in Seq(Tasks) /\ ToSet(Append(q, Timer)) = ToSet(q) \cup {Timer}
  BY <1>1, <1>2, AppendElements
<1>4. RestartTimer(s) \in States /\ RestartTimer(s).tasks = Append(q, Timer)
  BY <1>3 DEF RestartTimer, States, q
<1>5. Alike(s, RestartTimer(s))
  BY DEF RestartTimer, States, Alike
<1>6. Duties(RestartTimer(s), D) = Duties(s, D)
  BY <1>1, <1>2, <1>3, <1>4 DEF Duties
<1> QED
  BY <1>4, <1>5, <1>6

-----------------------------------------------------------------------------
(* Steps that keep the account of requests, answers and objects sound.     *)

(* The parts of an answer.                                                 *)
LEMMA AnswerTypes ==
  ASSUME NEW s \in States, NEW i \in 1..Len(s.answers)
  PROVE  /\ s.answers[i] \in Answered
         /\ s.answers[i].kind \in {"assigned", "failed", "removed"}
         /\ s.answers[i].req \in Nat /\ s.answers[i].req # 0
         /\ Request(s.answers[i]) =>
              s.answers[i].trace \in Pendings /\ s.answers[i].trace.cs \in Callsigns
<1>1. s.answers[i] \in Answered
  BY ElementOfSeq DEF States
<1> QED
  BY <1>1 DEF Answered, Request, Number, Pendings

(* An entry becomes what it was, confirmed perhaps, or goes away.          *)
Lesser(o, p) ==
  \/ ~Exists(o) /\ ~o.assigned /\ ~o.confirmed
  \/ /\ o.req = p.req /\ o.assigned = p.assigned
     /\ p.confirmed => o.confirmed
     /\ o.confirmed => o.assigned

(* Entries are confirmed or dropped.                                       *)
LEMMA SoundLesser ==
  ASSUME NEW s \in States, NEW t \in States, Sound(s),
         t.lastRequest = s.lastRequest, t.inSim = s.inSim, t.answers = s.answers,
         \A cs \in Callsigns : Lesser(t.objects[cs], s.objects[cs])
  PROVE  Sound(t)
<1>1. /\ s.objects \in [Callsigns -> Objs] /\ t.objects \in [Callsigns -> Objs]
      /\ s.lastRequest \in Nat
  BY DEF States
<1>2. \A cs \in Callsigns :
        /\ s.objects[cs].req \in Nat /\ t.objects[cs].req \in Nat
        /\ s.objects[cs].assigned \in BOOLEAN /\ t.objects[cs].assigned \in BOOLEAN
        /\ s.objects[cs].confirmed \in BOOLEAN /\ t.objects[cs].confirmed \in BOOLEAN
  BY <1>1 DEF Objs, ObjRecords, Exists
<1>3. \A cs \in Callsigns :
        /\ Exists(t.objects[cs]) => t.objects[cs].req = s.objects[cs].req
        /\ t.objects[cs].assigned => s.objects[cs].assigned /\ Exists(t.objects[cs])
        /\ t.objects[cs].confirmed => t.objects[cs].assigned
        /\ PendingAdded(t.objects[cs]) => PendingAdded(s.objects[cs])
  BY <1>2 DEF Lesser, Exists, PendingAdded, Sound, Stages
<1>4. Numbered(t)
  <2>1. \A cs \in Callsigns : t.objects[cs].req <= t.lastRequest
    BY <1>1, <1>2, <1>3 DEF Sound, Numbered, Exists
  <2>2. \A a, b \in Callsigns :
          t.objects[a].req = t.objects[b].req /\ Exists(t.objects[a]) => a = b
    BY <1>3 DEF Sound, Numbered, Exists
  <2> QED
    BY <2>1, <2>2 DEF Sound, Numbered
<1>5. Stages(t) /\ OneAdded(t)
  BY <1>3 DEF Sound, Stages, OneAdded
<1>6. InOrder(t)
  <2>1. InOrder(s)
    BY DEF Sound
  <2>2. \A i \in 1..Len(t.answers), cs \in Callsigns :
          Request(t.answers[i]) /\ t.objects[cs].assigned =>
            t.objects[cs].req < t.answers[i].req
    BY <1>3, <2>1 DEF InOrder
  <2>3. \A i \in 1..Len(t.answers) : Request(t.answers[i]) => t.answers[i].trace.cs \in Callsigns
    BY AnswerTypes
  <2>4. \A i \in 1..Len(t.answers) :
          Request(t.answers[i]) /\ Exists(t.objects[t.answers[i].trace.cs]) =>
            t.answers[i].req <= t.objects[t.answers[i].trace.cs].req
    BY <1>3, <2>1, <2>3 DEF InOrder, Exists
  <2> QED
    BY <2>1, <2>2, <2>4 DEF InOrder
<1>7. Truthful(t)
  BY <1>3 DEF Sound, Truthful, InSim
<1> QED
  BY <1>4, <1>5, <1>6, <1>7 DEF Sound

(* The simulator removes the objects of G, and tells it afterwards.        *)
Told(s, t, G) ==
  /\ t.inSim = s.inSim \ G /\ G \subseteq s.inSim
  /\ Len(s.answers) <= Len(t.answers)
  /\ \A i \in 1..Len(s.answers) : t.answers[i] = s.answers[i]
  /\ \A i \in 1..Len(t.answers) :
       i \notin 1..Len(s.answers) => \E x \in G : Removal(t.answers[i], x.id)
  /\ \A x \in G : \E i \in 1..Len(t.answers) :
       i \notin 1..Len(s.answers) /\ Removal(t.answers[i], x.id)

(* Nothing else changes, and the requests that wait are the same.          *)
LEMMA SoundTold ==
  ASSUME NEW s \in States, NEW t \in States, Sound(s), NEW G, Told(s, t, G),
         t.lastRequest = s.lastRequest, t.objects = s.objects
  PROVE  /\ Sound(t)
         /\ Calm /\ Current(s) => Current(t)
         /\ Idle(s) => Idle(t)
<1> DEFINE n == Len(s.answers)
           m == Len(t.answers)
<1>1. /\ n \in Nat /\ m \in Nat /\ n <= m /\ s.lastRequest \in Nat
      /\ \A i \in 1..n : i \in 1..m
  <2>1. s.answers \in Seq(Answered) /\ t.answers \in Seq(Answered) /\ s.lastRequest \in Nat
    BY DEF States
  <2>2. n \in Nat /\ m \in Nat /\ n <= m
    BY <2>1, LenProperties DEF Told
  <2> QED
    BY <2>1, <2>2
<1>2. \A i \in 1..n : t.answers[i] = s.answers[i]
  BY DEF Told
<1>3. \A i \in 1..m : i \notin 1..n => \E x \in G : Removal(t.answers[i], x.id)
  BY DEF Told
<1>4. \A x \in G : \E i \in 1..m : i \notin 1..n /\ Removal(t.answers[i], x.id)
  BY DEF Told
<1>5. t.inSim = s.inSim \ G /\ G \subseteq s.inSim
  BY DEF Told
<1>6. \A i \in 1..m : Request(t.answers[i]) => i \in 1..n
  BY <1>3 DEF Removal, Request
<1>7. \A i \in 1..m, j \in 1..m : i \in 1..n /\ j \notin 1..n => i < j
  BY <1>1
<1> HIDE DEF n, m
<1>8. Numbered(t)
  <2>1. ASSUME NEW i \in 1..m PROVE t.answers[i].req <= t.lastRequest
    <3>1. CASE i \in 1..n
      BY <1>2, <3>1 DEF Sound, Numbered, n
    <3>2. CASE i \notin 1..n
      BY <1>3, <1>5, <3>2 DEF Sound, Numbered, Removal
    <3> QED
      BY <3>1, <3>2
  <2> QED
    BY <1>5, <2>1 DEF Sound, Numbered, m
<1>9. Stages(t) /\ OneAdded(t)
  BY DEF Sound, Stages, OneAdded
<1>10. InOrder(t)
  <2>1. \A i \in 1..m : Request(t.answers[i]) => i \in 1..n /\ t.answers[i] = s.answers[i]
    BY <1>2, <1>6
  <2>2. InOrder(s)
    BY DEF Sound
  <2>3. \A i, j \in 1..m : i < j /\ Request(t.answers[i]) /\ Request(t.answers[j]) =>
          t.answers[i].req < t.answers[j].req
    BY <2>1, <2>2 DEF InOrder, n
  <2>4. \A i \in 1..m, cs \in Callsigns : Request(t.answers[i]) /\ t.objects[cs].assigned =>
          t.objects[cs].req < t.answers[i].req
    BY <2>1, <2>2 DEF InOrder, n
  <2>5. \A i \in 1..m : Request(t.answers[i]) /\ Exists(t.objects[t.answers[i].trace.cs]) =>
          t.answers[i].req <= t.objects[t.answers[i].trace.cs].req
    BY <2>1, <2>2 DEF InOrder, n
  <2> QED
    BY <2>3, <2>4, <2>5 DEF InOrder, m
<1>11. Truthful(t)
  <2>0. Truthful(s)
    BY DEF Sound
  <2>1. ASSUME NEW r, InSim(s, r), ~InSim(t, r)
        PROVE  \E j \in 1..m : j \notin 1..n /\ Removal(t.answers[j], r)
    BY <1>4, <1>5, <2>1 DEF InSim
  <2>2. ASSUME NEW i \in 1..m, t.answers[i].kind = "assigned"
        PROVE  InSim(t, t.answers[i].req)
                 \/ \E j \in 1..m : i < j /\ Removal(t.answers[j], t.answers[i].req)
    <3>1. i \in 1..n /\ t.answers[i] = s.answers[i]
      BY <1>2, <1>6, <2>2 DEF Request
    <3>2. CASE InSim(s, t.answers[i].req)
      BY <1>7, <2>1, <3>1, <3>2
    <3>3. CASE \E j \in 1..n : i < j /\ Removal(s.answers[j], s.answers[i].req)
      BY <1>1, <1>2, <3>1, <3>3
    <3> QED
      BY <2>0, <2>2, <3>1, <3>2, <3>3 DEF Truthful, n
  <2>3. ASSUME NEW i \in 1..m, t.answers[i].kind \in {"failed", "removed"}
        PROVE  ~InSim(t, t.answers[i].req)
    <3>1. CASE i \in 1..n
      <4>1. ~InSim(s, t.answers[i].req)
        BY <1>2, <2>0, <2>3, <3>1 DEF Truthful, n
      <4> QED
        BY <1>5, <4>1 DEF InSim
    <3>2. CASE i \notin 1..n
      <4>1. PICK x \in G : Removal(t.answers[i], x.id)
        BY <1>3, <3>2
      <4>2. \A y \in t.inSim : y.id # x.id
        BY <1>5 DEF Sound, Numbered
      <4> QED
        BY <4>1, <4>2 DEF InSim, Removal
    <3> QED
      BY <3>1, <3>2
  <2>4. ASSUME NEW cs \in Callsigns, t.objects[cs].assigned
        PROVE  InSim(t, t.objects[cs].req)
                 \/ \E j \in 1..m : Removal(t.answers[j], t.objects[cs].req)
    <3>1. CASE InSim(s, t.objects[cs].req)
      BY <2>1, <3>1
    <3>2. CASE \E j \in 1..n : Removal(s.answers[j], s.objects[cs].req)
      BY <1>1, <1>2, <3>2
    <3> QED
      BY <2>0, <2>4, <3>1, <3>2 DEF Truthful, n
  <2> QED
    BY <2>2, <2>3, <2>4 DEF Truthful, m
<1>12. \A i \in 1..m : Request(t.answers[i]) => i \in 1..n /\ t.answers[i] = s.answers[i]
  BY <1>2, <1>6
<1>13. Current(s) => Current(t)
  BY <1>12 DEF Current, n, m
<1>14. Idle(s) => Idle(t)
  BY <1>12 DEF Idle, n, m
<1> QED
  BY <1>8, <1>9, <1>10, <1>11, <1>13, <1>14 DEF Sound

(* An object is tracked as long as its entry stays as it is.               *)
LEMMA TrackedLess ==
  ASSUME NEW s \in States, NEW t \in States, NEW D, NEW E, Tracked(s, D),
         t.inSim \subseteq s.inSim,
         \A i \in 1..Len(s.answers) : i \in 1..Len(t.answers) /\ t.answers[i] = s.answers[i],
         \A x \in t.inSim :
           /\ t.objects[x.cs].req = s.objects[x.cs].req
           /\ t.objects[x.cs].assigned = s.objects[x.cs].assigned
           /\ t.objects[x.cs].pendingRemoved = s.objects[x.cs].pendingRemoved
           /\ t.objects[x.cs].old = s.objects[x.cs].old
           /\ s.objects[x.cs].confirmed => t.objects[x.cs].confirmed
           /\ Task("verify", x.cs) \in Duties(s, D) =>
                t.objects[x.cs].confirmed \/ Task("verify", x.cs) \in Duties(t, E)
  PROVE  Tracked(t, E)
  BY DEF Tracked

-----------------------------------------------------------------------------
(* The functions that drop and remove objects.                             *)

(* The entry of an object that does not exist.                             *)
LEMMA NoObjectType == NoObject \in Objs /\ ~Exists(NoObject) /\ ~NoObject.assigned
                        /\ ~NoObject.confirmed /\ NoObject.req = 0 /\ ~NoObject.old
<1>1. NoObject \in ObjRecords
  BY DEF NoObject, ObjRecords, ThresholdAddException, ThresholdAddedAndDirectlyRemoved
<1>2. /\ NoObject.req = 0 /\ ~NoObject.assigned /\ ~NoObject.confirmed /\ ~NoObject.old
  BY DEF NoObject
<1> QED
  BY <1>1, <1>2 DEF Objs, Exists

(* What a state consists of.                                               *)
LEMMA StateTypes ==
  ASSUME NEW s \in States
  PROVE  /\ s.objects \in [Callsigns -> Objs] /\ s.addPending \in Seq(Pendings)
         /\ s.addAgain \in [Callsigns -> Models \cup {""}] /\ s.tasks \in Seq(Tasks)
         /\ s.lastRequest \in Nat /\ s.exceptions \in 0..IgnoreReceiveExceptions
         /\ s.enabled \subseteq Callsigns /\ s.rendered \subseteq Callsigns
         /\ s.inSim \subseteq SimObjs /\ s.answers \in Seq(Answered)
         /\ \A cs \in Callsigns :
              /\ s.objects[cs] \in Objs /\ s.objects[cs].req \in Nat
              /\ s.objects[cs].assigned \in BOOLEAN /\ s.objects[cs].confirmed \in BOOLEAN
              /\ s.objects[cs].pendingRemoved \in BOOLEAN /\ s.objects[cs].old \in BOOLEAN
         /\ \A x \in s.inSim : x.cs \in Callsigns /\ x.id \in Nat /\ x.id # 0
<1>1. /\ s.objects \in [Callsigns -> Objs] /\ s.addPending \in Seq(Pendings)
      /\ s.addAgain \in [Callsigns -> Models \cup {""}] /\ s.tasks \in Seq(Tasks)
      /\ s.lastRequest \in Nat /\ s.exceptions \in 0..IgnoreReceiveExceptions
      /\ s.enabled \subseteq Callsigns /\ s.rendered \subseteq Callsigns
      /\ s.inSim \subseteq SimObjs /\ s.answers \in Seq(Answered)
  BY DEF States
<1>2. \A cs \in Callsigns : s.objects[cs] \in Objs
  BY <1>1
<1>3. \A o \in Objs : /\ o.req \in Nat /\ o.assigned \in BOOLEAN /\ o.confirmed \in BOOLEAN
                      /\ o.pendingRemoved \in BOOLEAN /\ o.old \in BOOLEAN
  BY DEF Objs, ObjRecords, Exists
<1>4. \A x \in SimObjs : x.cs \in Callsigns /\ x.id \in Nat /\ x.id # 0
  BY DEF SimObjs, Number
<1> QED
  BY <1>1, <1>2, <1>3, <1>4

(* CSimConnectObjects::removeByCallsign                                    *)
LEMMA DropFields ==
  ASSUME NEW s \in States, NEW S, NEW D
  PROVE  LET t == DropObjects(s, S)
         IN /\ t \in States
            /\ \A cs \in Callsigns :
                 t.objects[cs] = IF cs \in S THEN NoObject ELSE s.objects[cs]
            /\ t.lastRequest = s.lastRequest /\ t.inSim = s.inSim /\ t.answers = s.answers
            /\ t.enabled = s.enabled /\ t.rendered = s.rendered
            /\ t.addPending = s.addPending /\ t.addAgain = s.addAgain
            /\ Duties(t, D) = Duties(s, D)
<1> DEFINE t == DropObjects(s, S)
           f == [cs \in Callsigns |-> IF cs \in S THEN NoObject ELSE s.objects[cs]]
           q == Cancel(s.tasks, "outdated", S)
<1>1. f \in [Callsigns -> Objs]
  BY StateTypes, NoObjectType
<1>2. /\ q \in Seq(Tasks) /\ ToSet(q) \subseteq ToSet(s.tasks)
      /\ \A d \in ToSet(s.tasks) : d.kind # "outdated" => d \in ToSet(q)
  BY StateTypes, CancelElements
<1>3. t = [s EXCEPT !.objects = f, !.tasks = q]
  BY DEF DropObjects
<1>4. \A cs \in Callsigns : f[cs] = IF cs \in S THEN NoObject ELSE s.objects[cs]
  OBVIOUS
<1> HIDE DEF f, q, t
<1>5. t \in States
  BY <1>1, <1>2, <1>3 DEF States
<1>6. /\ t.objects = f /\ t.tasks = q
      /\ t.lastRequest = s.lastRequest /\ t.inSim = s.inSim /\ t.answers = s.answers
      /\ t.enabled = s.enabled /\ t.rendered = s.rendered
      /\ t.addPending = s.addPending /\ t.addAgain = s.addAgain
  BY <1>3 DEF States
<1>7. Duties(t, D) = Duties(s, D)
  BY <1>2, <1>6 DEF Duties, DutyKinds
<1> QED
  BY <1>4, <1>5, <1>6, <1>7 DEF t

(***************************************************************************)
(* The entries of S are dropped, which have no object in the simulator     *)
(* when answers are prompt, and are not rendered any more.                 *)
(***************************************************************************)
LEMMA DroppedFine ==
  ASSUME NEW s \in States, NEW t \in States, NEW S, NEW R, NEW D, Fine(s, R, D),
         \A cs \in Callsigns : t.objects[cs] = IF cs \in S THEN NoObject ELSE s.objects[cs],
         t.lastRequest = s.lastRequest, t.inSim = s.inSim, t.answers = s.answers,
         t.enabled \subseteq s.enabled,
         t.rendered \subseteq s.rendered, s.rendered \subseteq t.rendered \cup S,
         \A cs \in S : cs \notin t.rendered,
         Duties(t, D) = Duties(s, D),
         Calm => \A x \in s.inSim : x.cs \notin S
  PROVE  Fine(t, R, D) /\ (Idle(s) => Idle(t))
<1>1. Sound(t)
  <2>1. \A cs \in Callsigns : Lesser(t.objects[cs], s.objects[cs])
    BY NoObjectType DEF Fine, Sound, Stages, Lesser
  <2> QED
    BY <2>1, SoundLesser DEF Fine
<1>2. Rendering(t, R, D)
  <2>1. Rendering(s, R, D)
    BY DEF Fine
  <2>2. \A cs \in t.rendered : t.objects[cs].confirmed
    BY <2>1, StateTypes DEF Rendering
  <2>3. \A cs \in Callsigns : Misplaced(t, R, cs) => Misplaced(s, R, cs)
    BY NoObjectType DEF Misplaced
  <2>4. t.rendered \subseteq R /\ t.enabled \subseteq R
    BY <2>1 DEF Rendering
  <2> QED
    BY <2>1, <2>2, <2>3, <2>4 DEF Rendering, AllGo, ToBeRemoved
<1>3. ASSUME Calm PROVE Tracked(t, D) /\ Current(t)
  <2>1. Tracked(s, D) /\ Current(s)
    BY <1>3 DEF Fine
  <2>2. \A x \in t.inSim : t.objects[x.cs] = s.objects[x.cs]
    BY <1>3, StateTypes
  <2>3. Tracked(t, D)
    BY <2>1, <2>2 DEF Tracked
  <2>4. \A i \in 1..Len(s.answers) : Request(s.answers[i]) => s.answers[i].trace.cs \in Callsigns
    BY AnswerTypes
  <2>5. \A cs \in Callsigns : t.objects[cs].req \in {0, s.objects[cs].req}
    BY NoObjectType
  <2>6. Current(t)
    BY <2>1, <2>4, <2>5 DEF Current
  <2> QED
    BY <2>3, <2>6
<1>4. Idle(s) => Idle(t)
  BY DEF Idle
<1> QED
  BY <1>1, <1>2, <1>3, <1>4 DEF Fine

(* Entries are dropped that are not rendered and have no object.           *)
LEMMA DropFine ==
  ASSUME NEW s \in States, NEW S, NEW R, NEW D, Fine(s, R, D),
         \A cs \in S : cs \notin s.rendered,
         Calm => \A x \in s.inSim : x.cs \notin S
  PROVE  Fine(DropObjects(s, S), R, D) /\ (Idle(s) => Idle(DropObjects(s, S)))
<1> DEFINE t == DropObjects(s, S)
<1>1. /\ t \in States
      /\ \A cs \in Callsigns : t.objects[cs] = IF cs \in S THEN NoObject ELSE s.objects[cs]
      /\ t.lastRequest = s.lastRequest /\ t.inSim = s.inSim /\ t.answers = s.answers
      /\ t.enabled = s.enabled /\ t.rendered = s.rendered
      /\ Duties(t, D) = Duties(s, D)
  BY DropFields
<1> HIDE DEF t
<1>2. Fine(t, R, D) /\ (Idle(s) => Idle(t))
  BY <1>1, DroppedFine
<1> QED
  BY <1>2 DEF t

(* Aircraft are disabled.                                                  *)
LEMMA DisableFine ==
  ASSUME NEW s \in States, NEW S, NEW R, NEW D, Fine(s, R, D)
  PROVE  LET t == [s EXCEPT !.enabled = @ \ S]
         IN /\ t \in States /\ Fine(t, R, D) /\ (Idle(s) => Idle(t))
            /\ t.objects = s.objects /\ t.answers = s.answers
<1> DEFINE t == [s EXCEPT !.enabled = @ \ S]
<1>1. t \in States
  BY DEF States
<1>2. /\ t.objects = s.objects /\ t.lastRequest = s.lastRequest
      /\ t.enabled = s.enabled \ S /\ t.rendered = s.rendered
      /\ t.inSim = s.inSim /\ t.answers = s.answers /\ t.tasks = s.tasks
  BY DEF States
<1> HIDE DEF t
<1>3. Duties(t, D) = Duties(s, D)
  BY <1>2 DEF Duties
<1>4. Sound(t)
  BY <1>2 DEF Fine, Sound, Numbered, Stages, OneAdded, InOrder, Truthful, InSim
<1>5. Rendering(t, R, D)
  BY <1>2, <1>3 DEF Fine, Rendering, Misplaced, ToBeRemoved, AllGo
<1>6. Calm => Tracked(t, D) /\ Current(t)
  BY <1>2, <1>3 DEF Fine, Tracked, Current
<1> QED
  BY <1>1, <1>2, <1>4, <1>5, <1>6 DEF Fine, Idle, t

(* removeOutdatedPendingAdded: what is given up is not in the simulator.   *)
LEMMA RemoveOutdatedFine ==
  ASSUME NEW s \in States, NEW R, NEW D, Fine(s, R, D)
  PROVE  /\ RemoveOutdated(s) \in States /\ Fine(RemoveOutdated(s), R, D)
         /\ Idle(s) => Idle(RemoveOutdated(s))
<1>1. CASE Outdated(s) = {}
  BY <1>1 DEF RemoveOutdated
<1>2. CASE Outdated(s) # {}
  <2> DEFINE S == Outdated(s)
             d == DropObjects(s, S)
  <2>1. \A cs \in S : cs \in Callsigns /\ ~s.objects[cs].confirmed
    BY StateTypes DEF Outdated, PendingAdded, Fine, Sound, Stages
  <2>2. \A cs \in S : cs \notin s.rendered
    BY <2>1 DEF Fine, Rendering
  <2>3. ASSUME Calm PROVE \A x \in s.inSim : x.cs \notin S
    BY <2>1, <2>3, StateTypes DEF Fine, Tracked, Outdated
  <2>4. d \in States
    BY DropFields
  <2>5. Fine(d, R, D) /\ (Idle(s) => Idle(d))
    BY <2>2, <2>3, DropFine
  <2>6. RemoveOutdated(s) = [d EXCEPT !.enabled = @ \ S]
    BY <1>2 DEF RemoveOutdated
  <2> HIDE DEF d, S
  <2> QED
    BY <2>4, <2>5, <2>6, DisableFine
<1> QED
  BY <1>1, <1>2

(* The objects that SimConnect_AIRemoveObject finds.                       *)
Here(s, S) == {x \in s.inSim : \E cs \in S : s.objects[cs].assigned /\ x.id = s.objects[cs].req}

(* SimConnect_AIRemoveObject                                               *)
LEMMA AIRemoveFields ==
  ASSUME NEW s \in States, NEW S, S \subseteq Callsigns
  PROVE  LET t == AIRemoveObjects(s, S)
         IN /\ t \in States /\ Told(s, t, Here(s, S))
            /\ t.objects = s.objects /\ t.tasks = s.tasks /\ t.lastRequest = s.lastRequest
            /\ t.enabled = s.enabled /\ t.rendered = s.rendered
            /\ t.addPending = s.addPending /\ t.addAgain = s.addAgain
<1> DEFINE t == AIRemoveObjects(s, S)
           A == {cs \in S : s.objects[cs].assigned}
           G == {x \in s.inSim : \E cs \in A : x.id = s.objects[cs].req}
           W == {[kind |-> "removed", req |-> x.id] : x \in G}
           e == Counted(s.exceptions + Cardinality(S \ A))
           n == s.answers \o SetToSeq(W)
<1>1. G = Here(s, S)
  BY DEF Here
<1>2. IsFiniteSet(S) /\ IsFiniteSet(A) /\ IsFiniteSet(S \ A) /\ Cardinality(S \ A) \in Nat
  <2>1. IsFiniteSet(S)
    BY SimConnectAssumption, FS_Subset
  <2>2. A \subseteq S /\ S \ A \subseteq S
    OBVIOUS
  <2>3. IsFiniteSet(A) /\ IsFiniteSet(S \ A)
    BY <2>1, <2>2, FS_Subset
  <2> QED
    BY <2>1, <2>3, FS_CardinalityType
<1>3. e \in 0..IgnoreReceiveExceptions
  <2> HIDE DEF A
  <2>1. s.exceptions \in 0..IgnoreReceiveExceptions
    BY StateTypes
  <2> QED
    BY <1>2, <2>1 DEF Counted, IgnoreReceiveExceptions
<1>4. IsFiniteSet(W)
  <2> DEFINE f == [cs \in A |-> [kind |-> "removed", req |-> s.objects[cs].req]]
             I == {f[cs] : cs \in A}
  <2>1. IsFiniteSet({[kind |-> "removed", req |-> s.objects[cs].req] : cs \in A})
    <3>1. f \in Surjection(A, I)
      BY DEF Surjection
    <3>2. IsFiniteSet(I)
      <4> HIDE DEF f, I, A
      <4> QED
        BY <1>2, <3>1, FS_Surjection
    <3>3. I = {[kind |-> "removed", req |-> s.objects[cs].req] : cs \in A}
      OBVIOUS
    <3> QED
      BY <3>2, <3>3
  <2>2. W \subseteq {[kind |-> "removed", req |-> s.objects[cs].req] : cs \in A}
    OBVIOUS
  <2> QED
    BY <2>1, <2>2, FS_Subset
<1>5. W \subseteq Answered
  <2>1. \A x \in G : x.id \in Number
    BY StateTypes DEF Number
  <2> QED
    BY <2>1 DEF Answered
<1>6. t = [s EXCEPT !.exceptions = e, !.inSim = s.inSim \ G, !.answers = n]
  BY DEF AIRemoveObjects
<1>7. G \subseteq s.inSim /\ \A w \in W : w.kind = "removed" /\ \E x \in G : w.req = x.id
  OBVIOUS
<1>8. \A x \in G : \E w \in W : w.kind = "removed" /\ w.req = x.id
  <2> TAKE x \in G
  <2>1. [kind |-> "removed", req |-> x.id] \in W
    OBVIOUS
  <2> HIDE DEF W
  <2> WITNESS [kind |-> "removed", req |-> x.id] \in W
  <2> QED
    OBVIOUS
<1> HIDE DEF W, G, A, e
<1> DEFINE q == SetToSeq(W)
<1>9. q \in Seq(Answered) /\ ToSet(q) = W
  BY <1>4, <1>5, SetToSeqElements
<1>10. /\ n \in Seq(Answered) /\ Len(n) = Len(s.answers) + Len(q)
       /\ \A i \in 1..Len(n) :
            n[i] = IF i <= Len(s.answers) THEN s.answers[i] ELSE q[i - Len(s.answers)]
  <2> HIDE DEF q
  <2>1. s.answers \in Seq(Answered)
    BY StateTypes
  <2> QED
    BY <1>9, <2>1, ConcatProperties DEF q
<1>11. /\ Len(s.answers) \in Nat /\ Len(q) \in Nat
       /\ W = {q[j] : j \in 1..Len(q)}
  <2> HIDE DEF q
  <2>1. Len(s.answers) \in Nat
    BY StateTypes, LenProperties
  <2>2. Len(q) \in Nat /\ DOMAIN q = 1..Len(q)
    BY <1>9, LenProperties
  <2> QED
    BY <1>9, <2>1, <2>2 DEF ToSet
<1> HIDE DEF q, n, t
<1>12. t \in States
  <2>1. s.inSim \ G \subseteq SimObjs
    BY StateTypes
  <2> QED
    BY <1>3, <1>6, <1>10, <2>1 DEF States
<1>13. /\ t.objects = s.objects /\ t.tasks = s.tasks /\ t.lastRequest = s.lastRequest
       /\ t.enabled = s.enabled /\ t.rendered = s.rendered
       /\ t.addPending = s.addPending /\ t.addAgain = s.addAgain
       /\ t.inSim = s.inSim \ G /\ t.answers = n
  BY <1>6 DEF States
<1>14. Told(s, t, G)
  <2>1. ASSUME NEW i \in 1..Len(s.answers) PROVE n[i] = s.answers[i]
    BY <1>10, <1>11
  <2>2. ASSUME NEW i \in 1..Len(n), i \notin 1..Len(s.answers)
        PROVE  \E x \in G : Removal(n[i], x.id)
    <3>1. n[i] = q[i - Len(s.answers)] /\ i - Len(s.answers) \in 1..Len(q)
      BY <1>10, <1>11, <2>2
    <3> QED
      BY <1>7, <1>11, <3>1 DEF Removal
  <2>3. ASSUME NEW x \in G
        PROVE  \E i \in 1..Len(n) : i \notin 1..Len(s.answers) /\ Removal(n[i], x.id)
    <3>1. PICK j \in 1..Len(q) : Removal(q[j], x.id)
      BY <1>8, <1>11 DEF Removal
    <3>2. /\ Len(s.answers) + j \in 1..Len(n) /\ Len(s.answers) + j \notin 1..Len(s.answers)
          /\ n[Len(s.answers) + j] = q[j]
      <4>1. (Len(s.answers) + j) - Len(s.answers) = j /\ ~ (Len(s.answers) + j <= Len(s.answers))
        BY <1>11
      <4>2. Len(s.answers) + j \in 1..Len(n)
        BY <1>10, <1>11
      <4>3. n[Len(s.answers) + j] = q[(Len(s.answers) + j) - Len(s.answers)]
        BY <1>10, <4>1, <4>2
      <4>4. Len(s.answers) + j \notin 1..Len(s.answers)
        BY <1>11, <4>1
      <4> QED
        BY <4>1, <4>2, <4>3, <4>4
    <3> QED
      BY <3>1, <3>2
  <2>4. Len(s.answers) <= Len(n)
    BY <1>10, <1>11
  <2> QED
    BY <1>7, <1>13, <2>1, <2>2, <2>3, <2>4 DEF Told
<1> QED
  BY <1>1, <1>12, <1>13, <1>14 DEF t

(* A task of a callsign.                                                   *)
LEMMA TaskFields ==
  ASSUME NEW kind, NEW cs
  PROVE  Task(kind, cs).kind = kind /\ Task(kind, cs).cs = cs
BY DEF Task

(* One task for each of finitely many callsigns.                           *)
LEMMA FiniteTasks ==
  ASSUME NEW kind, NEW C, IsFiniteSet(C)
  PROVE  IsFiniteSet({Task(kind, cs) : cs \in C})
<1> DEFINE g == [cs \in C |-> Task(kind, cs)]
           I == {Task(kind, cs) : cs \in C}
<1>1. g \in Surjection(C, I)
  BY DEF Surjection
<1> HIDE DEF g, I
<1>2. IsFiniteSet(I)
  BY <1>1, FS_Surjection
<1> QED
  BY <1>2 DEF I

(* What is put off, and what is removed.                                   *)
Later(s, S) == {cs \in Removable(s, S) : PutOff(s.objects[cs])}
AtOnce(s, S) == Removable(s, S) \ Later(s, S)

(* physicallyRemoveRemoteAircraft                                          *)
LEMMA PhysicallyRemoveFields ==
  ASSUME NEW s \in States, NEW S, S \subseteq Callsigns, NEW D
  PROVE  LET t == PhysicallyRemoveRemoteAircraft(s, S)
         IN /\ t \in States
            /\ \A cs \in Callsigns : t.objects[cs] =
                 IF cs \in Later(s, S) THEN [s.objects[cs] EXCEPT !.removedWhileAdding = TRUE]
                 ELSE IF cs \in AtOnce(s, S)
                 THEN [s.objects[cs] EXCEPT !.pendingRemoved = TRUE, !.removedWhileAdding = FALSE]
                 ELSE s.objects[cs]
            /\ Told(s, t, Here(s, AtOnce(s, S))) /\ t.lastRequest = s.lastRequest
            /\ t.enabled = s.enabled /\ t.rendered = s.rendered \ AtOnce(s, S)
            /\ Duties(t, D) = Duties(s, D) \cup {Task("removeAgain", cs) : cs \in Later(s, S)}
<1> DEFINE t == PhysicallyRemoveRemoteAircraft(s, S)
           L == Later(s, S)
           A == AtOnce(s, S)
           u == Forget(s, S)
           v == AIRemoveObjects(u, A)
           f == [cs \in Callsigns |->
                  IF cs \in L THEN [s.objects[cs] EXCEPT !.removedWhileAdding = TRUE]
                  ELSE IF cs \in A
                  THEN [s.objects[cs] EXCEPT !.pendingRemoved = TRUE, !.removedWhileAdding = FALSE]
                  ELSE s.objects[cs]]
           W == {Task("removeAgain", cs) : cs \in L} \cup {Task("removeMissing", cs) : cs \in A}
           q == s.tasks \o SetToSeq(W)
<1>1. L \subseteq Callsigns /\ A \subseteq Callsigns
  BY DEF Later, AtOnce, Removable
<1>2. u \in States /\ Alike(s, u) /\ u.tasks = s.tasks
  BY ForgetFields
<1>3. /\ v \in States /\ Told(u, v, Here(u, A)) /\ v.objects = u.objects /\ v.tasks = u.tasks
      /\ v.lastRequest = u.lastRequest /\ v.enabled = u.enabled /\ v.rendered = u.rendered
  BY <1>1, <1>2, AIRemoveFields
<1>4. t = [v EXCEPT !.objects = f, !.rendered = v.rendered \ A, !.tasks = v.tasks \o SetToSeq(W)]
  BY DEF PhysicallyRemoveRemoteAircraft, Later, AtOnce
<1>5. f \in [Callsigns -> Objs]
  <2>1. ASSUME NEW o \in Objs
        PROVE  /\ [o EXCEPT !.removedWhileAdding = TRUE] \in Objs
               /\ [o EXCEPT !.pendingRemoved = TRUE, !.removedWhileAdding = FALSE] \in Objs
    BY DEF Objs, ObjRecords, Exists
  <2> QED
    BY <2>1, StateTypes
<1>6. W \subseteq Tasks /\ IsFiniteSet(W)
  <2>1. W \subseteq Tasks
    BY <1>1 DEF Tasks, Task, PlainKinds
  <2>2. IsFiniteSet(L) /\ IsFiniteSet(A)
    BY <1>1, SimConnectAssumption, FS_Subset
  <2>4. /\ IsFiniteSet({Task("removeAgain", cs) : cs \in L})
        /\ IsFiniteSet({Task("removeMissing", cs) : cs \in A})
    BY <2>2, FiniteTasks
  <2> QED
    BY <2>1, <2>4, FS_Union
<1>7. \A d \in W : d.kind \in DutyKinds => d \in {Task("removeAgain", cs) : cs \in L}
  BY DEF Task, DutyKinds
<1>8. /\ {Task("removeAgain", cs) : cs \in L} \subseteq W
      /\ \A cs \in L : Task("removeAgain", cs).kind \in DutyKinds
  BY DEF Task, DutyKinds
<1>9. \A cs \in Callsigns : f[cs] =
        IF cs \in L THEN [s.objects[cs] EXCEPT !.removedWhileAdding = TRUE]
        ELSE IF cs \in A
        THEN [s.objects[cs] EXCEPT !.pendingRemoved = TRUE, !.removedWhileAdding = FALSE]
        ELSE s.objects[cs]
  OBVIOUS
<1> HIDE DEF W, f, v, u, t, L, A
<1>10. q \in Seq(Tasks) /\ ToSet(q) = ToSet(s.tasks) \cup W
  <2>1. SetToSeq(W) \in Seq(Tasks) /\ ToSet(SetToSeq(W)) = W
    BY <1>6, SetToSeqElements
  <2>2. s.tasks \in Seq(Tasks)
    BY StateTypes
  <2> QED
    BY <2>1, <2>2, ConcatElements
<1>11. t = [v EXCEPT !.objects = f, !.rendered = s.rendered \ A, !.tasks = q]
  BY <1>2, <1>3, <1>4 DEF Alike
<1> HIDE DEF q
<1>12. t \in States
  <2>1. s.rendered \ A \subseteq Callsigns
    BY StateTypes
  <2> QED
    BY <1>3, <1>5, <1>10, <1>11, <2>1 DEF States
<1>13. /\ t.objects = f /\ t.rendered = s.rendered \ A /\ t.tasks = q
       /\ t.inSim = v.inSim /\ t.answers = v.answers /\ t.enabled = v.enabled
       /\ t.lastRequest = v.lastRequest
  BY <1>3, <1>11 DEF States
<1>14. Told(s, t, Here(s, A))
  <2>1. Here(u, A) = Here(s, A)
    BY <1>2 DEF Here, Alike
  <2> QED
    BY <1>2, <1>3, <1>13, <2>1 DEF Told, Alike
<1>15. Duties(t, D) = Duties(s, D) \cup {Task("removeAgain", cs) : cs \in L}
  BY <1>7, <1>8, <1>10, <1>13 DEF Duties
<1>16. t.lastRequest = s.lastRequest /\ t.enabled = s.enabled
  BY <1>2, <1>3, <1>13 DEF Alike
<1> QED
  BY <1>9, <1>12, <1>13, <1>14, <1>15, <1>16 DEF t, L, A

(***************************************************************************)
(* What was to be removed by the tasks of D is removed now, or has a new   *)
(* task when it is put off.  Those of E are done later.                    *)
(***************************************************************************)
LEMMA PhysicallyRemoveFine ==
  ASSUME NEW s \in States, NEW S, S \subseteq Callsigns, NEW R, NEW D, NEW E, E \subseteq D,
         D \subseteq E \cup {Task("remove", cs) : cs \in S}
                       \cup {Task("removeAgain", cs) : cs \in S},
         Fine(s, R, D), Idle(s)
  PROVE  LET t == PhysicallyRemoveRemoteAircraft(s, S)
         IN t \in States /\ Fine(t, R, E) /\ Idle(t)
<1> DEFINE t == PhysicallyRemoveRemoteAircraft(s, S)
           L == Later(s, S)
           A == AtOnce(s, S)
           G == Here(s, A)
           u == [s EXCEPT !.objects = t.objects]
<1>1. /\ t \in States
      /\ \A cs \in Callsigns : t.objects[cs] =
           IF cs \in L THEN [s.objects[cs] EXCEPT !.removedWhileAdding = TRUE]
           ELSE IF cs \in A
           THEN [s.objects[cs] EXCEPT !.pendingRemoved = TRUE, !.removedWhileAdding = FALSE]
           ELSE s.objects[cs]
      /\ Told(s, t, G) /\ t.lastRequest = s.lastRequest
      /\ t.enabled = s.enabled /\ t.rendered = s.rendered \ A
      /\ Duties(t, E) = Duties(s, E) \cup {Task("removeAgain", cs) : cs \in L}
  BY PhysicallyRemoveFields
<1>2. /\ L \subseteq Callsigns /\ A \subseteq Callsigns
      /\ \A cs \in S : cs \in L \/ cs \in A \/ ~Exists(s.objects[cs]) \/ s.objects[cs].pendingRemoved
      /\ \A cs \in A : cs \notin L
  BY DEF Later, AtOnce, Removable
<1> HIDE DEF t, L, A, G
<1>3. \A cs \in Callsigns :
        /\ t.objects[cs].req = s.objects[cs].req
        /\ t.objects[cs].assigned = s.objects[cs].assigned
        /\ t.objects[cs].confirmed = s.objects[cs].confirmed
        /\ t.objects[cs].old = s.objects[cs].old
        /\ cs \in A => t.objects[cs].pendingRemoved
        /\ cs \notin A => t.objects[cs].pendingRemoved = s.objects[cs].pendingRemoved
  <2>1. ASSUME NEW o \in Objs
        PROVE  LET a == [o EXCEPT !.removedWhileAdding = TRUE]
               IN /\ a.req = o.req /\ a.assigned = o.assigned /\ a.confirmed = o.confirmed
                  /\ a.old = o.old /\ a.pendingRemoved = o.pendingRemoved
    BY DEF Objs, ObjRecords
  <2>2. ASSUME NEW o \in Objs
        PROVE  LET b == [o EXCEPT !.pendingRemoved = TRUE, !.removedWhileAdding = FALSE]
               IN /\ b.req = o.req /\ b.assigned = o.assigned /\ b.confirmed = o.confirmed
                  /\ b.old = o.old /\ b.pendingRemoved
    BY DEF Objs, ObjRecords
  <2> TAKE cs \in Callsigns
  <2>3. s.objects[cs] \in Objs
    BY StateTypes
  <2>4. CASE cs \in L
    <3>1. t.objects[cs] = [s.objects[cs] EXCEPT !.removedWhileAdding = TRUE] /\ cs \notin A
      BY <1>1, <1>2, <2>4
    <3> QED
      BY <2>1, <2>3, <3>1
  <2>5. CASE cs \in A
    <3>1. t.objects[cs] =
            [s.objects[cs] EXCEPT !.pendingRemoved = TRUE, !.removedWhileAdding = FALSE]
      BY <1>1, <1>2, <2>5
    <3>2. /\ t.objects[cs].req = s.objects[cs].req
          /\ t.objects[cs].assigned = s.objects[cs].assigned
          /\ t.objects[cs].confirmed = s.objects[cs].confirmed
          /\ t.objects[cs].old = s.objects[cs].old /\ t.objects[cs].pendingRemoved
      BY <2>3, <2>2, <3>1
    <3> QED
      BY <2>5, <3>2
  <2>6. CASE cs \notin L /\ cs \notin A
    BY <1>1, <2>6
  <2> QED
    BY <2>4, <2>5, <2>6
<1>4. /\ u \in States /\ u.objects = t.objects /\ u.lastRequest = s.lastRequest
      /\ u.inSim = s.inSim /\ u.answers = s.answers
  BY <1>1 DEF States
<1> HIDE DEF u
<1>5. Sound(u)
  <2>1. \A cs \in Callsigns : Lesser(u.objects[cs], s.objects[cs])
    BY <1>3, <1>4 DEF Lesser, Fine, Sound, Stages
  <2> QED
    BY <1>4, <2>1, SoundLesser DEF Fine
<1>6. Told(u, t, G)
  BY <1>1, <1>4 DEF Told
<1>7. Calm => Current(u)
  <2>1. \A i \in 1..Len(s.answers) : Request(s.answers[i]) => s.answers[i].trace.cs \in Callsigns
    BY AnswerTypes
  <2>2. Current(s) => Current(u)
    BY <1>3, <1>4, <2>1 DEF Current
  <2> QED
    BY <2>2 DEF Fine
<1>8. Sound(t) /\ (Calm => Current(t)) /\ Idle(t)
  <2>1. Idle(u)
    BY <1>4 DEF Idle
  <2>2. t.lastRequest = u.lastRequest /\ t.objects = u.objects
    BY <1>1, <1>4
  <2> QED
    BY <1>1, <1>4, <1>5, <1>6, <1>7, <2>1, <2>2, SoundTold
<1>9. /\ Duties(s, D) \subseteq Duties(s, E) \cup (D \ E)
      /\ Duties(s, E) \subseteq Duties(s, D)
  BY DEF Duties
<1>10. Rendering(t, R, E)
  <2>1. Rendering(s, R, D)
    BY DEF Fine
  <2>2. t.rendered \subseteq R /\ t.enabled \subseteq R
    BY <1>1, <2>1 DEF Rendering
  <2>3. AllGo(t, E) => AllGo(s, D)
    BY <1>1, <1>9 DEF AllGo, Task
  <2>4. \A cs \in t.rendered : t.objects[cs].confirmed
    BY <1>1, <1>3, <2>1, StateTypes DEF Rendering
  <2>5. ASSUME NEW cs \in Callsigns, Misplaced(t, R, cs) PROVE ToBeRemoved(t, E, cs)
    <3>1. cs \notin A /\ Misplaced(s, R, cs)
      BY <1>1, <1>3, <2>5 DEF Misplaced, Exists
    <3>2. CASE cs \in S
      <4>1. cs \in L
        BY <1>2, <3>1, <3>2 DEF Misplaced
      <4> QED
        BY <1>1, <4>1 DEF ToBeRemoved
    <3>3. CASE cs \notin S
      <4>1. ToBeRemoved(s, D, cs)
        BY <2>1, <3>1 DEF Rendering
      <4>2. /\ Task("remove", cs) \notin D \ E /\ Task("removeAgain", cs) \notin D \ E
            /\ [kind |-> "removeAll"] \notin D \ E
        <5>1. \A d \in D \ E : \E c \in S : d \in {Task("remove", c), Task("removeAgain", c)}
          OBVIOUS
        <5>2. \A d \in D \ E : d.cs \in S /\ d.kind # "removeAll"
          BY <5>1, TaskFields
        <5>3. Task("remove", cs).cs = cs /\ Task("removeAgain", cs).cs = cs
          BY TaskFields
        <5> QED
          BY <3>3, <5>2, <5>3
      <4> QED
        BY <1>1, <1>9, <4>1, <4>2 DEF ToBeRemoved, AllGo
    <3> QED
      BY <3>2, <3>3
  <2> QED
    BY <2>1, <2>2, <2>3, <2>4, <2>5 DEF Rendering
<1>11. ASSUME Calm PROVE Tracked(t, E)
  <2>1. Tracked(s, D)
    BY <1>11 DEF Fine
  <2>2. t.inSim = s.inSim \ G
    BY <1>1 DEF Told
  <2>3. ASSUME NEW x \in t.inSim
        PROVE  x.cs \in Callsigns /\ x.cs \notin A
    <3>1. x \in s.inSim /\ x.cs \in Callsigns
      BY <2>2, <2>3, StateTypes
    <3>2. s.objects[x.cs].assigned /\ s.objects[x.cs].req = x.id
      BY <1>11, <2>1, <3>1 DEF Tracked, Idle, Request
    <3> QED
      BY <2>2, <3>1, <3>2 DEF G, Here
  <2>4. ASSUME NEW x \in t.inSim, Task("verify", x.cs) \in Duties(s, D)
        PROVE  Task("verify", x.cs) \in Duties(t, E)
    <3>1. Task("verify", x.cs) \notin D \ E
      BY DEF Task
    <3> QED
      BY <1>1, <1>9, <2>4, <3>1
  <2>5. \A i \in 1..Len(s.answers) : i \in 1..Len(t.answers) /\ t.answers[i] = s.answers[i]
    <3>1. s.answers \in Seq(Answered) /\ t.answers \in Seq(Answered)
      BY <1>1, StateTypes
    <3>2. Len(s.answers) \in Nat /\ Len(t.answers) \in Nat /\ Len(s.answers) <= Len(t.answers)
      BY <1>1, <3>1, LenProperties DEF Told
    <3>3. \A i \in 1..Len(s.answers) : t.answers[i] = s.answers[i]
      BY <1>1 DEF Told
    <3> QED
      BY <3>2, <3>3
  <2>6. t.inSim \subseteq s.inSim
    BY <2>2
  <2>7. \A x \in t.inSim :
          /\ t.objects[x.cs].req = s.objects[x.cs].req
          /\ t.objects[x.cs].assigned = s.objects[x.cs].assigned
          /\ t.objects[x.cs].pendingRemoved = s.objects[x.cs].pendingRemoved
          /\ t.objects[x.cs].old = s.objects[x.cs].old
          /\ s.objects[x.cs].confirmed => t.objects[x.cs].confirmed
    BY <1>3, <2>3
  <2> QED
    BY <1>1, <2>1, <2>4, <2>5, <2>6, <2>7, TrackedLess
<1> QED
  BY <1>1, <1>8, <1>10, <1>11 DEF Fine, t

(* The aircraft that the provider does not have are removed.               *)
LEMMA RemoveNotInProviderFine ==
  ASSUME NEW s \in States, NEW R, Fine(s, R, {}), Idle(s)
  PROVE  LET t == RemoveAircraftNotInProvider(s)
         IN t \in States /\ Fine(t, R, {})
<1>1. Known(s) \ inRange \subseteq Callsigns
  BY DEF Known
<1>2. LET t == PhysicallyRemoveRemoteAircraft(s, Known(s) \ inRange)
      IN t \in States /\ Fine(t, R, {})
  BY <1>1, PhysicallyRemoveFine
<1> QED
  BY <1>2 DEF RemoveAircraftNotInProvider

-----------------------------------------------------------------------------
(* The functions that add objects.                                         *)

(* An object that is confirmed and in range is marked as rendered.         *)
LEMMA MarkRenderedFine ==
  ASSUME NEW s \in States, NEW R, R \subseteq Callsigns, NEW D, Fine(s, R, D),
         NEW S, S \subseteq R, \A cs \in S : s.objects[cs].confirmed
  PROVE  LET t == [s EXCEPT !.rendered = @ \cup S]
         IN t \in States /\ Fine(t, R, D) /\ (Idle(s) => Idle(t))
<1> DEFINE t == [s EXCEPT !.rendered = @ \cup S]
<1>1. t \in States
  <2>1. s.rendered \cup S \subseteq Callsigns
    BY StateTypes
  <2> QED
    BY <2>1 DEF States
<1>2. /\ t.objects = s.objects /\ t.lastRequest = s.lastRequest
      /\ t.enabled = s.enabled /\ t.rendered = s.rendered \cup S
      /\ t.inSim = s.inSim /\ t.answers = s.answers /\ t.tasks = s.tasks
  BY DEF States
<1> HIDE DEF t
<1>3. Duties(t, D) = Duties(s, D)
  BY <1>2 DEF Duties
<1>4. Sound(t)
  BY <1>2 DEF Fine, Sound, Numbered, Stages, OneAdded, InOrder, Truthful, InSim
<1>5. Rendering(t, R, D)
  BY <1>2, <1>3 DEF Fine, Rendering, Misplaced, ToBeRemoved, AllGo
<1>6. Calm => Tracked(t, D) /\ Current(t)
  BY <1>2, <1>3 DEF Fine, Tracked, Current
<1> QED
  BY <1>1, <1>2, <1>4, <1>5, <1>6 DEF Fine, Idle, t

(* The model of an aircraft that will be added again.                      *)
LEMMA AddAgainFine ==
  ASSUME NEW s \in States, NEW R, NEW D, Fine(s, R, D), NEW cs \in Callsigns,
         NEW m \in Models \cup {""}
  PROVE  LET t == [s EXCEPT !.addAgain[cs] = m]
         IN t \in States /\ Fine(t, R, D)
<1> DEFINE t == [s EXCEPT !.addAgain[cs] = m]
<1>1. t \in States
  BY DEF States
<1>2. Alike(s, t) /\ t.tasks = s.tasks
  BY DEF States, Alike
<1> HIDE DEF t
<1>3. Duties(t, D) = Duties(s, D)
  BY <1>2 DEF Duties
<1> QED
  BY <1>1, <1>2, <1>3, FineAlike DEF t

(* An aircraft that has an object already.                                 *)
LEMMA AddExistingFine ==
  ASSUME NEW s \in States, inRange \subseteq Callsigns, Fine(s, inRange, {}), Idle(s),
         NEW cs \in Callsigns, NEW m \in Models
  PROVE  AddExisting(s, cs, m) \in States /\ Fine(AddExisting(s, cs, m), inRange, {})
<1> DEFINE o == s.objects[cs]
           shown == o.confirmed /\ (PendingAdded(o) \/ o.pendingRemoved)
<1>1. CASE o.model = m /\ shown /\ cs \in inRange
  <2>1. AddExisting(s, cs, m) = [s EXCEPT !.rendered = @ \cup {cs}]
    BY <1>1 DEF AddExisting
  <2>2. {cs} \subseteq inRange /\ \A c \in {cs} : s.objects[c].confirmed
    BY <1>1
  <2>3. LET t == [s EXCEPT !.rendered = @ \cup {cs}]
        IN t \in States /\ Fine(t, inRange, {})
    BY <2>2, MarkRenderedFine
  <2> QED
    BY <2>1, <2>3
<1>2. CASE o.model = m /\ ~(shown /\ cs \in inRange)
  <2>1. AddExisting(s, cs, m) = [s EXCEPT !.rendered = @]
    BY <1>2 DEF AddExisting
  <2>2. [s EXCEPT !.rendered = @] = s
    BY DEF States
  <2> QED
    BY <2>1, <2>2
<1>3. CASE o.model # m
  <2> DEFINE u == PhysicallyRemoveRemoteAircraft(s, {cs})
  <2>1. AddExisting(s, cs, m) = [u EXCEPT !.addAgain[cs] = m]
    BY <1>3 DEF AddExisting
  <2>2. u \in States /\ Fine(u, inRange, {})
    BY PhysicallyRemoveFine
  <2> HIDE DEF u
  <2>3. LET t == [u EXCEPT !.addAgain[cs] = m]
        IN t \in States /\ Fine(t, inRange, {})
    BY <2>2, AddAgainFine
  <2> QED
    BY <2>1, <2>3
<1> QED
  BY <1>1, <1>2, <1>3

(* SimConnect_AICreateNonATCAircraft: the next number, and its answer.     *)
LEMMA CreateFields ==
  ASSUME NEW s \in States, NEW cs \in Callsigns, NEW m \in Models, NEW p,
         p.adding \in 0..ThresholdAddException,
         p.removals \in 0..ThresholdAddedAndDirectlyRemoved
  PROVE  LET t == Create(s, cs, m, p)
             r == s.lastRequest + 1
             n == Len(s.answers)
         IN /\ t \in States /\ t.lastRequest = r /\ n \in Nat
            /\ \A c \in Callsigns : c # cs => t.objects[c] = s.objects[c]
            /\ t.objects[cs].req = r
            /\ ~t.objects[cs].assigned /\ ~t.objects[cs].confirmed
            /\ ~t.objects[cs].pendingRemoved /\ ~t.objects[cs].old
            /\ t.inSim = s.inSim \cup {[id |-> r, cs |-> cs, model |-> m]}
            /\ Len(t.answers) = n + 1 /\ \A i \in 1..n : t.answers[i] = s.answers[i]
            /\ t.answers[n + 1].kind = "assigned" /\ t.answers[n + 1].req = r
            /\ t.answers[n + 1].trace.cs = cs
            /\ t.enabled = s.enabled /\ t.rendered = s.rendered
            /\ Duties(t, {}) = Duties(s, {})
<1> DEFINE t == Create(s, cs, m, p)
           r == s.lastRequest + 1
           n == Len(s.answers)
           o == [NoObject EXCEPT !.req = r, !.model = m, !.adding = p.adding,
                                 !.removals = p.removals]
           d == Task("outdated", cs)
           x == [id |-> r, cs |-> cs, model |-> m]
           a == [kind |-> "assigned", req |-> r, trace |-> Pending(cs, m, p.adding, p.removals)]
           f == [s.objects EXCEPT ![cs] = o]
           q == Append(s.tasks, d)
           w == Append(s.answers, a)
<1>0. s.lastRequest \in Nat /\ s.tasks \in Seq(Tasks) /\ s.answers \in Seq(Answered)
  BY StateTypes
<1>1. r \in Nat /\ r # 0 /\ r \in Number
  BY <1>0 DEF Number
<1>2. /\ o \in Objs /\ o.req = r /\ ~o.assigned /\ ~o.confirmed
      /\ ~o.pendingRemoved /\ ~o.old
  BY <1>1 DEF Objs, ObjRecords, Exists, NoObject
<1>3. d \in Tasks /\ d.kind \notin DutyKinds
  BY DEF Tasks, Task, PlainKinds, DutyKinds
<1>4. x \in SimObjs
  BY <1>1 DEF SimObjs
<1>5. /\ a \in Answered /\ a.kind = "assigned" /\ a.req = r /\ a.trace.cs = cs
  <2>1. Pending(cs, m, p.adding, p.removals) \in Pendings
          /\ Pending(cs, m, p.adding, p.removals).cs = cs
    BY DEF Pendings, Pending
  <2> QED
    BY <1>1, <2>1 DEF Answered
<1>6. t = [s EXCEPT !.lastRequest = r, !.objects = f, !.tasks = q,
                    !.inSim = s.inSim \cup {x}, !.answers = w]
  BY DEF Create
<1>7. f \in [Callsigns -> Objs] /\ f[cs] = o /\ \A c \in Callsigns : c # cs => f[c] = s.objects[c]
  <2> HIDE DEF o
  <2> QED
    BY <1>2, StateTypes
<1> HIDE DEF a, x, d, o, f, r
<1>8. q \in Seq(Tasks) /\ ToSet(q) = ToSet(s.tasks) \cup {d}
  BY <1>0, <1>3, AppendElements
<1>9. /\ w \in Seq(Answered) /\ Len(w) = n + 1 /\ w[n + 1] = a
      /\ \A i \in 1..n : w[i] = s.answers[i]
  BY <1>0, <1>5, AppendProperties
<1>10. n \in Nat
  BY StateTypes, LenProperties
<1> HIDE DEF q, w, t, n
<1>11. t \in States
  <2>1. s.inSim \cup {x} \subseteq SimObjs
    BY <1>4, StateTypes
  <2> QED
    BY <1>1, <1>6, <1>7, <1>8, <1>9, <2>1 DEF States
<1>12. /\ t.lastRequest = r /\ t.objects = f /\ t.tasks = q
       /\ t.inSim = s.inSim \cup {x} /\ t.answers = w
       /\ t.enabled = s.enabled /\ t.rendered = s.rendered
  BY <1>6 DEF States
<1>13. Duties(t, {}) = Duties(s, {})
  BY <1>3, <1>8, <1>12 DEF Duties
<1> QED
  BY <1>2, <1>5, <1>7, <1>9, <1>10, <1>11, <1>12, <1>13 DEF t, r, n, x

(* Only when no other is being added, so there is at most one.             *)
LEMMA CreateFine ==
  ASSUME NEW s \in States, NEW R, Fine(s, R, {}), Idle(s),
         NEW cs \in Callsigns, cs \in R, ~Exists(s.objects[cs]),
         \A c \in Callsigns : ~PendingAdded(s.objects[c]),
         NEW m \in Models, NEW p, p.adding \in 0..ThresholdAddException,
         p.removals \in 0..ThresholdAddedAndDirectlyRemoved
  PROVE  Create(s, cs, m, p) \in States /\ Fine(Create(s, cs, m, p), R, {})
<1> DEFINE t == Create(s, cs, m, p)
           r == s.lastRequest + 1
           n == Len(s.answers)
           x == [id |-> r, cs |-> cs, model |-> m]
<1>1. /\ t \in States /\ t.lastRequest = r /\ n \in Nat
      /\ \A c \in Callsigns : c # cs => t.objects[c] = s.objects[c]
      /\ t.objects[cs].req = r
      /\ ~t.objects[cs].assigned /\ ~t.objects[cs].confirmed
      /\ ~t.objects[cs].pendingRemoved /\ ~t.objects[cs].old
      /\ t.inSim = s.inSim \cup {x}
      /\ Len(t.answers) = n + 1 /\ \A i \in 1..n : t.answers[i] = s.answers[i]
      /\ t.answers[n + 1].kind = "assigned" /\ t.answers[n + 1].req = r
      /\ t.answers[n + 1].trace.cs = cs
      /\ t.enabled = s.enabled /\ t.rendered = s.rendered
      /\ Duties(t, {}) = Duties(s, {})
  BY CreateFields
<1>2. x.id = r /\ x.cs = cs
  OBVIOUS
<1>3. /\ Numbered(s) /\ Stages(s) /\ OneAdded(s) /\ InOrder(s) /\ Truthful(s)
      /\ Rendering(s, R, {})
  BY DEF Fine, Sound
<1>4. s.lastRequest \in Nat /\ r \in Nat /\ s.lastRequest < r
  <2>1. s.lastRequest \in Nat
    BY StateTypes
  <2> QED
    BY <2>1
<1> HIDE DEF t, r, n, x
<1>5. \A i \in 1..(n + 1) : i \in 1..n \/ i = n + 1
  BY <1>1
<1>6. /\ \A c \in Callsigns : s.objects[c].req \in Nat /\ s.objects[c].req < r
      /\ \A y \in s.inSim : y.id \in Nat /\ y.id < r
      /\ \A i \in 1..n : s.answers[i].req \in Nat /\ s.answers[i].req < r
  <2>1. ASSUME NEW k \in Nat, k <= s.lastRequest PROVE k < r
    BY <1>4, <2>1
  <2>2. \A c \in Callsigns : s.objects[c].req \in Nat /\ s.objects[c].req <= s.lastRequest
    BY <1>3, StateTypes DEF Numbered
  <2>3. \A y \in s.inSim : y.id \in Nat /\ y.id <= s.lastRequest
    BY <1>3, StateTypes DEF Numbered
  <2>4. \A i \in 1..n : s.answers[i].req \in Nat /\ s.answers[i].req <= s.lastRequest
    BY <1>3, AnswerTypes DEF Numbered, n
  <2> QED
    BY <2>1, <2>2, <2>3, <2>4
<1>7. ~s.objects[cs].assigned /\ ~s.objects[cs].confirmed /\ s.objects[cs].req = 0
  BY <1>3 DEF Stages, Exists
<1>8. Numbered(t)
  <2>1. \A c \in Callsigns : t.objects[c].req <= t.lastRequest
    BY <1>1, <1>4, <1>6
  <2>2. ASSUME NEW a \in Callsigns, NEW b \in Callsigns,
               t.objects[a].req = t.objects[b].req, Exists(t.objects[a])
        PROVE  a = b
    <3>1. CASE a = cs /\ b # cs
      BY <1>1, <1>4, <1>6, <2>2, <3>1
    <3>2. CASE a # cs /\ b = cs
      BY <1>1, <1>4, <1>6, <2>2, <3>2
    <3>3. CASE a # cs /\ b # cs
      BY <1>1, <1>3, <2>2, <3>3 DEF Numbered
    <3> QED
      BY <3>1, <3>2, <3>3
  <2>3. \A y \in t.inSim : y.id <= t.lastRequest
    BY <1>1, <1>2, <1>4, <1>6
  <2>4. \A y, z \in t.inSim : y.id = z.id => y = z
    BY <1>1, <1>2, <1>3, <1>4, <1>6 DEF Numbered
  <2>5. \A i \in 1..(n + 1) : t.answers[i].req <= t.lastRequest
    BY <1>1, <1>4, <1>5, <1>6
  <2> QED
    BY <1>1, <2>1, <2>2, <2>3, <2>4, <2>5 DEF Numbered
<1>9. Stages(t) /\ OneAdded(t)
  <2>1. Stages(t)
    BY <1>1, <1>3 DEF Stages
  <2>2. \A c \in Callsigns : PendingAdded(t.objects[c]) => c = cs
    BY <1>1
  <2> QED
    BY <2>1, <2>2 DEF OneAdded
<1>10. InOrder(t)
  <2>1. ASSUME NEW i \in 1..(n + 1), NEW j \in 1..(n + 1), i < j,
               Request(t.answers[i]), Request(t.answers[j])
        PROVE  t.answers[i].req < t.answers[j].req
    <3>1. i \in 1..n
      BY <1>1, <2>1
    <3>2. CASE j \in 1..n
      BY <1>1, <1>3, <2>1, <3>1, <3>2 DEF InOrder, n
    <3>3. CASE j = n + 1
      BY <1>1, <1>6, <3>1, <3>3
    <3> QED
      BY <1>5, <3>2, <3>3
  <2>2. ASSUME NEW i \in 1..(n + 1), NEW c \in Callsigns,
               Request(t.answers[i]), t.objects[c].assigned
        PROVE  t.objects[c].req < t.answers[i].req
    <3>1. t.objects[c] = s.objects[c] /\ c # cs
      BY <1>1, <2>2
    <3>2. CASE i \in 1..n
      BY <1>1, <1>3, <2>2, <3>1, <3>2 DEF InOrder, n
    <3>3. CASE i = n + 1
      BY <1>1, <1>6, <3>1, <3>3
    <3> QED
      BY <1>5, <3>2, <3>3
  <2>3. ASSUME NEW i \in 1..(n + 1), Request(t.answers[i]),
               Exists(t.objects[t.answers[i].trace.cs])
        PROVE  t.answers[i].req <= t.objects[t.answers[i].trace.cs].req
    <3>1. CASE i = n + 1
      BY <1>1, <1>4, <3>1
    <3>2. CASE i \in 1..n
      <4>1. t.answers[i] = s.answers[i] /\ s.answers[i].req \in Nat /\ s.answers[i].req < r
        BY <1>1, <1>6, <3>2
      <4>2. t.answers[i].trace.cs \in Callsigns
        BY <2>3, <3>2, <4>1, AnswerTypes DEF n
      <4>3. CASE t.answers[i].trace.cs = cs
        BY <1>1, <1>4, <4>1, <4>3
      <4>4. CASE t.answers[i].trace.cs # cs
        BY <1>1, <1>3, <2>3, <3>2, <4>1, <4>2, <4>4 DEF InOrder, n
      <4> QED
        BY <4>3, <4>4
    <3> QED
      BY <1>5, <3>1, <3>2
  <2> QED
    BY <1>1, <2>1, <2>2, <2>3 DEF InOrder
<1>11. Truthful(t)
  <2>1. ASSUME NEW k, InSim(s, k) PROVE InSim(t, k)
    BY <1>1, <2>1 DEF InSim
  <2>2. ASSUME NEW k, k # r, InSim(t, k) PROVE InSim(s, k)
    BY <1>1, <1>2, <2>2 DEF InSim
  <2>3. ASSUME NEW k, \E j \in 1..n : Removal(s.answers[j], k)
        PROVE  \E j \in 1..(n + 1) : Removal(t.answers[j], k)
    BY <1>1, <2>3
  <2>4. ASSUME NEW i \in 1..(n + 1), t.answers[i].kind = "assigned"
        PROVE  InSim(t, t.answers[i].req)
                 \/ \E j \in 1..(n + 1) : i < j /\ Removal(t.answers[j], t.answers[i].req)
    <3>1. CASE i = n + 1
      BY <1>1, <1>2, <3>1 DEF InSim
    <3>2. CASE i \in 1..n
      <4>1. InSim(s, s.answers[i].req)
              \/ \E j \in 1..n : i < j /\ Removal(s.answers[j], s.answers[i].req)
        BY <1>1, <1>3, <2>4, <3>2 DEF Truthful, n
      <4>2. t.answers[i] = s.answers[i] /\ \A j \in 1..n : j \in 1..(n + 1)
        BY <1>1, <3>2
      <4> QED
        BY <1>1, <2>1, <4>1, <4>2
    <3> QED
      BY <1>5, <3>1, <3>2
  <2>5. ASSUME NEW i \in 1..(n + 1), t.answers[i].kind \in {"failed", "removed"}
        PROVE  ~InSim(t, t.answers[i].req)
    <3>1. i \in 1..n /\ t.answers[i] = s.answers[i]
      BY <1>1, <1>5, <2>5
    <3>2. ~InSim(s, s.answers[i].req)
      BY <1>3, <2>5, <3>1 DEF Truthful, n
    <3>3. s.answers[i].req # r
      BY <1>4, <1>6, <3>1
    <3> QED
      BY <2>2, <3>1, <3>2, <3>3
  <2>6. ASSUME NEW c \in Callsigns, t.objects[c].assigned
        PROVE  InSim(t, t.objects[c].req)
                 \/ \E j \in 1..(n + 1) : Removal(t.answers[j], t.objects[c].req)
    <3>1. t.objects[c] = s.objects[c]
      BY <1>1, <2>6
    <3>2. InSim(s, s.objects[c].req) \/ \E j \in 1..n : Removal(s.answers[j], s.objects[c].req)
      BY <1>3, <2>6, <3>1 DEF Truthful, n
    <3> QED
      BY <2>1, <2>3, <3>1, <3>2
  <2> QED
    BY <1>1, <2>4, <2>5, <2>6 DEF Truthful
<1>12. Rendering(t, R, {})
  <2>1. cs \notin s.rendered
    BY <1>3, <1>7 DEF Rendering
  <2>2. \A c \in Callsigns : Misplaced(t, R, c) => Misplaced(s, R, c)
    BY <1>1 DEF Misplaced
  <2>3. \A c \in t.rendered : t.objects[c].confirmed
    BY <1>1, <1>3, <2>1, StateTypes DEF Rendering
  <2> QED
    BY <1>1, <1>3, <2>2, <2>3 DEF Rendering, ToBeRemoved, AllGo
<1>13. ASSUME Calm PROVE Tracked(t, {}) /\ Current(t)
  <2>1. Tracked(s, {}) /\ \A i \in 1..n : ~Request(s.answers[i])
    BY <1>13 DEF Fine, Idle, n
  <2>2. \A y \in s.inSim : y.cs \in Callsigns /\ y.cs # cs
    <3>1. \A y \in s.inSim : s.objects[y.cs].req = y.id
      BY <2>1 DEF Tracked
    <3> QED
      BY <1>7, <3>1, StateTypes
  <2>3. \A y \in s.inSim : s.objects[y.cs].assigned
    BY <2>1 DEF Tracked, Request, n
  <2>4. ASSUME NEW y \in s.inSim
        PROVE  /\ t.objects[y.cs].req = y.id /\ ~t.objects[y.cs].pendingRemoved
               /\ t.objects[y.cs].assigned
               /\ t.objects[y.cs].confirmed \/ Task("verify", y.cs) \in Duties(t, {})
               /\ t.objects[y.cs].old => t.objects[y.cs].confirmed
    <3>1. t.objects[y.cs] = s.objects[y.cs]
      BY <1>1, <2>2
    <3> QED
      BY <1>1, <2>1, <2>3, <3>1 DEF Tracked
  <2>5. \E i \in 1..(n + 1) : t.answers[i].kind = "assigned" /\ t.answers[i].req = r
    BY <1>1
  <2>6. Tracked(t, {})
    BY <1>1, <1>2, <2>4, <2>5 DEF Tracked
  <2>7. \A i \in 1..(n + 1) : Request(t.answers[i]) => i = n + 1
    BY <1>1, <1>5, <2>1
  <2>8. Current(t)
    BY <1>1, <2>7 DEF Current
  <2> QED
    BY <2>6, <2>8
<1> QED
  BY <1>1, <1>8, <1>9, <1>10, <1>11, <1>12, <1>13 DEF Fine, Sound, t

(* The counters of an aircraft that waits, and its entry with a model.     *)
LEMMA PendingOfTypes ==
  ASSUME NEW s \in States, NEW cs \in Callsigns, NEW m \in Models
  PROVE  LET p == PendingOf(s, cs)
         IN /\ p.adding \in 0..ThresholdAddException
            /\ p.removals \in 0..ThresholdAddedAndDirectlyRemoved
            /\ [p EXCEPT !.model = m] \in Pendings
<1> DEFINE S == {p \in ToSet(s.addPending) : p.cs = cs}
<1>1. CASE S = {}
  <2>1. PendingOf(s, cs) = Pending(cs, "", 0, 0)
    BY <1>1 DEF PendingOf
  <2> DEFINE P == [cs : Callsigns, model : Models \cup {""}, adding : 0..ThresholdAddException,
                   removals : 0..ThresholdAddedAndDirectlyRemoved]
  <2>2. Pending(cs, "", 0, 0) \in P
    BY DEF Pending, ThresholdAddException, ThresholdAddedAndDirectlyRemoved
  <2>3. ASSUME NEW p \in P
        PROVE  /\ p.adding \in 0..ThresholdAddException
               /\ p.removals \in 0..ThresholdAddedAndDirectlyRemoved
               /\ [p EXCEPT !.model = m] \in Pendings
    BY DEF Pendings
  <2> HIDE DEF P
  <2> QED
    BY <2>1, <2>2, <2>3
<1>2. CASE S # {}
  <2>1. PendingOf(s, cs) \in S
    BY <1>2 DEF PendingOf
  <2>2. ToSet(s.addPending) \subseteq Pendings
    <3>1. s.addPending \in Seq(Pendings)
      BY StateTypes
    <3>2. DOMAIN s.addPending = 1..Len(s.addPending)
            /\ \A i \in 1..Len(s.addPending) : s.addPending[i] \in Pendings
      BY <3>1, LenProperties, ElementOfSeq
    <3> QED
      BY <3>2 DEF ToSet
  <2> DEFINE p == PendingOf(s, cs)
  <2>3. p \in Pendings
    BY <2>1, <2>2
  <2> HIDE DEF p
  <2>4. /\ p.adding \in 0..ThresholdAddException
        /\ p.removals \in 0..ThresholdAddedAndDirectlyRemoved
        /\ [p EXCEPT !.model = m] \in Pendings
    BY <2>3 DEF Pendings
  <2> QED
    BY <2>4 DEF p
<1> QED
  BY <1>1, <1>2

(* physicallyAddRemoteAircraftImpl, on each of its ways.                   *)
LEMMA PhysicallyAddFine ==
  ASSUME NEW s0 \in States, inRange \subseteq Callsigns, Fine(s0, inRange, {}), Idle(s0),
         NEW cs \in Callsigns, NEW m \in Models
  PROVE  LET t == PhysicallyAddRemoteAircraft(s0, cs, m)
         IN t \in States /\ Fine(t, inRange, {})
<1> DEFINE t == PhysicallyAddRemoteAircraft(s0, cs, m)
           s1 == RestartTimer(s0)
           s == RemoveOutdated(s1)
           p == PendingOf(s, cs)
<1>1. s1 \in States /\ Fine(s1, inRange, {}) /\ Idle(s1)
  BY RestartTimerFields, FineAlike
<1>2. s \in States /\ Fine(s, inRange, {}) /\ Idle(s)
  <2> HIDE DEF s1
  <2> QED
    BY <1>1, RemoveOutdatedFine
<1>3. t = IF cs \in Outdated(s0) THEN s
          ELSE IF Exists(s.objects[cs]) THEN AddExisting(s, cs, m)
          ELSE IF ~CanAdd(s) THEN InsertPending(s, [p EXCEPT !.model = m])
          ELSE IF cs \notin inRange THEN Forget(s, {cs})
          ELSE Create(Forget(s, {cs}), cs, m, p)
  BY DEF PhysicallyAddRemoteAircraft
<1> HIDE DEF s, s1, t
<1>4. /\ p.adding \in 0..ThresholdAddException
      /\ p.removals \in 0..ThresholdAddedAndDirectlyRemoved
      /\ [p EXCEPT !.model = m] \in Pendings
  BY <1>2, PendingOfTypes
<1> HIDE DEF p
<1>5. AddExisting(s, cs, m) \in States /\ Fine(AddExisting(s, cs, m), inRange, {})
  BY <1>2, AddExistingFine
<1>6. LET i == InsertPending(s, [p EXCEPT !.model = m])
      IN i \in States /\ Fine(i, inRange, {})
  <2> DEFINE e == [p EXCEPT !.model = m]
  <2>1. e \in Pendings
    BY <1>4
  <2> HIDE DEF e
  <2>2. InsertPending(s, e) \in States /\ Fine(InsertPending(s, e), inRange, {})
    BY <1>2, <2>1, InsertPendingFields, FineAlike
  <2> QED
    BY <2>2 DEF e
<1> DEFINE u == Forget(s, {cs})
<1>7. u \in States /\ Fine(u, inRange, {}) /\ Idle(u) /\ u.objects = s.objects
  <2>1. u \in States /\ Alike(s, u) /\ Duties(u, {}) = Duties(s, {})
    BY <1>2, ForgetFields
  <2> HIDE DEF u
  <2> QED
    BY <1>2, <2>1, FineAlike DEF Alike
<1> HIDE DEF u
<1>8. ASSUME CanAdd(s), ~Exists(s.objects[cs]), cs \in inRange
      PROVE  Create(u, cs, m, p) \in States /\ Fine(Create(u, cs, m, p), inRange, {})
  <2>1. \A c \in Callsigns : ~PendingAdded(u.objects[c])
    BY <1>7, <1>8 DEF CanAdd
  <2> QED
    BY <1>4, <1>7, <1>8, <2>1, CreateFine
<1>9. t \in States /\ Fine(t, inRange, {})
  BY <1>2, <1>3, <1>5, <1>6, <1>7, <1>8 DEF u
<1> QED
  BY <1>9 DEF t

(* addPendingAircraft only starts a timer.                                 *)
LEMMA AddPendingFine ==
  ASSUME NEW s \in States, NEW R, NEW D, Fine(s, R, D)
  PROVE  LET t == AddPendingAircraft(s)
         IN t \in States /\ Fine(t, R, D) /\ (Idle(s) => Idle(t))
<1> DEFINE u == Forget(s, {p.cs : p \in ToSet(s.addPending)} \ inRange)
           d == ModelTask("addNext", Head(u.addPending).cs, Head(u.addPending).model)
<1>1. u \in States /\ Alike(s, u) /\ Duties(u, D) = Duties(s, D)
  BY ForgetFields
<1>2. AddPendingAircraft(s) = IF u.addPending = <<>> THEN u ELSE Start(u, d)
  BY DEF AddPendingAircraft
<1> HIDE DEF u
<1>3. Fine(u, R, D) /\ (Idle(s) => Idle(u))
  BY <1>1, FineAlike
<1>4. ASSUME u.addPending # <<>>
      PROVE  Start(u, d) \in States /\ Fine(Start(u, d), R, D) /\ (Idle(s) => Idle(Start(u, d)))
  <2>1. Head(u.addPending) \in Pendings
    <3>1. u.addPending \in Seq(Pendings)
      BY <1>1, StateTypes
    <3> QED
      BY <1>4, <3>1, HeadTailProperties
  <2>2. Head(u.addPending).cs \in Callsigns /\ Head(u.addPending).model \in Models
    BY <2>1 DEF Pendings
  <2>3. d \in Tasks /\ d.kind \notin DutyKinds
    BY <2>2 DEF Tasks, ModelTask, DutyKinds
  <2> HIDE DEF d
  <2> QED
    BY <1>1, <1>3, <2>3, StartFields, FineAlike
<1> HIDE DEF d
<1> QED
  BY <1>1, <1>2, <1>3, <1>4

-----------------------------------------------------------------------------
(* What the timers do.                                                     *)

(* verifyAddedRemoteAircraft confirms an object that has its id.           *)
LEMMA ConfirmFine ==
  ASSUME NEW s \in States, inRange \subseteq Callsigns, NEW cs \in Callsigns, NEW D,
         D \subseteq {Task("verify", cs)}, Fine(s, inRange, D),
         Exists(s.objects[cs]), s.objects[cs].assigned, ~s.objects[cs].pendingRemoved
  PROVE  Confirm(s, cs) \in States /\ Fine(Confirm(s, cs), inRange, {})
<1> DEFINE t == Confirm(s, cs)
           u == Forget(s, {cs})
           o == [s.objects[cs] EXCEPT !.confirmed = TRUE, !.removedWhileAdding = FALSE]
           f == [s.objects EXCEPT ![cs] = o]
           q == Cancel(s.tasks, "outdated", {cs})
           g == IF cs \in inRange THEN s.rendered \cup {cs} ELSE s.rendered
<1>1. u \in States /\ Alike(s, u) /\ u.tasks = s.tasks
  BY ForgetFields
<1>2. /\ q \in Seq(Tasks) /\ ToSet(q) \subseteq ToSet(s.tasks)
      /\ \A d \in ToSet(s.tasks) : d.kind # "outdated" => d \in ToSet(q)
  BY StateTypes, CancelElements
<1>3. /\ s.objects \in [Callsigns -> Objs] /\ s.objects[cs] \in Objs
      /\ s.rendered \subseteq Callsigns
  BY StateTypes
<1>4. /\ o \in Objs /\ o.req = s.objects[cs].req /\ o.assigned = s.objects[cs].assigned
      /\ o.confirmed /\ o.pendingRemoved = s.objects[cs].pendingRemoved
      /\ o.old = s.objects[cs].old
  BY <1>3 DEF Objs, ObjRecords, Exists
<1>5. f \in [Callsigns -> Objs] /\ f[cs] = o /\ \A c \in Callsigns : c # cs => f[c] = s.objects[c]
  <2> HIDE DEF o
  <2> QED
    BY <1>3, <1>4
<1>6. t = [u EXCEPT !.objects = f, !.tasks = q, !.rendered = g]
  <2>1. t = [u EXCEPT !.objects[cs].confirmed = TRUE,
                      !.objects[cs].removedWhileAdding = FALSE,
                      !.tasks = Cancel(@, "outdated", {cs}),
                      !.rendered = IF cs \in inRange THEN @ \cup {cs} ELSE @]
    BY DEF Confirm
  <2>2. u.objects = s.objects /\ u.tasks = s.tasks /\ u.rendered = s.rendered
    BY <1>1 DEF Alike
  <2> HIDE DEF u, t
  <2> QED
    BY <1>1, <1>3, <2>1, <2>2 DEF States
<1> HIDE DEF t, u, f, q, g, o
<1>7. g \subseteq Callsigns /\ s.rendered \subseteq g /\ g \subseteq s.rendered \cup {cs}
        /\ (cs \in inRange => cs \in g) /\ (s.rendered \subseteq inRange => g \subseteq inRange)
  BY <1>3 DEF g
<1>8. t \in States
  BY <1>1, <1>2, <1>5, <1>6, <1>7 DEF States
<1>9. /\ t.objects = f /\ t.tasks = q /\ t.rendered = g /\ t.lastRequest = s.lastRequest
      /\ t.inSim = s.inSim /\ t.answers = s.answers /\ t.enabled = s.enabled
  <2>1. /\ t.objects = f /\ t.tasks = q /\ t.rendered = g /\ t.lastRequest = u.lastRequest
        /\ t.inSim = u.inSim /\ t.answers = u.answers /\ t.enabled = u.enabled
    BY <1>1, <1>6 DEF States
  <2> QED
    BY <1>1, <2>1 DEF Alike
<1>10. Duties(t, {}) = Duties(s, {})
  BY <1>2, <1>9 DEF Duties, DutyKinds
<1>11. /\ Duties(s, D) \subseteq Duties(s, {}) \cup {Task("verify", cs)}
       /\ Duties(s, {}) \subseteq Duties(s, D)
  BY DEF Duties
<1>12. \A c \in Callsigns :
         /\ t.objects[c].req = s.objects[c].req /\ t.objects[c].assigned = s.objects[c].assigned
         /\ t.objects[c].pendingRemoved = s.objects[c].pendingRemoved
         /\ t.objects[c].old = s.objects[c].old
         /\ s.objects[c].confirmed => t.objects[c].confirmed
         /\ t.objects[c].confirmed => c = cs \/ s.objects[c].confirmed
  BY <1>4, <1>5, <1>9
<1>13. t.objects[cs].confirmed
  BY <1>4, <1>5, <1>9
<1>14. Sound(t)
  <2>1. Sound(s) /\ Stages(s)
    BY DEF Fine, Sound
  <2>2. \A c \in Callsigns : Lesser(t.objects[c], s.objects[c])
    BY <1>12, <2>1 DEF Lesser, Stages
  <2> QED
    BY <1>8, <1>9, <2>1, <2>2, SoundLesser
<1>15. Rendering(t, inRange, {})
  <2>1. Rendering(s, inRange, D)
    BY DEF Fine
  <2>2. t.rendered \subseteq inRange /\ t.enabled \subseteq inRange
    BY <1>7, <1>9, <2>1 DEF Rendering
  <2>3. AllGo(t, {}) <=> AllGo(s, D)
    BY <1>10, <1>11 DEF AllGo, Task
  <2>4. \A c \in t.rendered : t.objects[c].confirmed
    BY <1>7, <1>9, <1>12, <1>13, <2>1 DEF Rendering
  <2>5. ASSUME NEW c \in Callsigns, Misplaced(t, inRange, c) PROVE ToBeRemoved(t, {}, c)
    <3>1. Misplaced(s, inRange, c)
      BY <1>7, <1>9, <1>12, <2>5 DEF Misplaced, Exists
    <3>2. ToBeRemoved(s, D, c)
      BY <2>1, <3>1 DEF Rendering
    <3> QED
      BY <1>10, <1>11, <2>3, <3>2 DEF ToBeRemoved, Task
  <2> QED
    BY <2>1, <2>2, <2>3, <2>4, <2>5 DEF Rendering
<1>16. ASSUME Calm PROVE Tracked(t, {}) /\ Current(t)
  <2>1. Tracked(s, D) /\ Current(s)
    BY <1>16 DEF Fine
  <2>2. \A x \in t.inSim : x.cs \in Callsigns
    BY <1>8, StateTypes
  <2>3. \A x \in t.inSim : Task("verify", x.cs) \in Duties(s, D) =>
          t.objects[x.cs].confirmed \/ Task("verify", x.cs) \in Duties(t, {})
    <3>1. \A c : Task("verify", c) = Task("verify", cs) => c = cs
      BY DEF Task
    <3> QED
      BY <1>10, <1>11, <1>13, <3>1
  <2>4. Tracked(t, {})
    BY <1>8, <1>9, <1>12, <2>1, <2>2, <2>3, TrackedLess
  <2>5. Current(t)
    BY <1>9, <1>12, <2>1, AnswerTypes DEF Current
  <2> QED
    BY <2>4, <2>5
<1> QED
  BY <1>8, <1>14, <1>15, <1>16 DEF Fine, t

(* The tasks by their kinds.                                               *)
LEMMA TaskTypes ==
  ASSUME NEW t \in Tasks
  PROVE  /\ t.kind \in PlainKinds => t.cs \in Callsigns /\ t = Task(t.kind, t.cs)
         /\ t.kind \in {"addNext", "addAgain"} => t.cs \in Callsigns /\ t.model \in Models
         /\ t.kind \in {"model", "enabled", "enabledLater"} =>
              t.cs \in Callsigns /\ t.model \in Models /\ t.on \in BOOLEAN
         /\ t.kind = "insert" => t.pending \in Pendings
         /\ t.kind = "removeAll" => t = [kind |-> "removeAll"]
<1>1. CASE t \in [kind : PlainKinds, cs : Callsigns]
  <2>1. t.kind \in PlainKinds /\ t.cs \in Callsigns /\ t = [kind |-> t.kind, cs |-> t.cs]
    BY <1>1
  <2> QED
    BY <2>1 DEF Task, PlainKinds
<1>2. CASE t \in [kind : {"addNext", "addAgain"}, cs : Callsigns, model : Models]
  BY <1>2 DEF PlainKinds
<1>3. CASE t \in [kind : {"model", "enabled", "enabledLater"}, cs : Callsigns, model : Models,
                  on : BOOLEAN]
  BY <1>3 DEF PlainKinds
<1>4. CASE t \in [kind : {"insert"}, pending : Pendings]
  BY <1>4 DEF PlainKinds
<1>5. CASE t \in [kind : {"timer", "removeAll"}]
  <2>1. t.kind \in {"timer", "removeAll"} /\ t = [kind |-> t.kind]
    BY <1>5
  <2> QED
    BY <2>1 DEF PlainKinds
<1> QED
  BY <1>1, <1>2, <1>3, <1>4, <1>5 DEF Tasks

(* A task that is no duty is done whatever it does.                        *)
LEMMA NoDuty ==
  ASSUME NEW s, NEW R, NEW t, t.kind \notin DutyKinds, Fine(s, R, {t})
  PROVE  Fine(s, R, {})
<1>1. Duties(s, {}) = Duties(s, {t})
  BY DEF Duties
<1>2. Alike(s, s)
  BY DEF Alike
<1> QED
  BY <1>1, <1>2, FineAlike

(* verifyAddedRemoteAircraft                                               *)
LEMMA VerifyFine ==
  ASSUME NEW s \in States, inRange \subseteq Callsigns, NEW t \in Tasks, t.kind = "verify",
         Fine(s, inRange, {t})
  PROVE  LET v == VerifyAddedRemoteAircraft(s, t)
         IN v \in States /\ Fine(v, inRange, {})
<1> DEFINE o == s.objects[t.cs]
           v == CASE ~Exists(o) /\ t.cs \notin inRange -> Forget(s, {t.cs})
                  [] Exists(o) /\ o.assigned /\ ~o.pendingRemoved -> Confirm(s, t.cs)
                  [] OTHER -> s
<1>1. VerifyAddedRemoteAircraft(s, t) = AddPendingAircraft(v)
  BY DEF VerifyAddedRemoteAircraft
<1>2. t.cs \in Callsigns /\ t = Task("verify", t.cs)
  BY TaskTypes DEF PlainKinds
<1>3. CASE Exists(o) /\ o.assigned /\ ~o.pendingRemoved
  <2>1. v = Confirm(s, t.cs)
    BY <1>3
  <2>2. {t} \subseteq {Task("verify", t.cs)}
    BY <1>2
  <2>3. Confirm(s, t.cs) \in States /\ Fine(Confirm(s, t.cs), inRange, {})
    BY <1>2, <1>3, <2>2, ConfirmFine
  <2> QED
    BY <1>1, <2>1, <2>3, AddPendingFine
<1>4. CASE ~(Exists(o) /\ o.assigned /\ ~o.pendingRemoved)
  <2>1. Duties(s, {t}) \subseteq Duties(s, {}) \cup {t} /\ Duties(s, {}) \subseteq Duties(s, {t})
    BY DEF Duties
  <2>2. Rendering(s, inRange, {})
    <3>1. /\ \A c : Task("remove", c) # t /\ Task("removeAgain", c) # t
          /\ [kind |-> "removeAll"] # t
      <4>1. t.kind = "verify"
        OBVIOUS
      <4> QED
        BY <4>1 DEF Task
    <3> QED
      BY <2>1, <3>1 DEF Fine, Rendering, ToBeRemoved, AllGo
  <2>3. ASSUME Calm PROVE Tracked(s, {}) /\ Current(s)
    <3>1. Tracked(s, {t}) /\ Current(s)
      BY <2>3 DEF Fine
    <3>2. ASSUME NEW x \in s.inSim, s.objects[x.cs].assigned
          PROVE  s.objects[x.cs].confirmed \/ Task("verify", x.cs) \in Duties(s, {})
      <4>1. s.objects[x.cs].req = x.id /\ ~s.objects[x.cs].pendingRemoved /\ x.id # 0
        BY <3>1, StateTypes DEF Tracked
      <4>2. x.cs # t.cs
        BY <1>4, <3>2, <4>1 DEF Exists
      <4>3. Task("verify", x.cs) # t
        BY <1>2, <4>2 DEF Task
      <4> QED
        BY <2>1, <3>1, <3>2, <4>3 DEF Tracked
    <3>3. Tracked(s, {})
      BY <3>1, <3>2 DEF Tracked
    <3> QED
      BY <3>1, <3>3
  <2>4. Fine(s, inRange, {})
    BY <2>2, <2>3 DEF Fine
  <2>5. v \in {s, Forget(s, {t.cs})}
    BY <1>4
  <2>6. Forget(s, {t.cs}) \in States /\ Fine(Forget(s, {t.cs}), inRange, {})
    BY <2>4, ForgetFields, FineAlike
  <2>7. v \in States /\ Fine(v, inRange, {})
    BY <2>4, <2>5, <2>6
  <2> HIDE DEF v
  <2> QED
    BY <1>1, <2>7, AddPendingFine
<1> QED
  BY <1>3, <1>4

(* An object gets old: under prompt answers it has been confirmed.         *)
LEMMA AgesFine ==
  ASSUME NEW s \in States, NEW t \in Tasks, t.kind = "outdated", NEW R, Fine(s, R, {}), Idle(s),
         Calm => \A c : Task("verify", c) \notin Duties(s, {})
  PROVE  Ages(s, t) \in States /\ Fine(Ages(s, t), R, {})
<1> DEFINE u == Ages(s, t)
           o == [s.objects[t.cs] EXCEPT !.old = TRUE]
           f == [s.objects EXCEPT ![t.cs] = o]
<1>1. t.cs \in Callsigns
  BY TaskTypes DEF PlainKinds
<1>2. s.objects \in [Callsigns -> Objs] /\ s.objects[t.cs] \in Objs
  BY <1>1, StateTypes
<1>3. /\ o \in Objs /\ o.req = s.objects[t.cs].req /\ o.assigned = s.objects[t.cs].assigned
      /\ o.confirmed = s.objects[t.cs].confirmed
      /\ o.pendingRemoved = s.objects[t.cs].pendingRemoved
  BY <1>2 DEF Objs, ObjRecords, Exists
<1>4. f \in [Callsigns -> Objs] /\ f[t.cs] = o /\ \A c \in Callsigns : c # t.cs => f[c] = s.objects[c]
  <2> HIDE DEF o
  <2> QED
    BY <1>1, <1>2, <1>3
<1>5. u = [s EXCEPT !.objects = f]
  BY <1>1, <1>2 DEF Ages
<1> HIDE DEF u, f, o
<1>6. u \in States
  BY <1>4, <1>5 DEF States
<1>7. /\ u.objects = f /\ u.tasks = s.tasks /\ u.rendered = s.rendered
      /\ u.lastRequest = s.lastRequest
      /\ u.inSim = s.inSim /\ u.answers = s.answers /\ u.enabled = s.enabled
  BY <1>5 DEF States
<1>8. \A c \in Callsigns :
        /\ u.objects[c].req = s.objects[c].req /\ u.objects[c].assigned = s.objects[c].assigned
        /\ u.objects[c].confirmed = s.objects[c].confirmed
        /\ u.objects[c].pendingRemoved = s.objects[c].pendingRemoved
  BY <1>3, <1>4, <1>7
<1>9. Duties(u, {}) = Duties(s, {})
  BY <1>7 DEF Duties
<1>10. Sound(u)
  <2>1. Sound(s) /\ Stages(s)
    BY DEF Fine, Sound
  <2>2. \A c \in Callsigns : Lesser(u.objects[c], s.objects[c])
    BY <1>8, <2>1 DEF Lesser, Stages
  <2> QED
    BY <1>6, <1>7, <2>1, <2>2, SoundLesser
<1>11. Rendering(u, R, {})
  <2>1. \A c \in Callsigns : Misplaced(u, R, c) <=> Misplaced(s, R, c)
    BY <1>7, <1>8 DEF Misplaced, Exists
  <2>2. \A c \in u.rendered : u.objects[c].confirmed
    BY <1>7, <1>8, StateTypes DEF Fine, Rendering
  <2> QED
    BY <1>7, <1>9, <2>1, <2>2 DEF Fine, Rendering, ToBeRemoved, AllGo
<1>12. ASSUME Calm PROVE Tracked(u, {}) /\ Current(u)
  <2>1. Tracked(s, {}) /\ Current(s) /\ \A c : Task("verify", c) \notin Duties(s, {})
    BY <1>12 DEF Fine
  <2>2. ASSUME NEW x \in s.inSim PROVE s.objects[x.cs].assigned /\ s.objects[x.cs].confirmed
    BY <1>12, <2>1 DEF Tracked, Idle, Request
  <2>3. Tracked(u, {})
    <3>1. ASSUME NEW x \in s.inSim
          PROVE  /\ u.objects[x.cs].req = x.id /\ ~u.objects[x.cs].pendingRemoved
                 /\ u.objects[x.cs].assigned /\ u.objects[x.cs].confirmed
      <4>1. x.cs \in Callsigns
        BY StateTypes
      <4> QED
        BY <1>8, <2>1, <2>2, <4>1 DEF Tracked
    <3> QED
      BY <1>7, <3>1 DEF Tracked
  <2>4. \A i \in 1..Len(s.answers) : Request(s.answers[i]) => s.answers[i].trace.cs \in Callsigns
    BY AnswerTypes
  <2>5. Current(u)
    BY <1>7, <1>8, <2>1, <2>4 DEF Current
  <2> QED
    BY <2>3, <2>5
<1> QED
  BY <1>6, <1>10, <1>11, <1>12 DEF Fine, u

(* physicallyRemoveAllRemoteAircraft and clearAllRemoteAircraftData        *)
LEMMA RemoveAllFine ==
  ASSUME NEW s \in States, inRange \subseteq Callsigns, NEW t \in Tasks, t.kind = "removeAll",
         Fine(s, inRange, {t})
  PROVE  RemoveAll(s, t) \in States /\ Fine(RemoveAll(s, t), inRange, {})
<1> DEFINE a == [s EXCEPT !.addPending = <<>>]
           known == PhysicallyRemoveRemoteAircraft(a, Known(s))
           all == PhysicallyRemoveRemoteAircraft(known, inRange)
           f == Forget(all, Callsigns)
           u == DropObjects(f, Callsigns)
<1>1. RemoveAll(s, t) = u
  BY DEF RemoveAll
<1>2. t = [kind |-> "removeAll"]
  BY TaskTypes
<1>3. inRange = {} /\ ~Calm
  <2>1. AllGo(s, {t})
    BY <1>2 DEF AllGo, Duties, DutyKinds
  <2> QED
    BY <2>1 DEF Fine, Rendering, Calm
<1>4. a \in States /\ Fine(a, inRange, {t}) /\ Idle(a)
  <2>1. a \in States
    BY EmptySeq DEF States
  <2>2. Alike(s, a) /\ a.tasks = s.tasks
    BY DEF States, Alike
  <2> HIDE DEF a
  <2>3. Duties(a, {t}) = Duties(s, {t})
    BY <2>2 DEF Duties
  <2> QED
    BY <1>3, <2>1, <2>2, <2>3, FineAlike DEF Idle
<1> HIDE DEF a
<1>5. known \in States /\ Fine(known, inRange, {t}) /\ Idle(known)
  <2>1. Known(s) \subseteq Callsigns
    BY DEF Known
  <2> QED
    BY <1>4, <2>1, PhysicallyRemoveFine
<1> HIDE DEF known
<1>6. all \in States /\ Fine(all, inRange, {t})
  BY <1>5, PhysicallyRemoveFine
<1> HIDE DEF all
<1>7. f \in States /\ Fine(f, inRange, {t})
  BY <1>6, ForgetFields, FineAlike
<1> HIDE DEF f
<1>8. u \in States /\ Fine(u, inRange, {t}) /\ \A cs \in Callsigns : ~Exists(u.objects[cs])
  <2>1. \A cs \in Callsigns : cs \notin f.rendered
    BY <1>3, <1>7 DEF Fine, Rendering
  <2>2. Fine(u, inRange, {t})
    BY <1>3, <1>7, <2>1, DropFine
  <2>3. u \in States /\ \A cs \in Callsigns : u.objects[cs] = NoObject
    BY <1>7, DropFields
  <2> QED
    BY <2>2, <2>3, NoObjectType
<1> HIDE DEF u
<1>9. Rendering(u, inRange, {})
  <2>1. AllGo(u, {}) => AllGo(u, {t})
    BY DEF AllGo, Duties
  <2> QED
    BY <1>8, <2>1 DEF Fine, Rendering, Misplaced
<1> QED
  BY <1>1, <1>3, <1>8, <1>9 DEF Fine

-----------------------------------------------------------------------------
(* The answers of the simulator.                                           *)

(* The answers after the first.                                            *)
LEMMA TailElements ==
  ASSUME NEW s \in States, s.answers # <<>>
  PROVE  LET n == Len(s.answers)
             q == Tail(s.answers)
         IN /\ n \in Nat /\ n # 0 /\ Head(s.answers) = s.answers[1]
            /\ q \in Seq(Answered) /\ Len(q) = n - 1
            /\ \A i \in 1..(n - 1) : i + 1 \in 1..n /\ q[i] = s.answers[i + 1]
            /\ \A i \in 2..n : i - 1 \in 1..(n - 1) /\ q[i - 1] = s.answers[i]
<1> DEFINE n == Len(s.answers)
           q == Tail(s.answers)
<1>1. s.answers \in Seq(Answered)
  BY StateTypes
<1>2. n \in Nat /\ n # 0
  BY <1>1, EmptySeq, LenProperties
<1>3. /\ q \in Seq(Answered) /\ Len(q) = n - 1
      /\ \A i \in 1..(n - 1) : q[i] = s.answers[i + 1]
  BY <1>1, HeadTailProperties
<1>4. Head(s.answers) = s.answers[1]
  BY <1>1
<1> HIDE DEF n, q
<1>5. \A i \in 1..(n - 1) : i + 1 \in 1..n /\ q[i] = s.answers[i + 1]
  BY <1>2, <1>3
<1>6. ASSUME NEW i \in 2..n PROVE i - 1 \in 1..(n - 1) /\ q[i - 1] = s.answers[i]
  <2>1. i - 1 \in 1..(n - 1) /\ (i - 1) + 1 = i
    BY <1>2
  <2> QED
    BY <1>5, <2>1
<1> QED
  BY <1>2, <1>3, <1>4, <1>5, <1>6 DEF n, q

(* An answer that nobody waits for.                                        *)
LEMMA TailFine ==
  ASSUME NEW s \in States, NEW t \in States, NEW R, Fine(s, R, {}), s.answers # <<>>,
         t.objects = s.objects, t.lastRequest = s.lastRequest, t.enabled = s.enabled,
         t.rendered = s.rendered, t.inSim = s.inSim, Duties(t, {}) = Duties(s, {}),
         t.answers = Tail(s.answers),
         Head(s.answers).kind = "removed" => \A cs \in Callsigns :
           s.objects[cs].assigned => s.objects[cs].req # Head(s.answers).req,
         Calm /\ Head(s.answers).kind = "assigned" => \A cs \in Callsigns :
           s.objects[cs].req # Head(s.answers).req
  PROVE  Fine(t, R, {})
<1> DEFINE n == Len(s.answers)
<1>1. /\ n \in Nat /\ n # 0 /\ Head(s.answers) = s.answers[1] /\ Len(t.answers) = n - 1
      /\ \A i \in 1..(n - 1) : i + 1 \in 1..n /\ t.answers[i] = s.answers[i + 1]
      /\ \A i \in 2..n : i - 1 \in 1..(n - 1) /\ t.answers[i - 1] = s.answers[i]
  BY TailElements
<1>2. \A i \in 1..n : i = 1 \/ i \in 2..n
  BY <1>1
<1>3. /\ Numbered(s) /\ Stages(s) /\ OneAdded(s) /\ InOrder(s) /\ Truthful(s)
      /\ Rendering(s, R, {})
  BY DEF Fine, Sound
<1> HIDE DEF n
<1>4. Numbered(t) /\ Stages(t) /\ OneAdded(t)
  <2>1. \A i \in 1..(n - 1) : t.answers[i].req <= t.lastRequest
    BY <1>1, <1>3 DEF Numbered, n
  <2>2. Numbered(t)
    BY <1>1, <1>3, <2>1 DEF Numbered
  <2> QED
    BY <1>3, <2>2 DEF Stages, OneAdded
<1>5. InOrder(t)
  <2>1. ASSUME NEW i \in 1..(n - 1), NEW j \in 1..(n - 1), i < j,
               Request(t.answers[i]), Request(t.answers[j])
        PROVE  t.answers[i].req < t.answers[j].req
    <3>1. i + 1 \in 1..n /\ j + 1 \in 1..n /\ i + 1 < j + 1
      BY <1>1, <2>1
    <3> QED
      BY <1>1, <1>3, <2>1, <3>1 DEF InOrder, n
  <2>2. ASSUME NEW i \in 1..(n - 1), NEW cs \in Callsigns, Request(t.answers[i]),
               t.objects[cs].assigned
        PROVE  t.objects[cs].req < t.answers[i].req
    <3>1. i + 1 \in 1..n /\ t.answers[i] = s.answers[i + 1]
      BY <1>1, Zenon
    <3>2. s.objects[cs].assigned
      BY <2>2, Zenon
    <3>3. s.objects[cs].req < s.answers[i + 1].req
      BY <1>3, <2>2, <3>1, <3>2 DEF InOrder, n
    <3> QED
      BY <3>1, <3>3
  <2>3. \A i \in 1..(n - 1) : Request(t.answers[i]) /\ Exists(t.objects[t.answers[i].trace.cs]) =>
          t.answers[i].req <= t.objects[t.answers[i].trace.cs].req
    BY <1>1, <1>3 DEF InOrder, n
  <2> QED
    BY <1>1, <2>1, <2>2, <2>3 DEF InOrder
<1>6. Truthful(t)
  <2>0. \A r : InSim(t, r) <=> InSim(s, r)
    BY DEF InSim
  <2>1. ASSUME NEW i \in 1..(n - 1), t.answers[i].kind = "assigned"
        PROVE  InSim(t, t.answers[i].req)
                 \/ \E j \in 1..(n - 1) : i < j /\ Removal(t.answers[j], t.answers[i].req)
    <3>1. t.answers[i] = s.answers[i + 1] /\ i + 1 \in 1..n
      BY <1>1
    <3>2. CASE \E j \in 1..n : i + 1 < j /\ Removal(s.answers[j], s.answers[i + 1].req)
      <4>1. PICK j \in 1..n : i + 1 < j /\ Removal(s.answers[j], s.answers[i + 1].req)
        BY <3>2
      <4>2. j \in 2..n /\ i < j - 1
        BY <1>1, <4>1
      <4> QED
        BY <1>1, <3>1, <4>1, <4>2
    <3> QED
      BY <1>3, <2>0, <2>1, <3>1, <3>2 DEF Truthful, n
  <2>2. \A i \in 1..(n - 1) : t.answers[i].kind \in {"failed", "removed"} =>
          ~InSim(t, t.answers[i].req)
    BY <1>1, <1>3, <2>0 DEF Truthful, n
  <2>3. ASSUME NEW cs \in Callsigns, t.objects[cs].assigned
        PROVE  InSim(t, t.objects[cs].req)
                 \/ \E j \in 1..(n - 1) : Removal(t.answers[j], t.objects[cs].req)
    <3>1. CASE \E j \in 1..n : Removal(s.answers[j], s.objects[cs].req)
      <4>1. PICK j \in 1..n : Removal(s.answers[j], s.objects[cs].req)
        BY <3>1
      <4>2. j # 1
        BY <1>1, <2>3, <4>1 DEF Removal
      <4> QED
        BY <1>1, <1>2, <4>1, <4>2
    <3> QED
      BY <1>3, <2>0, <2>3, <3>1 DEF Truthful, n
  <2> QED
    BY <1>1, <2>1, <2>2, <2>3 DEF Truthful
<1>7. Rendering(t, R, {})
  BY <1>3 DEF Rendering, Misplaced, ToBeRemoved, AllGo
<1>8. ASSUME Calm PROVE Tracked(t, {}) /\ Current(t)
  <2>1. Tracked(s, {}) /\ Current(s)
    BY <1>8 DEF Fine
  <2>2. ASSUME NEW x \in s.inSim, ~s.objects[x.cs].assigned
        PROVE  \E i \in 1..(n - 1) : t.answers[i].kind = "assigned" /\ t.answers[i].req = x.id
    <3>1. PICK i \in 1..n : s.answers[i].kind = "assigned" /\ s.answers[i].req = x.id
      BY <2>1, <2>2 DEF Tracked, n
    <3>2. i # 1
      <4>1. x.cs \in Callsigns /\ s.objects[x.cs].req = x.id
        BY <2>1, StateTypes DEF Tracked
      <4> QED
        BY <1>1, <1>8, <3>1, <4>1
    <3> QED
      BY <1>1, <1>2, <3>1, <3>2
  <2>3. Tracked(t, {})
    BY <1>1, <2>1, <2>2 DEF Tracked
  <2>4. Current(t)
    BY <1>1, <2>1 DEF Current, n
  <2> QED
    BY <2>3, <2>4
<1> QED
  BY <1>4, <1>5, <1>6, <1>7, <1>8 DEF Fine, Sound

(* The state without the first answer.                                     *)
Rest(s) == [s EXCEPT !.answers = Tail(@)]

LEMMA RestFields ==
  ASSUME NEW s \in States, s.answers # <<>>
  PROVE  /\ Rest(s) \in States /\ Rest(s).answers = Tail(s.answers)
         /\ Rest(s).objects = s.objects /\ Rest(s).lastRequest = s.lastRequest
         /\ Rest(s).enabled = s.enabled /\ Rest(s).rendered = s.rendered
         /\ Rest(s).inSim = s.inSim /\ Rest(s).tasks = s.tasks
         /\ Rest(s).addAgain = s.addAgain /\ Rest(s).addPending = s.addPending
         /\ Duties(Rest(s), {}) = Duties(s, {})
<1>1. Tail(s.answers) \in Seq(Answered)
  BY TailElements
<1>2. Rest(s) \in States
  BY <1>1 DEF Rest, States
<1>3. /\ Rest(s).answers = Tail(s.answers)
      /\ Rest(s).objects = s.objects /\ Rest(s).lastRequest = s.lastRequest
      /\ Rest(s).enabled = s.enabled /\ Rest(s).rendered = s.rendered
      /\ Rest(s).inSim = s.inSim /\ Rest(s).tasks = s.tasks
      /\ Rest(s).addAgain = s.addAgain /\ Rest(s).addPending = s.addPending
  BY DEF Rest, States
<1> QED
  BY <1>2, <1>3 DEF Duties

(***************************************************************************)
(* The object gets its id.  Later answers are of later requests, and its   *)
(* removal, if it is gone already, is told later.                          *)
(***************************************************************************)
LEMMA AssignedFine ==
  ASSUME NEW s \in States, NEW R, Fine(s, R, {}), s.answers # <<>>,
         Head(s.answers).kind = "assigned",
         NEW cs \in Callsigns, s.objects[cs].req = Head(s.answers).req
  PROVE  LET t == Start([Rest(s) EXCEPT !.objects[cs].assigned = TRUE], Task("verify", cs))
         IN t \in States /\ Fine(t, R, {})
<1> DEFINE n == Len(s.answers)
           v == [Rest(s) EXCEPT !.objects[cs].assigned = TRUE]
           t == Start(v, Task("verify", cs))
           o == [s.objects[cs] EXCEPT !.assigned = TRUE]
           f == [s.objects EXCEPT ![cs] = o]
<1>1. /\ n \in Nat /\ n # 0 /\ Head(s.answers) = s.answers[1]
      /\ Len(Tail(s.answers)) = n - 1
      /\ \A i \in 1..(n - 1) : i + 1 \in 1..n /\ Tail(s.answers)[i] = s.answers[i + 1]
      /\ \A i \in 2..n : i - 1 \in 1..(n - 1) /\ Tail(s.answers)[i - 1] = s.answers[i]
  BY TailElements
<1>2. s.objects \in [Callsigns -> Objs] /\ s.objects[cs] \in Objs
  BY StateTypes
<1>3. /\ o \in Objs /\ o.req = s.objects[cs].req /\ o.assigned
      /\ o.confirmed = s.objects[cs].confirmed /\ o.old = s.objects[cs].old
      /\ o.pendingRemoved = s.objects[cs].pendingRemoved
  BY <1>2 DEF Objs, ObjRecords, Exists
<1>4. f \in [Callsigns -> Objs] /\ f[cs] = o /\ \A c \in Callsigns : c # cs => f[c] = s.objects[c]
  <2> HIDE DEF o
  <2> QED
    BY <1>2, <1>3
<1>5. /\ Rest(s) \in States /\ Rest(s).answers = Tail(s.answers) /\ Rest(s).objects = s.objects
      /\ Rest(s).lastRequest = s.lastRequest /\ Rest(s).inSim = s.inSim
      /\ Rest(s).enabled = s.enabled /\ Rest(s).rendered = s.rendered /\ Rest(s).tasks = s.tasks
  BY RestFields
<1>6. v = [Rest(s) EXCEPT !.objects = f]
  BY <1>5
<1> HIDE DEF v, f, o
<1>7. v \in States
  BY <1>4, <1>5, <1>6 DEF States
<1>8. /\ v.answers = Tail(s.answers) /\ v.objects = f
      /\ v.lastRequest = s.lastRequest /\ v.inSim = s.inSim
      /\ v.enabled = s.enabled /\ v.rendered = s.rendered /\ v.tasks = s.tasks
  BY <1>5, <1>6 DEF States
<1>9. Task("verify", cs) \in Tasks /\ Task("verify", cs).kind \in DutyKinds
  BY DEF Task, Tasks, PlainKinds, DutyKinds
<1>10. /\ t \in States /\ t.answers = Tail(s.answers) /\ t.objects = f
       /\ t.lastRequest = s.lastRequest /\ t.inSim = s.inSim
       /\ t.enabled = s.enabled /\ t.rendered = s.rendered
  BY <1>7, <1>8, <1>9, StartFields DEF Alike
<1>11. Duties(t, {}) = Duties(s, {}) \cup {Task("verify", cs)}
  <2>1. t.tasks = Append(s.tasks, Task("verify", cs))
    BY <1>7, <1>8 DEF Start, States
  <2>2. s.tasks \in Seq(Tasks)
    BY StateTypes
  <2>3. ToSet(t.tasks) = ToSet(s.tasks) \cup {Task("verify", cs)}
    <3> DEFINE d == Task("verify", cs)
    <3>1. d \in Tasks /\ t.tasks = Append(s.tasks, d)
      BY <1>9, <2>1
    <3> HIDE DEF d, t
    <3>2. ToSet(Append(s.tasks, d)) = ToSet(s.tasks) \cup {d}
      BY <2>2, <3>1, AppendElements
    <3> QED
      BY <3>1, <3>2 DEF d
  <2> QED
    BY <1>9, <2>3 DEF Duties
<1>12. /\ Len(t.answers) = n - 1
       /\ \A i \in 1..(n - 1) : i + 1 \in 1..n /\ t.answers[i] = s.answers[i + 1]
       /\ \A i \in 2..n : i - 1 \in 1..(n - 1) /\ t.answers[i - 1] = s.answers[i]
  BY <1>1, <1>10
<1>13. /\ Numbered(s) /\ Stages(s) /\ OneAdded(s) /\ InOrder(s) /\ Truthful(s)
       /\ Rendering(s, R, {})
  BY DEF Fine, Sound
<1>14. /\ \A c \in Callsigns :
            /\ t.objects[c].req = s.objects[c].req
            /\ t.objects[c].confirmed = s.objects[c].confirmed
            /\ t.objects[c].old = s.objects[c].old
            /\ t.objects[c].pendingRemoved = s.objects[c].pendingRemoved
            /\ c # cs => t.objects[c].assigned = s.objects[c].assigned
       /\ t.objects[cs].assigned
  BY <1>3, <1>4, <1>10
<1>15. 1 \in 1..n /\ s.objects[cs].req = s.answers[1].req /\ s.answers[1].kind = "assigned"
         /\ Exists(s.objects[cs])
  <2>1. 1 \in 1..n
    BY <1>1
  <2>2. s.answers[1].req # 0
    BY <2>1, AnswerTypes DEF n
  <2> QED
    BY <1>1, <2>1, <2>2 DEF Exists
<1> HIDE DEF t, n
<1>16. Numbered(t)
  <2>1. \A i \in 1..(n - 1) : t.answers[i].req <= t.lastRequest
    BY <1>10, <1>12, <1>13 DEF Numbered, n
  <2>2. \A c \in Callsigns : t.objects[c].req <= t.lastRequest
    BY <1>10, <1>13, <1>14 DEF Numbered
  <2>3. \A a, b \in Callsigns :
          t.objects[a].req = t.objects[b].req /\ Exists(t.objects[a]) => a = b
    BY <1>13, <1>14 DEF Numbered, Exists
  <2> QED
    BY <1>10, <1>12, <1>13, <2>1, <2>2, <2>3 DEF Numbered
<1>17. Stages(t) /\ OneAdded(t)
  <2>1. Stages(t)
    BY <1>13, <1>14, <1>15 DEF Stages, Exists
  <2>2. \A c \in Callsigns : PendingAdded(t.objects[c]) => PendingAdded(s.objects[c])
    BY <1>13, <1>14 DEF PendingAdded, Exists, Stages
  <2> QED
    BY <1>13, <2>1, <2>2 DEF OneAdded
<1>18. InOrder(t)
  <2>1. ASSUME NEW i \in 1..(n - 1), NEW j \in 1..(n - 1), i < j,
               Request(t.answers[i]), Request(t.answers[j])
        PROVE  t.answers[i].req < t.answers[j].req
    <3>1. i + 1 \in 1..n /\ j + 1 \in 1..n /\ i + 1 < j + 1
      BY <1>1, <1>12, <2>1
    <3> QED
      BY <1>12, <1>13, <2>1, <3>1 DEF InOrder, n
  <2>2. ASSUME NEW i \in 1..(n - 1), NEW c \in Callsigns,
               Request(t.answers[i]), t.objects[c].assigned
        PROVE  t.objects[c].req < t.answers[i].req
    <3>1. CASE c # cs
      BY <1>12, <1>13, <1>14, <2>2, <3>1 DEF InOrder, n
    <3>2. CASE c = cs
      <4>1. i + 1 \in 1..n /\ 1 < i + 1
        BY <1>1
      <4>2. s.answers[1].req < s.answers[i + 1].req
        BY <1>12, <1>13, <1>15, <2>2, <4>1 DEF InOrder, Request, n
      <4> QED
        BY <1>12, <1>14, <1>15, <3>2, <4>2
    <3> QED
      BY <3>1, <3>2
  <2>3. \A i \in 1..(n - 1) : Request(t.answers[i]) => t.answers[i].trace.cs \in Callsigns
    BY <1>10, <1>12, AnswerTypes
  <2>4. ASSUME NEW i \in 1..(n - 1), Request(t.answers[i]),
               Exists(t.objects[t.answers[i].trace.cs])
        PROVE  t.answers[i].req <= t.objects[t.answers[i].trace.cs].req
    <3> DEFINE c == t.answers[i].trace.cs
    <3>1. /\ c \in Callsigns /\ i + 1 \in 1..n /\ t.answers[i] = s.answers[i + 1]
          /\ c = s.answers[i + 1].trace.cs /\ Request(s.answers[i + 1])
      BY <1>12, <2>3, <2>4
    <3>2. Exists(t.objects[c]) /\ c = t.answers[i].trace.cs
      BY <2>4
    <3> HIDE DEF c
    <3>3. t.objects[c].req = s.objects[c].req
      BY <1>14, <3>1
    <3>4. Exists(s.objects[c])
      BY <3>2, <3>3 DEF Exists
    <3>5. s.answers[i + 1].req <= s.objects[c].req
      BY <1>13, <3>1, <3>4 DEF InOrder, n
    <3> QED
      BY <3>1, <3>2, <3>3, <3>5
  <2> QED
    BY <1>12, <2>1, <2>2, <2>4 DEF InOrder
<1>19. Truthful(t)
  <2>0. \A r : InSim(t, r) <=> InSim(s, r)
    BY <1>10 DEF InSim
  <2>1. ASSUME NEW i \in 0..(n - 1), s.answers[i + 1].kind = "assigned"
        PROVE  InSim(t, s.answers[i + 1].req)
                 \/ \E j \in 1..(n - 1) : i < j /\ Removal(t.answers[j], s.answers[i + 1].req)
    <3>1. i + 1 \in 1..n
      BY <1>1
    <3>2. CASE \E j \in 1..n : i + 1 < j /\ Removal(s.answers[j], s.answers[i + 1].req)
      <4>1. PICK j \in 1..n : i + 1 < j /\ Removal(s.answers[j], s.answers[i + 1].req)
        BY <3>2
      <4>2. j \in 2..n /\ i < j - 1
        BY <1>1, <4>1
      <4> QED
        BY <1>12, <4>1, <4>2
    <3> QED
      BY <1>13, <2>0, <2>1, <3>1, <3>2 DEF Truthful, n
  <2>2. ASSUME NEW i \in 1..(n - 1), t.answers[i].kind = "assigned"
        PROVE  InSim(t, t.answers[i].req)
                 \/ \E j \in 1..(n - 1) : i < j /\ Removal(t.answers[j], t.answers[i].req)
    <3>1. i \in 0..(n - 1) /\ t.answers[i] = s.answers[i + 1]
      BY <1>1, <1>12
    <3> QED
      BY <2>1, <2>2, <3>1
  <2>3. \A i \in 1..(n - 1) : t.answers[i].kind \in {"failed", "removed"} =>
          ~InSim(t, t.answers[i].req)
    BY <1>12, <1>13, <2>0 DEF Truthful, n
  <2>4. ASSUME NEW c \in Callsigns, t.objects[c].assigned
        PROVE  InSim(t, t.objects[c].req)
                 \/ \E j \in 1..(n - 1) : Removal(t.answers[j], t.objects[c].req)
    <3>1. CASE c = cs
      <4>1. 0 \in 0..(n - 1) /\ 0 + 1 = 1
        BY <1>1
      <4>2. InSim(t, s.answers[1].req)
              \/ \E j \in 1..(n - 1) : 0 < j /\ Removal(t.answers[j], s.answers[1].req)
        BY <1>15, <2>1, <4>1
      <4> QED
        BY <1>14, <1>15, <3>1, <4>2
    <3>2. CASE c # cs
      <4>1. InSim(s, s.objects[c].req) \/ \E j \in 1..n : Removal(s.answers[j], s.objects[c].req)
        BY <1>13, <1>14, <2>4, <3>2 DEF Truthful, n
      <4>2. \A j \in 1..n : Removal(s.answers[j], s.objects[c].req) => j \in 2..n
        BY <1>1, <1>15 DEF Removal
      <4> QED
        BY <1>12, <1>14, <2>0, <4>1, <4>2
    <3> QED
      BY <3>1, <3>2
  <2> QED
    BY <1>12, <2>2, <2>3, <2>4 DEF Truthful
<1>20. Rendering(t, R, {})
  <2>1. \A c \in Callsigns : Misplaced(t, R, c) => Misplaced(s, R, c)
    BY <1>10, <1>14 DEF Misplaced, Exists
  <2>2. \A c \in t.rendered : t.objects[c].confirmed
    BY <1>10, <1>13, <1>14, StateTypes DEF Rendering
  <2>3. AllGo(t, {}) => AllGo(s, {})
    BY <1>11 DEF AllGo, Task
  <2>4. \A c \in Callsigns : ToBeRemoved(s, {}, c) => ToBeRemoved(t, {}, c)
    BY <1>11 DEF ToBeRemoved, AllGo
  <2> QED
    BY <1>10, <1>13, <2>1, <2>2, <2>3, <2>4 DEF Rendering
<1>21. ASSUME Calm PROVE Tracked(t, {}) /\ Current(t)
  <2>1. Tracked(s, {}) /\ Current(s)
    BY <1>21 DEF Fine
  <2>2. ASSUME NEW x \in s.inSim
        PROVE  /\ t.objects[x.cs].req = x.id /\ ~t.objects[x.cs].pendingRemoved
               /\ t.objects[x.cs].assigned =>
                    t.objects[x.cs].confirmed \/ Task("verify", x.cs) \in Duties(t, {})
               /\ t.objects[x.cs].old => t.objects[x.cs].confirmed
               /\ t.objects[x.cs].assigned \/ \E i \in 1..(n - 1) :
                    t.answers[i].kind = "assigned" /\ t.answers[i].req = x.id
    <3>1. x.cs \in Callsigns /\ x.id # 0
      BY StateTypes
    <3>2. CASE x.cs = cs
      BY <1>11, <1>14, <2>1, <3>1, <3>2 DEF Tracked
    <3>3. CASE x.cs # cs
      <4>1. s.objects[x.cs].assigned \/ \E i \in 1..n :
              s.answers[i].kind = "assigned" /\ s.answers[i].req = x.id
        BY <2>1 DEF Tracked, n
      <4>2. s.objects[x.cs].req = x.id
        BY <2>1 DEF Tracked
      <4>3. x.id # s.answers[1].req
        BY <1>13, <1>15, <3>1, <3>3, <4>2 DEF Numbered, Exists
      <4>4. \A i \in 1..n : s.answers[i].req = x.id => i \in 2..n
        BY <1>1, <4>3
      <4>5. t.objects[x.cs].assigned \/ \E i \in 1..(n - 1) :
              t.answers[i].kind = "assigned" /\ t.answers[i].req = x.id
        BY <1>12, <1>14, <3>1, <3>3, <4>1, <4>4
      <4> QED
        BY <1>11, <1>14, <2>1, <3>1, <3>3, <4>5 DEF Tracked
    <3> QED
      BY <3>2, <3>3
  <2>3. Tracked(t, {})
    BY <1>10, <1>12, <2>2 DEF Tracked
  <2>4. \A i \in 1..(n - 1) : Request(t.answers[i]) => t.answers[i].trace.cs \in Callsigns
    BY <1>10, <1>12, AnswerTypes
  <2>5. Current(t)
    <3>1. ASSUME NEW i \in 1..(n - 1), Request(t.answers[i])
          PROVE  t.objects[t.answers[i].trace.cs].req \in {0, t.answers[i].req}
      <4>1. /\ t.answers[i].trace.cs \in Callsigns
            /\ i + 1 \in 1..n /\ t.answers[i] = s.answers[i + 1]
        BY <1>12, <2>4, <3>1
      <4>2. s.objects[t.answers[i].trace.cs].req \in {0, t.answers[i].req}
        BY <2>1, <3>1, <4>1 DEF Current, n
      <4> QED
        BY <1>14, <4>1, <4>2
    <3> QED
      BY <1>12, <3>1 DEF Current
  <2> QED
    BY <2>3, <2>5
<1>22. t \in States /\ Fine(t, R, {})
  BY <1>10, <1>16, <1>17, <1>18, <1>19, <1>20, <1>21 DEF Fine, Sound
<1> QED
  BY <1>22 DEF t, v

(* A failure: the entry of the aircraft goes, one way or the other.        *)
LEMMA AddingFailedFields ==
  ASSUME NEW s \in States, NEW p \in Pendings, NEW verified \in BOOLEAN,
         model \in [Callsigns -> Models]
  PROVE  LET t == AddingAircraftFailed(s, p, verified)
         IN /\ t \in States
            /\ \A cs \in Callsigns :
                 t.objects[cs] = IF cs \in {p.cs} THEN NoObject ELSE s.objects[cs]
            /\ t.lastRequest = s.lastRequest /\ t.inSim = s.inSim /\ t.answers = s.answers
            /\ t.enabled \subseteq s.enabled /\ t.rendered = s.rendered
            /\ Duties(t, {}) = Duties(s, {})
<1> DEFINE t == AddingAircraftFailed(s, p, verified)
           d == DropObjects(s, {p.cs})
           f == Forget(d, {p.cs})
           again == [p EXCEPT !.adding = @ + 1]
           g == [f EXCEPT !.enabled = @ \ {p.cs}]
           a == [kind |-> "insert", pending |-> again]
           b == EnabledTask("enabled", p.cs, model[p.cs], FALSE)
<1>1. t = IF verified /\ again.adding <= ThresholdAddException THEN Start(f, a)
          ELSE IF p.cs \in inRange \cap enabled THEN Start(g, b) ELSE f
  BY DEF AddingAircraftFailed
<1>2. p.cs \in Callsigns
  BY DEF Pendings
<1>3. again.adding <= ThresholdAddException => a \in Tasks /\ a.kind \notin DutyKinds
  <2>1. again.adding = p.adding + 1 /\ p.adding \in 0..ThresholdAddException
    BY DEF Pendings
  <2>2. again.adding <= ThresholdAddException => p.adding + 1 \in 0..ThresholdAddException
    BY <2>1 DEF ThresholdAddException
  <2>3. again.adding <= ThresholdAddException => again \in Pendings
    BY <2>2 DEF Pendings
  <2> HIDE DEF again
  <2> QED
    BY <2>3 DEF Tasks, DutyKinds
<1>4. b \in Tasks /\ b.kind \notin DutyKinds
  BY <1>2 DEF Tasks, DutyKinds, EnabledTask
<1>5. /\ d \in States
      /\ \A cs \in Callsigns : d.objects[cs] = IF cs \in {p.cs} THEN NoObject ELSE s.objects[cs]
      /\ d.lastRequest = s.lastRequest /\ d.inSim = s.inSim /\ d.answers = s.answers
      /\ d.enabled = s.enabled /\ d.rendered = s.rendered
      /\ Duties(d, {}) = Duties(s, {})
  <2> DEFINE S == {p.cs}
             e == DropObjects(s, S)
  <2> HIDE DEF S
  <2>1. /\ e \in States
        /\ \A cs \in Callsigns : e.objects[cs] = IF cs \in S THEN NoObject ELSE s.objects[cs]
        /\ e.lastRequest = s.lastRequest /\ e.inSim = s.inSim /\ e.answers = s.answers
        /\ e.enabled = s.enabled /\ e.rendered = s.rendered
        /\ Duties(e, {}) = Duties(s, {})
    BY DropFields
  <2> QED
    BY <2>1 DEF S
<1> HIDE DEF d
<1>6. f \in States /\ Alike(d, f) /\ Duties(f, {}) = Duties(d, {})
  BY <1>5, ForgetFields
<1> HIDE DEF f
<1>7. /\ g \in States /\ g.enabled = f.enabled \ {p.cs} /\ g.objects = f.objects
      /\ g.lastRequest = f.lastRequest /\ g.inSim = f.inSim /\ g.answers = f.answers
      /\ g.rendered = f.rendered /\ g.tasks = f.tasks
  BY <1>6 DEF States
<1>8. Duties(g, {}) = Duties(f, {})
  BY <1>7 DEF Duties
<1> HIDE DEF g, a, b, again, t
<1>9. CASE t = f
  BY <1>5, <1>6, <1>9 DEF Alike, t
<1>10. CASE t = Start(f, a) /\ a \in Tasks /\ a.kind \notin DutyKinds
  <2>1. t \in States /\ Alike(f, t) /\ Duties(t, {}) = Duties(f, {})
    BY <1>6, <1>10, StartFields
  <2> QED
    BY <1>5, <1>6, <2>1 DEF Alike, t
<1>11. CASE t = Start(g, b)
  <2>1. t \in States /\ Alike(g, t) /\ Duties(t, {}) = Duties(g, {})
    BY <1>4, <1>7, <1>11, StartFields
  <2> QED
    BY <1>5, <1>6, <1>7, <1>8, <2>1 DEF Alike, t
<1> QED
  BY <1>1, <1>3, <1>9, <1>10, <1>11

(* The simulator has removed an object.                                    *)
LEMMA ReportedRemovedFields ==
  ASSUME NEW s \in States, NEW cs \in Callsigns, s.objects[cs].model \in Models
  PROVE  LET t == ReportedRemoved(s, cs)
         IN /\ t \in States
            /\ \A c \in Callsigns :
                 t.objects[c] = IF c \in {cs} THEN NoObject ELSE s.objects[c]
            /\ t.lastRequest = s.lastRequest /\ t.inSim = s.inSim /\ t.answers = s.answers
            /\ t.enabled = s.enabled /\ t.rendered = s.rendered \ {cs}
            /\ Duties(t, {}) = Duties(s, {})
<1> DEFINE o == s.objects[cs]
           retry == ~o.pendingRemoved /\ o.removals < ThresholdAddedAndDirectlyRemoved
           p == Pending(cs, o.model, o.adding, o.removals + 1)
           i == IF retry THEN InsertPending(s, p) ELSE s
           d == DropObjects(i, {cs})
           u == [d EXCEPT !.rendered = @ \ {cs}, !.addAgain[cs] = ""]
           a == ModelTask("addAgain", cs, s.addAgain[cs])
           t == ReportedRemoved(s, cs)
<1>1. t = IF s.addAgain[cs] = "" THEN u ELSE Start(u, a)
  BY DEF ReportedRemoved
<1>2. o \in Objs /\ o.adding \in 0..ThresholdAddException
        /\ o.removals \in 0..ThresholdAddedAndDirectlyRemoved
  BY StateTypes DEF Objs, ObjRecords, Exists
<1>3. retry => p \in Pendings
  <2>1. retry => o.removals + 1 \in 0..ThresholdAddedAndDirectlyRemoved
    BY <1>2 DEF ThresholdAddedAndDirectlyRemoved
  <2> QED
    BY <1>2, <2>1 DEF Pending, Pendings
<1> HIDE DEF p, retry
<1>4. i \in States /\ Alike(s, i) /\ Duties(i, {}) = Duties(s, {})
  <2>1. CASE retry
    BY <1>3, <2>1, InsertPendingFields
  <2>2. CASE ~retry
    BY <2>2 DEF Alike
  <2> QED
    BY <2>1, <2>2
<1> HIDE DEF i
<1>5. /\ d \in States
      /\ \A c \in Callsigns : d.objects[c] = IF c \in {cs} THEN NoObject ELSE i.objects[c]
      /\ d.lastRequest = i.lastRequest /\ d.inSim = i.inSim /\ d.answers = i.answers
      /\ d.enabled = i.enabled /\ d.rendered = i.rendered
      /\ Duties(d, {}) = Duties(i, {})
  <2> DEFINE S == {cs}
             e == DropObjects(i, S)
  <2> HIDE DEF S
  <2>1. /\ e \in States
        /\ \A c \in Callsigns : e.objects[c] = IF c \in S THEN NoObject ELSE i.objects[c]
        /\ e.lastRequest = i.lastRequest /\ e.inSim = i.inSim /\ e.answers = i.answers
        /\ e.enabled = i.enabled /\ e.rendered = i.rendered
        /\ Duties(e, {}) = Duties(i, {})
    BY <1>4, DropFields
  <2> QED
    BY <2>1 DEF S
<1> HIDE DEF d
<1>6. u \in States
  <2>1. d.addAgain \in [Callsigns -> Models \cup {""}] /\ d.rendered \ {cs} \subseteq Callsigns
    BY <1>5, StateTypes
  <2>2. [d.addAgain EXCEPT ![cs] = ""] \in [Callsigns -> Models \cup {""}]
    BY <2>1
  <2> QED
    BY <1>5, <2>1, <2>2 DEF States
<1>7. /\ u.objects = d.objects /\ u.rendered = d.rendered \ {cs} /\ u.tasks = d.tasks
      /\ u.lastRequest = d.lastRequest /\ u.inSim = d.inSim /\ u.answers = d.answers
      /\ u.enabled = d.enabled
  BY <1>5 DEF States
<1> HIDE DEF u
<1>8. Duties(u, {}) = Duties(d, {})
  BY <1>7 DEF Duties
<1>9. s.addAgain[cs] # "" => a \in Tasks /\ a.kind \notin DutyKinds
  <2>1. s.addAgain[cs] \in Models \cup {""}
    BY StateTypes
  <2> QED
    BY <2>1 DEF ModelTask, Tasks, DutyKinds
<1> HIDE DEF a, t
<1>10. t \in States /\ Alike(u, t) /\ Duties(t, {}) = Duties(u, {})
  <2>1. CASE s.addAgain[cs] = ""
    BY <1>1, <1>6, <2>1 DEF Alike
  <2>2. CASE s.addAgain[cs] # ""
    BY <1>1, <1>6, <1>9, <2>2, StartFields
  <2> QED
    BY <2>1, <2>2
<1>11. /\ \A c \in Callsigns : t.objects[c] = IF c \in {cs} THEN NoObject ELSE s.objects[c]
       /\ t.lastRequest = s.lastRequest /\ t.inSim = s.inSim /\ t.answers = s.answers
       /\ t.enabled = s.enabled /\ t.rendered = s.rendered \ {cs}
       /\ Duties(t, {}) = Duties(s, {})
  BY <1>4, <1>5, <1>7, <1>8, <1>10 DEF Alike
<1> QED
  BY <1>10, <1>11 DEF t

(* An answer that ends some entries.                                       *)
LEMMA DroppedTailFine ==
  ASSUME NEW s \in States, NEW t \in States, NEW S, NEW R, Fine(s, R, {}), s.answers # <<>>,
         \A cs \in Callsigns : t.objects[cs] = IF cs \in S THEN NoObject ELSE s.objects[cs],
         t.lastRequest = s.lastRequest, t.inSim = s.inSim, t.answers = Tail(s.answers),
         t.enabled \subseteq s.enabled,
         t.rendered \subseteq s.rendered, s.rendered \subseteq t.rendered \cup S,
         \A cs \in S : cs \notin t.rendered,
         Duties(t, {}) = Duties(s, {}),
         Calm => \A x \in s.inSim : x.cs \notin S,
         Head(s.answers).kind # "assigned",
         Head(s.answers).kind = "removed" => \A cs \in Callsigns :
           s.objects[cs].assigned /\ s.objects[cs].req = Head(s.answers).req => cs \in S
  PROVE  Fine(t, R, {})
<1> DEFINE w == [t EXCEPT !.answers = s.answers]
<1>1. /\ w \in States /\ w.answers = s.answers /\ w.objects = t.objects
      /\ w.lastRequest = t.lastRequest /\ w.inSim = t.inSim /\ w.tasks = t.tasks
      /\ w.enabled = t.enabled /\ w.rendered = t.rendered
  BY DEF States
<1> HIDE DEF w
<1>2. Duties(w, {}) = Duties(t, {})
  BY <1>1 DEF Duties
<1>3. Fine(w, R, {})
  <2>1. /\ \A cs \in Callsigns : w.objects[cs] = IF cs \in S THEN NoObject ELSE s.objects[cs]
        /\ w.lastRequest = s.lastRequest /\ w.inSim = s.inSim /\ w.answers = s.answers
        /\ w.enabled \subseteq s.enabled
        /\ w.rendered \subseteq s.rendered /\ s.rendered \subseteq w.rendered \cup S
        /\ \A cs \in S : cs \notin w.rendered
        /\ Duties(w, {}) = Duties(s, {})
    BY <1>1, <1>2
  <2> QED
    BY <1>1, <2>1, DroppedFine
<1>4. Head(w.answers).kind = "removed" => \A cs \in Callsigns :
        w.objects[cs].assigned => w.objects[cs].req # Head(w.answers).req
  BY <1>1, NoObjectType
<1>5. w.answers # <<>> /\ t.answers = Tail(w.answers) /\ Head(w.answers).kind # "assigned"
  BY <1>1
<1> QED
  BY <1>1, <1>2, <1>3, <1>4, <1>5, TailFine

(***************************************************************************)
(* A failed request.  The entry of the aircraft that is dropped is no      *)
(* older than the request, so that it has no id and is not rendered.       *)
(***************************************************************************)
LEMMA FailedFine ==
  ASSUME NEW s \in States, NEW R, Fine(s, R, {}), s.answers # <<>>,
         Head(s.answers).kind = "failed", NEW u \in States,
         Alike(Rest(s), u), Duties(u, {}) = Duties(Rest(s), {}),
         NEW verified \in BOOLEAN, model \in [Callsigns -> Models]
  PROVE  LET t == AddingAircraftFailed(u, Head(s.answers).trace, verified)
         IN u \in States /\ Fine(u, R, {}) /\ t \in States /\ Fine(t, R, {})
<1> DEFINE p == Head(s.answers).trace
           r == Head(s.answers).req
           S == {p.cs}
           t == AddingAircraftFailed(u, p, verified)
<1>1. /\ Rest(s) \in States /\ Rest(s).answers = Tail(s.answers)
      /\ Rest(s).objects = s.objects /\ Rest(s).lastRequest = s.lastRequest
      /\ Rest(s).enabled = s.enabled /\ Rest(s).rendered = s.rendered
      /\ Rest(s).inSim = s.inSim /\ Duties(Rest(s), {}) = Duties(s, {})
  BY RestFields
<1>2. Fine(u, R, {})
  BY <1>1, TailFine DEF Alike
<1>3. /\ Head(s.answers) = s.answers[1] /\ 1 \in 1..Len(s.answers)
  BY TailElements
<1>4. Request(s.answers[1])
  BY <1>3 DEF Request
<1>5. p \in Pendings /\ p.cs \in Callsigns /\ r \in Nat /\ r # 0
  BY <1>3, <1>4, AnswerTypes
<1>6. InOrder(s) /\ Truthful(s) /\ Stages(s) /\ Rendering(s, R, {})
  BY DEF Fine, Sound
<1>7. ~s.objects[p.cs].assigned
  <2>1. SUFFICES ASSUME s.objects[p.cs].assigned PROVE FALSE
    OBVIOUS
  <2>2. s.objects[p.cs].req < r
    BY <1>3, <1>4, <1>5, <1>6, <2>1 DEF InOrder
  <2>3. Exists(s.objects[p.cs])
    BY <1>5, <1>6, <2>1 DEF Stages
  <2>4. r <= s.objects[p.cs].req
    BY <1>3, <1>4, <1>6, <2>3 DEF InOrder
  <2>5. s.objects[p.cs].req \in Nat
    BY <1>5, StateTypes
  <2> QED
    BY <1>5, <2>2, <2>4, <2>5
<1>8. p.cs \notin s.rendered
  BY <1>5, <1>6, <1>7 DEF Stages, Rendering
<1>9. ASSUME Calm PROVE \A x \in s.inSim : x.cs # p.cs
  <2>1. ASSUME NEW x \in s.inSim, x.cs = p.cs PROVE FALSE
    <3>1. s.objects[p.cs].req = x.id /\ x.id # 0
      BY <1>9, <2>1, StateTypes DEF Fine, Tracked
    <3>2. s.objects[p.cs].req \in {0, r}
      BY <1>3, <1>4, <1>9 DEF Fine, Current
    <3>3. ~InSim(s, r)
      BY <1>3, <1>6 DEF Truthful
    <3> QED
      BY <2>1, <3>1, <3>2, <3>3 DEF InSim
  <2> QED
    BY <2>1
<1> HIDE DEF p, r
<1>10. /\ t \in States
       /\ \A cs \in Callsigns : t.objects[cs] = IF cs \in S THEN NoObject ELSE u.objects[cs]
       /\ t.lastRequest = u.lastRequest /\ t.inSim = u.inSim /\ t.answers = u.answers
       /\ t.enabled \subseteq u.enabled /\ t.rendered = u.rendered
       /\ Duties(t, {}) = Duties(u, {})
  BY <1>5, AddingFailedFields
<1> HIDE DEF t
<1>11. /\ \A cs \in Callsigns : t.objects[cs] = IF cs \in S THEN NoObject ELSE s.objects[cs]
       /\ t.lastRequest = s.lastRequest /\ t.inSim = s.inSim /\ t.answers = Tail(s.answers)
       /\ t.enabled \subseteq s.enabled /\ t.rendered = s.rendered
       /\ Duties(t, {}) = Duties(s, {})
  BY <1>1, <1>10 DEF Alike
<1>12. (\A cs \in S : cs \notin t.rendered) /\ (Calm => \A x \in s.inSim : x.cs \notin S)
  BY <1>8, <1>9, <1>11
<1>13. Fine(t, R, {})
  <2> HIDE DEF S
  <2> QED
    BY <1>10, <1>11, <1>12, DroppedTailFine
<1> QED
  BY <1>2, <1>10, <1>13 DEF t, p

(* The removal of an object with an id: it is not in the simulator.        *)
LEMMA RemovedFine ==
  ASSUME NEW s \in States, NEW R, Fine(s, R, {}), s.answers # <<>>,
         Head(s.answers).kind = "removed", NEW cs \in Callsigns, s.objects[cs].assigned,
         s.objects[cs].req = Head(s.answers).req
  PROVE  ReportedRemoved(Rest(s), cs) \in States /\ Fine(ReportedRemoved(Rest(s), cs), R, {})
<1> DEFINE S == {cs}
           u == Rest(s)
           t == ReportedRemoved(u, cs)
<1>1. /\ u \in States /\ u.answers = Tail(s.answers)
      /\ u.objects = s.objects /\ u.lastRequest = s.lastRequest
      /\ u.enabled = s.enabled /\ u.rendered = s.rendered
      /\ u.inSim = s.inSim /\ Duties(u, {}) = Duties(s, {})
  BY RestFields
<1>2. /\ Head(s.answers) = s.answers[1] /\ 1 \in 1..Len(s.answers)
  BY TailElements
<1>3. Numbered(s) /\ Truthful(s) /\ Stages(s)
  BY DEF Fine, Sound
<1>4. Exists(s.objects[cs]) /\ s.objects[cs].model \in Models
  <2>1. Exists(s.objects[cs])
    BY <1>3 DEF Stages
  <2>2. s.objects[cs] \in Objs
    BY StateTypes
  <2> QED
    BY <2>1, <2>2 DEF Objs
<1>5. ~InSim(s, s.objects[cs].req)
  BY <1>2, <1>3 DEF Truthful
<1>6. ASSUME Calm PROVE \A x \in s.inSim : x.cs \notin S
  BY <1>5, <1>6 DEF Fine, Tracked, InSim
<1>7. \A c \in Callsigns :
        s.objects[c].assigned /\ s.objects[c].req = Head(s.answers).req => c \in S
  BY <1>3, <1>4 DEF Numbered
<1> HIDE DEF u
<1>8. u.objects[cs].model \in Models
  BY <1>1, <1>4
<1>9. /\ t \in States
      /\ \A c \in Callsigns : t.objects[c] = IF c \in S THEN NoObject ELSE u.objects[c]
      /\ t.lastRequest = u.lastRequest /\ t.inSim = u.inSim /\ t.answers = u.answers
      /\ t.enabled = u.enabled /\ t.rendered = u.rendered \ {cs}
      /\ Duties(t, {}) = Duties(u, {})
  BY <1>1, <1>8, ReportedRemovedFields
<1> HIDE DEF t
<1>10. /\ \A c \in Callsigns : t.objects[c] = IF c \in S THEN NoObject ELSE s.objects[c]
       /\ t.lastRequest = s.lastRequest /\ t.inSim = s.inSim /\ t.answers = Tail(s.answers)
       /\ t.enabled \subseteq s.enabled /\ t.rendered = s.rendered \ S
       /\ Duties(t, {}) = Duties(s, {})
  BY <1>1, <1>9
<1>11. Fine(t, R, {})
  <2> HIDE DEF S
  <2>1. /\ t.rendered \subseteq s.rendered /\ s.rendered \subseteq t.rendered \cup S
        /\ \A c \in S : c \notin t.rendered
    BY <1>10
  <2> QED
    BY <1>6, <1>7, <1>9, <1>10, <2>1, DroppedTailFine
<1> QED
  BY <1>9, <1>11 DEF t, u

-----------------------------------------------------------------------------
(* What the simulator does on its own, and what the contexts do.           *)

(* The lights of an object, or anything else that Fine is not about.       *)
LEMMA SameObjectsFine ==
  ASSUME NEW s \in States, NEW t \in States, NEW R, Fine(s, R, {}),
         \A cs \in Callsigns :
           /\ t.objects[cs].req = s.objects[cs].req
           /\ t.objects[cs].assigned = s.objects[cs].assigned
           /\ t.objects[cs].confirmed = s.objects[cs].confirmed
           /\ t.objects[cs].pendingRemoved = s.objects[cs].pendingRemoved
           /\ t.objects[cs].old = s.objects[cs].old,
         t.lastRequest = s.lastRequest, t.inSim = s.inSim, t.answers = s.answers,
         t.enabled = s.enabled, t.rendered = s.rendered, Duties(t, {}) = Duties(s, {})
  PROVE  Fine(t, R, {})
<1>1. Sound(t)
  <2>1. Sound(s) /\ Stages(s)
    BY DEF Fine, Sound
  <2>2. \A c \in Callsigns : Lesser(t.objects[c], s.objects[c])
    BY <2>1 DEF Lesser, Stages
  <2> QED
    BY <2>1, <2>2, SoundLesser
<1>2. Rendering(t, R, {})
  <2>1. \A c \in Callsigns : Misplaced(t, R, c) <=> Misplaced(s, R, c)
    BY DEF Misplaced, Exists
  <2>2. \A c \in t.rendered : t.objects[c].confirmed
    BY StateTypes DEF Fine, Rendering
  <2> QED
    BY <2>1, <2>2 DEF Fine, Rendering, ToBeRemoved, AllGo
<1>3. ASSUME Calm PROVE Tracked(t, {}) /\ Current(t)
  <2>1. Tracked(s, {}) /\ Current(s)
    BY <1>3 DEF Fine
  <2>2. \A x \in s.inSim : x.cs \in Callsigns
    BY StateTypes
  <2>3. Tracked(t, {})
    BY <2>1, <2>2 DEF Tracked
  <2>4. \A i \in 1..Len(s.answers) : Request(s.answers[i]) => s.answers[i].trace.cs \in Callsigns
    BY AnswerTypes
  <2>5. Current(t)
    BY <2>1, <2>4 DEF Current
  <2> QED
    BY <2>3, <2>5
<1> QED
  BY <1>1, <1>2, <1>3 DEF Fine

(* An object is gone, and the news of it come last.                        *)
LEMMA DropsFine ==
  ASSUME NEW s \in States, NEW R, Fine(s, R, {}), NEW x \in s.inSim, NEW t \in States,
         t.objects = s.objects, t.lastRequest = s.lastRequest, t.enabled = s.enabled,
         t.rendered = s.rendered, Duties(t, {}) = Duties(s, {}),
         t.inSim = s.inSim \ {x},
         t.answers = Append(s.answers, [kind |-> "removed", req |-> x.id])
  PROVE  Fine(t, R, {})
<1> DEFINE a == [kind |-> "removed", req |-> x.id]
           n == Len(s.answers)
<1>1. a \in Answered /\ Removal(a, x.id)
  <2>1. x.id \in Number
    BY StateTypes DEF Number
  <2> QED
    BY <2>1 DEF Answered, Removal
<1>2. t.answers = Append(s.answers, a) /\ s.answers \in Seq(Answered)
  BY StateTypes
<1> HIDE DEF a
<1>3. /\ n \in Nat /\ Len(t.answers) = n + 1 /\ t.answers[n + 1] = a
      /\ \A i \in 1..n : t.answers[i] = s.answers[i]
  BY <1>1, <1>2, AppendProperties, LenProperties
<1> HIDE DEF n
<1>4. \A i \in 1..(n + 1) : i \notin 1..n => i = n + 1
  BY <1>3
<1>5. n + 1 \in 1..(n + 1) /\ n + 1 \notin 1..n /\ n <= n + 1
  BY <1>3
<1>6. Told(s, t, {x})
  BY <1>1, <1>3, <1>4, <1>5 DEF Told, n
<1>7. Sound(t) /\ (Calm => Current(t))
  BY <1>6, SoundTold DEF Fine
<1>8. Rendering(t, R, {})
  BY DEF Fine, Rendering, Misplaced, ToBeRemoved, AllGo
<1>9. ASSUME Calm PROVE Tracked(t, {})
  <2>1. Tracked(s, {})
    BY <1>9 DEF Fine
  <2>2. \A i \in 1..n : i \in 1..(n + 1)
    BY <1>3
  <2> QED
    BY <1>3, <2>1, <2>2 DEF Tracked, n
<1> QED
  BY <1>7, <1>8, <1>9 DEF Fine

(***************************************************************************)
(* A request is refused.  It has not been answered, so that no object has  *)
(* its id, and no other answer is about it.                                *)
(***************************************************************************)
LEMMA RefusesFine ==
  ASSUME NEW s \in States, NEW R, Fine(s, R, {}), NEW i \in 1..Len(s.answers),
         s.answers[i].kind = "assigned", NEW x \in s.inSim, x.id = s.answers[i].req,
         NEW t \in States,
         t.objects = s.objects, t.lastRequest = s.lastRequest, t.enabled = s.enabled,
         t.rendered = s.rendered, Duties(t, {}) = Duties(s, {}),
         t.inSim = s.inSim \ {x}, t.answers = [s.answers EXCEPT ![i].kind = "failed"]
  PROVE  Fine(t, R, {})
<1> DEFINE n == Len(s.answers)
           b == [s.answers[i] EXCEPT !.kind = "failed"]
<1>1. s.answers \in Seq(Answered) /\ n \in Nat /\ DOMAIN s.answers = 1..n
  BY StateTypes, LenProperties
<1>2. s.answers[i] \in [kind : {"assigned", "failed"}, req : Number, trace : Pendings]
  BY AnswerTypes DEF Answered
<1>3. b.kind = "failed" /\ b.req = s.answers[i].req /\ b.trace = s.answers[i].trace
  BY <1>2
<1>4. /\ t.answers \in Seq(Answered) /\ Len(t.answers) = n /\ t.answers[i] = b
      /\ \A j \in 1..n : j # i => t.answers[j] = s.answers[j]
  <2>1. b \in Answered
    BY <1>2 DEF Answered
  <2>2. t.answers = [s.answers EXCEPT ![i] = b]
    BY <1>1
  <2> HIDE DEF b
  <2> QED
    BY <1>1, <2>1, <2>2, ExceptSeq
<1> HIDE DEF b, n
<1>5. /\ \A j \in 1..n : /\ t.answers[j].req = s.answers[j].req
                         /\ Request(t.answers[j]) <=> Request(s.answers[j])
                         /\ Request(s.answers[j]) => t.answers[j].trace = s.answers[j].trace
                         /\ \A r : Removal(t.answers[j], r) <=> Removal(s.answers[j], r)
                         /\ t.answers[j].kind = "assigned" =>
                              j # i /\ s.answers[j].kind = "assigned"
                         /\ t.answers[j].kind \in {"failed", "removed"} =>
                              j = i \/ s.answers[j].kind \in {"failed", "removed"}
      /\ i \in 1..n
  BY <1>3, <1>4 DEF Request, Removal, n
<1>6. Numbered(s) /\ Stages(s) /\ OneAdded(s) /\ InOrder(s) /\ Truthful(s) /\ Rendering(s, R, {})
  BY DEF Fine, Sound
<1>7. Numbered(t) /\ Stages(t) /\ OneAdded(t)
  <2>1. \A j \in 1..n : t.answers[j].req <= t.lastRequest
    BY <1>5, <1>6 DEF Numbered, n
  <2>2. Numbered(t)
    <3>1. /\ \A cs \in Callsigns : t.objects[cs].req <= t.lastRequest
          /\ \A a, c \in Callsigns :
               t.objects[a].req = t.objects[c].req /\ Exists(t.objects[a]) => a = c
      BY <1>6 DEF Numbered
    <3>2. /\ \A y \in t.inSim : y.id <= t.lastRequest
          /\ \A y, z \in t.inSim : y.id = z.id => y = z
      <4>1. \A y \in t.inSim : y \in s.inSim
        OBVIOUS
      <4>2. \A y \in s.inSim : y.id <= s.lastRequest
        BY <1>6 DEF Numbered
      <4>3. \A y, z \in s.inSim : y.id = z.id => y = z
        BY <1>6 DEF Numbered
      <4> QED
        BY <4>1, <4>2, <4>3
    <3>3. Len(t.answers) = n
      BY <1>4, Zenon
    <3> QED
      BY <2>1, <3>1, <3>2, <3>3 DEF Numbered
  <2> QED
    BY <1>6, <2>2 DEF Stages, OneAdded
<1>8. InOrder(t)
  <2>1. \A j, k \in 1..n : j < k /\ Request(t.answers[j]) /\ Request(t.answers[k]) =>
          t.answers[j].req < t.answers[k].req
    BY <1>5, <1>6 DEF InOrder, n
  <2>2. ASSUME NEW j \in 1..n, NEW cs \in Callsigns, Request(t.answers[j]), t.objects[cs].assigned
        PROVE  t.objects[cs].req < t.answers[j].req
    <3>1. Request(s.answers[j]) /\ t.answers[j].req = s.answers[j].req
      BY <1>5, <2>2
    <3>2. s.objects[cs].assigned /\ t.objects[cs].req = s.objects[cs].req
      BY <2>2
    <3>3. s.objects[cs].req < s.answers[j].req
      BY <1>6, <3>1, <3>2 DEF InOrder, n
    <3> QED
      BY <3>1, <3>2, <3>3
  <2>3. ASSUME NEW j \in 1..n, Request(t.answers[j]), Exists(t.objects[t.answers[j].trace.cs])
        PROVE  t.answers[j].req <= t.objects[t.answers[j].trace.cs].req
    <3>1. /\ Request(s.answers[j]) /\ t.answers[j].req = s.answers[j].req
          /\ t.answers[j].trace = s.answers[j].trace
      BY <1>5, <2>3
    <3>2. Exists(s.objects[s.answers[j].trace.cs])
      BY <2>3, <3>1
    <3>3. s.answers[j].req <= s.objects[s.answers[j].trace.cs].req
      BY <1>6, <3>1, <3>2 DEF InOrder, n
    <3> QED
      BY <3>1, <3>3
  <2> QED
    BY <1>4, <2>1, <2>2, <2>3 DEF InOrder
<1>9. ASSUME NEW r, r # x.id, InSim(s, r) PROVE InSim(t, r)
  BY <1>9 DEF InSim
<1>10. ASSUME NEW j \in 1..n, j # i, Request(s.answers[j]) PROVE s.answers[j].req # x.id
  <2>1. s.answers[j].req \in Nat /\ s.answers[i].req \in Nat
    BY AnswerTypes DEF n
  <2>2. Request(s.answers[i])
    BY DEF Request
  <2>3. i < j \/ j < i
    BY <1>1, <1>10
  <2>4. s.answers[i].req < s.answers[j].req \/ s.answers[j].req < s.answers[i].req
    BY <1>5, <1>6, <1>10, <2>2, <2>3 DEF InOrder, n
  <2> QED
    BY <2>1, <2>4
<1>11. ASSUME NEW cs \in Callsigns, s.objects[cs].assigned PROVE s.objects[cs].req # x.id
  <2>1. s.objects[cs].req \in Nat /\ s.answers[i].req \in Nat
    BY StateTypes, AnswerTypes
  <2>2. s.objects[cs].req < s.answers[i].req
    BY <1>6, <1>11 DEF InOrder, Request
  <2> QED
    BY <2>1, <2>2
<1>12. Truthful(t)
  <2>1. ASSUME NEW j \in 1..n, t.answers[j].kind = "assigned"
        PROVE  InSim(t, t.answers[j].req)
                 \/ \E k \in 1..n : j < k /\ Removal(t.answers[k], t.answers[j].req)
    <3>1. j # i /\ s.answers[j].kind = "assigned" /\ t.answers[j].req = s.answers[j].req
      BY <1>5, <2>1
    <3>2. s.answers[j].req # x.id
      BY <1>10, <3>1 DEF Request
    <3>3. InSim(s, s.answers[j].req)
            \/ \E k \in 1..n : j < k /\ Removal(s.answers[k], s.answers[j].req)
      BY <1>6, <3>1 DEF Truthful, n
    <3> QED
      BY <1>5, <1>9, <3>1, <3>2, <3>3
  <2>2. ASSUME NEW j \in 1..n, t.answers[j].kind \in {"failed", "removed"}
        PROVE  ~InSim(t, t.answers[j].req)
    <3>1. CASE j = i
      <4>1. \A y \in s.inSim : y.id = x.id => y = x
        BY <1>6 DEF Numbered
      <4> QED
        BY <1>5, <3>1, <4>1 DEF InSim
    <3>2. CASE j # i
      <4>1. ~InSim(s, t.answers[j].req)
        BY <1>5, <1>6, <2>2, <3>2 DEF Truthful, n
      <4> QED
        BY <4>1 DEF InSim
    <3> QED
      BY <3>1, <3>2
  <2>3. ASSUME NEW cs \in Callsigns, t.objects[cs].assigned
        PROVE  InSim(t, t.objects[cs].req)
                 \/ \E k \in 1..n : Removal(t.answers[k], t.objects[cs].req)
    <3>1. InSim(s, s.objects[cs].req) \/ \E k \in 1..n : Removal(s.answers[k], s.objects[cs].req)
      BY <1>6, <2>3 DEF Truthful, n
    <3>2. s.objects[cs].req # x.id
      BY <1>11, <2>3
    <3> QED
      BY <1>5, <1>9, <3>1, <3>2
  <2> QED
    BY <1>4, <2>1, <2>2, <2>3 DEF Truthful
<1>13. Rendering(t, R, {})
  BY <1>6 DEF Rendering, Misplaced, ToBeRemoved, AllGo
<1>14. ASSUME Calm PROVE Tracked(t, {}) /\ Current(t)
  <2>1. Tracked(s, {}) /\ Current(s)
    BY <1>14 DEF Fine
  <2>2. ASSUME NEW y \in t.inSim, ~s.objects[y.cs].assigned
        PROVE  \E j \in 1..n : t.answers[j].kind = "assigned" /\ t.answers[j].req = y.id
    <3>1. y \in s.inSim /\ y # x
      BY <2>2
    <3>2. y.id # x.id
      BY <1>6, <3>1 DEF Numbered
    <3>3. PICK j \in 1..n : s.answers[j].kind = "assigned" /\ s.answers[j].req = y.id
      BY <2>1, <2>2, <3>1 DEF Tracked, n
    <3>4. j # i
      BY <3>2, <3>3
    <3> QED
      BY <1>4, <3>3, <3>4
  <2>3. Tracked(t, {})
    BY <1>4, <2>1, <2>2 DEF Tracked
  <2>4. Current(t)
    BY <1>4, <1>5, <2>1 DEF Current, n
  <2> QED
    BY <2>3, <2>4
<1> QED
  BY <1>7, <1>8, <1>12, <1>13, <1>14 DEF Fine, Sound

(* A call of the contexts starts tasks and leaves the objects alone.       *)
LEMMA CommandFine ==
  ASSUME NEW s \in States, NEW t \in States, NEW Q, NEW R, Fine(s, Q, {}),
         t.objects = s.objects, t.lastRequest = s.lastRequest, t.inSim = s.inSim,
         t.answers = s.answers, Duties(s, {}) \subseteq Duties(t, {}), Rendering(t, R, {})
  PROVE  Fine(t, R, {})
<1>1. Sound(t)
  BY DEF Fine, Sound, Numbered, Stages, OneAdded, InOrder, Truthful, InSim
<1>2. Calm => Tracked(t, {}) /\ Current(t)
  BY DEF Fine, Tracked, Current
<1> QED
  BY <1>1, <1>2 DEF Fine

-----------------------------------------------------------------------------
(* The timers and queued calls: their operators, with their task as the    *)
(* duty that is being done.                                                *)

(* physicallyRemoveRemoteAircraft for one callsign, after its task.        *)
LEMMA RemoveOneFine ==
  ASSUME NEW s \in States, NEW R, NEW cs \in Callsigns, NEW D,
         D \subseteq {Task("remove", cs), Task("removeAgain", cs)}, Fine(s, R, D), Idle(s)
  PROVE  LET t == PhysicallyRemoveRemoteAircraft(s, {cs})
         IN t \in States /\ Fine(t, R, {})
<1>1. {cs} \subseteq Callsigns /\ {} \subseteq D
  OBVIOUS
<1>2. D \subseteq {} \cup {Task("remove", c) : c \in {cs}} \cup {Task("removeAgain", c) : c \in {cs}}
  OBVIOUS
<1> QED
  BY <1>1, <1>2, PhysicallyRemoveFine

(* A queued removal, and one that was put off.                             *)
LEMMA RemoveAgainFine ==
  ASSUME NEW s \in States, NEW R, NEW t \in Tasks, t.kind \in {"remove", "removeAgain"},
         Fine(s, R, {t}), Idle(s)
  PROVE  RemoveAgain(s, t) \in States /\ Fine(RemoveAgain(s, t), R, {})
<1>1. t.cs \in Callsigns /\ t \in {Task("remove", t.cs), Task("removeAgain", t.cs)}
  BY TaskTypes DEF PlainKinds
<1>2. {t} \subseteq {Task("remove", t.cs), Task("removeAgain", t.cs)}
  BY <1>1
<1> QED
  BY <1>1, <1>2, RemoveOneFine DEF RemoveAgain

(* timerBasedObjectAddOrRemove                                             *)
LEMMA TimerFine ==
  ASSUME NEW s \in States, NEW R, NEW t, Fine(s, R, {}), Idle(s)
  PROVE  LET u == TimerBasedObjectAddOrRemove(s, t)
         IN u \in States /\ Fine(u, R, {})
<1> DEFINE a == Start(s, Timer)
           b == AddPendingAircraft(a)
<1>1. Timer \in Tasks /\ Timer.kind \notin DutyKinds
  BY DEF Timer, Tasks, DutyKinds
<1>2. a \in States /\ Alike(s, a) /\ Duties(a, {}) = Duties(s, {})
  BY <1>1, StartFields
<1>3. Fine(a, R, {}) /\ Idle(a)
  BY <1>2, FineAlike
<1>4. TimerBasedObjectAddOrRemove(s, t) = RemoveAircraftNotInProvider(b)
  BY DEF TimerBasedObjectAddOrRemove
<1> HIDE DEF a
<1>5. b \in States /\ Fine(b, R, {}) /\ Idle(b)
  BY <1>2, <1>3, AddPendingFine
<1> HIDE DEF b
<1> QED
  BY <1>4, <1>5, RemoveNotInProviderFine

(* insertNewSimConnectObject failed: the aircraft waits again.             *)
LEMMA InsertFailedFine ==
  ASSUME NEW s \in States, NEW R, NEW t \in Tasks, t.kind = "insert", Fine(s, R, {})
  PROVE  InsertFailed(s, t) \in States /\ Fine(InsertFailed(s, t), R, {})
<1>1. t.pending \in Pendings
  BY TaskTypes
<1> QED
  BY <1>1, InsertPendingFields, FineAlike DEF InsertFailed

(* changeRemoteAircraftEnabled, at once or later.                          *)
LEMMA ChangeEnabledFine ==
  ASSUME NEW s \in States, inRange \subseteq Callsigns, NEW t \in Tasks,
         t.kind \in {"enabled", "enabledLater"}, Fine(s, inRange, {}), Idle(s)
  PROVE  LET u == ChangeRemoteAircraftEnabled(s, t)
             v == ChangeEnabledLater(s, t)
         IN /\ u \in States /\ Fine(u, inRange, {})
            /\ v \in States /\ Fine(v, inRange, {})
<1>1. t.cs \in Callsigns /\ t.model \in Models
  BY TaskTypes
<1>2. /\ PhysicallyAddRemoteAircraft(s, t.cs, t.model) \in States
      /\ Fine(PhysicallyAddRemoteAircraft(s, t.cs, t.model), inRange, {})
  BY <1>1, PhysicallyAddFine
<1>3. /\ PhysicallyRemoveRemoteAircraft(s, {t.cs}) \in States
      /\ Fine(PhysicallyRemoveRemoteAircraft(s, {t.cs}), inRange, {})
  BY <1>1, RemoveOneFine
<1> QED
  BY <1>2, <1>3 DEF ChangeRemoteAircraftEnabled, ChangeEnabledLater

(* changeRemoteAircraftModel                                               *)
LEMMA ChangeModelFine ==
  ASSUME NEW s \in States, NEW R, NEW t \in Tasks, t.kind = "model", Fine(s, R, {}), Idle(s)
  PROVE  LET u == ChangeRemoteAircraftModel(s, t)
         IN u \in States /\ Fine(u, R, {})
<1> DEFINE a == PhysicallyRemoveRemoteAircraft(s, {t.cs})
           e == EnabledTask("enabledLater", t.cs, t.model, t.on)
<1>1. t.cs \in Callsigns /\ t.model \in Models /\ t.on \in BOOLEAN
  BY TaskTypes
<1>2. e \in Tasks /\ e.kind \notin DutyKinds
  BY <1>1 DEF EnabledTask, Tasks, DutyKinds
<1>3. a \in States /\ Fine(a, R, {})
  BY <1>1, RemoveOneFine
<1>4. ChangeRemoteAircraftModel(s, t) = IF ~Exists(s.objects[t.cs]) THEN s ELSE Start(a, e)
  BY DEF ChangeRemoteAircraftModel
<1> HIDE DEF a, e
<1>5. Start(a, e) \in States /\ Fine(Start(a, e), R, {})
  BY <1>2, <1>3, StartFields, FineAlike
<1> QED
  BY <1>4, <1>5

(* emitReadyForMatching                                                    *)
LEMMA ReadyFine ==
  ASSUME NEW s \in States, NEW R, NEW t \in Tasks, t.kind = "ready", Fine(s, R, {})
  PROVE  EmitReadyForMatching(s, t) \in States /\ Fine(EmitReadyForMatching(s, t), R, {})
<1> DEFINE e == Task("match", t.cs)
<1>1. e \in Tasks /\ e.kind \notin DutyKinds
  <2>1. t.cs \in Callsigns
    BY TaskTypes DEF PlainKinds
  <2> QED
    BY <2>1 DEF Task, Tasks, PlainKinds, DutyKinds
<1>2. EmitReadyForMatching(s, t) = IF t.cs \in inRange THEN Start(s, e) ELSE s
  BY DEF EmitReadyForMatching
<1> HIDE DEF e
<1> QED
  BY <1>1, <1>2, StartFields, FineAlike

(* addNextPendingAircraft, and adding again after the removal.             *)
LEMMA AddTaskFine ==
  ASSUME NEW s \in States, inRange \subseteq Callsigns, NEW t \in Tasks,
         t.kind \in {"addNext", "addAgain"}, Fine(s, inRange, {}), Idle(s)
  PROVE  /\ AddNext(s, t) \in States /\ Fine(AddNext(s, t), inRange, {})
         /\ AddAgain(s, t) \in States /\ Fine(AddAgain(s, t), inRange, {})
<1>1. t.cs \in Callsigns /\ t.model \in Models
  BY TaskTypes
<1> QED
  BY <1>1, PhysicallyAddFine DEF AddNext, AddAgain

-----------------------------------------------------------------------------
(* The actions.                                                            *)

(* The variables, as they are in Now.                                      *)
LEMMA NowFields ==
  /\ Now.objects = objects /\ Now.addPending = addPending /\ Now.addAgain = addAgain
  /\ Now.tasks = tasks /\ Now.lastRequest = lastRequest /\ Now.exceptions = exceptions
  /\ Now.enabled = enabled /\ Now.rendered = rendered /\ Now.inSim = inSim
  /\ Now.answers = answers
BY DEF Now

LEMMA NextFields ==
  /\ Now'.objects = objects' /\ Now'.addPending = addPending' /\ Now'.addAgain = addAgain'
  /\ Now'.tasks = tasks' /\ Now'.lastRequest = lastRequest' /\ Now'.exceptions = exceptions'
  /\ Now'.enabled = enabled' /\ Now'.rendered = rendered' /\ Now'.inSim = inSim'
  /\ Now'.answers = answers'
BY DEF Now

(* The types of the variables, and how they make up Now.                   *)
LEMMA NowTypes ==
  ASSUME Inv
  PROVE  /\ objects \in [Callsigns -> Objs] /\ addPending \in Seq(Pendings)
         /\ addAgain \in [Callsigns -> Models \cup {""}] /\ tasks \in Seq(Tasks)
         /\ lastRequest \in Nat /\ exceptions \in 0..IgnoreReceiveExceptions
         /\ enabled \subseteq Callsigns /\ rendered \subseteq Callsigns
         /\ inSim \subseteq SimObjs /\ answers \in Seq(Answered)
<1>1. Now \in States
  BY DEF Inv
<1> QED
  BY <1>1, NowFields, StateTypes

LEMMA NextTypes ==
  ASSUME objects' \in [Callsigns -> Objs], addPending' \in Seq(Pendings),
         addAgain' \in [Callsigns -> Models \cup {""}], tasks' \in Seq(Tasks),
         lastRequest' \in Nat, exceptions' \in 0..IgnoreReceiveExceptions,
         enabled' \subseteq Callsigns, rendered' \subseteq Callsigns,
         inSim' \subseteq SimObjs, answers' \in Seq(Answered)
  PROVE  Now' \in States
BY DEF Now, States

(* Become sets them to those of a state.                                   *)
LEMMA BecomeNow ==
  ASSUME NEW S \in States, Become(S)
  PROVE  Now' = S
<1>1. S = [objects |-> S.objects, addPending |-> S.addPending, addAgain |-> S.addAgain,
           tasks |-> S.tasks, lastRequest |-> S.lastRequest, exceptions |-> S.exceptions,
           enabled |-> S.enabled, rendered |-> S.rendered, inSim |-> S.inSim,
           answers |-> S.answers]
  BY DEF States
<1>2. /\ objects' = S.objects /\ addPending' = S.addPending /\ addAgain' = S.addAgain
      /\ tasks' = S.tasks /\ lastRequest' = S.lastRequest /\ exceptions' = S.exceptions
      /\ enabled' = S.enabled /\ rendered' = S.rendered
      /\ inSim' = S.inSim /\ answers' = S.answers
  BY DEF Become
<1> QED
  BY <1>1, <1>2 DEF Now

(* A fine state is fine whenever it is reached, in the same scenario.      *)
LEMMA InvStep ==
  ASSUME scenario \in Scenarios, scenario' = scenario, simulating' \in BOOLEAN,
         inRange' \subseteq Callsigns, model' \in [Callsigns -> Models],
         commands' \in Nat, faults' \in Nat, Now' \in States, Fine(Now', inRange', {})
  PROVE  Inv'
<1>1. Sound(Now)'
  BY DEF Fine, Sound, Numbered, Stages, OneAdded, InOrder, Truthful, InSim, Exists,
         PendingAdded, Request, Removal
<1>2. Rendering(Now, inRange, {})'
  BY DEF Fine, Rendering, Misplaced, ToBeRemoved, AllGo, Exists, Duties, DutyKinds, Task,
         Commands, ToSet
<1>3. (Calm => Tracked(Now, {}) /\ Current(Now))'
  BY DEF Fine, Calm, Prompt, Commands, Tracked, Current, Request, Duties, DutyKinds, Task,
         ToSet
<1>4. (Now \in States)'
  OBVIOUS
<1> QED
  BY <1>1, <1>2, <1>3, <1>4 DEF Inv, Fine

(* A timer fires: its task is taken out, and is the duty of the step.      *)
LEMMA TakenFine ==
  ASSUME Inv, NEW kind, NEW i \in Due(kind)
  PROVE  /\ Taken(i) \in States /\ tasks[i] \in Tasks /\ tasks[i].kind = kind
         /\ Fine(Taken(i), inRange, {tasks[i]}) /\ Idle(Taken(i))
         /\ kind \notin DutyKinds => Fine(Taken(i), inRange, {})
         /\ Calm /\ kind = "outdated" => \A c : Task("verify", c) \notin Duties(Taken(i), {})
<1> DEFINE t == tasks[i]
           s == Taken(i)
<1>1. Now \in States /\ Fine(Now, inRange, {})
  BY DEF Inv
<1>2. tasks \in Seq(Tasks) /\ DOMAIN tasks = 1..Len(tasks)
  BY <1>1, NowFields, StateTypes, LenProperties
<1>3. i \in 1..Len(tasks) /\ t \in Tasks /\ t.kind = kind
  BY <1>2, ElementOfSeq DEF Due
<1>4. /\ RemoveAt(tasks, i) \in Seq(Tasks)
      /\ ToSet(RemoveAt(tasks, i)) \subseteq ToSet(tasks)
      /\ ToSet(tasks) = ToSet(RemoveAt(tasks, i)) \cup {t}
  BY <1>2, <1>3, RemoveAtElements
<1>5. s = [Now EXCEPT !.tasks = RemoveAt(tasks, i)]
  BY NowFields DEF Taken
<1>6. s \in States /\ Alike(Now, s) /\ s.tasks = RemoveAt(tasks, i)
  <2> HIDE DEF s
  <2> QED
    BY <1>1, <1>4, <1>5 DEF States, Alike
<1> HIDE DEF s, t
<1>7. Duties(s, {t}) = Duties(Now, {})
  BY <1>4, <1>6, NowFields DEF Duties
<1>8. Fine(s, inRange, {t})
  BY <1>1, <1>6, <1>7, FineAlike
<1>9. Idle(s)
  <2>1. Calm => answers = <<>>
    BY DEF Due, Calm
  <2>2. Calm => Len(s.answers) = 0
    BY <1>6, <2>1, NowFields, EmptySeq DEF Alike
  <2> QED
    BY <2>2 DEF Idle
<1>10. kind \notin DutyKinds => Fine(s, inRange, {})
  BY <1>3, <1>8, NoDuty
<1>11. ASSUME Calm, kind = "outdated", NEW c PROVE Task("verify", c) \notin Duties(s, {})
  <2>1. \A j \in DOMAIN tasks : tasks[j].kind # "verify"
    BY <1>11 DEF Due, Calm
  <2>2. Task("verify", c).kind = "verify"
    BY DEF Task
  <2>3. Task("verify", c) \notin ToSet(tasks)
    BY <2>1, <2>2 DEF ToSet
  <2> QED
    BY <1>4, <1>6, <2>3 DEF Duties
<1> QED
  BY <1>3, <1>6, <1>8, <1>9, <1>10, <1>11 DEF s, t

(* A step from a fine state to a fine state.                               *)
LEMMA BecomeStep ==
  ASSUME Inv, scenario' = scenario, NEW S, S \in States, Fine(S, inRange, {}), Become(S),
         model' \in [Callsigns -> Models], UNCHANGED <<simulating, inRange, commands, faults>>
  PROVE  Inv'
<1>1. Now' = S
  BY BecomeNow
<1> QED
  BY <1>1, InvStep DEF Inv

(* Every timer and queued call.                                            *)
LEMMA TimersInv ==
  ASSUME Inv, scenario' = scenario, Timers
  PROVE  Inv'
<1>0. inRange \subseteq Callsigns /\ model \in [Callsigns -> Models]
  BY DEF Inv
<1>d. /\ "timer" \notin DutyKinds /\ "addNext" \notin DutyKinds /\ "addAgain" \notin DutyKinds
      /\ "removeMissing" \notin DutyKinds /\ "insert" \notin DutyKinds /\ "model" \notin DutyKinds
      /\ "enabled" \notin DutyKinds /\ "enabledLater" \notin DutyKinds /\ "outdated" \notin DutyKinds
      /\ "ready" \notin DutyKinds /\ "match" \notin DutyKinds /\ "matchAgain" \notin DutyKinds
  BY DEF DutyKinds
<1>1. CASE Fires("timer", TimerBasedObjectAddOrRemove)
  <2>1. PICK i \in Due("timer") : Become(TimerBasedObjectAddOrRemove(Taken(i), tasks[i]))
    BY <1>1 DEF Fires
  <2>2. Taken(i) \in States /\ Fine(Taken(i), inRange, {}) /\ Idle(Taken(i))
    BY <1>d, TakenFine
  <2>3. /\ TimerBasedObjectAddOrRemove(Taken(i), tasks[i]) \in States
        /\ Fine(TimerBasedObjectAddOrRemove(Taken(i), tasks[i]), inRange, {})
    BY <2>2, TimerFine
  <2> QED
    BY <1>0, <1>1, <2>1, <2>3, BecomeStep DEF Fires
<1>2. CASE Fires("verify", VerifyAddedRemoteAircraft)
  <2>1. PICK i \in Due("verify") : Become(VerifyAddedRemoteAircraft(Taken(i), tasks[i]))
    BY <1>2 DEF Fires
  <2>2. /\ Taken(i) \in States /\ tasks[i] \in Tasks /\ tasks[i].kind = "verify"
        /\ Fine(Taken(i), inRange, {tasks[i]})
    BY TakenFine
  <2>3. /\ VerifyAddedRemoteAircraft(Taken(i), tasks[i]) \in States
        /\ Fine(VerifyAddedRemoteAircraft(Taken(i), tasks[i]), inRange, {})
    BY <1>0, <2>2, VerifyFine
  <2> QED
    BY <1>0, <1>2, <2>1, <2>3, BecomeStep DEF Fires
<1>3. CASE Fires("addNext", AddNext)
  <2>1. PICK i \in Due("addNext") : Become(AddNext(Taken(i), tasks[i]))
    BY <1>3 DEF Fires
  <2>2. /\ Taken(i) \in States /\ tasks[i] \in Tasks /\ tasks[i].kind = "addNext"
        /\ Fine(Taken(i), inRange, {}) /\ Idle(Taken(i))
    BY <1>d, TakenFine
  <2>3. AddNext(Taken(i), tasks[i]) \in States /\ Fine(AddNext(Taken(i), tasks[i]), inRange, {})
    BY <1>0, <2>2, AddTaskFine
  <2> QED
    BY <1>0, <1>3, <2>1, <2>3, BecomeStep DEF Fires
<1>4. CASE Fires("addAgain", AddAgain)
  <2>1. PICK i \in Due("addAgain") : Become(AddAgain(Taken(i), tasks[i]))
    BY <1>4 DEF Fires
  <2>2. /\ Taken(i) \in States /\ tasks[i] \in Tasks /\ tasks[i].kind = "addAgain"
        /\ Fine(Taken(i), inRange, {}) /\ Idle(Taken(i))
    BY <1>d, TakenFine
  <2>3. AddAgain(Taken(i), tasks[i]) \in States /\ Fine(AddAgain(Taken(i), tasks[i]), inRange, {})
    BY <1>0, <2>2, AddTaskFine
  <2> QED
    BY <1>0, <1>4, <2>1, <2>3, BecomeStep DEF Fires
<1>5. CASE Fires("remove", RemoveAgain) \/ Fires("removeAgain", RemoveAgain)
  <2>1. PICK i \in Due("remove") \cup Due("removeAgain") : Become(RemoveAgain(Taken(i), tasks[i]))
    BY <1>5 DEF Fires
  <2>2. /\ Taken(i) \in States /\ tasks[i] \in Tasks
        /\ tasks[i].kind \in {"remove", "removeAgain"}
        /\ Fine(Taken(i), inRange, {tasks[i]}) /\ Idle(Taken(i))
    BY TakenFine
  <2>3. /\ RemoveAgain(Taken(i), tasks[i]) \in States
        /\ Fine(RemoveAgain(Taken(i), tasks[i]), inRange, {})
    BY <2>2, RemoveAgainFine
  <2> QED
    BY <1>0, <1>5, <2>1, <2>3, BecomeStep DEF Fires
<1>6. CASE Fires("removeMissing", RemoveMissing)
  <2>1. PICK i \in Due("removeMissing") : Become(RemoveMissing(Taken(i), tasks[i]))
    BY <1>6 DEF Fires
  <2>2. Taken(i) \in States /\ Fine(Taken(i), inRange, {}) /\ Idle(Taken(i))
    BY <1>d, TakenFine
  <2>3. /\ RemoveMissing(Taken(i), tasks[i]) \in States
        /\ Fine(RemoveMissing(Taken(i), tasks[i]), inRange, {})
    BY <2>2, RemoveNotInProviderFine DEF RemoveMissing
  <2> QED
    BY <1>0, <1>6, <2>1, <2>3, BecomeStep DEF Fires
<1>7. CASE Fires("removeAll", RemoveAll)
  <2>1. PICK i \in Due("removeAll") : Become(RemoveAll(Taken(i), tasks[i]))
    BY <1>7 DEF Fires
  <2>2. /\ Taken(i) \in States /\ tasks[i] \in Tasks /\ tasks[i].kind = "removeAll"
        /\ Fine(Taken(i), inRange, {tasks[i]})
    BY TakenFine
  <2>3. RemoveAll(Taken(i), tasks[i]) \in States /\ Fine(RemoveAll(Taken(i), tasks[i]), inRange, {})
    BY <1>0, <2>2, RemoveAllFine
  <2> QED
    BY <1>0, <1>7, <2>1, <2>3, BecomeStep DEF Fires
<1>8. CASE Fires("insert", InsertFailed)
  <2>1. PICK i \in Due("insert") : Become(InsertFailed(Taken(i), tasks[i]))
    BY <1>8 DEF Fires
  <2>2. /\ Taken(i) \in States /\ tasks[i] \in Tasks /\ tasks[i].kind = "insert"
        /\ Fine(Taken(i), inRange, {})
    BY <1>d, TakenFine
  <2>3. /\ InsertFailed(Taken(i), tasks[i]) \in States
        /\ Fine(InsertFailed(Taken(i), tasks[i]), inRange, {})
    BY <2>2, InsertFailedFine
  <2> QED
    BY <1>0, <1>8, <2>1, <2>3, BecomeStep DEF Fires
<1>9. CASE Fires("model", ChangeRemoteAircraftModel)
  <2>1. PICK i \in Due("model") : Become(ChangeRemoteAircraftModel(Taken(i), tasks[i]))
    BY <1>9 DEF Fires
  <2>2. /\ Taken(i) \in States /\ tasks[i] \in Tasks /\ tasks[i].kind = "model"
        /\ Fine(Taken(i), inRange, {}) /\ Idle(Taken(i))
    BY <1>d, TakenFine
  <2>3. /\ ChangeRemoteAircraftModel(Taken(i), tasks[i]) \in States
        /\ Fine(ChangeRemoteAircraftModel(Taken(i), tasks[i]), inRange, {})
    BY <2>2, ChangeModelFine
  <2> QED
    BY <1>0, <1>9, <2>1, <2>3, BecomeStep DEF Fires
<1>10. CASE Fires("enabled", ChangeRemoteAircraftEnabled)
  <2>1. PICK i \in Due("enabled") : Become(ChangeRemoteAircraftEnabled(Taken(i), tasks[i]))
    BY <1>10 DEF Fires
  <2>2. /\ Taken(i) \in States /\ tasks[i] \in Tasks /\ tasks[i].kind = "enabled"
        /\ Fine(Taken(i), inRange, {}) /\ Idle(Taken(i))
    BY <1>d, TakenFine
  <2>3. /\ ChangeRemoteAircraftEnabled(Taken(i), tasks[i]) \in States
        /\ Fine(ChangeRemoteAircraftEnabled(Taken(i), tasks[i]), inRange, {})
    BY <1>0, <2>2, ChangeEnabledFine
  <2> QED
    BY <1>0, <1>10, <2>1, <2>3, BecomeStep DEF Fires
<1>11. CASE Fires("enabledLater", ChangeEnabledLater)
  <2>1. PICK i \in Due("enabledLater") : Become(ChangeEnabledLater(Taken(i), tasks[i]))
    BY <1>11 DEF Fires
  <2>2. /\ Taken(i) \in States /\ tasks[i] \in Tasks /\ tasks[i].kind = "enabledLater"
        /\ Fine(Taken(i), inRange, {}) /\ Idle(Taken(i))
    BY <1>d, TakenFine
  <2>3. /\ ChangeEnabledLater(Taken(i), tasks[i]) \in States
        /\ Fine(ChangeEnabledLater(Taken(i), tasks[i]), inRange, {})
    BY <1>0, <2>2, ChangeEnabledFine
  <2> QED
    BY <1>0, <1>11, <2>1, <2>3, BecomeStep DEF Fires
<1>12. CASE Fires("outdated", Ages)
  <2>1. PICK i \in Due("outdated") : Become(Ages(Taken(i), tasks[i]))
    BY <1>12 DEF Fires
  <2>2. /\ Taken(i) \in States /\ tasks[i] \in Tasks /\ tasks[i].kind = "outdated"
        /\ Fine(Taken(i), inRange, {}) /\ Idle(Taken(i))
        /\ Calm => \A c : Task("verify", c) \notin Duties(Taken(i), {})
    BY <1>d, TakenFine
  <2>3. Ages(Taken(i), tasks[i]) \in States /\ Fine(Ages(Taken(i), tasks[i]), inRange, {})
    BY <2>2, AgesFine
  <2> QED
    BY <1>0, <1>12, <2>1, <2>3, BecomeStep DEF Fires
<1>13. CASE Fires("ready", EmitReadyForMatching)
  <2>1. PICK i \in Due("ready") : Become(EmitReadyForMatching(Taken(i), tasks[i]))
    BY <1>13 DEF Fires
  <2>2. /\ Taken(i) \in States /\ tasks[i] \in Tasks /\ tasks[i].kind = "ready"
        /\ Fine(Taken(i), inRange, {})
    BY <1>d, TakenFine
  <2>3. /\ EmitReadyForMatching(Taken(i), tasks[i]) \in States
        /\ Fine(EmitReadyForMatching(Taken(i), tasks[i]), inRange, {})
    BY <2>2, ReadyFine
  <2> QED
    BY <1>0, <1>13, <2>1, <2>3, BecomeStep DEF Fires
<1>14. CASE ModelMatched
  <2>1. PICK i \in Due("match") \cup Due("matchAgain"), m \in Models :
          /\ model' = IF tasks[i].cs \in inRange THEN [model EXCEPT ![tasks[i].cs] = m] ELSE model
          /\ Become(IF tasks[i].cs \in inRange \cap enabled
                    THEN PhysicallyAddRemoteAircraft(Taken(i), tasks[i].cs, m) ELSE Taken(i))
          /\ UNCHANGED <<simulating, inRange, commands, faults>>
    BY <1>14 DEF ModelMatched
  <2>2. /\ Taken(i) \in States /\ tasks[i] \in Tasks /\ tasks[i].kind \in {"match", "matchAgain"}
        /\ Fine(Taken(i), inRange, {}) /\ Idle(Taken(i))
    BY <1>d, TakenFine
  <2>3. tasks[i].cs \in Callsigns
    BY <2>2, TaskTypes DEF PlainKinds
  <2> DEFINE S == IF tasks[i].cs \in inRange \cap enabled
                  THEN PhysicallyAddRemoteAircraft(Taken(i), tasks[i].cs, m) ELSE Taken(i)
  <2>4. S \in States /\ Fine(S, inRange, {})
    BY <1>0, <2>2, <2>3, PhysicallyAddFine
  <2>5. model' \in [Callsigns -> Models]
    BY <1>0, <2>1, <2>3
  <2>6. Become(S) /\ UNCHANGED <<simulating, inRange, commands, faults>>
    BY <2>1
  <2> HIDE DEF S
  <2> QED
    BY <2>4, <2>5, <2>6, BecomeStep
<1> QED
  BY <1>1, <1>2, <1>3, <1>4, <1>5, <1>6, <1>7, <1>8, <1>9, <1>10, <1>11, <1>12, <1>13, <1>14
     DEF Timers

(* The answers of the simulator.                                           *)
LEMMA AnswersInv ==
  ASSUME Inv, scenario' = scenario, Answers
  PROVE  Inv'
<1> DEFINE a == Head(answers)
<1>1. Now \in States /\ Fine(Now, inRange, {}) /\ model \in [Callsigns -> Models]
  BY DEF Inv
<1>2. Now.answers = answers /\ Now.objects = objects /\ Now.exceptions = exceptions
  BY NowFields
<1>3. Received = Rest(Now)
  BY DEF Received, Rest
<1>4. answers # <<>> /\ UNCHANGED <<simulating, inRange, model, commands, faults>>
  BY DEF Answers, ObjectAssigned, CreateFailed, ObjectRemoved, Receives
<1>5. Rest(Now) \in States
  BY <1>1, <1>2, <1>4, RestFields
<1>6. ASSUME NEW S, S \in States, Fine(S, inRange, {}), Become(S) PROVE Inv'
  BY <1>1, <1>4, <1>6, BecomeStep
<1>7. ASSUME a.kind = "removed" => \A cs \in Callsigns :
               objects[cs].assigned => objects[cs].req # a.req,
             a.kind = "assigned" => \A cs \in Callsigns : objects[cs].req # a.req
      PROVE  Fine(Rest(Now), inRange, {})
  BY <1>1, <1>2, <1>4, <1>5, <1>7, RestFields, TailFine
<1>8. CASE ObjectAssigned
  <2> DEFINE S == WithRequest(a.req)
  <2>1. /\ a.kind = "assigned"
        /\ \/ S = {} /\ Become(Received)
           \/ \E cs \in S : Become(Start([Received EXCEPT !.objects[cs].assigned = TRUE],
                                         Task("verify", cs)))
    BY <1>8 DEF ObjectAssigned, Receives
  <2>2. CASE S = {} /\ Become(Received)
    <3>1. \A cs \in Callsigns : objects[cs].req # a.req
      BY <2>2 DEF WithRequest
    <3>2. Fine(Rest(Now), inRange, {})
      BY <1>7, <2>1, <3>1
    <3> QED
      BY <1>3, <1>5, <1>6, <2>2, <3>2
  <2>3. ASSUME NEW cs \in S, Become(Start([Received EXCEPT !.objects[cs].assigned = TRUE],
                                          Task("verify", cs)))
        PROVE  Inv'
    <3> DEFINE t == Start([Rest(Now) EXCEPT !.objects[cs].assigned = TRUE], Task("verify", cs))
    <3>1. cs \in Callsigns /\ Now.objects[cs].req = Head(Now.answers).req
      BY <1>2 DEF WithRequest
    <3>2. t \in States /\ Fine(t, inRange, {})
      BY <1>1, <1>2, <1>4, <2>1, <3>1, AssignedFine
    <3>3. Become(t)
      BY <1>3, <2>3
    <3> HIDE DEF t
    <3> QED
      BY <1>6, <3>2, <3>3
  <2> QED
    BY <2>1, <2>2, <2>3
<1>9. CASE CreateFailed
  <2> DEFINE n == IF exceptions < IgnoreReceiveExceptions THEN exceptions + 1 ELSE exceptions
             s == [Received EXCEPT !.exceptions = n]
  <2>1. PICK verified \in BOOLEAN :
          Become(IF n < IgnoreReceiveExceptions
                 THEN AddingAircraftFailed(s, a.trace, verified) ELSE s)
    BY <1>9 DEF CreateFailed
  <2>2. a.kind = "failed"
    BY <1>9 DEF CreateFailed, Receives
  <2>3. n \in 0..IgnoreReceiveExceptions
    <3>1. exceptions \in 0..IgnoreReceiveExceptions
      BY NowTypes
    <3> QED
      BY <3>1 DEF IgnoreReceiveExceptions
  <2>4. s = [Rest(Now) EXCEPT !.exceptions = n]
    BY <1>3
  <2>5. s \in States /\ Alike(Rest(Now), s) /\ s.tasks = Rest(Now).tasks
    <3> HIDE DEF n, s
    <3> QED
      BY <1>5, <2>3, <2>4 DEF States, Alike
  <2> HIDE DEF n, s
  <2>6. Duties(s, {}) = Duties(Rest(Now), {})
    BY <2>5 DEF Duties
  <2>7. /\ Fine(s, inRange, {}) /\ AddingAircraftFailed(s, a.trace, verified) \in States
        /\ Fine(AddingAircraftFailed(s, a.trace, verified), inRange, {})
    BY <1>1, <1>2, <1>4, <2>2, <2>5, <2>6, FailedFine
  <2>8. CASE n < IgnoreReceiveExceptions
    <3>1. Become(AddingAircraftFailed(s, a.trace, verified))
      BY <2>1, <2>8
    <3> QED
      BY <1>6, <2>7, <3>1
  <2>9. CASE ~(n < IgnoreReceiveExceptions)
    <3>1. Become(s)
      BY <2>1, <2>9
    <3> QED
      BY <1>6, <2>5, <2>7, <3>1
  <2> QED
    BY <2>8, <2>9
<1>10. CASE ObjectRemoved
  <2> DEFINE S == {cs \in WithRequest(a.req) : objects[cs].assigned}
  <2>1. /\ a.kind = "removed"
        /\ \/ S = {} /\ Become(Received)
           \/ \E cs \in S : Become(ReportedRemoved(Received, cs))
    BY <1>10 DEF ObjectRemoved, Receives
  <2>2. CASE S = {} /\ Become(Received)
    <3>1. \A cs \in Callsigns : objects[cs].assigned => objects[cs].req # a.req
      BY <2>2 DEF WithRequest
    <3>2. Fine(Rest(Now), inRange, {})
      BY <1>7, <2>1, <3>1
    <3> QED
      BY <1>3, <1>5, <1>6, <2>2, <3>2
  <2>3. ASSUME NEW cs \in S, Become(ReportedRemoved(Received, cs)) PROVE Inv'
    <3>1. /\ cs \in Callsigns /\ Now.objects[cs].req = Head(Now.answers).req
          /\ Now.objects[cs].assigned
      BY <1>2 DEF WithRequest
    <3>2. /\ ReportedRemoved(Rest(Now), cs) \in States
          /\ Fine(ReportedRemoved(Rest(Now), cs), inRange, {})
      BY <1>1, <1>2, <1>4, <2>1, <3>1, RemovedFine
    <3> QED
      BY <1>3, <1>6, <2>3, <3>2
  <2> QED
    BY <2>1, <2>2, <2>3
<1> QED
  BY <1>8, <1>9, <1>10 DEF Answers

(* What the simulator does: the lights, and its faults.                    *)
LEMMA SimulatorInv ==
  ASSUME Inv, scenario' = scenario,
         (\E cs \in Callsigns : LightsReceived(cs)) \/ SimulatorDrops \/ SimulatorRefuses
  PROVE  Inv'
<1>1. /\ Now \in States /\ Fine(Now, inRange, {}) /\ scenario \in Scenarios
      /\ simulating \in BOOLEAN /\ inRange \subseteq Callsigns
      /\ model \in [Callsigns -> Models] /\ commands \in Nat /\ faults \in Nat
  BY DEF Inv
<1>2. ASSUME UNCHANGED <<simulating, inRange, model, commands>>, faults' \in Nat,
             Now' \in States, Fine(Now', inRange, {})
      PROVE  Inv'
  BY <1>1, <1>2, InvStep
<1>3. ASSUME NEW cs \in Callsigns, LightsReceived(cs) PROVE Inv'
  <2>1. /\ objects' = [objects EXCEPT ![cs].lights = TRUE]
        /\ UNCHANGED <<addPending, addAgain, tasks, lastRequest, exceptions, simulating,
                       inRange, enabled, rendered, model, inSim, answers, commands, faults>>
    BY <1>3 DEF LightsReceived, provider, world
  <2>2. objects[cs] \in Objs
    BY NowTypes
  <2>3. /\ [objects[cs] EXCEPT !.lights = TRUE] \in Objs
        /\ [objects[cs] EXCEPT !.lights = TRUE].req = objects[cs].req
        /\ [objects[cs] EXCEPT !.lights = TRUE].assigned = objects[cs].assigned
        /\ [objects[cs] EXCEPT !.lights = TRUE].confirmed = objects[cs].confirmed
        /\ [objects[cs] EXCEPT !.lights = TRUE].pendingRemoved = objects[cs].pendingRemoved
        /\ [objects[cs] EXCEPT !.lights = TRUE].old = objects[cs].old
    BY <2>2 DEF Objs, ObjRecords, Exists
  <2>4. /\ objects' \in [Callsigns -> Objs]
        /\ \A c \in Callsigns :
             objects'[c] = IF c = cs THEN [objects[cs] EXCEPT !.lights = TRUE] ELSE objects[c]
    BY <2>1, <2>3, NowTypes
  <2>5. Now' \in States
    BY <2>1, <2>4, NowTypes, NextTypes
  <2>6. Duties(Now', {}) = Duties(Now, {})
    BY <2>1, NowFields, NextFields DEF Duties
  <2>7. \A c \in Callsigns :
          /\ Now'.objects[c].req = Now.objects[c].req
          /\ Now'.objects[c].assigned = Now.objects[c].assigned
          /\ Now'.objects[c].confirmed = Now.objects[c].confirmed
          /\ Now'.objects[c].pendingRemoved = Now.objects[c].pendingRemoved
          /\ Now'.objects[c].old = Now.objects[c].old
    BY <2>3, <2>4, NowFields, NextFields
  <2>8. Fine(Now', inRange, {})
    <3>1. /\ Now'.lastRequest = Now.lastRequest /\ Now'.inSim = Now.inSim
          /\ Now'.answers = Now.answers /\ Now'.enabled = Now.enabled
          /\ Now'.rendered = Now.rendered
      BY <2>1, NowFields, NextFields
    <3> QED
      BY <1>1, <2>5, <2>6, <2>7, <3>1, SameObjectsFine
  <2> QED
    BY <1>1, <1>2, <2>1, <2>5, <2>8
<1>4. CASE SimulatorDrops
  <2>1. PICK x \in inSim : /\ inSim' = inSim \ {x}
                           /\ answers' = Append(answers, [kind |-> "removed", req |-> x.id])
    BY <1>4 DEF SimulatorDrops
  <2>2. /\ UNCHANGED <<objects, addPending, addAgain, tasks, lastRequest, exceptions, simulating,
                       inRange, enabled, rendered, model, commands>>
        /\ faults' = faults + 1
    BY <1>4 DEF SimulatorDrops, driver, provider
  <2>3. [kind |-> "removed", req |-> x.id] \in Answered
    BY NowTypes DEF SimObjs, Answered
  <2>4. answers' \in Seq(Answered) /\ inSim' \subseteq SimObjs
    BY <2>1, <2>3, NowTypes, AppendProperties
  <2>5. Now' \in States
    BY <2>2, <2>4, NowTypes, NextTypes
  <2>6. Duties(Now', {}) = Duties(Now, {})
    BY <2>2, NowFields, NextFields DEF Duties
  <2>7. Fine(Now', inRange, {})
    BY <1>1, <2>1, <2>2, <2>5, <2>6, NowFields, NextFields, DropsFine
  <2> QED
    BY <1>1, <1>2, <2>2, <2>5, <2>7
<1>5. CASE SimulatorRefuses
  <2>1. PICK i \in DOMAIN answers :
          /\ answers[i].kind = "assigned"
          /\ \E x \in inSim : x.id = answers[i].req /\ inSim' = inSim \ {x}
          /\ answers' = [answers EXCEPT ![i].kind = "failed"]
    BY <1>5 DEF SimulatorRefuses
  <2>2. PICK x \in inSim : x.id = answers[i].req /\ inSim' = inSim \ {x}
    BY <2>1
  <2>3. /\ UNCHANGED <<objects, addPending, addAgain, tasks, lastRequest, exceptions, simulating,
                       inRange, enabled, rendered, model, commands>>
        /\ faults' = faults + 1
    BY <1>5 DEF SimulatorRefuses, driver, provider
  <2>4. i \in 1..Len(answers) /\ answers[i] \in Answered
    <3>1. answers \in Seq(Answered)
      BY NowTypes
    <3>2. DOMAIN answers = 1..Len(answers)
      BY <3>1, LenProperties
    <3> QED
      BY <3>1, <3>2, ElementOfSeq
  <2>5. [answers[i] EXCEPT !.kind = "failed"] \in Answered
    BY <2>1, <2>4 DEF Answered
  <2>6. answers' \in Seq(Answered) /\ inSim' \subseteq SimObjs
    <3>1. answers' = [answers EXCEPT ![i] = [answers[i] EXCEPT !.kind = "failed"]]
      BY <2>1
    <3> QED
      BY <2>2, <2>4, <2>5, <3>1, NowTypes, ExceptSeq
  <2>7. Now' \in States
    BY <2>3, <2>6, NowTypes, NextTypes
  <2>8. Duties(Now', {}) = Duties(Now, {})
    BY <2>3, NowFields, NextFields DEF Duties
  <2>9. Fine(Now', inRange, {})
    <3>1. /\ Now'.objects = Now.objects /\ Now'.lastRequest = Now.lastRequest
          /\ Now'.enabled = Now.enabled /\ Now'.rendered = Now.rendered
      BY <2>3, NowFields, NextFields
    <3>2. Now.answers = answers /\ Now.inSim = inSim /\ Now'.answers = answers' /\ Now'.inSim = inSim'
      BY NowFields, NextFields
    <3>3. /\ i \in 1..Len(Now.answers) /\ Now.answers[i].kind = "assigned"
          /\ x \in Now.inSim /\ x.id = Now.answers[i].req
          /\ Now'.inSim = Now.inSim \ {x}
          /\ Now'.answers = [Now.answers EXCEPT ![i].kind = "failed"]
      BY <2>1, <2>2, <2>4, <3>2
    <3> QED
      BY <1>1, <2>7, <2>8, <3>1, <3>3, RefusesFine
  <2> QED
    BY <1>1, <1>2, <2>3, <2>7, <2>9
<1> QED
  BY <1>3, <1>4, <1>5

(* A call of the contexts that queues the task u.                          *)
LEMMA QueuedFine ==
  ASSUME Inv, NEW c, Command(c), NEW u \in Tasks, tasks' = Append(tasks, u),
         inRange' \subseteq Callsigns, enabled' \subseteq inRange', rendered' \subseteq inRange'
  PROVE  /\ Now' \in States
         /\ Duties(Now, {}) \subseteq Duties(Now', {})
         /\ Duties(Now', {}) = {d \in Duties(Now, {}) \cup {u} : d.kind \in DutyKinds}
         /\ Now'.objects = Now.objects
         /\ Rendering(Now', inRange', {}) => Fine(Now', inRange', {})
<1>1. /\ UNCHANGED <<objects, addPending, addAgain, lastRequest, exceptions, inSim, answers>>
  BY DEF Command, world
<1>2. tasks' \in Seq(Tasks) /\ ToSet(tasks') = ToSet(tasks) \cup {u}
  <2>1. tasks \in Seq(Tasks)
    BY NowTypes
  <2> QED
    BY <2>1, AppendElements
<1>3. enabled' \subseteq Callsigns /\ rendered' \subseteq Callsigns
  OBVIOUS
<1>4. Now' \in States
  BY <1>1, <1>2, <1>3, NowTypes, NextTypes
<1>5. /\ Duties(Now', {}) = {d \in Duties(Now, {}) \cup {u} : d.kind \in DutyKinds}
      /\ Duties(Now, {}) \subseteq Duties(Now', {})
  BY <1>2, NowFields, NextFields DEF Duties
<1>6. /\ Now'.objects = Now.objects /\ Now'.lastRequest = Now.lastRequest
      /\ Now'.inSim = Now.inSim /\ Now'.answers = Now.answers
  BY <1>1, NowFields, NextFields
<1>7. Now \in States /\ Fine(Now, inRange, {})
  BY DEF Inv
<1> QED
  BY <1>4, <1>5, <1>6, <1>7, CommandFine

(* Calls for one aircraft.                                                 *)
LEMMA CommandsInv ==
  ASSUME Inv, scenario' = scenario, NEW cs \in Callsigns,
         Appear(cs) \/ Leave(cs) \/ MatchAgain(cs) \/ ChangeModel(cs) \/ ToggleEnabled(cs)
  PROVE  Inv'
<1> DEFINE R == inRange'
           all == [kind |-> "removeAll"]
<1>1. /\ Now \in States /\ Rendering(Now, inRange, {}) /\ scenario \in Scenarios
      /\ simulating \in BOOLEAN /\ inRange \subseteq Callsigns
      /\ model \in [Callsigns -> Models] /\ commands \in Nat /\ faults \in Nat
  BY DEF Inv, Fine
<1>2. /\ rendered \subseteq inRange /\ enabled \subseteq inRange
      /\ AllGo(Now, {}) => inRange = {} /\ "disconnect" \in Commands
      /\ \A c \in rendered : objects[c].confirmed
      /\ \A c \in Callsigns : Misplaced(Now, inRange, c) => ToBeRemoved(Now, {}, c)
  BY <1>1, NowFields DEF Rendering
<1>3. UNCHANGED simulating /\ faults' = faults /\ commands' \in Nat
  BY <1>1 DEF Appear, Leave, MatchAgain, ChangeModel, ToggleEnabled, Command, provider
<1>4. ASSUME NEW c, NEW u \in Tasks, u # all, Command(c), tasks' = Append(tasks, u),
             R \subseteq Callsigns, rendered' \subseteq R, enabled' \subseteq R,
             rendered' \subseteq rendered, model' \in [Callsigns -> Models],
             AllGo(Now, {}) => R = {},
             \A d \in Callsigns : Misplaced(Now', R, d) =>
               Misplaced(Now, inRange, d) \/ u = Task("remove", d)
      PROVE  Inv'
  <2>1. /\ Now' \in States
        /\ Duties(Now, {}) \subseteq Duties(Now', {})
        /\ Duties(Now', {}) = {d \in Duties(Now, {}) \cup {u} : d.kind \in DutyKinds}
        /\ Now'.objects = Now.objects
        /\ Rendering(Now', R, {}) => Fine(Now', R, {})
    BY <1>4, QueuedFine
  <2>2. AllGo(Now', {}) => AllGo(Now, {})
    BY <1>4, <2>1 DEF AllGo
  <2>3. ASSUME NEW d \in Callsigns, Misplaced(Now', R, d) PROVE ToBeRemoved(Now', {}, d)
    <3>1. CASE Misplaced(Now, inRange, d)
      BY <1>2, <2>1, <3>1 DEF ToBeRemoved, AllGo
    <3>2. CASE u = Task("remove", d)
      <4>1. u.kind \in DutyKinds
        BY <3>2 DEF Task, DutyKinds
      <4> QED
        BY <2>1, <3>2, <4>1 DEF ToBeRemoved
    <3> QED
      BY <1>4, <2>3, <3>1, <3>2
  <2>4. Rendering(Now', R, {})
    BY <1>2, <1>4, <2>1, <2>2, <2>3, NowFields, NextFields DEF Rendering
  <2> QED
    BY <1>1, <1>3, <1>4, <2>1, <2>4, InvStep
<1>5. ASSUME objects' = objects, inRange' = inRange, rendered' = rendered, NEW d
      PROVE  Misplaced(Now', R, d) => Misplaced(Now, inRange, d)
  BY <1>5, NowFields, NextFields DEF Misplaced
<1>6. /\ UNCHANGED objects
  BY DEF Appear, Leave, MatchAgain, ChangeModel, ToggleEnabled, Command
<1>7. CASE Appear(cs)
  <2> DEFINE u == Task("ready", cs)
  <2>1. u \in Tasks /\ u # all
    BY DEF Task, Tasks, PlainKinds
  <2>2. /\ Command("appear") /\ tasks' = Append(tasks, u) /\ rendered' = rendered
        /\ inRange' = inRange \cup {cs} /\ enabled' = enabled \cup {cs} /\ cs \notin inRange
        /\ model' = [model EXCEPT ![cs] = NetworkModel]
        /\ \A i \in 1..Len(tasks) : tasks[i].kind # "removeAll"
    BY <1>7 DEF Appear
  <2> HIDE DEF u
  <2>3. NetworkModel \in Models
    BY SimConnectAssumption DEF NetworkModel
  <2>4. ~AllGo(Now, {})
    <3>1. tasks \in Seq(Tasks)
      BY NowTypes
    <3>2. DOMAIN tasks = 1..Len(tasks)
      BY <3>1, LenProperties
    <3>3. all \notin ToSet(tasks)
      BY <2>2, <3>2 DEF ToSet
    <3> QED
      BY <3>3, NowFields DEF AllGo, Duties
  <2>5. \A d \in Callsigns : Misplaced(Now', R, d) => Misplaced(Now, inRange, d)
    BY <1>6, <2>2, NowFields, NextFields DEF Misplaced
  <2>6. model' \in [Callsigns -> Models]
    BY <1>1, <2>2, <2>3
  <2>7. R \subseteq Callsigns /\ rendered' \subseteq R /\ enabled' \subseteq R
    BY <1>1, <1>2, <2>2
  <2> QED
    BY <1>4, <2>1, <2>2, <2>4, <2>5, <2>6, <2>7
<1>8. CASE Leave(cs)
  <2> DEFINE u == Task("remove", cs)
  <2>1. u \in Tasks /\ u # all
    BY DEF Task, Tasks, PlainKinds
  <2>2. /\ Command("leave") /\ tasks' = Append(tasks, u) /\ rendered' = rendered \ {cs}
        /\ inRange' = inRange \ {cs} /\ enabled' = enabled \ {cs} /\ cs \in inRange
        /\ model' = model
    BY <1>8 DEF Leave
  <2>3. \A d \in Callsigns :
          Misplaced(Now', R, d) => Misplaced(Now, inRange, d) \/ u = Task("remove", d)
    <3>1. ASSUME NEW d \in Callsigns, Misplaced(Now', R, d), d # cs
          PROVE  Misplaced(Now, inRange, d)
      BY <1>6, <2>2, <3>1, NowFields, NextFields DEF Misplaced
    <3> QED
      BY <3>1
  <2> HIDE DEF u
  <2>4. R \subseteq Callsigns /\ rendered' \subseteq R /\ enabled' \subseteq R
    BY <1>1, <1>2, <2>2
  <2> QED
    BY <1>1, <1>2, <1>4, <2>1, <2>2, <2>3, <2>4
<1>9. CASE MatchAgain(cs)
  <2> DEFINE u == Task("matchAgain", cs)
  <2>1. u \in Tasks /\ u # all
    BY DEF Task, Tasks, PlainKinds
  <2>2. /\ Command("match") /\ tasks' = Append(tasks, u) /\ rendered' = rendered
        /\ inRange' = inRange /\ enabled' = enabled /\ model' = model
    BY <1>9 DEF MatchAgain, provider
  <2> HIDE DEF u
  <2>3. \A d \in Callsigns : Misplaced(Now', R, d) => Misplaced(Now, inRange, d)
    BY <1>5, <1>6, <2>2
  <2> QED
    BY <1>1, <1>2, <1>4, <2>1, <2>2, <2>3
<1>10. CASE ChangeModel(cs)
  <2>1. PICK m \in Models :
          /\ model' = [model EXCEPT ![cs] = m]
          /\ tasks' = Append(tasks, EnabledTask("model", cs, m, cs \in enabled))
    BY <1>10 DEF ChangeModel
  <2> DEFINE u == EnabledTask("model", cs, m, cs \in enabled)
  <2>2. u \in Tasks /\ u # all
    <3>1. (cs \in enabled) \in BOOLEAN
      OBVIOUS
    <3>2. \A on \in BOOLEAN : /\ EnabledTask("model", cs, m, on) \in Tasks
                              /\ EnabledTask("model", cs, m, on).kind = "model"
      BY DEF EnabledTask, Tasks
    <3>3. u \in Tasks /\ u.kind = "model"
      BY <3>1, <3>2
    <3>4. all.kind = "removeAll"
      OBVIOUS
    <3> QED
      BY <3>3, <3>4
  <2>3. /\ Command("model") /\ tasks' = Append(tasks, u) /\ rendered' = rendered
        /\ inRange' = inRange /\ enabled' = enabled
    BY <1>10, <2>1 DEF ChangeModel
  <2> HIDE DEF u
  <2>4. \A d \in Callsigns : Misplaced(Now', R, d) => Misplaced(Now, inRange, d)
    BY <1>5, <1>6, <2>3
  <2>5. model' \in [Callsigns -> Models]
    BY <1>1, <2>1
  <2> QED
    BY <1>1, <1>2, <1>4, <2>2, <2>3, <2>4, <2>5
<1>11. CASE ToggleEnabled(cs)
  <2> DEFINE u == EnabledTask("enabled", cs, model[cs], cs \notin enabled)
  <2>1. u \in Tasks /\ u # all
    <3>1. (cs \notin enabled) \in BOOLEAN /\ model[cs] \in Models
      BY <1>1
    <3>2. \A on \in BOOLEAN, m \in Models :
            /\ EnabledTask("enabled", cs, m, on) \in Tasks
            /\ EnabledTask("enabled", cs, m, on).kind = "enabled"
      BY DEF EnabledTask, Tasks
    <3>3. u \in Tasks /\ u.kind = "enabled"
      BY <3>1, <3>2
    <3>4. all.kind = "removeAll"
      OBVIOUS
    <3> QED
      BY <3>3, <3>4
  <2>2. /\ Command("enable") /\ tasks' = Append(tasks, u) /\ rendered' = rendered
        /\ inRange' = inRange /\ enabled' \subseteq enabled \cup {cs} /\ cs \in inRange
        /\ model' = model
    BY <1>11 DEF ToggleEnabled
  <2> HIDE DEF u
  <2>3. \A d \in Callsigns : Misplaced(Now', R, d) => Misplaced(Now, inRange, d)
    BY <1>5, <1>6, <2>2
  <2>4. R \subseteq Callsigns /\ rendered' \subseteq R /\ enabled' \subseteq R
    BY <1>1, <1>2, <2>2
  <2> QED
    BY <1>1, <1>2, <1>4, <2>1, <2>2, <2>3, <2>4
<1> QED
  BY <1>7, <1>8, <1>9, <1>10, <1>11

(* The network is left: a removal for each aircraft, then of all.          *)
LEMMA DisconnectedInv ==
  ASSUME Inv, scenario' = scenario, NetworkDisconnected
  PROVE  Inv'
<1> DEFINE all == [kind |-> "removeAll"]
           S == {Task("remove", cs) : cs \in inRange}
           q == SetToSeq(S)
<1>1. /\ Now \in States /\ Fine(Now, inRange, {}) /\ scenario \in Scenarios
      /\ simulating \in BOOLEAN /\ inRange \subseteq Callsigns
      /\ model \in [Callsigns -> Models] /\ commands \in Nat /\ faults \in Nat
  BY DEF Inv
<1>2. /\ UNCHANGED <<objects, addPending, addAgain, lastRequest, exceptions, inSim, answers,
                     simulating, model, faults>>
      /\ inRange' = {} /\ enabled' = {} /\ rendered' = {} /\ commands' = commands + 1
      /\ tasks' = tasks \o q \o <<all>>
      /\ "disconnect" \in Commands
  BY DEF NetworkDisconnected, Command, world
<1>3. S \subseteq Tasks /\ IsFiniteSet(S)
  <2>1. S \subseteq Tasks
    BY <1>1 DEF Task, Tasks, PlainKinds
  <2>2. IsFiniteSet(inRange)
    BY <1>1, SimConnectAssumption, FS_Subset
  <2> QED
    BY <2>1, <2>2, FiniteTasks DEF S
<1>4. q \in Seq(Tasks)
  BY <1>3, SetToSeqElements
<1> HIDE DEF S, q
<1>5. all \in Tasks /\ all.kind \in DutyKinds
  BY DEF Tasks, DutyKinds
<1> HIDE DEF all
<1>6. tasks \o q \in Seq(Tasks) /\ ToSet(tasks) \subseteq ToSet(tasks \o q)
  <2>1. tasks \in Seq(Tasks)
    BY NowTypes
  <2> QED
    BY <1>4, <2>1, ConcatElements
<1>7. tasks' = Append(tasks \o q, all)
  <2>1. \A p \in Seq(Tasks) : p \o <<all>> = Append(p, all)
    BY <1>5, AppendIsConcat
  <2> QED
    BY <1>2, <1>6, <2>1
<1>8. tasks' \in Seq(Tasks) /\ ToSet(tasks) \subseteq ToSet(tasks') /\ all \in ToSet(tasks')
  <2> DEFINE w == tasks \o q
  <2>1. w \in Seq(Tasks) /\ ToSet(tasks) \subseteq ToSet(w) /\ tasks' = Append(w, all)
    BY <1>6, <1>7
  <2> HIDE DEF w
  <2>2. Append(w, all) \in Seq(Tasks) /\ ToSet(Append(w, all)) = ToSet(w) \cup {all}
    BY <1>5, <2>1, AppendElements
  <2> QED
    BY <2>1, <2>2
<1>9. Now' \in States
  BY <1>2, <1>8, NowTypes, NextTypes
<1>10. Duties(Now, {}) \subseteq Duties(Now', {}) /\ all \in Duties(Now', {})
  BY <1>5, <1>8, NowFields, NextFields DEF Duties
<1>11. Rendering(Now', {}, {})
  BY <1>2, <1>10, NextFields DEF Rendering, ToBeRemoved, AllGo, all
<1>12. Now'.objects = Now.objects /\ Now'.lastRequest = Now.lastRequest
         /\ Now'.inSim = Now.inSim /\ Now'.answers = Now.answers
  BY <1>2, NowFields, NextFields
<1>13. Fine(Now', {}, {})
  BY <1>1, <1>9, <1>10, <1>11, <1>12, CommandFine
<1> QED
  BY <1>1, <1>2, <1>9, <1>13, InvStep

(* Nothing that the driver keeps changes.                                  *)
LEMMA SameInv ==
  ASSUME Inv, scenario' = scenario, simulating' \in BOOLEAN, commands' \in Nat,
         UNCHANGED <<driver, provider, world, faults>>
  PROVE  Inv'
<1>1. Now' = Now /\ inRange' = inRange /\ model' = model /\ faults' = faults
  BY DEF Now, driver, provider, world
<1> QED
  BY <1>1, InvStep DEF Inv

-----------------------------------------------------------------------------
(* No timer, answer or call leads out of the fine states.                  *)
LEMMA InvNext ==
  ASSUME Inv, [Next]_vars
  PROVE  Inv'
<1>1. simulating \in BOOLEAN /\ commands \in Nat
  BY DEF Inv
<1>2. CASE UNCHANGED vars
  <2>1. UNCHANGED <<scenario, driver, simulating, provider, world, commands, faults>>
    BY <1>2 DEF vars
  <2> QED
    BY <1>1, <2>1, SameInv
<1>3. CASE Next
  <2>1. scenario' = scenario
    BY <1>3 DEF Next
  <2>2. CASE Timers
    BY <2>1, <2>2, TimersInv
  <2>3. CASE Answers
    BY <2>1, <2>3, AnswersInv
  <2>4. CASE SimulatorDrops \/ SimulatorRefuses
    BY <2>1, <2>4, SimulatorInv
  <2>5. CASE NetworkDisconnected
    BY <2>1, <2>5, DisconnectedInv
  <2>6. CASE OnSimStopped
    <3>1. /\ UNCHANGED <<driver, provider, world, faults>>
          /\ simulating' = FALSE /\ commands' = commands + 1
      BY <2>6 DEF OnSimStopped, Command, driver, provider
    <3>2. commands' \in Nat
      BY <1>1, <3>1
    <3> QED
      BY <2>1, <3>1, <3>2, SameInv
  <2>7. CASE OnSimRunning
    <3>1. UNCHANGED <<driver, provider, world, commands, faults>> /\ simulating' = TRUE
      BY <2>7 DEF OnSimRunning
    <3> QED
      BY <1>1, <2>1, <3>1, SameInv
  <2>8. ASSUME NEW cs \in Callsigns,
               \/ LightsReceived(cs)
               \/ Appear(cs) \/ Leave(cs) \/ MatchAgain(cs) \/ ChangeModel(cs) \/ ToggleEnabled(cs)
        PROVE  Inv'
    <3>1. CASE LightsReceived(cs)
      BY <2>1, <3>1, SimulatorInv
    <3>2. CASE Appear(cs) \/ Leave(cs) \/ MatchAgain(cs) \/ ChangeModel(cs) \/ ToggleEnabled(cs)
      BY <2>1, <3>2, CommandsInv
    <3> QED
      BY <2>8, <3>1, <3>2
  <2> QED
    BY <1>3, <2>2, <2>3, <2>4, <2>5, <2>6, <2>7, <2>8 DEF Next
<1> QED
  BY <1>2, <1>3

LEMMA InvInit ==
  ASSUME Init
  PROVE  Inv
<1>1. NetworkModel \in Models
  BY SimConnectAssumption DEF NetworkModel
<1>2. /\ objects = [cs \in Callsigns |-> NoObject] /\ addPending = <<>>
      /\ addAgain = [cs \in Callsigns |-> ""] /\ tasks = <<>> /\ lastRequest = 0
      /\ exceptions = 0 /\ inRange = {} /\ enabled = {} /\ rendered = {} /\ inSim = {}
      /\ answers = <<>>
  BY DEF Init
<1>3. <<>> \in Seq(Pendings) /\ <<>> \in Seq(Tasks) /\ <<>> \in Seq(Answered)
  OBVIOUS
<1>4. Now \in States
  <2>1. objects \in [Callsigns -> Objs]
    BY <1>2, NoObjectType
  <2>2. addAgain \in [Callsigns -> Models \cup {""}]
    BY <1>2
  <2>3. exceptions \in 0..IgnoreReceiveExceptions
    <3>1. exceptions = 0
      BY <1>2
    <3> QED
      BY <3>1 DEF IgnoreReceiveExceptions
  <2> QED
    BY <1>2, <1>3, <2>1, <2>2, <2>3 DEF Now, States
<1>5. /\ \A cs \in Callsigns : Now.objects[cs] = NoObject
      /\ Now.inSim = {} /\ Now.rendered = {} /\ Now.enabled = {} /\ Now.lastRequest = 0
      /\ Now.answers = <<>> /\ Now.tasks = <<>>
  BY <1>2, NowFields
<1>6. Len(Now.answers) = 0 /\ \A i \in 1..Len(Now.answers) : FALSE
  BY <1>5
<1>7. Duties(Now, {}) = {}
  BY <1>5 DEF Duties, ToSet
<1>8. Sound(Now)
  <2>1. Numbered(Now)
    BY <1>5, <1>6, NoObjectType DEF Numbered
  <2>2. Stages(Now) /\ OneAdded(Now)
    BY <1>5, NoObjectType DEF Stages, OneAdded, PendingAdded
  <2>3. InOrder(Now) /\ Truthful(Now)
    BY <1>5, <1>6, NoObjectType DEF InOrder, Truthful
  <2> QED
    BY <2>1, <2>2, <2>3 DEF Sound
<1>9. Rendering(Now, {}, {})
  BY <1>5, <1>7, NoObjectType DEF Rendering, Misplaced, AllGo
<1>10. Tracked(Now, {}) /\ Current(Now)
  BY <1>5, <1>6 DEF Tracked, Current
<1>11. model \in [Callsigns -> Models]
  BY <1>1 DEF Init
<1> QED
  BY <1>2, <1>4, <1>8, <1>9, <1>10, <1>11 DEF Init, Inv, Fine

(***************************************************************************)
(* The inductive invariant: requests, answers, entries and objects of the  *)
(* simulator fit together, whatever order timers, answers, faults and      *)
(* calls come in.                                                          *)
(***************************************************************************)
THEOREM ObjectsInvHolds == Spec => []Inv
<1>1. Init => Inv
  BY InvInit
<1>2. Inv /\ [Next]_vars => Inv'
  BY InvNext
<1> QED
  BY <1>1, <1>2, PTL DEF Spec

(***************************************************************************)
(* The types, and the limits of the failure counters: no aircraft is tried *)
(* more often than addingAircraftFailed and simulatorReportedObjectRemoved *)
(* allow, and only aircraft in range are enabled or rendered.              *)
(***************************************************************************)
THEOREM ObjectsTyped == Spec => []TypeOK
<1>1. ASSUME Inv PROVE TypeOK
  <2>1. Numbered(Now) /\ Rendering(Now, inRange, {})
    BY <1>1 DEF Inv, Fine, Sound
  <2>2. rendered \subseteq inRange /\ enabled \subseteq inRange
    BY <2>1, NowFields DEF Rendering
  <2>3. /\ objects \in [Callsigns -> Objs] /\ addAgain \in [Callsigns -> Models \cup {""}]
        /\ exceptions \in 0..IgnoreReceiveExceptions /\ lastRequest \in Nat
    BY <1>1, NowTypes
  <2>4. ASSUME NEW cs \in Callsigns
        PROVE  /\ objects[cs].req \in 0..lastRequest
               /\ objects[cs].adding \in 0..ThresholdAddException
               /\ objects[cs].removals \in 0..ThresholdAddedAndDirectlyRemoved
               /\ objects[cs].model \in Models \cup {""}
               /\ addAgain[cs] \in Models \cup {""}
    <3>1. objects[cs] \in ObjRecords
      BY <2>3 DEF Objs
    <3>2. /\ objects[cs].req \in Nat /\ objects[cs].adding \in 0..ThresholdAddException
          /\ objects[cs].removals \in 0..ThresholdAddedAndDirectlyRemoved
          /\ objects[cs].model \in Models \cup {""}
      BY <3>1 DEF ObjRecords
    <3>3. objects[cs].req <= lastRequest
      BY <2>1, NowFields DEF Numbered
    <3>4. objects[cs].req \in 0..lastRequest
      <4>1. lastRequest \in Nat
        BY <2>3
      <4>2. objects[cs].req \in Nat
        BY <3>2
      <4> QED
        BY <3>3, <4>1, <4>2
    <3> QED
      BY <2>3, <3>2, <3>4
  <2>5. ASSUME NEW p \in ToSet(addPending) PROVE p.cs \in Callsigns /\ p.model \in Models
    <3>1. addPending \in Seq(Pendings)
      BY <1>1, NowTypes
    <3>2. PICK i \in DOMAIN addPending : p = addPending[i]
      BY DEF ToSet
    <3>3. p \in Pendings
      BY <3>1, <3>2, LenProperties, ElementOfSeq
    <3> QED
      BY <3>3 DEF Pendings
  <2> QED
    BY <2>2, <2>3, <2>4, <2>5 DEF TypeOK
<1> QED
  BY <1>1, ObjectsInvHolds, PTL

(***************************************************************************)
(* The assertion of physicallyAddRemoteAircraftImpl: at most one object is *)
(* pending added, for any number of aircraft and orders of timers, answers *)
(* and calls.                                                              *)
(***************************************************************************)
THEOREM OnePendingAddedHolds == Spec => []OnePendingAdded
<1>1. ASSUME Inv PROVE OnePendingAdded
  <2> DEFINE P == {cs \in Callsigns : PendingAdded(objects[cs])}
  <2>1. \A a, b \in P : a = b
    BY <1>1, NowFields DEF Inv, Fine, Sound, OneAdded
  <2>2. CASE P = {}
    <3>1. Cardinality(P) = 0
      BY <2>2, FS_EmptySet
    <3> QED
      BY <3>1 DEF OnePendingAdded
  <2>3. CASE P # {}
    <3>1. PICK a : a \in P
      BY <2>3
    <3>2. P = {a}
      BY <2>1, <3>1
    <3>3. Cardinality(P) = 1
      BY <3>2, FS_Singleton
    <3> QED
      BY <3>3 DEF OnePendingAdded
  <2> QED
    BY <2>2, <2>3
<1> QED
  BY <1>1, ObjectsInvHolds, PTL

(***************************************************************************)
(* No entry of m_simConnectObjects outlives its object: one with an id is  *)
(* in the simulator, or its removal is among the answers that SimConnect   *)
(* has sent.                                                               *)
(***************************************************************************)
THEOREM NoPhantomHolds == Spec => []NoPhantom
<1>1. ASSUME Inv PROVE NoPhantom
  <2>1. Truthful(Now)
    BY <1>1 DEF Inv, Fine, Sound
  <2>2. answers \in Seq(Answered)
    BY <1>1, NowTypes
  <2>3. DOMAIN answers = 1..Len(answers)
    BY <2>2, LenProperties
  <2>4. \A j \in 1..Len(answers) : answers[j] \in ToSet(answers)
    BY <2>3 DEF ToSet
  <2>5. ASSUME NEW cs \in Callsigns, objects[cs].assigned
        PROVE  \/ \E x \in inSim : x.id = objects[cs].req
               \/ \E j \in 1..Len(answers) :
                    answers[j].kind = "removed" /\ answers[j].req = objects[cs].req
    BY <2>1, <2>5, NowFields DEF Truthful, InSim, Removal
  <2> QED
    BY <2>4, <2>5 DEF NoPhantom
<1> QED
  BY <1>1, ObjectsInvHolds, PTL

(***************************************************************************)
(* With prompt answers, and as long as the network is not left, an object  *)
(* in the simulator is always the one that the driver keeps for its        *)
(* callsign, so that the driver can remove it.                             *)
(***************************************************************************)
THEOREM NoGhostsHolds == Spec => []NoGhosts
<1>1. ASSUME Inv PROVE NoGhosts
  BY <1>1, NowFields DEF Inv, Fine, Calm, Tracked, NoGhosts
<1> QED
  BY <1>1, ObjectsInvHolds, PTL

(***************************************************************************)
(* The rendered flag follows the simulator: only confirmed objects are     *)
(* rendered, and when no answer and no timer but the periodic one is under *)
(* way, every aircraft in range that is shown is rendered.                 *)
(***************************************************************************)
THEOREM RenderedAgreesHolds == Spec => []RenderedAgrees
<1>1. ASSUME Inv PROVE RenderedAgrees
  <2>1. Rendering(Now, inRange, {}) /\ Stages(Now) /\ inRange \subseteq Callsigns
    BY <1>1 DEF Inv, Fine, Sound
  <2>2. \A cs \in rendered : objects[cs].confirmed
    BY <2>1, NowFields DEF Rendering
  <2>3. ASSUME Quiet, NEW cs \in inRange, Shown(cs) PROVE cs \in rendered
    <3>1. Duties(Now, {}) = {}
      BY <2>3, NowFields DEF Quiet, Duties, DutyKinds, Timer
    <3>2. ~ToBeRemoved(Now, {}, cs)
      BY <3>1 DEF ToBeRemoved, AllGo
    <3>3. ~Misplaced(Now, inRange, cs)
      BY <2>1, <3>2 DEF Rendering
    <3>4. Exists(objects[cs]) /\ ~objects[cs].pendingRemoved /\ objects[cs].confirmed
      BY <2>1, <2>3, NowFields DEF Shown, Stages
    <3> QED
      BY <3>3, <3>4, NowFields DEF Misplaced
  <2> QED
    BY <2>2, <2>3 DEF RenderedAgrees
<1> QED
  BY <1>1, ObjectsInvHolds, PTL
=============================================================================
