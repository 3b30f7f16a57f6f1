----------------------------- MODULE EchoClient -----------------------------
(***************************************************************************)
(* One client of the hub of EchoSync: what is known of it, what a step of  *)
(* EchoSync can do to it, and that every such step keeps what is known.    *)
(* Nothing here is a variable, so that the argument serves EchoSync, and   *)
(* ValueCache at both of its levels.                                       *)
(***************************************************************************)
EXTENDS Integers, Sequences, FiniteSets, FiniteSetTheorems, SequenceTheorems, TLAPS

(* A broadcast to the clients B of a value of V.                           *)
Told(V, B) == [val : V, by : B]

(***************************************************************************)
(* What matters of one client: the hub's value, its copy, its pending      *)
(* count, both its queues, and who is attached.                            *)
(***************************************************************************)
Views(V, B) ==
  [hub : V, val : V, pending : Int, up : Seq(V), down : Seq(Told(V, B)), attached : SUBSET B]

(* The positions of c's own changes in a queue of broadcasts.              *)
OwnOf(q, c) == {i \in 1..Len(q) : q[i].by = c}

(* The view x of client c, who must adopt the values of A, is right.       *)
Right(c, A, x) ==
  /\ x.pending = Len(x.up) + Cardinality(OwnOf(x.down, c))
  /\ x.up # <<>> => x.up[Len(x.up)] = x.val
  /\ x.down # <<>> => x.down[Len(x.down)].val = x.hub
  /\ x.up = <<>> =>
       \A i \in OwnOf(x.down, c) :
         (\A j \in OwnOf(x.down, c) : j <= i) => x.down[i].val = x.val
  /\ c \in x.attached /\ x.up = <<>> /\ x.down = <<>> => (x.hub \in A => x.val = x.hub)

-----------------------------------------------------------------------------
(* The step from x to y is no step of this client,                         *)
Stays(c, x, y) ==
  /\ y.hub = x.hub /\ y.val = x.val /\ y.pending = x.pending
  /\ y.up = x.up /\ y.down = x.down /\ (c \in y.attached <=> c \in x.attached)

(* or it changes its copy,                                                 *)
Changes(c, x, y) ==
  /\ y.pending = x.pending + 1 /\ y.up = Append(x.up, y.val)
  /\ y.hub = x.hub /\ y.down = x.down /\ (c \in y.attached <=> c \in x.attached)

(* or the hub takes a change of client b, which is called at once,         *)
Called(c, A, x, y) ==
  /\ x.up = <<>> /\ x.down = <<>>
  /\ y.pending = x.pending /\ y.up = x.up /\ y.down = x.down /\ (c \in y.attached <=> c \in x.attached)
  /\ c \in x.attached /\ y.hub \in A => y.val = y.hub

(* or it has it queued,                                                    *)
Posted(c, b, x, y) ==
  /\ y.down = Append(x.down, [val |-> y.hub, by |-> b])
  /\ y.val = x.val /\ y.pending = x.pending /\ (c \in y.attached <=> c \in x.attached)
  /\ IF b = c THEN x.up # <<>> /\ y.hub = Head(x.up) /\ y.up = Tail(x.up) ELSE y.up = x.up

(* or it takes its oldest broadcast,                                       *)
Receives(c, A, x, y) ==
  /\ x.down # <<>> /\ y.down = Tail(x.down)
  /\ y.hub = x.hub /\ y.up = x.up /\ (c \in y.attached <=> c \in x.attached)
  /\ IF Head(x.down).by = c THEN y.pending = x.pending - 1 /\ y.val = x.val
     ELSE /\ y.pending = x.pending
          /\ IF x.pending = 0 THEN c \in x.attached /\ Head(x.down).val \in A => y.val = Head(x.down).val
             ELSE y.val = x.val

(* or it reads the hub's value outside its queue.                          *)
Attaches(A, x, y) ==
  /\ y.hub = x.hub /\ y.pending = x.pending /\ y.up = x.up /\ y.down = x.down
  /\ IF x.pending = 0 THEN x.down = <<>> /\ x.hub \in A => y.val = x.hub
     ELSE y.val = x.val

(* These are all.                                                          *)
ClientStep(c, A, B, x, y) ==
  \/ Stays(c, x, y) \/ Changes(c, x, y) \/ Called(c, A, x, y)
  \/ \E b \in B : Posted(c, b, x, y)
  \/ Receives(c, A, x, y) \/ Attaches(A, x, y)

-----------------------------------------------------------------------------
(* A queue is empty when its length is zero.                               *)
LEMMA EmptyLen ==
  ASSUME NEW S, NEW s \in Seq(S)
  PROVE  /\ Len(s) \in Nat
         /\ s = <<>> <=> Len(s) = 0
  BY EmptySeq, LenProperties

(* The positions of one's own broadcasts form a finite set.                *)
LEMMA OwnFinite ==
  ASSUME NEW S, NEW q \in Seq(S), NEW c
  PROVE  /\ IsFiniteSet(OwnOf(q, c))
         /\ Cardinality(OwnOf(q, c)) \in Nat
<1>1. Len(q) \in Nat
  BY LenProperties
<1>2. OwnOf(q, c) \in SUBSET (1..Len(q))
  BY DEF OwnOf
<1>3. IsFiniteSet(1..Len(q))
  BY <1>1, FS_Interval
<1>4. IsFiniteSet(OwnOf(q, c))
  BY <1>2, <1>3, FS_Subset
<1> QED
  BY <1>4, FS_CardinalityType

(* A broadcast appended to the queue counts when it is one's own.          *)
LEMMA OwnAppend ==
  ASSUME NEW S, NEW q \in Seq(S), NEW m \in S, NEW c
  PROVE  /\ OwnOf(Append(q, m), c) =
              IF m.by = c THEN OwnOf(q, c) \cup {Len(q) + 1} ELSE OwnOf(q, c)
         /\ Cardinality(OwnOf(Append(q, m), c)) =
              Cardinality(OwnOf(q, c)) + (IF m.by = c THEN 1 ELSE 0)
<1>1. /\ Len(q) \in Nat
      /\ Len(Append(q, m)) = Len(q) + 1
      /\ \A i \in 1..Len(q) : Append(q, m)[i] = q[i]
      /\ Append(q, m)[Len(q) + 1] = m
  BY LenProperties, AppendProperties
<1>2. OwnOf(Append(q, m), c) =
        IF m.by = c THEN OwnOf(q, c) \cup {Len(q) + 1} ELSE OwnOf(q, c)
  BY <1>1 DEF OwnOf
<1>3. Len(q) + 1 \notin OwnOf(q, c)
  BY <1>1 DEF OwnOf
<1>4. IsFiniteSet(OwnOf(q, c)) /\ Cardinality(OwnOf(q, c)) \in Nat
  BY OwnFinite
<1>5. Cardinality(OwnOf(q, c) \cup {Len(q) + 1}) = Cardinality(OwnOf(q, c)) + 1
  BY <1>3, <1>4, FS_AddElement
<1> QED
  BY <1>2, <1>4, <1>5

(***************************************************************************)
(* A set of positions without the first, shifted down by one place, is as  *)
(* large as the set without it.                                            *)
(***************************************************************************)
LEMMA ShiftCard ==
  ASSUME NEW n \in Nat, NEW R, R \subseteq 1..n
  PROVE  /\ IsFiniteSet({i \in 1..(n - 1) : i + 1 \in R})
         /\ Cardinality({i \in 1..(n - 1) : i + 1 \in R}) =
              Cardinality(R) - (IF 1 \in R THEN 1 ELSE 0)
         /\ IsFiniteSet(R) /\ Cardinality(R) \in Nat
<1> DEFINE S == {i \in 1..(n - 1) : i + 1 \in R}
           T == R \ {1}
           f == [i \in S |-> i + 1]
<1>1. f \in Bijection(S, T)
  <2>1. \A i \in S : i + 1 \in T
    OBVIOUS
  <2>2. \A i, j \in S : i + 1 = j + 1 => i = j
    OBVIOUS
  <2>3. \A k \in T : \E i \in S : i + 1 = k
    <3> SUFFICES ASSUME NEW k \in T PROVE k - 1 \in S /\ (k - 1) + 1 = k
      OBVIOUS
    <3>1. k \in 2..n
      OBVIOUS
    <3> QED
      BY <3>1
  <2>4. f \in [S -> T]
    BY <2>1
  <2>5. f \in Injection(S, T)
    BY <2>2, <2>4 DEF Injection, IsInjective
  <2>6. f \in Surjection(S, T)
    BY <2>3, <2>4 DEF Surjection
  <2> QED
    BY <2>5, <2>6 DEF Bijection
<1>2. IsFiniteSet(1..n) /\ IsFiniteSet(1..(n - 1))
  BY FS_Interval
<1>3. IsFiniteSet(S)
  BY <1>2, FS_Subset
<1>4. Cardinality(T) = Cardinality(S)
  <2>1. ExistsBijection(S, T)
    BY <1>1 DEF ExistsBijection
  <2> QED
    BY <2>1, <1>3, FS_Bijection
<1>5. IsFiniteSet(R) /\ Cardinality(R) \in Nat
  BY <1>2, FS_Subset, FS_CardinalityType
<1>6. Cardinality(T) = IF 1 \in R THEN Cardinality(R) - 1 ELSE Cardinality(R)
  BY <1>5, FS_RemoveElement
<1> QED
  BY <1>3, <1>4, <1>5, <1>6

(* Taking the oldest broadcast shifts the others down by one place.        *)
LEMMA OwnTail ==
  ASSUME NEW S, NEW q \in Seq(S), q # <<>>, NEW c
  PROVE  Cardinality(OwnOf(Tail(q), c)) =
           Cardinality(OwnOf(q, c)) - (IF Head(q).by = c THEN 1 ELSE 0)
<1>1. /\ Len(q) \in Nat \ {0}
      /\ Len(Tail(q)) = Len(q) - 1
      /\ \A i \in 1..(Len(q) - 1) : Tail(q)[i] = q[i + 1]
      /\ Head(q) = q[1]
  BY LenProperties, HeadTailProperties, EmptySeq
<1>2. OwnOf(Tail(q), c) = {i \in 1..(Len(q) - 1) : i + 1 \in OwnOf(q, c)}
  BY <1>1 DEF OwnOf
<1>3. OwnOf(q, c) \subseteq 1..Len(q) /\ (1 \in OwnOf(q, c) <=> Head(q).by = c)
  BY <1>1 DEF OwnOf
<1>4. ASSUME NEW n \in Nat, NEW R, R \subseteq 1..n
      PROVE  Cardinality({i \in 1..(n - 1) : i + 1 \in R}) =
               Cardinality(R) - (IF 1 \in R THEN 1 ELSE 0)
  BY <1>4, ShiftCard
<1>5. Cardinality({i \in 1..(Len(q) - 1) : i + 1 \in OwnOf(q, c)}) =
        Cardinality(OwnOf(q, c)) - (IF 1 \in OwnOf(q, c) THEN 1 ELSE 0)
  <2> DEFINE R == OwnOf(q, c)
             n == Len(q)
  <2>1. n \in Nat /\ R \subseteq 1..n
    BY <1>1, <1>3
  <2> HIDE DEF R, n
  <2>2. Cardinality({i \in 1..(n - 1) : i + 1 \in R}) =
          Cardinality(R) - (IF 1 \in R THEN 1 ELSE 0)
    BY <1>4, <2>1
  <2> QED
    BY <2>2 DEF R, n
<1> QED
  BY <1>2, <1>3, <1>5

-----------------------------------------------------------------------------
(* Nothing of it is pending: nothing is in flight.                         *)
LEMMA NothingPending ==
  ASSUME NEW c, NEW A, NEW V, NEW B, NEW x \in Views(V, B), Right(c, A, x)
  PROVE  /\ x.pending = 0 => x.up = <<>> /\ OwnOf(x.down, c) = {}
         /\ x.up = <<>> /\ OwnOf(x.down, c) = {} => x.pending = 0
         /\ x.pending \in Nat
<1>1. /\ x.up \in Seq(V) /\ x.down \in Seq(Told(V, B))
      /\ x.pending = Len(x.up) + Cardinality(OwnOf(x.down, c))
  BY DEF Views, Right
<1>2. Len(x.up) \in Nat /\ (x.up = <<>> <=> Len(x.up) = 0)
  BY <1>1, EmptyLen
<1>3. IsFiniteSet(OwnOf(x.down, c)) /\ Cardinality(OwnOf(x.down, c)) \in Nat
  BY <1>1, OwnFinite
<1>4. Cardinality(OwnOf(x.down, c)) = 0 <=> OwnOf(x.down, c) = {}
  BY <1>3, FS_EmptySet
<1> QED
  BY <1>1, <1>2, <1>3, <1>4

(* An optimistic change of its own keeps a client right.                   *)
LEMMA ChangesKeepsRight ==
  ASSUME NEW c, NEW A, NEW V, NEW B, NEW x \in Views(V, B), NEW y \in Views(V, B),
         Right(c, A, x), Changes(c, x, y)
  PROVE  Right(c, A, y)
<1>1. /\ x.up \in Seq(V) /\ x.down \in Seq(Told(V, B)) /\ y.val \in V
      /\ y.up = Append(x.up, y.val) /\ y.down = x.down /\ y.hub = x.hub
      /\ y.pending = x.pending + 1
  BY DEF Views, Changes
<1>2. /\ Len(x.up) \in Nat
      /\ Len(y.up) = Len(x.up) + 1
      /\ y.up # <<>>
      /\ y.up[Len(x.up) + 1] = y.val
  BY <1>1, LenProperties, AppendProperties
<1>3. Cardinality(OwnOf(x.down, c)) \in Nat
  BY <1>1, OwnFinite
<1>4. y.pending = Len(y.up) + Cardinality(OwnOf(y.down, c))
  BY <1>1, <1>2, <1>3 DEF Right
<1> QED
  BY <1>1, <1>2, <1>4 DEF Right

(* A client that is called at once stays right.                            *)
LEMMA CalledKeepsRight ==
  ASSUME NEW c, NEW A, NEW V, NEW B, NEW x \in Views(V, B), NEW y \in Views(V, B),
         Right(c, A, x), Called(c, A, x, y)
  PROVE  Right(c, A, y)
<1>1. OwnOf(<<>>, c) = {}
  BY DEF OwnOf
<1> QED
  BY <1>1 DEF Right, Called

(* A client to which a change is posted stays right.                       *)
LEMMA PostedKeepsRight ==
  ASSUME NEW c, NEW A, NEW V, NEW B, NEW b \in B,
         NEW x \in Views(V, B), NEW y \in Views(V, B),
         Right(c, A, x), Posted(c, b, x, y)
  PROVE  Right(c, A, y)
<1> DEFINE m == [val |-> y.hub, by |-> b]
<1>1. /\ m \in Told(V, B)
      /\ x.up \in Seq(V) /\ x.down \in Seq(Told(V, B))
      /\ y.down = Append(x.down, m) /\ y.val = x.val /\ y.pending = x.pending
      /\ x.pending = Len(x.up) + Cardinality(OwnOf(x.down, c))
  BY DEF Views, Told, Posted, Right
<1>2. m.by = b /\ m.val = y.hub
  OBVIOUS
<1> HIDE DEF m
<1>3. /\ Len(x.down) \in Nat
      /\ Len(y.down) = Len(x.down) + 1
      /\ y.down # <<>>
      /\ \A i \in 1..Len(x.down) : y.down[i] = x.down[i]
      /\ y.down[Len(x.down) + 1] = m
  BY <1>1, AppendProperties, LenProperties
<1>4. /\ OwnOf(y.down, c) =
          IF b = c THEN OwnOf(x.down, c) \cup {Len(x.down) + 1} ELSE OwnOf(x.down, c)
      /\ Cardinality(OwnOf(y.down, c)) =
          Cardinality(OwnOf(x.down, c)) + (IF b = c THEN 1 ELSE 0)
      /\ Cardinality(OwnOf(x.down, c)) \in Nat
  <2>1. /\ OwnOf(Append(x.down, m), c) =
            IF m.by = c THEN OwnOf(x.down, c) \cup {Len(x.down) + 1}
                        ELSE OwnOf(x.down, c)
        /\ Cardinality(OwnOf(Append(x.down, m), c)) =
            Cardinality(OwnOf(x.down, c)) + (IF m.by = c THEN 1 ELSE 0)
    <3> DEFINE q == x.down
    <3>1. q \in Seq(Told(V, B))
      BY <1>1
    <3> HIDE DEF q
    <3>2. /\ OwnOf(Append(q, m), c) =
              IF m.by = c THEN OwnOf(q, c) \cup {Len(q) + 1} ELSE OwnOf(q, c)
          /\ Cardinality(OwnOf(Append(q, m), c)) =
              Cardinality(OwnOf(q, c)) + (IF m.by = c THEN 1 ELSE 0)
      BY <1>1, <3>1, OwnAppend
    <3> QED
      BY <3>2 DEF q
  <2>2. Cardinality(OwnOf(x.down, c)) \in Nat
    BY <1>1, OwnFinite
  <2> QED
    BY <1>1, <1>2, <2>1, <2>2
<1>5. \A i \in OwnOf(x.down, c) : i \in 1..Len(x.down)
  BY DEF OwnOf
<1>6. y.down[Len(y.down)].val = y.hub
  BY <1>2, <1>3
<1>7. CASE b # c
  <2>1. y.up = x.up
    BY <1>7 DEF Posted
  <2>2. /\ OwnOf(y.down, c) = OwnOf(x.down, c)
        /\ Cardinality(OwnOf(y.down, c)) = Cardinality(OwnOf(x.down, c))
    BY <1>4, <1>7
  <2>3. x.up = <<>> =>
          \A i \in OwnOf(x.down, c) :
            (\A j \in OwnOf(x.down, c) : j <= i) => x.down[i].val = x.val
    BY DEF Right
  <2>4. y.up = <<>> =>
          \A i \in OwnOf(y.down, c) :
            (\A j \in OwnOf(y.down, c) : j <= i) => y.down[i].val = y.val
    BY <1>1, <1>3, <1>5, <2>1, <2>2, <2>3
  <2>5. y.up # <<>> => y.up[Len(y.up)] = y.val
    BY <1>1, <2>1 DEF Right
  <2> QED
    BY <1>1, <1>3, <1>6, <2>1, <2>2, <2>4, <2>5 DEF Right
<1>8. CASE b = c
  <2>1. x.up # <<>> /\ y.hub = Head(x.up) /\ y.up = Tail(x.up)
    BY <1>8 DEF Posted
  <2>2. /\ Len(x.up) \in Nat \ {0}
        /\ y.up \in Seq(V)
        /\ Len(y.up) = Len(x.up) - 1
        /\ \A i \in 1..Len(y.up) : y.up[i] = x.up[i + 1]
        /\ y.hub = x.up[1]
    BY <1>1, <2>1, HeadTailProperties, LenProperties, EmptySeq
  <2>3. y.up = <<>> <=> Len(x.up) = 1
    <3>1. y.up = <<>> <=> Len(y.up) = 0
      BY <2>2, EmptyLen
    <3> QED
      BY <2>2, <3>1
  <2>4. x.up[Len(x.up)] = x.val
    BY <2>1 DEF Right
  <2>5. y.pending = Len(y.up) + Cardinality(OwnOf(y.down, c))
    <3>1. Cardinality(OwnOf(y.down, c)) = Cardinality(OwnOf(x.down, c)) + 1
      BY <1>4, <1>8
    <3> QED
      BY <1>1, <1>4, <2>2, <3>1
  <2>6. y.up # <<>> => y.up[Len(y.up)] = y.val
    <3> SUFFICES ASSUME y.up # <<>> PROVE y.up[Len(y.up)] = y.val
      OBVIOUS
    <3>1. Len(y.up) \in 1..Len(y.up) /\ Len(y.up) + 1 = Len(x.up)
      BY <2>2, <2>3
    <3>2. y.up[Len(y.up)] = x.up[Len(x.up)]
      BY <2>2, <3>1
    <3> QED
      BY <1>1, <2>4, <3>2
  <2>7. y.up = <<>> =>
          \A i \in OwnOf(y.down, c) :
            (\A j \in OwnOf(y.down, c) : j <= i) => y.down[i].val = y.val
    <3> SUFFICES ASSUME y.up = <<>>, NEW i \in OwnOf(y.down, c),
                        \A j \in OwnOf(y.down, c) : j <= i
                 PROVE  y.down[i].val = y.val
      OBVIOUS
    <3>1. Len(x.down) + 1 \in OwnOf(y.down, c)
      BY <1>4, <1>8
    <3>2. i = Len(x.down) + 1
      BY <1>3, <1>4, <1>5, <1>8, <3>1
    <3>3. y.down[i].val = x.up[1] /\ Len(x.up) = 1
      BY <1>2, <1>3, <2>2, <2>3, <3>2
    <3> QED
      BY <1>1, <2>4, <3>3
  <2> QED
    BY <1>3, <1>6, <2>5, <2>6, <2>7 DEF Right
<1> QED
  BY <1>7, <1>8

(***************************************************************************)
(* A client that takes its oldest broadcast stays right.  The delicate     *)
(* case is a foreign broadcast that is ignored although it is the last     *)
(* one: the exact count excludes it, for the pending change is then still  *)
(* on its way to the hub.                                                  *)
(***************************************************************************)
LEMMA ReceivesKeepsRight ==
  ASSUME NEW c, NEW A, NEW V, NEW B, NEW x \in Views(V, B), NEW y \in Views(V, B),
         Right(c, A, x), Receives(c, A, x, y)
  PROVE  Right(c, A, y)
<1> DEFINE q == x.down
           m == Head(x.down)
<1>1. /\ q \in Seq(Told(V, B)) /\ q # <<>>
      /\ x.up \in Seq(V)
      /\ y.down = Tail(q) /\ y.up = x.up /\ y.hub = x.hub /\ (c \in y.attached <=> c \in x.attached)
  BY DEF Views, Receives
<1>2. /\ m = q[1]
      /\ Tail(q) \in Seq(Told(V, B))
      /\ Len(q) \in Nat \ {0}
      /\ Len(Tail(q)) = Len(q) - 1
      /\ \A i \in 1..(Len(q) - 1) : Tail(q)[i] = q[i + 1]
  BY <1>1, HeadTailProperties, LenProperties, EmptySeq
<1>3. Tail(q) = <<>> <=> Len(q) = 1
  <2>1. Tail(q) = <<>> <=> Len(Tail(q)) = 0
    BY <1>2, EmptyLen
  <2> QED
    BY <1>2, <2>1
<1>4. /\ Cardinality(OwnOf(Tail(q), c)) =
          Cardinality(OwnOf(q, c)) - (IF m.by = c THEN 1 ELSE 0)
      /\ Cardinality(OwnOf(q, c)) \in Nat
  BY <1>1, OwnTail, OwnFinite
<1>5. OwnOf(q, c) = {i \in 1..Len(q) : q[i].by = c}
  BY DEF OwnOf
<1>6. OwnOf(Tail(q), c) = {i \in 1..(Len(q) - 1) : q[i + 1].by = c}
  BY <1>2 DEF OwnOf
<1>7. /\ x.pending = Len(x.up) + Cardinality(OwnOf(q, c))
      /\ Len(x.up) \in Nat
      /\ x.up = <<>> <=> Len(x.up) = 0
  BY <1>1, EmptyLen DEF Right
<1>8. q[Len(q)].val = x.hub
  BY <1>1 DEF Right
<1>9. Tail(q) # <<>> => Tail(q)[Len(Tail(q))].val = x.hub
  <2> SUFFICES ASSUME Tail(q) # <<>> PROVE Tail(q)[Len(Tail(q))].val = x.hub
    OBVIOUS
  <2>1. Len(q) - 1 \in 1..(Len(q) - 1) /\ (Len(q) - 1) + 1 = Len(q)
    BY <1>2, <1>3
  <2> QED
    BY <1>2, <1>8, <2>1
<1>10. x.up # <<>> => x.up[Len(x.up)] = x.val
  BY DEF Right
<1>11. x.up = <<>> =>
         \A i \in OwnOf(q, c) : (\A j \in OwnOf(q, c) : j <= i) => q[i].val = x.val
  BY DEF Right
(* the last echo of the tail is the last echo of the whole queue           *)
<1>12. x.up = <<>> =>
         \A i \in OwnOf(Tail(q), c) :
           (\A j \in OwnOf(Tail(q), c) : j <= i) => Tail(q)[i].val = x.val
  <2> SUFFICES ASSUME x.up = <<>>, NEW i \in OwnOf(Tail(q), c),
                      \A j \in OwnOf(Tail(q), c) : j <= i
               PROVE  Tail(q)[i].val = x.val
    OBVIOUS
  <2>1. i \in 1..(Len(q) - 1) /\ i + 1 \in OwnOf(q, c)
    BY <1>2, <1>5, <1>6
  <2>2. ASSUME NEW j \in OwnOf(q, c) PROVE j <= i + 1
    <3>1. CASE j = 1
      BY <3>1, <2>1, <1>2
    <3>2. CASE j # 1
      <4>1. j - 1 \in OwnOf(Tail(q), c) /\ j \in Int
        BY <3>2, <1>2, <1>5, <1>6
      <4> QED
        BY <4>1, <2>1, <1>2
    <3> QED
      BY <3>1, <3>2
  <2>3. q[i + 1].val = x.val
    BY <1>11, <2>1, <2>2
  <2> QED
    BY <1>2, <2>1, <2>3
<1>13. CASE m.by = c
  <2>1. y.pending = x.pending - 1 /\ y.val = x.val
    BY <1>13 DEF Receives
  <2>2. y.pending = Len(y.up) + Cardinality(OwnOf(y.down, c))
    <3>1. Cardinality(OwnOf(Tail(q), c)) = Cardinality(OwnOf(q, c)) - 1
      BY <1>4, <1>13
    <3> HIDE DEF q, m
    <3> QED
      BY <1>1, <1>4, <1>7, <2>1, <3>1
  <2>3. x.up = <<>> /\ Tail(q) = <<>> => x.val = x.hub
    <3> SUFFICES ASSUME x.up = <<>>, Tail(q) = <<>> PROVE x.val = x.hub
      OBVIOUS
    <3>1. Len(q) = 1
      BY <1>3
    <3>2. OwnOf(q, c) = {1}
      BY <1>2, <1>5, <1>13, <3>1
    <3> QED
      BY <1>8, <1>11, <3>1, <3>2
  <2> QED
    <3> HIDE DEF q, m
    <3> QED
      BY <1>1, <1>9, <1>10, <1>12, <2>1, <2>2, <2>3 DEF Right
<1>14. CASE m.by # c /\ x.pending = 0
  <2>1. /\ y.pending = x.pending
        /\ c \in x.attached /\ m.val \in A => y.val = m.val
    BY <1>14 DEF Receives
  <2>2. y.pending = Len(y.up) + Cardinality(OwnOf(y.down, c))
    BY <1>1, <1>4, <1>7, <1>14, <2>1
  <2>3. x.up = <<>> /\ OwnOf(q, c) = {}
    BY <1>14, NothingPending
  <2>4. OwnOf(Tail(q), c) = {}
    <3>1. ASSUME NEW i \in OwnOf(Tail(q), c) PROVE FALSE
      <4>1. i + 1 \in OwnOf(q, c)
        BY <1>2, <1>5, <1>6
      <4> QED
        BY <2>3, <4>1
    <3> QED
      BY <3>1
  <2>5. c \in x.attached /\ Tail(q) = <<>> => (x.hub \in A => y.val = x.hub)
    <3> SUFFICES ASSUME c \in x.attached, Tail(q) = <<>> PROVE x.hub \in A => y.val = x.hub
      OBVIOUS
    <3>1. m.val = x.hub
      BY <1>2, <1>3, <1>8
    <3> QED
      BY <2>1, <3>1
  <2> QED
    BY <1>1, <1>9, <2>2, <2>3, <2>4, <2>5 DEF Right
<1>15. CASE m.by # c /\ x.pending # 0
  <2>1. y.pending = x.pending /\ y.val = x.val
    BY <1>15 DEF Receives
  <2>2. y.pending = Len(y.up) + Cardinality(OwnOf(y.down, c))
    BY <1>1, <1>4, <1>7, <1>15, <2>1
  <2>3. ~ (x.up = <<>> /\ Tail(q) = <<>>)
    <3> SUFFICES ASSUME x.up = <<>>, Tail(q) = <<>> PROVE FALSE
      OBVIOUS
    <3>1. OwnOf(q, c) = {}
      BY <1>2, <1>3, <1>5, <1>15
    <3>2. Cardinality(OwnOf(q, c)) = 0
      BY <3>1, FS_EmptySet
    <3> QED
      BY <1>7, <1>15, <3>2
  <2> QED
    BY <1>1, <1>9, <1>10, <1>12, <2>1, <2>2, <2>3 DEF Right
<1> QED
  BY <1>13, <1>14, <1>15

(* A client that reads the hub's value outside its queue stays right.      *)
LEMMA AttachesKeepsRight ==
  ASSUME NEW c, NEW A, NEW V, NEW B, NEW x \in Views(V, B), NEW y \in Views(V, B),
         Right(c, A, x), Attaches(A, x, y)
  PROVE  Right(c, A, y)
<1>1. y.up = x.up /\ y.down = x.down /\ y.hub = x.hub /\ y.pending = x.pending
  BY DEF Attaches
<1>2. CASE x.pending = 0
  <2>1. x.up = <<>> /\ OwnOf(x.down, c) = {}
    BY <1>2, NothingPending
  <2>2. x.down = <<>> /\ x.hub \in A => y.val = x.hub
    BY <1>2 DEF Attaches
  <2> QED
    BY <1>1, <2>1, <2>2 DEF Right
<1>3. CASE x.pending # 0
  <2>1. y.val = x.val
    BY <1>3 DEF Attaches
  <2>2. OwnOf(<<>>, c) = {}
    BY DEF OwnOf
  <2>3. ~ (x.up = <<>> /\ x.down = <<>>)
    BY <1>3, <2>2, NothingPending
  <2> QED
    BY <1>1, <2>1, <2>3 DEF Right
<1> QED
  BY <1>2, <1>3

(***************************************************************************)
(* Whatever EchoSync does, a client that is right stays right.             *)
(***************************************************************************)
LEMMA StepKeepsRight ==
  ASSUME NEW c, NEW A, NEW V, NEW B, NEW x \in Views(V, B), NEW y \in Views(V, B),
         Right(c, A, x), ClientStep(c, A, B, x, y)
  PROVE  Right(c, A, y)
<1>1. CASE Stays(c, x, y)
  BY <1>1 DEF Stays, Right
<1>2. CASE Changes(c, x, y)
  BY <1>2, ChangesKeepsRight
<1>3. CASE Called(c, A, x, y)
  BY <1>3, CalledKeepsRight
<1>4. CASE \E b \in B : Posted(c, b, x, y)
  BY <1>4, PostedKeepsRight
<1>5. CASE Receives(c, A, x, y)
  BY <1>5, ReceivesKeepsRight
<1>6. CASE Attaches(A, x, y)
  BY <1>6, AttachesKeepsRight
<1> QED
  BY <1>1, <1>2, <1>3, <1>4, <1>5, <1>6 DEF ClientStep

(***************************************************************************)
(* A client whose own change is pending changes its copy only itself: the  *)
(* change is counted in the same step.                                     *)
(***************************************************************************)
LEMMA StepReadsOwnWrites ==
  ASSUME NEW c, NEW A, NEW V, NEW B, NEW x \in Views(V, B), NEW y \in Views(V, B),
         Right(c, A, x), ClientStep(c, A, B, x, y),
         x.pending > 0, y.val # x.val
  PROVE  y.pending = x.pending + 1
<1>1. OwnOf(<<>>, c) = {}
  BY DEF OwnOf
<1>2. x.pending # 0 /\ ~ (x.up = <<>> /\ x.down = <<>>)
  BY <1>1, NothingPending DEF Views
<1> QED
  BY <1>2 DEF ClientStep, Stays, Changes, Called, Posted, Receives, Attaches
=============================================================================
