--------------------------- MODULE EchoSyncProofs ---------------------------
(***************************************************************************)
(* Proofs about EchoSync for every set of clients, values and validators   *)
(* and every queue bound: type correctness, the exactness of the pending   *)
(* counter, and convergence.  A step of EchoSync is projected to what it   *)
(* does to one client; EchoClient shows that this keeps the client right.  *)
(***************************************************************************)
EXTENDS EchoSync, EchoClient

-----------------------------------------------------------------------------
(* What EchoClient sees of client c.                                       *)
View(c) ==
  [hub |-> hub, val |-> val[c], pending |-> pending[c], up |-> up[c], down |-> down[c],
   attached |-> attached]

(* The types of EchoSync are the types of its clients.                     *)
LEMMA ViewTyped ==
  ASSUME TypeOK, NEW c \in Clients
  PROVE  View(c) \in Views(Values, Clients \cup {Nobody})
BY DEF TypeOK, View, Views, Told, Broadcasts

(* Every client is right.                                                  *)
AllRight == \A c \in Clients : Right(c, Accepts[c], View(c))

(* The invariant is the type invariant and Right for every client.         *)
LEMMA IInvByClient == IInv <=> TypeOK /\ AllRight
<1>1. TypeOK => attached \subseteq Clients
  BY DEF TypeOK
<1>2. ASSUME NEW c \in Clients
      PROVE  Right(c, Accepts[c], View(c)) <=>
               /\ pending[c] = Len(up[c]) + Cardinality(Own(down[c], c))
               /\ up[c] # <<>> => up[c][Len(up[c])] = val[c]
               /\ down[c] # <<>> => down[c][Len(down[c])].val = hub
               /\ up[c] = <<>> =>
                    \A i \in Own(down[c], c) :
                      (\A j \in Own(down[c], c) : j <= i) => down[c][i].val = val[c]
               /\ c \in attached /\ up[c] = <<>> /\ down[c] = <<>> => Agrees(c)
  <2>1. OwnOf(down[c], c) = Own(down[c], c)
    BY DEF OwnOf, Own
  <2> QED
    BY <2>1 DEF Right, View, Agrees
<1> QED
  BY <1>1, <1>2 DEF IInv, AllRight, PendingExact, Convergence, UpLeadsToVal,
                    DownLeadsToHub, LastEchoIsVal, Echoes

(* The initial states satisfy the invariant.                               *)
LEMMA InitIInv == Init => IInv
<1> SUFFICES ASSUME Init PROVE TypeOK /\ \A c \in Clients : Right(c, Accepts[c], View(c))
  BY IInvByClient DEF AllRight
<1>1. TypeOK
  BY EchoAssumption DEF Init, TypeOK
<1>2. ASSUME NEW c \in Clients PROVE Right(c, Accepts[c], View(c))
  <2>1. up[c] = <<>> /\ down[c] = <<>> /\ pending[c] = 0
    BY DEF Init
  <2>2. Len(up[c]) = 0 /\ OwnOf(down[c], c) = {}
    BY <2>1 DEF OwnOf
  <2>3. Cardinality(OwnOf(down[c], c)) = 0
    BY <2>2, FS_EmptySet
  <2>4. c \in attached => (hub \in Accepts[c] => val[c] = hub)
    BY DEF Init
  <2> QED
    BY <2>1, <2>2, <2>3, <2>4 DEF Right, View
<1> QED
  BY <1>1, <1>2

-----------------------------------------------------------------------------
(* Every step preserves the types.                                         *)
LEMMA StepTypeOK == TypeOK /\ [Next]_echoVars => TypeOK'
<1> SUFFICES ASSUME TypeOK, [Next]_echoVars PROVE TypeOK'
  OBVIOUS
<1> USE EchoAssumption
<1>0. ASSUME NEW v \in Values, NEW c \in Clients \cup {Nobody}, Broadcast(v, c)
      PROVE  /\ hub' \in Values
             /\ val' \in [Clients -> Values]
             /\ down' \in [Clients -> Seq(Broadcasts)]
             /\ \A d \in Direct : down'[d] = down[d]
  <2>1. [val |-> v, by |-> c] \in Broadcasts
    BY DEF Broadcasts
  <2>2. \A d \in Clients : Append(down[d], [val |-> v, by |-> c]) \in Seq(Broadcasts)
    BY <2>1, AppendProperties DEF TypeOK
  <2> QED
    BY <1>0, <2>2 DEF Broadcast, TypeOK
<1>1. ASSUME NEW c \in Clients, NEW v \in Values, Change(c, v) PROVE TypeOK'
  <2>1. Append(up[c], v) \in Seq(Values)
    BY AppendProperties DEF TypeOK
  <2> QED
    BY <1>1, <2>1 DEF Change, TypeOK
<1>2. ASSUME NEW c \in Clients, NEW v \in Values, ChangeDirect(c, v) PROVE TypeOK'
  BY <1>0, <1>2 DEF ChangeDirect, TypeOK
<1>3. ASSUME NEW v \in Values, ChangeHub(v) PROVE TypeOK'
  BY <1>0, <1>3 DEF ChangeHub, TypeOK
<1>4. ASSUME NEW c \in Clients, Relay(c) PROVE TypeOK'
  <2>1. /\ Head(up[c]) \in Values
        /\ Tail(up[c]) \in Seq(Values)
    BY <1>4, HeadTailProperties DEF Relay, TypeOK
  <2> QED
    BY <1>0, <1>4, <2>1 DEF Relay, TypeOK
<1>5. ASSUME NEW c \in Clients, Receive(c) PROVE TypeOK'
  <2>1. /\ Head(down[c]) \in Broadcasts
        /\ Tail(down[c]) \in Seq(Broadcasts)
    BY <1>5, HeadTailProperties DEF Receive, TypeOK
  <2>2. Adopted(c, Head(down[c]).val, attached) \subseteq Values
    BY <2>1 DEF Adopted, Broadcasts, TypeOK
  <2>3. val' = val \/ \E w \in Values : val' = [val EXCEPT ![c] = w]
    BY <1>5, <2>2 DEF Receive
  <2>4. val' \in [Clients -> Values]
    BY <2>3 DEF TypeOK
  <2>5. pending' \in [Clients -> Int]
    <3>1. pending' = pending \/ pending' = [pending EXCEPT ![c] = @ - 1]
      BY <1>5 DEF Receive
    <3> QED
      BY <3>1 DEF TypeOK
  <2> QED
    BY <1>5, <2>1, <2>4, <2>5 DEF Receive, TypeOK
<1>6. ASSUME NEW c \in Clients, Attach(c) PROVE TypeOK'
  <2>1. \A w \in Values : Adopted(c, w, attached') \subseteq Values
    BY DEF Adopted, TypeOK
  <2>2. val' = val \/ \E w \in Values : val' = [val EXCEPT ![c] = w]
    BY <1>6, <2>1 DEF Attach, TypeOK
  <2>3. val' \in [Clients -> Values]
    BY <2>2 DEF TypeOK
  <2> QED
    BY <1>6, <2>3 DEF Attach, TypeOK
<1>7. CASE UNCHANGED echoVars
  BY <1>7 DEF echoVars, TypeOK
<1> QED
  BY <1>1, <1>2, <1>3, <1>4, <1>5, <1>6, <1>7 DEF Next

-----------------------------------------------------------------------------
(* A broadcast of v by b is posted to client c, or c is called at once.    *)
LEMMA BroadcastToClient ==
  ASSUME TypeOK, TypeOK', NEW c \in Clients, NEW v \in Values,
         NEW b \in Clients \cup {Nobody}, Broadcast(v, b),
         pending'[c] = pending[c], attached' = attached,
         IF c = b /\ b \notin Direct
         THEN up[c] # <<>> /\ v = Head(up[c]) /\ up'[c] = Tail(up[c])
         ELSE up'[c] = up[c]
  PROVE  \/ Called(c, Accepts[c], View(c), View(c)')
         \/ Posted(c, b, View(c), View(c)')
<1>1. hub' = v
  BY DEF Broadcast
<1>2. CASE c \in Direct
  <2>1. up[c] = <<>> /\ down[c] = <<>>
    BY <1>2 DEF TypeOK
  <2>2. down'[c] = down[c] /\ up'[c] = up[c]
    BY <1>2 DEF Broadcast
  <2>3. val'[c] \in (IF c = b THEN {v} ELSE Adopted(c, v, attached))
    BY <1>2 DEF Broadcast
  <2>4. c \in attached /\ v \in Accepts[c] => val'[c] = v
    BY <2>3 DEF Adopted
  <2> QED
    BY <1>1, <2>1, <2>2, <2>4 DEF Called, View
<1>3. CASE c \notin Direct
  <2>1. down'[c] = Append(down[c], [val |-> v, by |-> b]) /\ val'[c] = val[c]
    BY <1>3 DEF Broadcast
  <2> QED
    BY <1>1, <1>3, <2>1 DEF Posted, View
<1> QED
  BY <1>2, <1>3

(* What a step of EchoSync does to one client.                             *)
LEMMA NextToClient ==
  ASSUME TypeOK, TypeOK', NEW c \in Clients, [Next]_echoVars
  PROVE  ClientStep(c, Accepts[c], Clients \cup {Nobody}, View(c), View(c)')
<1> USE EchoAssumption
<1>1. ASSUME NEW d \in Clients, NEW v \in Values, Change(d, v)
      PROVE  Stays(c, View(c), View(c)') \/ Changes(c, View(c), View(c)')
  <2>1. CASE d = c
    BY <1>1, <2>1 DEF Change, View, Changes, TypeOK
  <2>2. CASE d # c
    BY <1>1, <2>2 DEF Change, View, Stays, TypeOK
  <2> QED
    BY <2>1, <2>2
<1>2. ASSUME NEW d \in Clients, NEW v \in Values, ChangeDirect(d, v)
      PROVE  Called(c, Accepts[c], View(c), View(c)') \/ Posted(c, d, View(c), View(c)')
  <2>1. /\ Broadcast(v, d) /\ d \in Direct
        /\ pending'[c] = pending[c] /\ attached' = attached /\ up'[c] = up[c]
    BY <1>2 DEF ChangeDirect
  <2> QED
    BY <2>1, BroadcastToClient
<1>3. ASSUME NEW v \in Values, ChangeHub(v)
      PROVE  Called(c, Accepts[c], View(c), View(c)') \/ Posted(c, Nobody, View(c), View(c)')
  <2>1. /\ Broadcast(v, Nobody) /\ c # Nobody
        /\ pending'[c] = pending[c] /\ attached' = attached /\ up'[c] = up[c]
    BY <1>3 DEF ChangeHub
  <2> QED
    BY <2>1, BroadcastToClient
<1>4. ASSUME NEW d \in Clients, Relay(d)
      PROVE  Called(c, Accepts[c], View(c), View(c)') \/ Posted(c, d, View(c), View(c)')
  <2>1. /\ d \notin Direct /\ up[d] # <<>>
        /\ Broadcast(Head(up[d]), d)
        /\ pending'[c] = pending[c] /\ attached' = attached
        /\ up'[c] = IF c = d THEN Tail(up[c]) ELSE up[c]
    BY <1>4 DEF Relay, TypeOK
  <2>2. Head(up[d]) \in Values
    BY <2>1, HeadTailProperties DEF TypeOK
  <2> QED
    BY <2>1, <2>2, BroadcastToClient
<1>5. ASSUME NEW d \in Clients, Receive(d)
      PROVE  Stays(c, View(c), View(c)') \/ Receives(c, Accepts[c], View(c), View(c)')
  <2>1. CASE d = c
    <3>1. ASSUME NEW w \in Adopted(c, Head(down[c]).val, attached)
          PROVE  c \in attached /\ Head(down[c]).val \in Accepts[c] => w = Head(down[c]).val
      BY <3>1 DEF Adopted
    <3>2. /\ down[c] # <<>> /\ down'[c] = Tail(down[c])
          /\ hub' = hub /\ up' = up /\ attached' = attached
          /\ IF Head(down[c]).by = c THEN pending'[c] = pending[c] - 1 /\ val'[c] = val[c]
             ELSE /\ pending'[c] = pending[c]
                  /\ IF pending[c] = 0
                     THEN val'[c] \in Adopted(c, Head(down[c]).val, attached)
                     ELSE val'[c] = val[c]
      BY <1>5, <2>1 DEF Receive, TypeOK
    <3> QED
      BY <3>1, <3>2 DEF View, Receives
  <2>2. CASE d # c
    BY <1>5, <2>2 DEF Receive, View, Stays, TypeOK
  <2> QED
    BY <2>1, <2>2
<1>6. ASSUME NEW d \in Clients, Attach(d)
      PROVE  Stays(c, View(c), View(c)') \/ Attaches(Accepts[c], View(c), View(c)')
  <2>1. CASE d = c
    <3>1. /\ c \in attached'
          /\ hub' = hub /\ pending' = pending /\ up' = up /\ down' = down
          /\ IF pending[c] = 0
             THEN down[c] = <<>> => val'[c] \in Adopted(c, hub, attached')
             ELSE val' = val
      BY <1>6, <2>1 DEF Attach, TypeOK
    <3> QED
      BY <3>1 DEF View, Attaches, Adopted
  <2>2. CASE d # c
    BY <1>6, <2>2 DEF Attach, View, Stays, TypeOK
  <2> QED
    BY <2>1, <2>2
<1>7. ASSUME UNCHANGED echoVars PROVE Stays(c, View(c), View(c)')
  BY <1>7 DEF echoVars, View, Stays
<1> QED
  BY <1>1, <1>2, <1>3, <1>4, <1>5, <1>6, <1>7 DEF Next, ClientStep

(* Every step preserves the inductive invariant.                           *)
LEMMA StepIInv == IInv /\ [Next]_echoVars => IInv'
<1> SUFFICES ASSUME IInv, [Next]_echoVars PROVE IInv'
  OBVIOUS
<1>1. TypeOK /\ TypeOK' /\ \A c \in Clients : Right(c, Accepts[c], View(c))
  BY IInvByClient, StepTypeOK DEF AllRight
<1>2. ASSUME NEW c \in Clients PROVE Right(c, Accepts[c], View(c)')
  <2> DEFINE x == View(c)
             y == View(c)'
             B == Clients \cup {Nobody}
  <2>1. x \in Views(Values, B) /\ Right(c, Accepts[c], x)
    BY <1>1, ViewTyped
  <2>2. y \in Views(Values, B)
    BY <1>1 DEF TypeOK, View, Views, Told, Broadcasts
  <2>3. ClientStep(c, Accepts[c], B, x, y)
    BY <1>1, NextToClient
  <2> HIDE DEF x, y, B
  <2>4. Right(c, Accepts[c], y)
    BY <2>1, <2>2, <2>3, StepKeepsRight
  <2> QED
    BY <2>4 DEF y
<1>3. AllRight'
  BY <1>2 DEF AllRight
<1>4. TypeOK' /\ AllRight' => IInv'
  BY IInvByClient, PTL
<1> QED
  BY <1>1, <1>3, <1>4

-----------------------------------------------------------------------------
(* The inductive invariant holds in every reachable state.                 *)
THEOREM EchoInvariant == Spec => []IInv
<1>1. Init => IInv
  BY InitIInv
<1>2. IInv /\ [Next]_echoVars => IInv'
  BY StepIInv
<1> QED
  BY <1>1, <1>2, PTL DEF Spec

(***************************************************************************)
(* Types; and a client in the hub's thread, which is called at once, never *)
(* has anything queued.                                                    *)
(***************************************************************************)
THEOREM EchoTypeCorrect == Spec => []TypeOK
<1>1. IInv => TypeOK
  BY DEF IInv
<1> QED
  BY <1>1, EchoInvariant, PTL

(***************************************************************************)
(* m_pendingChanges of every client counts exactly its own changes in      *)
(* flight, so neither Q_ASSERT(m_pendingChanges >= 0) can fail.            *)
(***************************************************************************)
THEOREM EchoPendingExact == Spec => []PendingExact
<1>1. IInv => PendingExact
  BY DEF IInv
<1> QED
  BY <1>1, EchoInvariant, PTL

(***************************************************************************)
(* Whatever the order in which changes of several clients cross, a client  *)
(* with nothing in flight holds the hub's value.                           *)
(***************************************************************************)
THEOREM EchoConvergence == Spec => []Convergence
<1>1. IInv => Convergence
  BY DEF IInv
<1> QED
  BY <1>1, EchoInvariant, PTL
=============================================================================
