------------------------------ MODULE EchoSync ------------------------------
(***************************************************************************)
(* What the value cache promises for ONE key, at either of its two levels. *)
(*                                                                         *)
(* A hub holds the authoritative value and puts all changes in one order.  *)
(* Clients keep a copy, change it at once ("optimistically") and send the  *)
(* change to the hub, which broadcasts every change to every client, the   *)
(* originator included.  A client counts its own changes that have not     *)
(* come back yet and ignores every foreign change while there is one:      *)
(* "ratify a change only if own change is not pending, to ensure           *)
(* consistency" (valuecache.cpp 308, 754).                                 *)
(*                                                                         *)
(* The code runs this protocol twice: the CValuePages of a process around  *)
(* their CValueCache, and the CValueCaches of several processes around the *)
(* core's CContextApplication::changeSettings.  ValueCache.tla is shown to *)
(* implement this module at both levels.                                   *)
(***************************************************************************)
EXTENDS Integers, Sequences, FiniteSets

CONSTANTS
  Clients,      \* pages of a process, or processes around the core
  Direct,       \* clients in the hub's own thread: Qt calls their slots at once
  Values,       \* a value together with its timestamp
  Accepts,      \* Accepts[c]: the values client c must adopt (its validator)
  Nobody,       \* the originator of a change made at the hub itself
  MaxQueue      \* bound: events waiting in one queue, or -1 for no bound

ASSUME EchoAssumption ==
  /\ Direct \subseteq Clients
  /\ Nobody \notin Clients
  /\ Accepts \in [Clients -> SUBSET Values]
  /\ MaxQueue \in Nat \cup {-1}

VARIABLES
  hub,          \* the hub's value
  val,          \* val[c]: the client's copy
  pending,      \* pending[c]: m_pendingChanges of the client
  up,           \* up[c]: changes of c the hub has not seen yet, oldest first
  down,         \* down[c]: broadcasts c has not seen yet, oldest first
  attached      \* clients that have taken the hub's value once

echoVars == <<hub, val, pending, up, down, attached>>

Broadcasts == [val : Values, by : Clients \cup {Nobody}]

-----------------------------------------------------------------------------
Init ==
  /\ hub \in Values
  /\ val \in [Clients -> Values]
  /\ attached \in SUBSET {c \in Clients : hub \in Accepts[c] => val[c] = hub}
  /\ pending = [c \in Clients |-> 0]
  /\ up = [c \in Clients |-> <<>>]
  /\ down = [c \in Clients |-> <<>>]

(***************************************************************************)
(* A client must adopt a foreign value of Accepts[c].  What it does with   *)
(* any other value, or before it is attached, is left open: a page keeps   *)
(* its copy or falls back to its default (valuecache.cpp 640-643, 757).    *)
(***************************************************************************)
Adopted(c, v, A) == IF c \in A /\ v \in Accepts[c] THEN {v} ELSE Values

(* Mutant: a client in the hub's thread is wired by queued signals too.    *)
MutBroadcast(v, c) ==
  /\ \A d \in Clients : Len(down[d]) # MaxQueue
  /\ hub' = v
  /\ down' = [d \in Clients |-> Append(down[d], [val |-> v, by |-> c])]
  /\ UNCHANGED val

(* The hub takes v, made by client c (or Nobody), and broadcasts it.       *)
Broadcast(v, c) ==
  /\ \A d \in Clients \ Direct : Len(down[d]) # MaxQueue
  /\ hub' = v
  /\ down' = [d \in Clients |->
                IF d \in Direct THEN down[d]
                ELSE Append(down[d], [val |-> v, by |-> c])]
  /\ val' \in [Clients -> Values]
  /\ \A d \in Clients :
       IF d \in Direct
       THEN val'[d] \in (IF d = c THEN {v} ELSE Adopted(d, v, attached))
       ELSE val'[d] = val[d]

(* A queued client changes its copy and posts the change to the hub.       *)
Change(c, v) ==
  /\ c \notin Direct
  /\ Len(up[c]) # MaxQueue
  /\ val' = [val EXCEPT ![c] = v]
  /\ pending' = [pending EXCEPT ![c] = @ + 1]
  /\ up' = [up EXCEPT ![c] = Append(@, v)]
  /\ UNCHANGED <<hub, down, attached>>

(* A client in the hub's thread: the change has come back when it returns. *)
ChangeDirect(c, v) ==
  /\ c \in Direct
  /\ Broadcast(v, c)
  /\ UNCHANGED <<pending, up, attached>>

(* A change made at the hub itself.                                        *)
ChangeHub(v) ==
  /\ Broadcast(v, Nobody)
  /\ UNCHANGED <<pending, up, attached>>

(* The hub takes the oldest change of a queued client.                     *)
Relay(c) ==
  /\ c \notin Direct
  /\ up[c] # <<>>
  /\ Broadcast(Head(up[c]), c)
  /\ up' = [up EXCEPT ![c] = Tail(@)]
  /\ UNCHANGED <<pending, attached>>

(* Mutants: plausible slips in setValuesFromCache / changeValuesFromRemote. *)
MutReceiveEager(c) ==
  /\ c \notin Direct
  /\ down[c] # <<>>
  /\ down' = [down EXCEPT ![c] = Tail(@)]
  /\ LET m == Head(down[c]) IN
       IF m.by = c
       THEN /\ pending' = [pending EXCEPT ![c] = @ - 1]
            /\ UNCHANGED val
       ELSE /\ UNCHANGED pending
            /\ \E v \in Adopted(c, m.val, attached) : val' = [val EXCEPT ![c] = v]
  /\ UNCHANGED <<hub, up, attached>>

MutReceiveUncounted(c) ==
  /\ c \notin Direct
  /\ down[c] # <<>>
  /\ down' = [down EXCEPT ![c] = Tail(@)]
  /\ LET m == Head(down[c]) IN
       IF pending[c] = 0
       THEN \E v \in Adopted(c, m.val, attached) : val' = [val EXCEPT ![c] = v]
       ELSE UNCHANGED val
  /\ UNCHANGED <<hub, up, attached, pending>>

(* A queued client takes its oldest broadcast.                             *)
Receive(c) ==
  /\ c \notin Direct
  /\ down[c] # <<>>
  /\ down' = [down EXCEPT ![c] = Tail(@)]
  /\ LET m == Head(down[c]) IN
       IF m.by = c
       THEN /\ pending' = [pending EXCEPT ![c] = @ - 1]
            /\ UNCHANGED val
       ELSE /\ UNCHANGED pending
            /\ IF pending[c] = 0
               THEN \E v \in Adopted(c, m.val, attached) : val' = [val EXCEPT ![c] = v]
               ELSE UNCHANGED val
  /\ UNCHANGED <<hub, up, attached>>

(***************************************************************************)
(* A client reads the hub's value outside its queue, which makes it        *)
(* attached.  The value read may be older than the hub's when broadcasts   *)
(* to the client were made since.                                          *)
(***************************************************************************)
Attach(c) ==
  /\ attached' = attached \cup {c}
  /\ IF pending[c] = 0
     THEN \E read \in (IF down[c] = <<>> THEN {hub} ELSE Values) :
          \E v \in Adopted(c, read, attached') : val' = [val EXCEPT ![c] = v]
     ELSE UNCHANGED val
  /\ UNCHANGED <<hub, pending, up, down>>

Next ==
  \/ \E c \in Clients, v \in Values : Change(c, v) \/ ChangeDirect(c, v)
  \/ \E v \in Values : ChangeHub(v)
  \/ \E c \in Clients : Relay(c) \/ Receive(c) \/ Attach(c)

Spec == Init /\ [][Next]_echoVars

-----------------------------------------------------------------------------
(* Type invariant.                                                         *)
TypeOK ==
  /\ hub \in Values
  /\ val \in [Clients -> Values]
  /\ pending \in [Clients -> Int]
  /\ up \in [Clients -> Seq(Values)]
  /\ down \in [Clients -> Seq(Broadcasts)]
  /\ attached \subseteq Clients
  /\ \A c \in Direct : up[c] = <<>> /\ down[c] = <<>>

(* The positions of c's own changes in a queue of broadcasts.              *)
Own(q, c) == {i \in 1..Len(q) : q[i].by = c}

(* c's own changes among the broadcasts it has not seen.                   *)
Echoes(c) == Own(down[c], c)

(***************************************************************************)
(* m_pendingChanges is exact: it counts the client's own changes on their  *)
(* way to the hub plus those on their way back.  Hence it is never         *)
(* negative, which both Q_ASSERTs claim (valuecache.cpp 305, 752), and it  *)
(* never stays positive with nothing in flight, which would make the       *)
(* client deaf for ever.                                                   *)
(***************************************************************************)
PendingExact ==
  \A c \in Clients : pending[c] = Len(up[c]) + Cardinality(Echoes(c))

(* Client c has the hub's value, or has a reason not to.                   *)
Agrees(c) == hub \in Accepts[c] => val[c] = hub

(***************************************************************************)
(* Convergence: an attached client with nothing in flight to or from it    *)
(* holds the hub's value, whatever the order in which changes crossed.     *)
(***************************************************************************)
Convergence ==
  \A c \in attached : up[c] = <<>> /\ down[c] = <<>> => Agrees(c)

(***************************************************************************)
(* The strengthening that makes Convergence inductive: the newest thing    *)
(* in each queue determines the value it leads to.                         *)
(***************************************************************************)
UpLeadsToVal ==
  \A c \in Clients : up[c] # <<>> => up[c][Len(up[c])] = val[c]

DownLeadsToHub ==
  \A c \in Clients : down[c] # <<>> => down[c][Len(down[c])].val = hub

LastEchoIsVal ==
  \A c \in Clients : up[c] = <<>> =>
    \A i \in Echoes(c) : (\A j \in Echoes(c) : j <= i) => down[c][i].val = val[c]

IInv ==
  /\ TypeOK
  /\ PendingExact
  /\ Convergence
  /\ UpLeadsToVal
  /\ DownLeadsToHub
  /\ LastEchoIsVal
=============================================================================
