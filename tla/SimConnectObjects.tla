-------------------------- MODULE SimConnectObjects --------------------------
(***************************************************************************)
(* The remote aircraft of the FSX/P3D driver (CSimulatorFsxCommon): how    *)
(* they are added to the simulator through SimConnect, confirmed, changed, *)
(* and removed.                                                            *)
(*                                                                         *)
(* An aircraft is created by a request; the simulator answers later with   *)
(* the id of the object, or with an exception, and may remove objects on   *)
(* its own.  Only one request is under way at a time, the other aircraft   *)
(* wait in m_addPendingAircraft.  Whatever takes time is a single shot     *)
(* timer, so that calls of the network context, answers of the simulator   *)
(* and timers come in many orders.                                         *)
(*                                                                         *)
(* A timer is a task in the sequence `tasks', in the order of starting; it *)
(* cannot fire before a timer that was started earlier and is not longer.  *)
(* SimConnect is external: it creates and removes at once, but its answers *)
(* wait in `answers'.  Request ids are numbered; the id of an object is    *)
(* that of its request.                                                    *)
(*                                                                         *)
(* Left out: terrain probes, positions and parts, restricted rendering,    *)
(* adding as simulated object, test mode, the loss of the simulator, model *)
(* matching (any model may be the result) and its failover, and calls that *)
(* SimConnect rejects at once (releaseAIControl, 1096, and the request for *)
(* an object, 1825).  The assertion of onSimulatorObjectAddingConfirmed    *)
(* (1104), that an object is confirmed only once, is not a guard: a second *)
(* verification can confirm it again.                                      *)
(***************************************************************************)
EXTENDS Integers, Sequences, FiniteSets, SequencesExt

CONSTANTS
  Callsigns,
  Models,
  Scenarios   \* which commands and faults, see below

VARIABLE scenario   \* the one of this behaviour

Aircraft    == scenario.aircraft      \* the aircraft that may appear
Commands    == scenario.commands      \* what the contexts may call
MaxCommands == scenario.maxCommands   \* bound: calls of the contexts
Faults      == scenario.faults        \* what the simulator may do wrong
MaxFaults   == scenario.maxFaults     \* bound: faults of the simulator
Prompt      == scenario.prompt        \* it answers before the driver goes on
Situation   == scenario.situation     \* the position that an aircraft has

ASSUME SimConnectAssumption ==
  /\ IsFiniteSet(Callsigns)
  /\ Models # {} /\ "" \notin Models
  /\ \A s \in Scenarios :
       /\ s.aircraft \subseteq Callsigns
       /\ s.commands \subseteq
            {"appear", "leave", "match", "model", "enable", "disconnect", "stop"}
       /\ s.faults \subseteq {"refuse", "drop"}
       /\ s.maxCommands \in Nat /\ s.maxFaults \in Nat
       /\ s.prompt \in BOOLEAN
       /\ s.situation \in {"valid", "stored", "none"}

ThresholdAddException            == 1   \* one failure allowed
ThresholdAddedAndDirectlyRemoved == 2   \* two failures allowed
IgnoreReceiveExceptions          == 3   \* 10 in the code

VARIABLES
  objects,     \* m_simConnectObjects
  addPending,  \* m_addPendingAircraft, the oldest time stamp first
  addAgain,    \* m_addAgainAircraftWhenRemoved: the models of each callsign
  tasks,       \* running timers and queued calls, as they were started
  lastRequest, \* m_requestIdSimObjAircraft
  exceptions,  \* m_receiveExceptionCount, up to IgnoreReceiveExceptions
  simulating,  \* isSimulating
  inRange,     \* the provider: aircraft in range,
  enabled,     \*   enabled,
  rendered,    \*   marked as rendered,
  model,       \*   and the model of each
  inSim,       \* external: the objects in the simulator
  answers,     \* external: what it has sent, oldest first
  commands,    \* number of calls of the contexts
  faults       \* number of faults

driver   == <<objects, addPending, addAgain, tasks, lastRequest, exceptions>>
provider == <<inRange, enabled, rendered, model>>
world    == <<inSim, answers>>
vars == <<scenario, driver, simulating, provider, world, commands, faults>>

-----------------------------------------------------------------------------
NoObject ==
  [req |-> 0, model |-> "", assigned |-> FALSE, confirmed |-> FALSE,
   pendingRemoved |-> FALSE, removedWhileAdding |-> FALSE, lights |-> FALSE,
   old |-> FALSE, adding |-> 0, removals |-> 0]

Pending(cs, m, adding, removals) ==
  [cs |-> cs, model |-> m, adding |-> adding, removals |-> removals]

Exists(o)       == o.req # 0
PendingAdded(o) == Exists(o) /\ (~o.assigned \/ ~o.confirmed)

Task(kind, cs)           == [kind |-> kind, cs |-> cs]
ModelTask(kind, cs, m)   == [kind |-> kind, cs |-> cs, model |-> m]
EnabledTask(kind, cs, m, on) == [kind |-> kind, cs |-> cs, model |-> m, on |-> on]
Timer == [kind |-> "timer"]

(* Milliseconds; 0: a queued call.  The age of an object is a task too.    *)
(* "ready" is the wait of the airspace monitor for the data of an aircraft *)
(* and of the network context between two matchings: any time up to 48 s.  *)
Delay(t) ==
  CASE t.kind \in {"remove", "match", "model", "enabled", "removeAll"} -> 0
    [] t.kind \in {"addNext", "removeMissing"} -> 100
    [] t.kind \in {"verify", "enabledLater"} -> 1000
    [] t.kind \in {"removeAgain", "insert"} -> 2000
    [] t.kind \in {"addAgain", "matchAgain"} -> 2500
    [] t.kind = "outdated" -> 5000
    [] t.kind = "timer" -> 20000
    [] t.kind = "ready" -> 48000

AtLeast(t) == IF t.kind = "ready" THEN 0 ELSE Delay(t)

Due(kind) ==
  {i \in DOMAIN tasks :
     /\ tasks[i].kind = kind
     /\ \A j \in 1..(i - 1) : Delay(tasks[j]) > AtLeast(tasks[i])
     /\ Prompt => answers = <<>>
     /\ Prompt /\ kind \in {"outdated", "timer"} =>
          \A j \in DOMAIN tasks : tasks[j].kind # "verify"}

(***************************************************************************)
(* The functions of the driver call each other, so each one is an operator *)
(* from a state to a state.                                                *)
(***************************************************************************)
Now ==
  [objects |-> objects, addPending |-> addPending, addAgain |-> addAgain,
   tasks |-> tasks, lastRequest |-> lastRequest, exceptions |-> exceptions,
   enabled |-> enabled, rendered |-> rendered, inSim |-> inSim, answers |-> answers]

Become(S) ==
  \E s \in {S} :
    /\ objects' = s.objects /\ addPending' = s.addPending /\ addAgain' = s.addAgain
    /\ tasks' = s.tasks /\ lastRequest' = s.lastRequest /\ exceptions' = s.exceptions
    /\ enabled' = s.enabled /\ rendered' = s.rendered
    /\ inSim' = s.inSim /\ answers' = s.answers

Start(s, t) == [s EXCEPT !.tasks = Append(@, t)]

NetworkModel == CHOOSE m \in Models : TRUE   \* before model matching

Init ==
  /\ scenario \in Scenarios
  /\ objects = [cs \in Callsigns |-> NoObject]
  /\ addPending = <<>>
  /\ addAgain = [cs \in Callsigns |-> ""]
  /\ tasks = <<>>
  /\ lastRequest = 0 /\ exceptions = 0
  /\ simulating = TRUE
  /\ inRange = {} /\ enabled = {} /\ rendered = {}
  /\ model = [cs \in Callsigns |-> NetworkModel]
  /\ inSim = {} /\ answers = <<>>
  /\ commands = 0 /\ faults = 0

-----------------------------------------------------------------------------
(* The elements of the sequence q at the positions R.                      *)
Nth(R, n) == CHOOSE i \in R : Cardinality({j \in R : j <= i}) = n
Keep(q, R) ==
  IF R = 1..Len(q) THEN q ELSE [n \in 1..Cardinality(R) |-> q[Nth(R, n)]]

Without(pending, S) == Keep(pending, {i \in 1..Len(pending) : pending[i].cs \notin S})

(* The tasks but those of a kind, for the callsigns S.                     *)
Cancel(q, kind, S) ==
  Keep(q, {i \in 1..Len(q) : q[i].kind = kind => q[i].cs \notin S})

(* The entry of cs, or one with no failures when there is none.            *)
PendingOf(s, cs) ==
  LET S == {p \in ToSet(s.addPending) : p.cs = cs}
  IN IF S = {} THEN Pending(cs, "", 0, 0) ELSE CHOOSE p \in S : TRUE

InsertPending(s, p) == [s EXCEPT !.addPending = Append(Without(@, {p.cs}), p)]

(* removeFromAddPendingAndAddAgainAircraft, for each callsign of S.        *)
Forget(s, S) ==
  [s EXCEPT !.addPending = Without(@, S),
            !.addAgain = [cs \in Callsigns |-> IF cs \in S THEN "" ELSE s.addAgain[cs]]]

(* CSimConnectObjects::removeByCallsign; their age no longer matters.      *)
DropObjects(s, S) ==
  [s EXCEPT !.objects = [cs \in Callsigns |-> IF cs \in S THEN NoObject ELSE s.objects[cs]],
            !.tasks = Cancel(@, "outdated", S)]

Counted(n) == IF n < IgnoreReceiveExceptions THEN n ELSE IgnoreReceiveExceptions

(* SimConnect_AIRemoveObject, for the objects of S.  Without an id the     *)
(* object id is 0, which is refused with an exception.                     *)
AIRemoveObjects(s, S) ==
  LET assigned == {cs \in S : s.objects[cs].assigned}
      here == {x \in s.inSim : \E cs \in assigned : x.id = s.objects[cs].req}
  IN [s EXCEPT !.exceptions = Counted(@ + Cardinality(S \ assigned)),
               !.inSim = @ \ here,
               !.answers = @ \o SetToSeq({[kind |-> "removed", req |-> x.id] : x \in here})]

(* The objects of S whose removal is not under way yet.                    *)
Removable(s, S) == {cs \in S : Exists(s.objects[cs]) /\ ~s.objects[cs].pendingRemoved}

(* It is put off once while the object is being added.                     *)
PutOff(o) == ~o.removedWhileAdding /\ (PendingAdded(o) \/ ~o.lights)

(* Mutant: marked as pending removed while the removal is put off.         *)
MutPhysicallyRemove(s, S) ==
  LET later == {cs \in Removable(s, S) : PutOff(s.objects[cs])}
      now == Removable(s, S) \ later
  IN [AIRemoveObjects(Forget(s, S), now) EXCEPT
        !.objects = [cs \in Callsigns |->
          IF cs \in later THEN [s.objects[cs] EXCEPT !.removedWhileAdding = TRUE,
                                                     !.pendingRemoved = TRUE]
          ELSE IF cs \in now THEN [s.objects[cs] EXCEPT !.pendingRemoved = TRUE,
                                                        !.removedWhileAdding = FALSE]
          ELSE s.objects[cs]],
        !.rendered = @ \ now,
        !.tasks = @ \o SetToSeq({Task("removeAgain", cs) : cs \in later}
                                  \cup {Task("removeMissing", cs) : cs \in now})]

(***************************************************************************)
(* physicallyRemoveRemoteAircraft, called for each callsign of S.  A call  *)
(* only concerns its callsign, so the order of the calls does not matter.  *)
(***************************************************************************)
PhysicallyRemoveRemoteAircraft(s, S) ==
  LET later == {cs \in Removable(s, S) : PutOff(s.objects[cs])}
      now == Removable(s, S) \ later
  IN [AIRemoveObjects(Forget(s, S), now) EXCEPT
        !.objects = [cs \in Callsigns |->
          IF cs \in later THEN [s.objects[cs] EXCEPT !.removedWhileAdding = TRUE]
          ELSE IF cs \in now THEN [s.objects[cs] EXCEPT !.pendingRemoved = TRUE,
                                                        !.removedWhileAdding = FALSE]
          ELSE s.objects[cs]],
        !.rendered = @ \ now,
        !.tasks = @ \o SetToSeq({Task("removeAgain", cs) : cs \in later}
                                  \cup {Task("removeMissing", cs) : cs \in now})]

Known(s) == {cs \in Callsigns : Exists(s.objects[cs])}

RemoveAircraftNotInProvider(s) ==
  LET gone == Known(s) \ inRange
  IN IF gone = {} THEN s ELSE PhysicallyRemoveRemoteAircraft(s, gone)

-----------------------------------------------------------------------------
(* Mutant: requests are given up at any age.                               *)
MutOutdated(s) == {cs \in Callsigns : PendingAdded(s.objects[cs])}

(* removeOutdatedPendingAdded: requests without an end are given up.       *)
Outdated(s) == {cs \in Callsigns : PendingAdded(s.objects[cs]) /\ s.objects[cs].old}

RemoveOutdated(s) ==
  IF Outdated(s) = {} THEN s
  ELSE [DropObjects(s, Outdated(s)) EXCEPT !.enabled = @ \ Outdated(s)]

(* The same callsign again: nothing to do, or to be removed first.         *)
AddExisting(s, cs, m) ==
  LET o == s.objects[cs]
      shown == o.confirmed /\ (PendingAdded(o) \/ o.pendingRemoved)
  IN IF o.model = m
     THEN [s EXCEPT !.rendered = IF shown /\ cs \in inRange THEN @ \cup {cs} ELSE @]
     ELSE [PhysicallyRemoveRemoteAircraft(s, {cs}) EXCEPT !.addAgain[cs] = m]

(* SimConnect_AICreateNonATCAircraft and insertNewSimConnectObject         *)
Create(s, cs, m, p) ==
  LET r == s.lastRequest + 1
      o == [NoObject EXCEPT !.req = r, !.model = m, !.adding = p.adding,
                            !.removals = p.removals]
  IN [s EXCEPT !.lastRequest = r,
               !.objects[cs] = o,
               !.tasks = Append(@, Task("outdated", cs)),
               !.inSim = @ \cup {[id |-> r, cs |-> cs, model |-> m]},
               !.answers = Append(@, [kind |-> "assigned", req |-> r, trace |->
                                       Pending(cs, m, p.adding, p.removals)])]

(* Mutant: without waiting for the one that is pending.                    *)
MutCanAdd(s) == simulating /\ Situation # "stored"

CanAdd(s) ==
  /\ simulating
  /\ \A cs \in Callsigns : ~PendingAdded(s.objects[cs])
  /\ Situation # "stored"   \* a null position, replaced by a stored one

RestartTimer(s) ==
  [s EXCEPT !.tasks = Append(RemoveFirst(@, Timer), Timer)]

PhysicallyAddRemoteAircraft(s0, cs, m) ==
  LET s == RemoveOutdated(RestartTimer(s0))
      p == PendingOf(s, cs)
  IN IF cs \in Outdated(s0) THEN s
     ELSE IF Exists(s.objects[cs]) THEN AddExisting(s, cs, m)
     ELSE IF ~CanAdd(s) THEN InsertPending(s, [p EXCEPT !.model = m])
     ELSE IF cs \notin inRange THEN Forget(s, {cs})
     ELSE Create(Forget(s, {cs}), cs, m, p)

(* addPendingAircraft: the oldest one is tried next.                       *)
AddPendingAircraft(s) ==
  LET t == Forget(s, {p.cs : p \in ToSet(s.addPending)} \ inRange)
      next == Head(t.addPending)
  IN IF t.addPending = <<>> THEN t ELSE Start(t, ModelTask("addNext", next.cs, next.model))

-----------------------------------------------------------------------------
(* Mutant: the provider is not told.                                       *)
MutConfirm(s, cs) ==
  [Forget(s, {cs}) EXCEPT
     !.objects[cs].confirmed = TRUE,
     !.objects[cs].removedWhileAdding = FALSE,
     !.tasks = Cancel(@, "outdated", {cs})]

(* verifyAddedRemoteAircraft, a second after the id was assigned.          *)
Confirm(s, cs) ==
  [Forget(s, {cs}) EXCEPT
     !.objects[cs].confirmed = TRUE,
     !.objects[cs].removedWhileAdding = FALSE,
     !.tasks = Cancel(@, "outdated", {cs}),
     !.rendered = IF cs \in inRange THEN @ \cup {cs} ELSE @]

VerifyAddedRemoteAircraft(s, t) ==
  LET o == s.objects[t.cs]
      v == CASE ~Exists(o) /\ t.cs \notin inRange -> Forget(s, {t.cs})
             [] Exists(o) /\ o.assigned /\ ~o.pendingRemoved -> Confirm(s, t.cs)
             [] OTHER -> s
  IN AddPendingAircraft(v)

(* The timers and queued calls, by kind.                                   *)
AddNext(s, t) ==
  IF inRange = {} THEN s ELSE PhysicallyAddRemoteAircraft(s, t.cs, t.model)

AddAgain(s, t)      == PhysicallyAddRemoteAircraft(s, t.cs, t.model)
RemoveAgain(s, t)   == PhysicallyRemoveRemoteAircraft(s, {t.cs})
InsertFailed(s, t)  == InsertPending(s, t.pending)
RemoveMissing(s, t) == RemoveAircraftNotInProvider(s)
Ages(s, t)          == [s EXCEPT !.objects[t.cs].old = TRUE]

TimerBasedObjectAddOrRemove(s, t) ==
  RemoveAircraftNotInProvider(AddPendingAircraft(Start(s, Timer)))

ChangeRemoteAircraftEnabled(s, t) ==
  IF t.on THEN PhysicallyAddRemoteAircraft(s, t.cs, t.model)
          ELSE PhysicallyRemoveRemoteAircraft(s, {t.cs})

ChangeRemoteAircraftModel(s, t) ==
  IF ~Exists(s.objects[t.cs]) THEN s
  ELSE Start(PhysicallyRemoveRemoteAircraft(s, {t.cs}),
             EnabledTask("enabledLater", t.cs, t.model, t.on))

ChangeEnabledLater(s, t) ==
  IF t.cs \in inRange THEN ChangeRemoteAircraftEnabled(s, t) ELSE s

(* physicallyRemoveAllRemoteAircraft and clearAllRemoteAircraftData        *)
RemoveAll(s, t) ==
  LET known == PhysicallyRemoveRemoteAircraft([s EXCEPT !.addPending = <<>>], Known(s))
      all == PhysicallyRemoveRemoteAircraft(known, inRange)
  IN DropObjects(Forget(all, Callsigns), Callsigns)

Taken(i) == [Now EXCEPT !.tasks = RemoveAt(@, i)]

Fires(kind, Op(_, _)) ==
  /\ UNCHANGED <<simulating, inRange, model, commands, faults>>
  /\ \E i \in Due(kind) : \E s \in {Taken(i)} : Become(Op(s, tasks[i]))

(* emitReadyForMatching                                                    *)
EmitReadyForMatching(s, t) ==
  IF t.cs \in inRange THEN Start(s, Task("match", t.cs)) ELSE s

(* xCtxAddedRemoteAircraftReadyForModelMatching and                        *)
(* logicallyAddRemoteAircraft, with the aircraft as the provider has it.   *)
ModelMatched ==
  \E i \in Due("match") \cup Due("matchAgain"), m \in Models :
    LET cs == tasks[i].cs
    IN /\ model' = IF cs \in inRange THEN [model EXCEPT ![cs] = m] ELSE model
       /\ Become(IF cs \in inRange \cap enabled
                 THEN PhysicallyAddRemoteAircraft(Taken(i), cs, m) ELSE Taken(i))
       /\ UNCHANGED <<simulating, inRange, commands, faults>>

Timers ==
  \/ Fires("timer", TimerBasedObjectAddOrRemove)
  \/ Fires("verify", VerifyAddedRemoteAircraft)
  \/ Fires("addNext", AddNext)
  \/ Fires("addAgain", AddAgain)
  \/ Fires("remove", RemoveAgain)
  \/ Fires("removeAgain", RemoveAgain)
  \/ Fires("removeMissing", RemoveMissing)
  \/ Fires("removeAll", RemoveAll)
  \/ Fires("insert", InsertFailed)
  \/ Fires("model", ChangeRemoteAircraftModel)
  \/ Fires("enabled", ChangeRemoteAircraftEnabled)
  \/ Fires("enabledLater", ChangeEnabledLater)
  \/ Fires("outdated", Ages)
  \/ Fires("ready", EmitReadyForMatching)
  \/ ModelMatched

-----------------------------------------------------------------------------
(* SimConnectProc.                                                         *)
(* There is at most one object of a request.                               *)
WithRequest(req) == {cs \in Callsigns : objects[cs].req = req}

Receives(kind) ==
  /\ answers # <<>> /\ Head(answers).kind = kind
  /\ UNCHANGED <<simulating, inRange, model, commands, faults>>

Received == [Now EXCEPT !.answers = Tail(@)]

(* SIMCONNECT_RECV_ID_ASSIGNED_OBJECT_ID                                   *)
ObjectAssigned ==
  /\ Receives("assigned")
  /\ LET S == WithRequest(Head(answers).req)
     IN \/ S = {} /\ Become(Received)
        \/ \E cs \in S : Become(Start([Received EXCEPT !.objects[cs].assigned = TRUE],
                                     Task("verify", cs)))

(* SIMCONNECT_EXCEPTION_CREATE_OBJECT_FAILED and addingAircraftFailed.     *)
AddingAircraftFailed(s0, p, verified) ==
  LET s == Forget(DropObjects(s0, {p.cs}), {p.cs})
      again == [p EXCEPT !.adding = @ + 1]
  IN IF verified /\ again.adding <= ThresholdAddException
     THEN Start(s, [kind |-> "insert", pending |-> again])
     ELSE IF p.cs \in inRange \cap enabled
     THEN Start([s EXCEPT !.enabled = @ \ {p.cs}],
                EnabledTask("enabled", p.cs, model[p.cs], FALSE))
     ELSE s

CreateFailed ==
  /\ Receives("failed")
  /\ LET n == IF exceptions < IgnoreReceiveExceptions THEN exceptions + 1 ELSE exceptions
         s == [Received EXCEPT !.exceptions = n]
     IN \E verified \in BOOLEAN :
          Become(IF n < IgnoreReceiveExceptions
                 THEN AddingAircraftFailed(s, Head(answers).trace, verified) ELSE s)

(* Mutant: one retry too many.                                             *)
MutOneMore(s, cs) ==
  LET o == s.objects[cs]
      retry == ~o.pendingRemoved /\ o.removals <= ThresholdAddedAndDirectlyRemoved
      p == Pending(cs, o.model, o.adding, o.removals + 1)
      t == [DropObjects(IF retry THEN InsertPending(s, p) ELSE s, {cs})
              EXCEPT !.rendered = @ \ {cs}, !.addAgain[cs] = ""]
  IN IF s.addAgain[cs] = "" THEN t
     ELSE Start(t, ModelTask("addAgain", cs, s.addAgain[cs]))

(* Mutant: no retry.                                                       *)
MutNoRetry(s, cs) ==
  LET t == [DropObjects(s, {cs}) EXCEPT !.rendered = @ \ {cs}, !.addAgain[cs] = ""]
  IN IF s.addAgain[cs] = "" THEN t
     ELSE Start(t, ModelTask("addAgain", cs, s.addAgain[cs]))

(* simulatorReportedObjectRemoved                                          *)
ReportedRemoved(s, cs) ==
  LET o == s.objects[cs]
      retry == ~o.pendingRemoved /\ o.removals < ThresholdAddedAndDirectlyRemoved
      p == Pending(cs, o.model, o.adding, o.removals + 1)
      t == [DropObjects(IF retry THEN InsertPending(s, p) ELSE s, {cs})
              EXCEPT !.rendered = @ \ {cs}, !.addAgain[cs] = ""]
  IN IF s.addAgain[cs] = "" THEN t
     ELSE Start(t, ModelTask("addAgain", cs, s.addAgain[cs]))

(* Mutant: only removals that were not requested.                          *)
MutObjectRemoved ==
  /\ Receives("removed")
  /\ LET S == {cs \in WithRequest(Head(answers).req) :
                 objects[cs].assigned /\ ~objects[cs].pendingRemoved}
     IN \/ S = {} /\ Become(Received)
        \/ \E cs \in S : Become(ReportedRemoved(Received, cs))

ObjectRemoved ==
  /\ Receives("removed")
  /\ LET S == {cs \in WithRequest(Head(answers).req) : objects[cs].assigned}
     IN \/ S = {} /\ Become(Received)
        \/ \E cs \in S : Become(ReportedRemoved(Received, cs))

(* SIMCONNECT_RECV_ID_SIMOBJECT_DATA with the lights, once requested.      *)
LightsReceived(cs) ==
  /\ objects[cs].confirmed /\ ~objects[cs].lights /\ ~objects[cs].pendingRemoved
  /\ \E x \in inSim : x.id = objects[cs].req
  /\ objects' = [objects EXCEPT ![cs].lights = TRUE]
  /\ UNCHANGED <<addPending, addAgain, tasks, lastRequest, exceptions, simulating,
                 provider, world, commands, faults>>

(* External: the simulator removes an object, or refuses to create it.     *)
SimulatorDrops ==
  /\ "drop" \in Faults /\ faults < MaxFaults
  /\ \E x \in inSim :
       /\ inSim' = inSim \ {x}
       /\ answers' = Append(answers, [kind |-> "removed", req |-> x.id])
  /\ faults' = faults + 1
  /\ UNCHANGED <<driver, simulating, provider, commands>>

SimulatorRefuses ==
  /\ "refuse" \in Faults /\ faults < MaxFaults
  /\ \E i \in DOMAIN answers :
       /\ answers[i].kind = "assigned"
       /\ \E x \in inSim : x.id = answers[i].req /\ inSim' = inSim \ {x}
       /\ answers' = [answers EXCEPT ![i].kind = "failed"]
  /\ faults' = faults + 1
  /\ UNCHANGED <<driver, simulating, provider, commands>>

-----------------------------------------------------------------------------
(* What the contexts and the user do.                                      *)
Command(c) ==
  /\ c \in Commands /\ commands < MaxCommands
  /\ commands' = commands + 1
  /\ UNCHANGED <<objects, addPending, addAgain, lastRequest, exceptions, world, faults>>

(* A new session takes longer than the queued calls of the end of the old. *)
Appear(cs) ==
  /\ Command("appear")
  /\ \A i \in 1..Len(tasks) : tasks[i].kind # "removeAll"
  /\ cs \in Aircraft \ inRange
  /\ inRange' = inRange \cup {cs} /\ enabled' = enabled \cup {cs}
  /\ model' = [model EXCEPT ![cs] = NetworkModel]
  /\ tasks' = Append(tasks, Task("ready", cs))
  /\ UNCHANGED <<simulating, rendered>>

Leave(cs) ==
  /\ Command("leave")
  /\ cs \in inRange
  /\ inRange' = inRange \ {cs} /\ enabled' = enabled \ {cs}
  /\ rendered' = rendered \ {cs}
  /\ tasks' = Append(tasks, Task("remove", cs))
  /\ UNCHANGED <<simulating, model>>

MatchAgain(cs) ==
  /\ Command("match")
  /\ cs \in inRange
  /\ tasks' = Append(tasks, Task("matchAgain", cs))
  /\ UNCHANGED <<simulating, provider>>

ChangeModel(cs) ==
  /\ Command("model")
  /\ cs \in inRange
  /\ \E m \in Models :
       /\ model' = [model EXCEPT ![cs] = m]
       /\ tasks' = Append(tasks, EnabledTask("model", cs, m, cs \in enabled))
  /\ UNCHANGED <<simulating, inRange, enabled, rendered>>

ToggleEnabled(cs) ==
  /\ Command("enable")
  /\ cs \in inRange
  /\ LET on == cs \notin enabled
     IN /\ enabled' = IF on THEN enabled \cup {cs} ELSE enabled \ {cs}
        /\ tasks' = Append(tasks, EnabledTask("enabled", cs, model[cs], on))
  /\ UNCHANGED <<simulating, inRange, rendered, model>>

(* The flight network is left: all aircraft are removed, one by one and    *)
(* then altogether.                                                        *)
NetworkDisconnected ==
  /\ Command("disconnect")
  /\ inRange # {}
  /\ inRange' = {} /\ enabled' = {} /\ rendered' = {}
  /\ tasks' = tasks \o SetToSeq({Task("remove", cs) : cs \in inRange})
                    \o <<[kind |-> "removeAll"]>>
  /\ UNCHANGED <<simulating, model>>

OnSimStopped ==
  /\ Command("stop")
  /\ simulating /\ simulating' = FALSE
  /\ UNCHANGED <<tasks, provider>>

OnSimRunning ==
  /\ ~simulating /\ simulating' = TRUE
  /\ UNCHANGED <<driver, provider, world, commands, faults>>

Answers == ObjectAssigned \/ CreateFailed \/ ObjectRemoved

Next ==
  /\ \/ Timers
     \/ Answers
     \/ SimulatorDrops \/ SimulatorRefuses
     \/ NetworkDisconnected \/ OnSimStopped \/ OnSimRunning
     \/ \E cs \in Callsigns :
          \/ LightsReceived(cs)
          \/ Appear(cs) \/ Leave(cs) \/ MatchAgain(cs)
          \/ ChangeModel(cs) \/ ToggleEnabled(cs)
  /\ UNCHANGED scenario

Spec == Init /\ [][Next]_vars

(* Timers fire, and the simulator answers and runs again.                  *)
Fairness ==
  /\ WF_vars(Timers /\ UNCHANGED scenario)
  /\ WF_vars(Fires("ready", EmitReadyForMatching) /\ UNCHANGED scenario)
  /\ WF_vars(Answers /\ UNCHANGED scenario)
  /\ WF_vars(OnSimRunning /\ UNCHANGED scenario)
  /\ \A cs \in Callsigns : WF_vars(LightsReceived(cs) /\ UNCHANGED scenario)

FairSpec == Spec /\ Fairness

-----------------------------------------------------------------------------
(* Type invariant, with the limits of the failure counters.                *)
TypeOK ==
  /\ \A cs \in Callsigns :
       LET o == objects[cs]
       IN /\ o.req \in 0..lastRequest /\ o.adding \in 0..ThresholdAddException
          /\ o.removals \in 0..ThresholdAddedAndDirectlyRemoved
          /\ o.model \in Models \cup {""} /\ addAgain[cs] \in Models \cup {""}
  /\ \A p \in ToSet(addPending) : p.cs \in Callsigns /\ p.model \in Models
  /\ rendered \subseteq inRange /\ enabled \subseteq inRange
  /\ exceptions \in 0..IgnoreReceiveExceptions

(* The assertion of physicallyAddRemoteAircraftImpl (1651): "There must be *)
(* only 0..1 pending objects", whatever timers and answers come between.   *)
OnePendingAdded ==
  Cardinality({cs \in Callsigns : PendingAdded(objects[cs])}) <= 1

(***************************************************************************)
(* An object with an id is in the simulator, or the news of its removal    *)
(* are under way: no entry outlives its object and blocks the callsign.    *)
(***************************************************************************)
NoPhantom ==
  \A cs \in Callsigns :
    objects[cs].assigned =>
      \/ \E x \in inSim : x.id = objects[cs].req
      \/ \E a \in ToSet(answers) : a.kind = "removed" /\ a.req = objects[cs].req

(***************************************************************************)
(* No object is left in the simulator without an entry that could remove   *)
(* it, as long as the simulator answers promptly and the network is not    *)
(* left.  When it is left, clearAllRemoteAircraftData drops entries whose  *)
(* removal physicallyRemoveRemoteAircraft has put off.                     *)
(***************************************************************************)
NoGhosts ==
  Prompt /\ "disconnect" \notin Commands =>
    \A x \in inSim : objects[x.cs].req = x.id

Shown(cs) == objects[cs].confirmed /\ ~objects[cs].pendingRemoved
Quiet == answers = <<>> /\ ToSet(tasks) \subseteq {Timer}

(***************************************************************************)
(* The rendered flag that the GUI and the interpolation go by follows the  *)
(* simulator: only confirmed objects are rendered, and when nothing is     *)
(* under way every aircraft that is shown is.                              *)
(***************************************************************************)
RenderedAgrees ==
  /\ \A cs \in rendered : objects[cs].confirmed
  /\ Quiet => \A cs \in inRange : Shown(cs) => cs \in rendered

(***************************************************************************)
(* An aircraft that has left leaves the simulator too, whatever was under  *)
(* way when it left, unless it comes back.                                 *)
(***************************************************************************)
LeavesSimulator ==
  \A cs \in Callsigns :
    Prompt /\ "disconnect" \notin Commands /\ cs \notin inRange ~>
      cs \in inRange \/ \A x \in inSim : x.cs # cs

(***************************************************************************)
(* An aircraft that appears is shown, or disabled after failures, although *)
(* only one is added at a time and the simulator refuses or drops some, or *)
(* stops for a while.  In three cases it is not:                           *)
(*   - an object that the simulator has dropped a third time is forgotten  *)
(*     (1408 tests for < where >= is meant, so nothing is disabled); this  *)
(*     is part of the formula, see also DropsEndDisabled;                  *)
(*   - the exception that makes the count IgnoreReceiveExceptions is not   *)
(*     handled, so the aircraft that was refused stays pending and no      *)
(*     other is added (FewFaults);                                         *)
(*   - with faults of both kinds the retry of addingAircraftFailed (1205)  *)
(*     can put an aircraft into m_addPendingAircraft that has been added   *)
(*     meanwhile; as the oldest it is tried for ever, to no effect, and no *)
(*     other is (FewFaults).                                               *)
(***************************************************************************)
FewFaults ==
  /\ Faults = {"refuse", "drop"} => MaxFaults <= 1
  /\ Faults = {"refuse"} => MaxFaults < IgnoreReceiveExceptions

(* Nothing is left that would add the aircraft.                            *)
Forgotten(cs) ==
  /\ ~Exists(objects[cs])
  /\ \A p \in ToSet(addPending) : p.cs # cs
  /\ \A t \in ToSet(tasks) : t.kind \in {"addNext", "addAgain"} => t.cs # cs

ComesToSimulator ==
  \A cs \in Callsigns :
    /\ Commands \subseteq {"appear", "stop"} /\ FewFaults
    /\ Situation # "stored" /\ cs \in inRange
    ~> \/ Shown(cs) \/ cs \notin enabled
       \/ Forgotten(cs) /\ faults > ThresholdAddedAndDirectlyRemoved

(***************************************************************************)
(* An aircraft that the simulator drops again and again is disabled, if it *)
(* is not shown in the end.  So says the message of                        *)
(* simulatorReportedObjectRemoved (1412): "Aircraft removed again multiple *)
(* times and will be disabled".  It does not hold: 1408 repeats the test   *)
(* of 1394, so the third drop falls through to the last branch.            *)
(***************************************************************************)
DropsEndDisabled ==
  \A cs \in Callsigns :
    Commands = {"appear"} /\ Faults = {"drop"} /\ cs \in inRange ~>
      Shown(cs) \/ cs \notin enabled
=============================================================================
