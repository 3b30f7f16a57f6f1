---------------------------- MODULE AirspaceMonitor ----------------------------
(***************************************************************************)
(* CAirspaceMonitor with its CAirspaceAnalyzer: which aircraft and ATC     *)
(* stations are online, when an aircraft is ready for model matching, and  *)
(* the watchdog that removes those who have gone without a word.           *)
(*                                                                         *)
(* Three threads: the FSD client posts what the server sends to the main   *)
(* thread and to the analyzer; the monitor in the main thread posts to the *)
(* analyzer what it adds and removes; the analyzer posts who has timed     *)
(* out.  All events for a thread are handled in the order of posting.      *)
(* Whether the client is connected is read directly, so that it may        *)
(* disagree with the signals that are still under way.                     *)
(*                                                                         *)
(* Time passes in units (Tick), the delays are constants.  Handlers take   *)
(* no time: it passes only when no event and no timer is due.              *)
(*                                                                         *)
(* Left out: clients, flight plans and snapshots; what is asked of others  *)
(* (they may answer at any time, or never); the model the matcher chooses, *)
(* which comes after everything here; interim and visual positions, which  *)
(* only touch the watchdog and update an aircraft in range; the watchdog's *)
(* switch, which nothing uses.                                             *)
(***************************************************************************)
EXTENDS Integers, Sequences, FiniteSets, Bags, SequencesExt

BE == INSTANCE BagsExt   \* for timers: BagAdd, BagRemove

CONSTANTS
  Callsigns,
  MMCheckAgain, MMMaxAge, MMMaxAgeThreshold, MMVerify,   \* of the monitor
  UpdateInterval, TimeoutAircraft, TimeoutAtc,           \* of the analyzer
  Scenarios   \* who is there, and what the others do, see below

VARIABLE scenario   \* the one of this behaviour

Pilots      == scenario.pilots
Controllers == scenario.controllers
Sent        == scenario.sent       \* what the server may send, and other events
Distances   == scenario.distances  \* of the pilots: near, edge, far
MaxEvents   == scenario.maxEvents  \* bound: events other than positions
MaxQueue    == scenario.maxQueue   \* bound: events under way to each thread

ASSUME AirspaceAssumption ==
  /\ IsFiniteSet(Callsigns)
  /\ {MMCheckAgain, MMMaxAge, MMMaxAgeThreshold, MMVerify} \subseteq Nat \ {0}
  /\ {UpdateInterval, TimeoutAircraft, TimeoutAtc} \subseteq Nat \ {0}
  /\ MMCheckAgain <= MMMaxAge /\ MMMaxAge < MMMaxAgeThreshold
  /\ MMMaxAgeThreshold < MMVerify
  /\ UpdateInterval < TimeoutAircraft /\ TimeoutAircraft <= TimeoutAtc
  /\ \A s \in Scenarios :
       /\ s.pilots \subseteq Callsigns /\ s.controllers \subseteq Callsigns \ s.pilots
       /\ s.sent \subseteq
            {"icao", "fsinn", "delete", "crash", "disconnect", "reinit"}
       /\ s.distances \subseteq {"near", "edge", "far"}
       /\ s.maxEvents \in Nat /\ s.maxQueue \in Nat

VARIABLES
  connected,   \* the status of the FSD client
  mainQueue,   \* events posted to the main thread
  inRange,     \* m_aircraftInRange
  situations,  \* aircraft with more than one situation
  modelString, \* aircraft in range with a model string
  readiness,   \* m_readiness; an entry without data is the same as no entry
  tempFsInn,   \* m_tempFsInnPackets
  stations,    \* m_atcStationsOnline
  timers,      \* bag of the running single shot timers of the monitor
  queue,       \* events posted to the analyzer
  stamps,      \* m_aircraftCallsignTimestamps and m_atcCallsignTimestamps, as age
  watchdog,    \* the analyzer's timer, and when the watchdog last ran
  matched,     \* history: aircraft sent to model matching since they were added
  crashed,     \* external: those who will send no more in this session,
  heard,       \*   and those who have sent a position in this unit of time
  events       \* number of events

monitor  == <<inRange, situations, modelString, readiness, tempFsInn, stations,
              timers, matched>>
analyzer == <<queue, stamps, watchdog>>
network  == <<connected, crashed, heard, events>>
vars == <<scenario, network, mainQueue, monitor, analyzer>>

-----------------------------------------------------------------------------
NotReady == [age |-> -1, flags |-> {}]   \* -1: no time stamp yet
Flags == {"icao", "fsinn", "sent", "verified"}

(* Mutant: any flag is stored.                                             *)
MutAddFlags(r, new) ==
  [age |-> IF r.age < 0 THEN 0 ELSE r.age, flags |-> r.flags \cup new]

(* Readiness::addFlag; RecursiveCall is no flag.                           *)
AddFlags(r, new) ==
  IF new \subseteq {"recursive"} THEN r
  ELSE [age |-> IF r.age < 0 THEN 0 ELSE r.age, flags |-> r.flags \cup new]

Again(cs, rf) == [kind |-> "again", cs |-> cs, rf |-> rf, left |-> MMCheckAgain]
Verify(cs)    == [kind |-> "verify", cs |-> cs, rf |-> {}, left |-> MMVerify]
ReInit(cs, known) ==   \* the lambda holds a copy of the aircraft
  [kind |-> "reinit", cs |-> cs, left |-> 0, rf |-> IF known THEN {"model"} ELSE {}]

(* The functions of the monitor call each other: operators on its state.   *)
Now ==
  [inRange |-> inRange, situations |-> situations, modelString |-> modelString,
   readiness |-> readiness, tempFsInn |-> tempFsInn, stations |-> stations,
   timers |-> timers, matched |-> matched, queue |-> queue]

Become(S) ==
  \E s \in {S} :
    /\ inRange' = s.inRange /\ situations' = s.situations
    /\ modelString' = s.modelString /\ readiness' = s.readiness
    /\ tempFsInn' = s.tempFsInn /\ stations' = s.stations
    /\ timers' = s.timers /\ matched' = s.matched /\ queue' = s.queue

Start(s, t) == [s EXCEPT !.timers = BE!BagAdd(@, t)]
Post(s, kind, cs) == [s EXCEPT !.queue = Append(@, [kind |-> kind, cs |-> cs])]

Init ==
  /\ scenario \in Scenarios
  /\ connected = FALSE /\ crashed = {} /\ heard = {} /\ events = 0
  /\ mainQueue = <<>>
  /\ inRange = {} /\ situations = {} /\ modelString = {}
  /\ readiness = [cs \in Callsigns |-> NotReady]
  /\ tempFsInn = {} /\ stations = {}
  /\ timers = EmptyBag /\ matched = {}
  /\ queue = <<>>
  /\ stamps = [cs \in Callsigns |-> -1]
  /\ watchdog = [left |-> UpdateInterval, sinceCall |-> 0, pause |-> 0]

-----------------------------------------------------------------------------
(* CRemoteAircraftProvider::removeAircraft; no signal is emitted.          *)
RemoveAircraft(s, cs) ==
  [s EXCEPT !.inRange = @ \ {cs}, !.situations = @ \ {cs},
            !.modelString = @ \ {cs}, !.matched = @ \ {cs}]

(* CRemoteAircraftProvider::removeAllAircraft, which does emit it.         *)
RemoveAllAircraft(s) ==
  [s EXCEPT !.inRange = {}, !.situations = {}, !.modelString = {}, !.matched = {},
            !.queue = @ \o SetToSeq({[kind |-> "forget", cs |-> cs] : cs \in s.inRange})]

AddNewAircraftInRange(s, cs) ==
  IF cs \in s.inRange THEN s
  ELSE Start([s EXCEPT !.inRange = @ \cup {cs}], Verify(cs))

(***************************************************************************)
(* sendReadyForModelMatching with the flags rf: wait for more data, or     *)
(* emit readyForModelMatching.                                             *)
(***************************************************************************)
SendReadyForModelMatching(s0, cs, rf) ==
  LET s == [s0 EXCEPT !.readiness[cs] = AddFlags(@, rf)]
      r == s.readiness[cs]
      valid == cs \in s.inRange
      complete == /\ valid /\ cs \in s.situations
                  /\ {"icao", "fsinn"} \subseteq r.flags \/ cs \in s.modelString
      recent == "sent" \in r.flags /\ r.age < MMMaxAgeThreshold
  IN IF ~connected THEN s0
     ELSE IF recent THEN s
     ELSE IF ~valid THEN [s EXCEPT !.readiness[cs] = NotReady]
     ELSE IF rf # {"verified"} /\ r.age <= MMMaxAge /\ ~complete
     THEN Start(s, Again(cs, rf))
     ELSE [s EXCEPT !.readiness[cs] = AddFlags([@ EXCEPT !.flags = {}], {"sent"}),
                    !.matched = @ \cup {cs}]

(* Mutant: ICAO data is asked for again, but that is not followed up.      *)
MutVerifyReceivedIcaoData(s, cs) ==
  LET r == s.readiness[cs]
      t == [s EXCEPT !.readiness[cs] = AddFlags(@, {"verified"})]
  IN CASE cs \notin s.inRange \/ "sent" \in r.flags -> s
       [] OTHER ->
            IF "verified" \in r.flags \/ "icao" \in r.flags
            THEN SendReadyForModelMatching(t, cs, {"verified"})
            ELSE t

(* verifyReceivedIcaoData: ask again once, then go on with what is known.  *)
VerifyReceivedIcaoData(s, cs) ==
  LET r == s.readiness[cs]
      t == [s EXCEPT !.readiness[cs] = AddFlags(@, {"verified"})]
  IN CASE cs \notin s.inRange \/ "sent" \in r.flags -> s
       [] OTHER ->
            IF "verified" \in r.flags \/ "icao" \in r.flags
            THEN SendReadyForModelMatching(t, cs, {"verified"})
            ELSE Start(t, Verify(cs))

(* onCustomFSInnPacketReceived; `known' is a known model string.           *)
OnCustomFSInnPacketReceived(s, cs, known) ==
  LET t == [s EXCEPT !.readiness[cs] = AddFlags(@, {"fsinn"}),
                     !.modelString = IF known THEN @ \cup {cs} ELSE @]
  IN CASE ~connected -> s
       [] connected /\ cs \in s.inRange -> SendReadyForModelMatching(t, cs, {"fsinn"})
       [] connected /\ cs \notin s.inRange \cup s.stations ->
            [s EXCEPT !.tempFsInn = @ \cup {cs}]
       [] OTHER -> s

OnIcaoCodesReceived(s, cs, known) ==
  IF ~connected \/ cs \notin s.inRange THEN s
  ELSE SendReadyForModelMatching(
         [s EXCEPT !.modelString = IF known THEN @ \cup {cs} ELSE @], cs, {"icao"})

(* Mutant: the watchdog is not told.                                       *)
MutStoreAircraftSituation(s, cs) == [s EXCEPT !.situations = @ \cup {cs}]

(* The first situation fills the list, so there is more than one.          *)
StoreAircraftSituation(s, cs) ==
  Post([s EXCEPT !.situations = @ \cup {cs}], "touch", cs)

(* Only far aircraft are removed, only near ones are added.                *)
HandleMaxRange(s, cs, distance) == IF distance = "far" THEN RemoveAircraft(s, cs) ELSE s

OnAircraftUpdateReceived(s0, cs, distance) ==
  LET s == HandleMaxRange(s0, cs, distance)
  IN CASE ~connected -> s0
       [] connected /\ distance # "near" /\ cs \notin s.inRange -> s
       [] OTHER -> AddNewAircraftInRange(StoreAircraftSituation(s, cs), cs)

(* Mutant: the readiness is kept.                                          *)
MutOnPilotDisconnected(s, cs) ==
  LET t == RemoveAircraft(s, cs)
  IN IF cs \in s.inRange THEN Post(t, "forget", cs) ELSE t

OnPilotDisconnected(s, cs) ==
  LET t == RemoveAircraft([s EXCEPT !.readiness[cs] = NotReady], cs)
  IN IF cs \in s.inRange THEN Post(t, "forget", cs) ELSE t

OnAtcPositionUpdate(s, cs) ==
  IF connected THEN [s EXCEPT !.stations = @ \cup {cs}] ELSE s

OnAtcControllerDisconnected(s, cs) ==
  IF connected /\ cs \in s.stations
  THEN Post([s EXCEPT !.stations = @ \ {cs}], "forget", cs) ELSE s

(* Mutant: packets of unknown aircraft are kept.                           *)
MutClear(s) ==
  RemoveAllAircraft([s EXCEPT !.readiness = [cs \in Callsigns |-> NotReady],
                              !.stations = {}])

Clear(s) ==
  RemoveAllAircraft([s EXCEPT !.readiness = [cs \in Callsigns |-> NotReady],
                              !.tempFsInn = {}, !.stations = {}])

ReInitialize(s, cs, known) ==
  SendReadyForModelMatching(
    [AddNewAircraftInRange(s, cs) EXCEPT
       !.readiness[cs] = NotReady,
       !.modelString = IF known /\ cs \notin s.inRange THEN @ \cup {cs} ELSE @],
    cs, {"icao", "fsinn"})

-----------------------------------------------------------------------------
(* The main thread handles an event.                                       *)
Handles(kind) ==
  /\ mainQueue # <<>> /\ Head(mainQueue).kind = kind
  /\ mainQueue' = Tail(mainQueue)
  /\ UNCHANGED <<network, stamps, watchdog>>

Event == Head(mainQueue)

HandlePosition ==
  /\ Handles("position")
  /\ Become(IF Event.cs \in Pilots
            THEN OnAircraftUpdateReceived(Now, Event.cs, Event.distance)
            ELSE OnAtcPositionUpdate(Now, Event.cs))

HandleIcao ==
  /\ Handles("icao")
  /\ \E known \in BOOLEAN : Become(OnIcaoCodesReceived(Now, Event.cs, known))

HandleFsInn ==
  /\ Handles("fsinn")
  /\ \E known \in BOOLEAN : Become(OnCustomFSInnPacketReceived(Now, Event.cs, known))

(* A delete message.  The FSD client passes on its CID, which the monitor  *)
(* takes for a callsign; nobody has it, so nothing is removed.             *)
HandleDelete ==
  /\ Handles("delete")
  /\ Become(Now)

(* The watchdog's timeoutAircraft or timeoutAtc.                           *)
HandleTimeout ==
  /\ Handles("timeout")
  /\ Become(IF Event.cs \in Pilots THEN OnPilotDisconnected(Now, Event.cs)
                                   ELSE OnAtcControllerDisconnected(Now, Event.cs))

OnConnectionStatusChanged ==
  /\ Handles("status")
  /\ Become(IF Event.up THEN Now ELSE Clear(Now))

Main == HandlePosition \/ HandleIcao \/ HandleFsInn \/ HandleDelete
        \/ HandleTimeout \/ OnConnectionStatusChanged

(* The timers of the monitor.                                              *)
Fires(kind, Op(_, _)) ==
  \E t \in DOMAIN timers :
    /\ t.kind = kind /\ t.left = 0
    /\ Op([Now EXCEPT !.timers = BE!BagRemove(@, t)], t)
    /\ UNCHANGED <<network, mainQueue, stamps, watchdog>>

(* A packet that came before the aircraft is taken first.                  *)
CheckAgain(s, t) ==
  \/ /\ t.cs \notin s.inRange
     /\ Become(s)
  \/ /\ t.cs \in s.inRange
     /\ t.rf # {"fsinn"} /\ t.cs \in s.tempFsInn
     /\ \E known \in BOOLEAN :
          Become(OnCustomFSInnPacketReceived([s EXCEPT !.tempFsInn = @ \ {t.cs}],
                                             t.cs, known))
  \/ /\ t.cs \in s.inRange
     /\ t.rf = {"fsinn"} \/ t.cs \notin s.tempFsInn
     /\ Become(SendReadyForModelMatching(s, t.cs, {"recursive"}))

VerifyAgain(s, t)   == Become(VerifyReceivedIcaoData(s, t.cs))
ReInitAgain(s, t)   == Become(ReInitialize(s, t.cs, "model" \in t.rf))

Timers ==
  \/ Fires("again", CheckAgain)
  \/ Fires("verify", VerifyAgain)
  \/ Fires("reinit", ReInitAgain)

-----------------------------------------------------------------------------
(* The analyzer's thread.                                                  *)
WatchdogTouch ==
  /\ queue # <<>> /\ Head(queue).kind = "touch"
  /\ queue' = Tail(queue)
  /\ stamps' = [stamps EXCEPT ![Head(queue).cs] = 0]
  /\ UNCHANGED <<network, mainQueue, monitor, watchdog>>

WatchdogRemove ==
  /\ queue # <<>> /\ Head(queue).kind = "forget"
  /\ queue' = Tail(queue)
  /\ stamps' = [stamps EXCEPT ![Head(queue).cs] = -1]
  /\ UNCHANGED <<network, mainQueue, monitor, watchdog>>

AnalyzerStatusChanged ==
  /\ queue # <<>> /\ Head(queue).kind = "status"
  /\ queue' = Tail(queue)
  /\ IF Head(queue).up
     THEN /\ watchdog' = [watchdog EXCEPT !.left = UpdateInterval]
          /\ UNCHANGED stamps
     ELSE /\ watchdog' = [watchdog EXCEPT !.left = -1]
          /\ stamps' = [cs \in Callsigns |-> -1]
  /\ UNCHANGED <<network, mainQueue, monitor>>

CallThreshold == (3 * UpdateInterval) \div 2
Timeout(cs) == IF cs \in Pilots THEN TimeoutAircraft ELSE TimeoutAtc

(* Mutant: the time of a call that is skipped is not stored.               *)
MutWatchdogCheckTimeouts ==
  LET late == watchdog.sinceCall > CallThreshold
      runs == ~late /\ watchdog.pause = 0
      out  == {cs \in Callsigns : runs /\ stamps[cs] >= Timeout(cs)}
  IN /\ watchdog' = [left |-> UpdateInterval,
                     sinceCall |-> IF late THEN watchdog.sinceCall ELSE 0,
                     pause |-> IF late THEN 2 * CallThreshold ELSE watchdog.pause]
     /\ stamps' = [cs \in Callsigns |-> IF cs \in out THEN -1 ELSE stamps[cs]]
     /\ mainQueue' = mainQueue \o SetToSeq({[kind |-> "timeout", cs |-> cs] : cs \in out})

(* watchdogCheckTimeouts; after a longer pause it waits for a while.       *)
WatchdogCheckTimeouts ==
  LET late == watchdog.sinceCall > CallThreshold
      runs == ~late /\ watchdog.pause = 0
      out  == {cs \in Callsigns : runs /\ stamps[cs] >= Timeout(cs)}
  IN /\ watchdog' = [left |-> UpdateInterval, sinceCall |-> 0,
                     pause |-> IF late THEN 2 * CallThreshold ELSE watchdog.pause]
     /\ stamps' = [cs \in Callsigns |-> IF cs \in out THEN -1 ELSE stamps[cs]]
     /\ mainQueue' = mainQueue \o SetToSeq({[kind |-> "timeout", cs |-> cs] : cs \in out})

OnTimeout ==
  /\ watchdog.left = 0
  /\ WatchdogCheckTimeouts
  /\ UNCHANGED <<network, monitor, queue>>

Analyzer == WatchdogTouch \/ WatchdogRemove \/ AnalyzerStatusChanged \/ OnTimeout

-----------------------------------------------------------------------------
(* External: the others and the server.                                    *)
Room == Len(mainQueue) < MaxQueue /\ Len(queue) < MaxQueue

Happens(e) ==
  /\ e \in Sent /\ events < MaxEvents
  /\ Room
  /\ events' = events + 1

(* A position, which goes to the analyzer too; one in a unit of time.      *)
SendsPosition(cs) ==
  /\ connected /\ cs \in (Pilots \cup Controllers) \ (crashed \cup heard)
  /\ Room
  /\ heard' = heard \cup {cs}
  /\ \E d \in Distances :
       mainQueue' = Append(mainQueue, [kind |-> "position", cs |-> cs, distance |-> d])
  /\ queue' = Append(queue, [kind |-> "touch", cs |-> cs])
  /\ UNCHANGED <<connected, crashed, events, monitor, stamps, watchdog>>

Sends(kind, cs) ==
  /\ connected /\ cs \in (Pilots \cup Controllers) \ crashed
  /\ Happens(kind)
  /\ mainQueue' = Append(mainQueue, [kind |-> kind, cs |-> cs])
  /\ UNCHANGED <<connected, crashed, heard, monitor, analyzer>>

Crashes(cs) ==
  /\ connected
  /\ Happens("crash")
  /\ cs \in (Pilots \cup Controllers) \ crashed
  /\ crashed' = crashed \cup {cs}
  /\ UNCHANGED <<connected, heard, mainQueue, monitor, analyzer>>

(* The FSD client changes its status and emits connectionStatusChanged.    *)
Connects ==
  /\ ~connected /\ connected' = TRUE
  /\ Room
  /\ mainQueue' = Append(mainQueue, [kind |-> "status", up |-> TRUE])
  /\ queue' = Append(queue, [kind |-> "status", up |-> TRUE])
  /\ UNCHANGED <<crashed, heard, events, monitor, stamps, watchdog>>

Disconnects ==
  /\ connected /\ connected' = FALSE
  /\ Happens("disconnect")
  /\ crashed' = {} /\ heard' = {}
  /\ mainQueue' = Append(mainQueue, [kind |-> "status", up |-> FALSE])
  /\ queue' = Append(queue, [kind |-> "status", up |-> FALSE])
  /\ UNCHANGED <<monitor, stamps, watchdog>>

(* The command .reinit.                                                    *)
ReInitializeAllAircraft ==
  /\ Happens("reinit")
  /\ inRange # {}
  /\ Become([RemoveAllAircraft(Now) EXCEPT
               !.timers = @ (+) SetToBag({ReInit(cs, cs \in modelString) : cs \in inRange})])
  /\ UNCHANGED <<connected, crashed, heard, mainQueue, stamps, watchdog>>

Older(age, max) == IF age < 0 \/ age = max THEN age ELSE age + 1

Tick ==
  /\ mainQueue = <<>> /\ queue = <<>>
  /\ \A t \in DOMAIN timers : t.left > 0
  /\ watchdog.left # 0
  /\ timers' = BagOfAll(LAMBDA t : [t EXCEPT !.left = @ - 1], timers)
  /\ readiness' = [cs \in Callsigns |->
                     [readiness[cs] EXCEPT !.age = Older(@, MMMaxAgeThreshold)]]
  /\ stamps' = [cs \in Callsigns |-> Older(stamps[cs], Timeout(cs))]
  /\ watchdog' = [left |-> IF watchdog.left < 0 THEN -1 ELSE watchdog.left - 1,
                  sinceCall |-> Older(watchdog.sinceCall, CallThreshold + 1),
                  pause |-> IF watchdog.pause = 0 THEN 0 ELSE watchdog.pause - 1]
  /\ heard' = {}
  /\ UNCHANGED <<connected, crashed, events, mainQueue, inRange, situations,
                 modelString, tempFsInn, stations, matched, queue>>

Next ==
  /\ \/ Main \/ Timers \/ Analyzer \/ Tick
     \/ Connects \/ Disconnects \/ ReInitializeAllAircraft
     \/ \E cs \in Callsigns :
          \/ SendsPosition(cs) \/ Crashes(cs)
          \/ Sends("icao", cs) \/ Sends("fsinn", cs) \/ Sends("delete", cs)
  /\ UNCHANGED scenario

Spec == Init /\ [][Next]_vars

(* The threads go on, timers fire and time passes.                         *)
Fairness ==
  /\ WF_vars(Main /\ UNCHANGED scenario)
  /\ WF_vars(Timers /\ UNCHANGED scenario)
  /\ WF_vars(Analyzer /\ UNCHANGED scenario)
  /\ WF_vars(Tick /\ UNCHANGED scenario)

FairSpec == Spec /\ Fairness
-----------------------------------------------------------------------------
(* Types; only aircraft in range have a model or have been matched, and    *)
(* RecursiveCall, which marks the timer's own call, is never stored.       *)
TypeOK ==
  /\ situations \subseteq Callsigns /\ inRange \subseteq Pilots
  /\ stations \subseteq Controllers
  /\ modelString \cup matched \subseteq inRange
  /\ readiness \in [Callsigns -> [age : -1..MMMaxAgeThreshold, flags : SUBSET Flags]]
  /\ \A t \in DOMAIN timers : t.left \in 0..MMVerify
  /\ watchdog.left \in -1..UpdateInterval

(* Nothing is under way and no timer is due.                               *)
Quiet ==
  /\ mainQueue = <<>> /\ queue = <<>> /\ watchdog.left # 0
  /\ \A t \in DOMAIN timers : t.left > 0

(* An aircraft whose readiness says that it was sent to matching has been  *)
(* sent since it was added: what an earlier presence of the callsign has   *)
(* left in m_readiness never suppresses its matching                       *)
(* (sendReadyForModelMatching and verifyReceivedIcaoData return early).    *)
(* handleMaxRange removes an aircraft and keeps its entry, so aircraft     *)
(* that go out of range are excepted.                                      *)
NoStaleReadiness ==
  Quiet /\ "far" \notin Distances =>
    \A cs \in inRange : "sent" \in readiness[cs].flags => cs \in matched

(* Every aircraft in range is watched: whatever the order in which         *)
(* positions, time outs and the end of a session reach the two threads,    *)
(* the analyzer has a time stamp for it, so that it is removed when its    *)
(* client is heard of no more.  .reinit is excepted: its timers add        *)
(* aircraft that nobody touches.                                           *)
Watched ==
  Quiet /\ "reinit" \notin Sent => \A cs \in inRange : stamps[cs] >= 0

(* After the end of a session nothing of it is left, although positions,   *)
(* data and time outs of it may be handled after the status changed and    *)
(* timers go on: the next session starts afresh.                           *)
LeavesNothing ==
  Quiet /\ ~connected /\ "reinit" \notin Sent =>
    /\ inRange = {} /\ stations = {} /\ tempFsInn = {}
    /\ \A cs \in Callsigns : readiness[cs] = NotReady

(* An aircraft is sent to model matching, or it leaves, even if its data   *)
(* is never received and nothing it was asked is answered.                 *)
GetsMatched ==
  \A cs \in Callsigns :
    "far" \notin Distances /\ cs \in inRange ~>
      cs \in matched \/ cs \notin inRange \/ ~connected

(* An aircraft whose client is heard of no more is removed, also when the  *)
(* watchdog has paused.  Nothing else removes it, see HandleDelete.        *)
CrashedIsRemoved ==
  \A cs \in Callsigns :
    "reinit" \notin Sent /\ cs \in crashed ~> cs \notin inRange

(* The same of ATC stations, as the comment on CAirspaceAnalyzer says of   *)
(* all callsigns.  The monitor does not touch their time stamps, so a      *)
(* position that crosses a removal leaves a station nobody watches.        *)
StationTimesOut == \A cs \in Callsigns : cs \in crashed ~> cs \notin stations
=============================================================================
