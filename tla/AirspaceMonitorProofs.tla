----------------------- MODULE AirspaceMonitorProofs ------------------------
(***************************************************************************)
(* The safety properties of AirspaceMonitor, for every finite set of       *)
(* callsigns, all delays and all scenarios. The functions of the monitor   *)
(* are shown to be good steps (Good), one by one; then every action is     *)
(* shown to keep the invariant (Inv).                                      *)
(***************************************************************************)
EXTENDS AirspaceMonitor, SequenceTheorems, FiniteSetTheorems, TLAPS

(* What the rf of a timer can hold.                                        *)
Marks == Flags \cup {"recursive", "model"}

(* Timers of a behaviour; those of .reinit only where it can be given.     *)
TimerKinds == {"again", "verify"} \cup (Sent \cap {"reinit"})

(* The timers. Those of .reinit are due at once.                           *)
TimerSet ==
  {t \in [kind : TimerKinds, cs : Pilots, rf : SUBSET Marks, left : 0..MMVerify] :
     t.kind = "reinit" => t.left = 0}

(* The readiness of one aircraft.                                          *)
Readinesses == [age : -1..MMMaxAgeThreshold, flags : SUBSET Flags]

(* What is posted to the main thread,                                      *)
MainEvents ==
  [kind : {"position"}, cs : Pilots \cup Controllers, distance : Distances]
    \cup [kind : {"icao", "fsinn", "delete", "timeout"}, cs : Callsigns]
    \cup [kind : {"status"}, up : BOOLEAN]

(* and to the analyzer.                                                    *)
AnalyzerEvents ==
  [kind : {"touch", "forget"}, cs : Callsigns] \cup [kind : {"status"}, up : BOOLEAN]

(* s has the fields of the monitor's state.                                *)
Shape(s) ==
  DOMAIN s = {"inRange", "situations", "modelString", "readiness", "tempFsInn", "stations",
              "timers", "matched", "queue"}

(***************************************************************************)
(* s is a state of the monitor: the type invariant of Now. Models and      *)
(* matchings are those of aircraft in range, controllers are never in      *)
(* range.                                                                  *)
(***************************************************************************)
Fits(s) ==
  /\ Shape(s)
  /\ s.situations \subseteq Callsigns /\ s.inRange \subseteq Pilots
  /\ s.stations \subseteq Controllers
  /\ s.modelString \subseteq s.inRange /\ s.matched \subseteq s.inRange
  /\ s.readiness \in [Callsigns -> Readinesses]
  /\ DOMAIN s.timers \subseteq TimerSet
  /\ s.queue \in Seq(AnalyzerEvents)

(* A timer of .reinit will add cs again.                                   *)
Due(s, cs) == \E t \in DOMAIN s.timers : t.kind = "reinit" /\ t.cs = cs

(***************************************************************************)
(* If cs counts as sent to matching, it has been since it was added, or    *)
(* .reinit will reset it.                                                  *)
(***************************************************************************)
FreshAt(s, cs) == "sent" \in s.readiness[cs].flags => cs \in s.matched \/ Due(s, cs)

(* That of all callsigns.                                                  *)
Fresh(s) == \A cs \in Callsigns : FreshAt(s, cs)

(* The end of a session, as posted to both threads.                        *)
Down == [kind |-> "status", up |-> FALSE]

(* What the analyzer is told of an aircraft: a sign of life,               *)
Touch(cs) == [kind |-> "touch", cs |-> cs]

(* or its end;                                                             *)
Forget(cs) == [kind |-> "forget", cs |-> cs]

(* and what the analyzer tells the monitor.                                *)
TimedOut(cs) == [kind |-> "timeout", cs |-> cs]

(* e is under way in q.                                                    *)
Within(e, q) == \E i \in 1..Len(q) : q[i] = e

(* Handling e drops the time stamp of cs.                                  *)
Drops(e, cs) == e = Forget(cs) \/ e = Down

(***************************************************************************)
(* Once the analyzer has handled the events of q it has a time stamp of    *)
(* cs: the last event that says anything of cs is a touch, or there is     *)
(* none and it has one of the given age.                                   *)
(***************************************************************************)
Will(q, age, cs) ==
  \/ \E i \in 1..Len(q) : q[i] = Touch(cs) /\ \A j \in 1..Len(q) : j > i => ~Drops(q[j], cs)
  \/ age >= 0 /\ \A j \in 1..Len(q) : ~Drops(q[j], cs)

(* Nothing is left of a session.                                           *)
Blank(s) ==
  /\ s.inRange = {} /\ s.stations = {} /\ s.tempFsInn = {}
  /\ \A cs \in Callsigns : s.readiness[cs] = NotReady

(***************************************************************************)
(* What the functions of the monitor keep, going from s to u: no stale     *)
(* readiness, without far aircraft;                                        *)
(***************************************************************************)
KeepsFresh(s, u) == "far" \notin Distances /\ Fresh(s) => Fresh(u)

(* aircraft in range are going to be watched, if they were;                *)
KeepsWatch(s, u) ==
  "reinit" \notin Sent =>
    \A cs \in u.inRange :
      \/ Will(u.queue, stamps[cs], cs)
      \/ cs \in s.inRange /\ (Will(s.queue, stamps[cs], cs) => Will(u.queue, stamps[cs], cs))
(* while disconnected, a blank state stays blank.                          *)
KeepsBlank(s, u) == "reinit" \notin Sent /\ ~connected /\ Blank(s) => Blank(u)

(***************************************************************************)
(* All of it. The functions of the monitor are compositions of steps that  *)
(* are good.                                                               *)
(***************************************************************************)
Good(s, u) == Fits(u) /\ KeepsFresh(s, u) /\ KeepsWatch(s, u) /\ KeepsBlank(s, u)

-----------------------------------------------------------------------------
(* The timers that run after one is started,                               *)
LEMMA AddDomain == ASSUME NEW B, NEW x PROVE DOMAIN BE!BagAdd(B, x) = DOMAIN B \cup {x}
  BY DEF BE!BagAdd

(* after one has fired: another of the same kind may still run,            *)
LEMMA RemoveDomain ==
  ASSUME NEW B, NEW x
  PROVE  DOMAIN BE!BagRemove(B, x) \subseteq DOMAIN B /\ DOMAIN B \ {x} \subseteq DOMAIN BE!BagRemove(B, x)
  BY DEF BE!BagRemove

(* and after several are started.                                          *)
LEMMA UnionDomain == ASSUME NEW B, NEW C PROVE DOMAIN (B (+) C) = DOMAIN B \cup DOMAIN C
  BY DEF (+), BagToSet

(* A bag of timers that are all different.                                 *)
LEMMA BagDomain == ASSUME NEW S PROVE DOMAIN SetToBag(S) = S
  BY DEF SetToBag

(* There are two Booleans: the form in which the provers use it.           *)
LEMMA BoolCases == \A x : x \in BOOLEAN <=> x = TRUE \/ x = FALSE
  BY Zenon

(* A scenario of the given set has the fields that the module reads.       *)
LEMMA ScenarioOK ==
  scenario \in Scenarios =>
    /\ Pilots \subseteq Callsigns /\ Controllers \subseteq Callsigns \ Pilots
    /\ Distances \subseteq {"near", "edge", "far"}
    /\ MaxEvents \in Nat /\ MaxQueue \in Nat
  BY AirspaceAssumption DEF Pilots, Controllers, Distances, MaxEvents, MaxQueue

(* The delays are numbers, and the first is within the longest.            *)
LEMMA DelaysOK ==
  /\ MMCheckAgain \in 0..MMVerify /\ MMVerify \in Nat
  /\ MMMaxAgeThreshold \in Nat \ {0} /\ MMMaxAge \in Nat
  /\ UpdateInterval \in Nat \ {0} /\ TimeoutAircraft \in Nat /\ TimeoutAtc \in Nat
  BY AirspaceAssumption

(* Doing nothing is good.                                                  *)
LEMMA GoodRefl == ASSUME NEW s, Fits(s) PROVE Good(s, s)
  BY DEF Good, KeepsFresh, KeepsWatch, KeepsBlank

(* Good steps compose.                                                     *)
LEMMA GoodTrans ==
  ASSUME NEW s, NEW t, NEW u, Good(s, t), Good(t, u)
  PROVE  Good(s, u)
  BY DEF Good, KeepsFresh, KeepsWatch, KeepsBlank

(***************************************************************************)
(* Where the events are left alone and no aircraft is added, nothing       *)
(* changes for the watchdog.                                               *)
(***************************************************************************)
LEMMA GoodFrame ==
  ASSUME NEW s, NEW u, Fits(u), KeepsFresh(s, u), KeepsBlank(s, u),
         u.inRange \subseteq s.inRange, u.queue = s.queue
  PROVE  Good(s, u)
  BY DEF Good, KeepsWatch

(* Starting a timer.                                                       *)
LEMMA StartGood ==
  ASSUME NEW s, Fits(s), NEW t \in TimerSet
  PROVE  Good(s, Start(s, t))
<1> DEFINE u == Start(s, t)
<1>1. /\ Shape(u) /\ u.inRange = s.inRange /\ u.situations = s.situations
      /\ u.modelString = s.modelString /\ u.readiness = s.readiness
      /\ u.tempFsInn = s.tempFsInn /\ u.stations = s.stations
      /\ u.matched = s.matched /\ u.queue = s.queue
      /\ u.timers = BE!BagAdd(s.timers, t)
  BY DEF Fits, Shape, Start
<1> HIDE DEF u
<1>2. DOMAIN u.timers = DOMAIN s.timers \cup {t}
  BY <1>1, AddDomain
<1>3. Fits(u)
  BY <1>1, <1>2 DEF Fits
<1>4. KeepsFresh(s, u)
  BY <1>1, <1>2 DEF KeepsFresh, Fresh, FreshAt, Due
<1>5. KeepsBlank(s, u)
  BY <1>1 DEF KeepsBlank, Blank
<1> QED
  BY <1>1, <1>3, <1>4, <1>5, GoodFrame DEF u

(* Setting the readiness of cs.                                            *)
WithReadiness(s, cs, r) == [s EXCEPT !.readiness[cs] = r]

(* What that changes.                                                      *)
LEMMA ReadinessFacts ==
  ASSUME NEW s, Fits(s), NEW cs \in Callsigns, NEW r \in Readinesses
  PROVE  LET u == WithReadiness(s, cs, r) IN
         /\ Fits(u) /\ u.inRange = s.inRange /\ u.situations = s.situations
         /\ u.modelString = s.modelString /\ u.matched = s.matched
         /\ u.tempFsInn = s.tempFsInn /\ u.stations = s.stations
         /\ u.timers = s.timers /\ u.queue = s.queue
         /\ u.readiness[cs] = r
         /\ \A c \in Callsigns \ {cs} : u.readiness[c] = s.readiness[c]
<1> DEFINE u == WithReadiness(s, cs, r)
<1>1. /\ Shape(u) /\ u.inRange = s.inRange /\ u.situations = s.situations
      /\ u.modelString = s.modelString /\ u.matched = s.matched
      /\ u.tempFsInn = s.tempFsInn /\ u.stations = s.stations
      /\ u.timers = s.timers /\ u.queue = s.queue
      /\ u.readiness = [s.readiness EXCEPT ![cs] = r]
  BY DEF Fits, Shape, WithReadiness
<1> HIDE DEF u
<1>2. /\ u.readiness \in [Callsigns -> Readinesses] /\ u.readiness[cs] = r
      /\ \A c \in Callsigns \ {cs} : u.readiness[c] = s.readiness[c]
  BY <1>1 DEF Fits
<1>3. Fits(u)
  BY <1>1, <1>2 DEF Fits
<1> QED
  BY <1>1, <1>2, <1>3 DEF u

(***************************************************************************)
(* It is good unless it claims that cs was sent, or leaves something in a  *)
(* blank state of a disconnected client.                                   *)
(***************************************************************************)
LEMMA ReadinessGood ==
  ASSUME NEW s, Fits(s), NEW cs \in Callsigns, NEW r \in Readinesses,
         "sent" \in r.flags => "sent" \in s.readiness[cs].flags,
         connected \/ r = NotReady \/ ~Blank(s)
  PROVE  Good(s, WithReadiness(s, cs, r))
<1> DEFINE u == WithReadiness(s, cs, r)
<1>1. /\ Fits(u) /\ u.inRange = s.inRange /\ u.situations = s.situations
      /\ u.modelString = s.modelString /\ u.matched = s.matched
      /\ u.tempFsInn = s.tempFsInn /\ u.stations = s.stations
      /\ u.timers = s.timers /\ u.queue = s.queue
      /\ u.readiness[cs] = r
      /\ \A c \in Callsigns \ {cs} : u.readiness[c] = s.readiness[c]
  BY ReadinessFacts
<1> HIDE DEF u
<1>2. KeepsFresh(s, u)
  BY <1>1 DEF KeepsFresh, Fresh, FreshAt, Due
<1>3. KeepsBlank(s, u)
  BY <1>1 DEF KeepsBlank, Blank
<1> QED
  BY <1>1, <1>2, <1>3, GoodFrame DEF u

(* addFlag gives a readiness, and one that was sent only if it is told so. *)
LEMMA AddFlagsOK ==
  ASSUME NEW r \in Readinesses, NEW new, new \subseteq Flags \/ new \subseteq {"recursive"}
  PROVE  /\ AddFlags(r, new) \in Readinesses
         /\ "sent" \notin new => ("sent" \in AddFlags(r, new).flags <=> "sent" \in r.flags)
<1>1. CASE new \subseteq {"recursive"}
  BY <1>1 DEF AddFlags
<1>2. CASE ~(new \subseteq {"recursive"})
  <2> DEFINE a == IF r.age < 0 THEN 0 ELSE r.age
  <2>1. a \in -1..MMMaxAgeThreshold
    BY DelaysOK DEF Readinesses
  <2>2. r.flags \cup new \subseteq Flags
    BY <1>2 DEF Readinesses
  <2>3. AddFlags(r, new) = [age |-> a, flags |-> r.flags \cup new]
    BY <1>2 DEF AddFlags
  <2> HIDE DEF a
  <2> QED
    BY <2>1, <2>2, <2>3 DEF Readinesses
<1> QED
  BY <1>1, <1>2

(* The empty readiness.                                                    *)
LEMMA NotReadyOK == NotReady \in Readinesses /\ "sent" \notin NotReady.flags
  BY DelaysOK DEF NotReady, Readinesses

(* The flags that sendReadyForModelMatching is called with.                *)
RFs == {{"icao"}, {"fsinn"}, {"verified"}, {"icao", "fsinn"}, {"recursive"}}

(* What it does last.                                                      *)
AsSent(s, cs) ==
  [s EXCEPT !.readiness[cs] = AddFlags([@ EXCEPT !.flags = {}], {"sent"}),
            !.matched = @ \cup {cs}]

(* They are flags or RecursiveCall, and none says sent.                    *)
LEMMA RFsOK ==
  ASSUME NEW rf \in RFs
  PROVE  /\ rf \subseteq Flags \/ rf \subseteq {"recursive"}
         /\ "sent" \notin rf /\ rf \subseteq Marks
  BY DEF RFs, Flags, Marks

(* An aircraft in range is marked as sent when it is sent.                 *)
LEMMA AsSentGood ==
  ASSUME NEW s, Fits(s), NEW cs \in Callsigns, cs \in s.inRange, connected
  PROVE  Good(s, AsSent(s, cs))
<1> DEFINE u == AsSent(s, cs)
           r == AddFlags([s.readiness[cs] EXCEPT !.flags = {}], {"sent"})
<1>1. r \in Readinesses
  <2>1. s.readiness[cs] \in Readinesses
    BY DEF Fits
  <2>2. [s.readiness[cs] EXCEPT !.flags = {}] \in Readinesses
    BY <2>1 DEF Readinesses
  <2>3. {"sent"} \subseteq Flags
    BY DEF Flags
  <2> QED
    BY <2>2, <2>3, AddFlagsOK
<1>2. /\ Shape(u) /\ u.inRange = s.inRange /\ u.situations = s.situations
      /\ u.modelString = s.modelString /\ u.matched = s.matched \cup {cs}
      /\ u.tempFsInn = s.tempFsInn /\ u.stations = s.stations
      /\ u.timers = s.timers /\ u.queue = s.queue
      /\ u.readiness = [s.readiness EXCEPT ![cs] = r]
  BY DEF Fits, Shape, AsSent
<1> HIDE DEF u, r
<1>3. /\ u.readiness \in [Callsigns -> Readinesses]
      /\ \A c \in Callsigns \ {cs} : u.readiness[c] = s.readiness[c]
  BY <1>1, <1>2 DEF Fits
<1>4. Fits(u)
  BY <1>2, <1>3 DEF Fits
<1>5. KeepsFresh(s, u)
  BY <1>2, <1>3 DEF KeepsFresh, Fresh, FreshAt, Due
<1>6. KeepsBlank(s, u)
  BY DEF KeepsBlank
<1> QED
  BY <1>2, <1>4, <1>5, <1>6, GoodFrame DEF u

(* sendReadyForModelMatching, one case per return.                         *)
LEMMA SendReadyGood ==
  ASSUME scenario \in Scenarios, NEW s0, Fits(s0), NEW cs \in Callsigns, NEW rf \in RFs
  PROVE  Good(s0, SendReadyForModelMatching(s0, cs, rf))
<1> DEFINE r == AddFlags(s0.readiness[cs], rf)
           s == WithReadiness(s0, cs, r)
           u == SendReadyForModelMatching(s0, cs, rf)
<1>1. \/ u = s0
      \/ connected /\ u = s
      \/ connected /\ u = WithReadiness(s, cs, NotReady)
      \/ connected /\ cs \in s.inRange /\ u = Start(s, Again(cs, rf))
      \/ connected /\ cs \in s.inRange /\ u = AsSent(s, cs)
  BY DEF SendReadyForModelMatching, WithReadiness, AsSent
<1> HIDE DEF u
<1>2. CASE u = s0
  BY <1>2, GoodRefl DEF u
<1>3. CASE connected
  <2>1. s0.readiness[cs] \in Readinesses
    BY DEF Fits
  <2>2. r \in Readinesses /\ ("sent" \in r.flags => "sent" \in s0.readiness[cs].flags)
    BY <2>1, AddFlagsOK, RFsOK
  <2> HIDE DEF r
  <2>3. Good(s0, s)
    BY <1>3, <2>2, ReadinessGood
  <2> HIDE DEF s
  <2>4. Fits(s)
    BY <2>3 DEF Good
  <2>5. CASE u = WithReadiness(s, cs, NotReady)
    BY <1>3, <2>3, <2>4, <2>5, ReadinessGood, NotReadyOK, GoodTrans DEF u
  <2>6. CASE cs \in s.inRange /\ u = Start(s, Again(cs, rf))
    <3>1. cs \in Pilots
      BY <2>4, <2>6 DEF Fits
    <3>2. Again(cs, rf) \in TimerSet
      BY <3>1, RFsOK, DelaysOK DEF Again, TimerSet, TimerKinds
    <3>3. Good(s, u)
      BY <2>4, <2>6, <3>2, StartGood
    <3> QED
      BY <2>3, <3>3, GoodTrans DEF u
  <2>7. CASE cs \in s.inRange /\ u = AsSent(s, cs)
    BY <1>3, <2>3, <2>4, <2>7, AsSentGood, GoodTrans DEF u
  <2> QED
    BY <1>1, <1>2, <2>3, <2>5, <2>6, <2>7 DEF u
<1> QED
  BY <1>1, <1>2, <1>3 DEF u

(* The timer of verifyReceivedIcaoData.                                    *)
LEMMA VerifyTimer == \A cs \in Pilots : Verify(cs) \in TimerSet
  BY DelaysOK DEF Verify, TimerSet, TimerKinds, Marks

(***************************************************************************)
(* verifyReceivedIcaoData. It does not ask whether the client is           *)
(* connected; but in a blank state there is no aircraft for it.            *)
(***************************************************************************)
LEMMA VerifyGood ==
  ASSUME scenario \in Scenarios, NEW s, Fits(s), NEW cs \in Callsigns
  PROVE  Good(s, VerifyReceivedIcaoData(s, cs))
<1> DEFINE r == AddFlags(s.readiness[cs], {"verified"})
           t == WithReadiness(s, cs, r)
           u == VerifyReceivedIcaoData(s, cs)
<1>1. \/ u = s
      \/ cs \in s.inRange /\ u = SendReadyForModelMatching(t, cs, {"verified"})
      \/ cs \in s.inRange /\ u = Start(t, Verify(cs))
  BY DEF VerifyReceivedIcaoData, WithReadiness
<1> HIDE DEF u
<1>2. CASE u = s
  BY <1>2, GoodRefl DEF u
<1>3. CASE cs \in s.inRange
  <2>1. ~Blank(s) /\ cs \in Pilots
    BY <1>3 DEF Blank, Fits
  <2>2. s.readiness[cs] \in Readinesses /\ {"verified"} \in RFs
    BY DEF Fits, RFs
  <2>3. r \in Readinesses /\ ("sent" \in r.flags => "sent" \in s.readiness[cs].flags)
    BY <2>2, AddFlagsOK, RFsOK
  <2> HIDE DEF r
  <2>4. Good(s, t)
    BY <2>1, <2>3, ReadinessGood
  <2> HIDE DEF t
  <2>5. Fits(t)
    BY <2>4 DEF Good
  <2>6. CASE u = SendReadyForModelMatching(t, cs, {"verified"})
    BY <2>2, <2>4, <2>5, <2>6, SendReadyGood, GoodTrans DEF u
  <2>7. CASE u = Start(t, Verify(cs))
    BY <2>1, <2>4, <2>5, <2>7, StartGood, VerifyTimer, GoodTrans DEF u
  <2> QED
    BY <1>1, <1>2, <2>6, <2>7 DEF u
<1> QED
  BY <1>1, <1>2, <1>3 DEF u

(* Storing a model string.                                                 *)
WithModel(s, cs, known) == [s EXCEPT !.modelString = IF known THEN @ \cup {cs} ELSE @]

(* That of an aircraft in range.                                           *)
LEMMA ModelGood ==
  ASSUME NEW s, Fits(s), NEW cs \in Callsigns, cs \in s.inRange, NEW known
  PROVE  Good(s, WithModel(s, cs, known))
<1> DEFINE u == WithModel(s, cs, known)
<1>1. /\ Shape(u) /\ u.inRange = s.inRange /\ u.situations = s.situations
      /\ u.modelString = (IF known THEN s.modelString \cup {cs} ELSE s.modelString)
      /\ u.matched = s.matched /\ u.readiness = s.readiness
      /\ u.tempFsInn = s.tempFsInn /\ u.stations = s.stations
      /\ u.timers = s.timers /\ u.queue = s.queue
  BY DEF Fits, Shape, WithModel
<1> HIDE DEF u
<1>2. Fits(u)
  BY <1>1 DEF Fits
<1>3. KeepsFresh(s, u)
  BY <1>1 DEF KeepsFresh, Fresh, FreshAt, Due
<1>4. KeepsBlank(s, u)
  BY <1>1 DEF KeepsBlank, Blank
<1> QED
  BY <1>1, <1>2, <1>3, <1>4, GoodFrame DEF u

(* Storing FsInn packets.                                                  *)
WithPackets(s, P) == [s EXCEPT !.tempFsInn = P]

(* New ones while connected only.                                          *)
LEMMA PacketsGood ==
  ASSUME NEW s, Fits(s), NEW P, connected \/ P \subseteq s.tempFsInn
  PROVE  Good(s, WithPackets(s, P))
<1> DEFINE u == WithPackets(s, P)
<1>1. /\ Shape(u) /\ u.inRange = s.inRange /\ u.situations = s.situations
      /\ u.modelString = s.modelString
      /\ u.matched = s.matched /\ u.readiness = s.readiness
      /\ u.tempFsInn = P /\ u.stations = s.stations
      /\ u.timers = s.timers /\ u.queue = s.queue
  BY DEF Fits, Shape, WithPackets
<1> HIDE DEF u
<1>2. Fits(u)
  BY <1>1 DEF Fits
<1>3. KeepsFresh(s, u)
  BY <1>1 DEF KeepsFresh, Fresh, FreshAt, Due
<1>4. KeepsBlank(s, u)
  BY <1>1 DEF KeepsBlank, Blank
<1> QED
  BY <1>1, <1>2, <1>3, <1>4, GoodFrame DEF u

(* onCustomFSInnPacketReceived.                                            *)
LEMMA FsInnGood ==
  ASSUME scenario \in Scenarios, NEW s, Fits(s), NEW cs \in Callsigns, NEW known
  PROVE  Good(s, OnCustomFSInnPacketReceived(s, cs, known))
<1> DEFINE r == AddFlags(s.readiness[cs], {"fsinn"})
           v == WithReadiness(s, cs, r)
           t == WithModel(v, cs, known)
           t0 == [s EXCEPT !.readiness[cs] = AddFlags(@, {"fsinn"}),
                           !.modelString = IF known THEN @ \cup {cs} ELSE @]
           u == OnCustomFSInnPacketReceived(s, cs, known)
<1>0. t0 = t
  BY DEF Fits, Shape, WithReadiness, WithModel
<1>1. \/ u = s
      \/ connected /\ cs \in s.inRange /\ u = SendReadyForModelMatching(t0, cs, {"fsinn"})
      \/ connected /\ u = WithPackets(s, s.tempFsInn \cup {cs})
  BY DEF OnCustomFSInnPacketReceived, WithPackets
<1> HIDE DEF u, t0
<1>2. CASE u = s
  BY <1>2, GoodRefl DEF u
<1>3. CASE connected /\ u = WithPackets(s, s.tempFsInn \cup {cs})
  BY <1>3, PacketsGood DEF u
<1>4. CASE connected /\ cs \in s.inRange /\ u = SendReadyForModelMatching(t0, cs, {"fsinn"})
  <2>2. s.readiness[cs] \in Readinesses /\ {"fsinn"} \in RFs
    BY DEF Fits, RFs
  <2>3. r \in Readinesses /\ ("sent" \in r.flags => "sent" \in s.readiness[cs].flags)
    BY <2>2, AddFlagsOK, RFsOK
  <2> HIDE DEF r
  <2>4. Good(s, v) /\ v.inRange = s.inRange
    BY <1>4, <2>3, ReadinessGood, ReadinessFacts
  <2> HIDE DEF v
  <2>5. Good(v, t)
    BY <1>4, <2>4, ModelGood DEF Good
  <2> HIDE DEF t
  <2>6. Good(s, t) /\ Fits(t)
    BY <2>4, <2>5, GoodTrans DEF Good
  <2> QED
    BY <1>0, <1>4, <2>2, <2>6, SendReadyGood, GoodTrans DEF u
<1> QED
  BY <1>1, <1>2, <1>3, <1>4 DEF u

(* onIcaoCodesReceived.                                                    *)
LEMMA IcaoGood ==
  ASSUME scenario \in Scenarios, NEW s, Fits(s), NEW cs \in Callsigns, NEW known
  PROVE  Good(s, OnIcaoCodesReceived(s, cs, known))
<1>1. CASE ~connected \/ cs \notin s.inRange
  BY <1>1, GoodRefl DEF OnIcaoCodesReceived
<1>2. CASE connected /\ cs \in s.inRange
  <2> DEFINE t == WithModel(s, cs, known)
  <2>1. OnIcaoCodesReceived(s, cs, known) = SendReadyForModelMatching(t, cs, {"icao"})
    BY <1>2 DEF OnIcaoCodesReceived, WithModel
  <2>2. Good(s, t) /\ {"icao"} \in RFs
    BY <1>2, ModelGood DEF RFs
  <2> HIDE DEF t
  <2>3. Good(t, SendReadyForModelMatching(t, cs, {"icao"}))
    BY <2>2, SendReadyGood DEF Good
  <2> QED
    BY <2>1, <2>2, <2>3, GoodTrans
<1> QED
  BY <1>1, <1>2

(* What an appended sequence consists of.                                  *)
LEMMA AppendedAt ==
  ASSUME NEW S, NEW s \in Seq(S), NEW e \in S, NEW r, r = Append(s, e)
  PROVE  /\ r \in Seq(S)
         /\ Len(s) \in Nat /\ Len(r) = Len(s) + 1 /\ r[Len(s) + 1] = e
         /\ \A i \in 1..Len(s) : r[i] = s[i]
<1>1. Len(s) \in Nat
  BY LenProperties
<1>2. Len(r) = Len(s) + 1
  BY AppendProperties
<1>3. r[Len(s) + 1] = e
  BY AppendProperties
<1>4. \A i \in 1..Len(s) : r[i] = s[i]
  BY AppendProperties
<1>5. r \in Seq(S)
  BY AppendProperties
<1> QED
  BY <1>1, <1>2, <1>3, <1>4, <1>5

(* What the tail of a sequence consists of.                                *)
LEMMA TailAt ==
  ASSUME NEW S, NEW s \in Seq(S), s # <<>>, NEW r, r = Tail(s)
  PROVE  /\ r \in Seq(S) /\ Head(s) = s[1] /\ Head(s) \in S
         /\ Len(s) \in Nat \ {0} /\ Len(r) = Len(s) - 1
         /\ \A i \in 1..(Len(s) - 1) : r[i] = s[i + 1]
<1>1. Len(s) \in Nat \ {0}
  BY LenProperties, EmptySeq
<1>2. Len(r) = Len(s) - 1
  BY HeadTailProperties
<1>3. \A i \in 1..Len(r) : r[i] = s[i + 1]
  BY HeadTailProperties
<1>4. r \in Seq(S) /\ Head(s) = s[1] /\ Head(s) \in S
  BY HeadTailProperties
<1> QED
  BY <1>1, <1>2, <1>3, <1>4

(* The sequence of a finite set has all of its elements and no other.      *)
LEMMA SetToSeqOK ==
  ASSUME NEW S, IsFiniteSet(S)
  PROVE  /\ SetToSeq(S) \in Seq(S)
         /\ \A x \in S : \E i \in 1..Len(SetToSeq(S)) : SetToSeq(S)[i] = x
<1> DEFINE n == Cardinality(S)
           P(f) == f \in [1..n -> S] /\ IsInjective(f)
           f == SetToSeq(S)
<1>1. n \in Nat /\ ExistsBijection(1..n, S)
  BY FS_CardinalityType
<1>2. PICK g : g \in Bijection(1..n, S)
  BY <1>1 DEF ExistsBijection
<1>3. g \in [1..n -> S] /\ IsInjective(g)
  BY <1>2 DEF Bijection, Injection
<1>4. f \in [1..n -> S] /\ IsInjective(f)
  BY <1>3 DEF SetToSeq
<1> HIDE DEF f
<1>5. f \in Seq(S) /\ Len(f) = n
  <2>1. f \in Seq(S)
    BY <1>1, <1>4
  <2>2. DOMAIN f = 1..n
    BY <1>4
  <2> QED
    BY <1>1, <2>1, <2>2
<1>6. f \in Injection(1..n, S)
  BY <1>4 DEF Injection
<1>7. IsFiniteSet(1..n) /\ Cardinality(1..n) = n
  BY <1>1, FS_Interval
<1>8. f \in Surjection(1..n, S)
  BY <1>6, <1>7, FS_Injection
<1>9. \A x \in S : \E i \in 1..n : f[i] = x
  BY <1>8 DEF Surjection
<1> QED
  BY <1>5, <1>9 DEF f

(* Finitely many events are posted at a time.                              *)
LEMMA EventsFinite ==
  ASSUME NEW kind, NEW C, C \subseteq Callsigns
  PROVE  IsFiniteSet({[kind |-> kind, cs |-> cs] : cs \in C})
<1> DEFINE T == {[kind |-> kind, cs |-> cs] : cs \in C}
           f == [cs \in C |-> [kind |-> kind, cs |-> cs]]
<1>1. IsFiniteSet(C)
  BY AirspaceAssumption, FS_Subset
<1>2. f \in Surjection(C, T)
  BY DEF Surjection
<1> QED
  BY <1>1, <1>2, FS_Surjection

(* What a concatenation consists of.                                       *)
LEMMA ConcatAt ==
  ASSUME NEW S, NEW s \in Seq(S), NEW t \in Seq(S), NEW r, r = s \o t
  PROVE  /\ r \in Seq(S) /\ Len(s) \in Nat /\ Len(t) \in Nat /\ Len(r) = Len(s) + Len(t)
         /\ \A i \in 1..Len(s) : r[i] = s[i]
         /\ \A i \in 1..Len(t) : r[Len(s) + i] = t[i]
<1>1. Len(s) \in Nat /\ Len(t) \in Nat
  BY LenProperties
<1>2. r \in Seq(S) /\ Len(r) = Len(s) + Len(t)
  BY ConcatProperties
<1>3. ASSUME NEW i \in 1..(Len(s) + Len(t)) PROVE r[i] = IF i <= Len(s) THEN s[i] ELSE t[i - Len(s)]
  BY ConcatProperties
<1>4. ASSUME NEW i \in 1..Len(s) PROVE r[i] = s[i]
  <2>1. i \in 1..(Len(s) + Len(t)) /\ i <= Len(s)
    BY <1>1
  <2> QED
    BY <1>3, <2>1
<1>5. ASSUME NEW i \in 1..Len(t) PROVE r[Len(s) + i] = t[i]
  <2>1. Len(s) + i \in 1..(Len(s) + Len(t)) /\ ~(Len(s) + i <= Len(s)) /\ Len(s) + i - Len(s) = i
    BY <1>1
  <2> QED
    BY <1>3, <2>1
<1> QED
  BY <1>1, <1>2, <1>4, <1>5

(* Posting an event leaves the others under way,                           *)
LEMMA WithinAppend ==
  ASSUME NEW S, NEW q \in Seq(S), NEW e \in S
  PROVE  /\ Within(e, Append(q, e))
         /\ \A x : Within(x, q) => Within(x, Append(q, e))
  BY AppendedAt DEF Within

(* so does posting several,                                                *)
LEMMA WithinConcat ==
  ASSUME NEW S, NEW q \in Seq(S), NEW t \in Seq(S), NEW x, Within(x, q) \/ Within(x, t)
  PROVE  Within(x, q \o t)
<1> DEFINE r == q \o t
<1>1. /\ Len(q) \in Nat /\ Len(t) \in Nat /\ Len(r) = Len(q) + Len(t)
      /\ \A i \in 1..Len(q) : r[i] = q[i]
      /\ \A i \in 1..Len(t) : r[Len(q) + i] = t[i]
  BY ConcatAt
<1> HIDE DEF r
<1>2. CASE Within(x, q)
  BY <1>1, <1>2 DEF Within
<1>3. CASE Within(x, t)
  <2>1. PICK i \in 1..Len(t) : t[i] = x
    BY <1>3 DEF Within
  <2>2. Len(q) + i \in 1..Len(r) /\ r[Len(q) + i] = x
    BY <1>1, <2>1
  <2>3. Within(x, r)
    BY <2>2 DEF Within
  <2> QED
    BY <2>3 DEF r
<1>4. CASE Within(x, r)
  BY <1>4 DEF r
<1> QED
  BY <1>2, <1>3, <1>4 DEF r

(* and handling another one.                                               *)
LEMMA WithinTail ==
  ASSUME NEW S, NEW q \in Seq(S), q # <<>>, NEW x, Within(x, q), x # Head(q)
  PROVE  Within(x, Tail(q))
<1> DEFINE r == Tail(q)
<1>1. /\ Head(q) = q[1] /\ Len(q) \in Nat \ {0} /\ Len(r) = Len(q) - 1
      /\ \A i \in 1..(Len(q) - 1) : r[i] = q[i + 1]
  BY TailAt
<1> HIDE DEF r
<1>2. PICK i \in 1..Len(q) : q[i] = x
  BY DEF Within
<1>3. i - 1 \in 1..(Len(q) - 1) /\ (i - 1) + 1 = i
  BY <1>1, <1>2
<1>4. r[i - 1] = x
  BY <1>1, <1>2, <1>3
<1>5. Within(x, r)
  BY <1>1, <1>3, <1>4 DEF Within
<1> QED
  BY <1>5 DEF r

(***************************************************************************)
(* An event that does not drop cs leaves it to be watched, and a touch     *)
(* makes it so.                                                            *)
(***************************************************************************)
LEMMA WillAppend ==
  ASSUME NEW S, NEW q \in Seq(S), NEW e \in S, NEW age, NEW cs,
         ~Drops(e, cs), Will(q, age, cs) \/ e = Touch(cs)
  PROVE  Will(Append(q, e), age, cs)
<1> DEFINE r == Append(q, e)
<1>1. /\ Len(q) \in Nat /\ Len(r) = Len(q) + 1 /\ r[Len(q) + 1] = e
      /\ \A i \in 1..Len(q) : r[i] = q[i]
  BY AppendedAt
<1> HIDE DEF r
<1>0. \A j \in 1..Len(r) : (j \in 1..Len(q) /\ r[j] = q[j]) \/ (j = Len(q) + 1 /\ r[j] = e)
  BY <1>1
<1>2. CASE e = Touch(cs)
  <2>1. Len(q) + 1 \in 1..Len(r) /\ \A j \in 1..Len(r) : ~(j > Len(q) + 1)
    BY <1>1
  <2> QED
    BY <1>1, <1>2, <2>1 DEF Will, r
<1>3. CASE age >= 0 /\ \A j \in 1..Len(q) : ~Drops(q[j], cs)
  <2>1. \A j \in 1..Len(r) : ~Drops(r[j], cs)
    BY <1>0, <1>3
  <2> QED
    BY <1>3, <2>1 DEF Will, r
<1>4. CASE \E i \in 1..Len(q) : q[i] = Touch(cs) /\ \A j \in 1..Len(q) : j > i => ~Drops(q[j], cs)
  <2>1. PICK i \in 1..Len(q) : q[i] = Touch(cs) /\ \A j \in 1..Len(q) : j > i => ~Drops(q[j], cs)
    BY <1>4
  <2>2. i \in 1..Len(r) /\ r[i] = Touch(cs)
    BY <1>1, <2>1
  <2>3. \A j \in 1..Len(r) : j > i => ~Drops(r[j], cs)
    BY <1>0, <2>1
  <2> QED
    BY <2>2, <2>3 DEF Will, r
<1> QED
  BY <1>2, <1>3, <1>4 DEF Will, r

(***************************************************************************)
(* Handling an event of the analyzer, when a touch sets the time stamp and *)
(* only what drops cs takes it.                                            *)
(***************************************************************************)
LEMMA WillTail ==
  ASSUME NEW S, NEW q \in Seq(S), q # <<>>, NEW age, NEW new, NEW cs, Will(q, age, cs),
         Head(q) = Touch(cs) => new >= 0,
         age >= 0 /\ ~Drops(Head(q), cs) => new >= 0
  PROVE  Will(Tail(q), new, cs)
<1> DEFINE r == Tail(q)
<1>1. /\ Head(q) = q[1] /\ Len(q) \in Nat \ {0} /\ Len(r) = Len(q) - 1
      /\ \A i \in 1..(Len(q) - 1) : r[i] = q[i + 1]
  BY TailAt
<1> HIDE DEF r
<1>0. ASSUME NEW j \in 1..Len(r) PROVE j + 1 \in 1..Len(q) /\ j + 1 > 1 /\ r[j] = q[j + 1]
  BY <1>1
<1>3. CASE age >= 0 /\ \A j \in 1..Len(q) : ~Drops(q[j], cs)
  <2>1. \A j \in 1..Len(r) : ~Drops(r[j], cs)
    BY <1>0, <1>3
  <2>2. new >= 0
    BY <1>1, <1>3
  <2> QED
    BY <2>1, <2>2 DEF Will, r
<1>4. CASE \E i \in 1..Len(q) : q[i] = Touch(cs) /\ \A j \in 1..Len(q) : j > i => ~Drops(q[j], cs)
  <2>1. PICK i \in 1..Len(q) : q[i] = Touch(cs) /\ \A j \in 1..Len(q) : j > i => ~Drops(q[j], cs)
    BY <1>4
  <2>2. CASE i = 1
    <3>1. new >= 0
      BY <1>1, <2>1, <2>2
    <3>2. \A j \in 1..Len(r) : ~Drops(r[j], cs)
      BY <1>0, <2>1, <2>2
    <3> QED
      BY <3>1, <3>2 DEF Will, r
  <2>3. CASE i # 1
    <3>1. i - 1 \in 1..Len(r) /\ (i - 1) + 1 = i
      BY <1>1, <2>1, <2>3
    <3>2. r[i - 1] = Touch(cs)
      BY <1>0, <2>1, <3>1
    <3>3. \A j \in 1..Len(r) : j > i - 1 => ~Drops(r[j], cs)
      <4> TAKE j \in 1..Len(r)
      <4> HAVE j > i - 1
      <4>1. j + 1 > i
        BY <1>1, <2>1
      <4> QED
        BY <1>0, <2>1, <4>1
    <3> QED
      BY <3>1, <3>2, <3>3 DEF Will, r
  <2> QED
    BY <2>2, <2>3
<1> QED
  BY <1>3, <1>4 DEF Will

(* What removeAircraft changes.                                            *)
LEMMA RemoveFacts ==
  ASSUME NEW s, Fits(s), NEW cs
  PROVE  LET u == RemoveAircraft(s, cs) IN
         /\ Fits(u) /\ u.inRange = s.inRange \ {cs} /\ u.matched = s.matched \ {cs}
         /\ u.readiness = s.readiness /\ u.tempFsInn = s.tempFsInn
         /\ u.stations = s.stations /\ u.timers = s.timers /\ u.queue = s.queue
<1> DEFINE u == RemoveAircraft(s, cs)
<1>1. /\ Shape(u) /\ u.inRange = s.inRange \ {cs} /\ u.matched = s.matched \ {cs}
      /\ u.modelString = s.modelString \ {cs} /\ u.situations = s.situations \ {cs}
      /\ u.readiness = s.readiness /\ u.tempFsInn = s.tempFsInn
      /\ u.stations = s.stations /\ u.timers = s.timers /\ u.queue = s.queue
  BY DEF Fits, Shape, RemoveAircraft
<1> HIDE DEF u
<1>2. Fits(u)
  BY <1>1 DEF Fits
<1> QED
  BY <1>1, <1>2 DEF u

(***************************************************************************)
(* It is good when the readiness has been reset before; handleMaxRange     *)
(* does without.                                                           *)
(***************************************************************************)
LEMMA RemoveGood ==
  ASSUME NEW s, Fits(s), NEW cs \in Callsigns,
         "far" \in Distances \/ "sent" \notin s.readiness[cs].flags
  PROVE  Good(s, RemoveAircraft(s, cs))
<1> DEFINE u == RemoveAircraft(s, cs)
<1>1. /\ Fits(u) /\ u.inRange = s.inRange \ {cs} /\ u.matched = s.matched \ {cs}
      /\ u.readiness = s.readiness /\ u.tempFsInn = s.tempFsInn
      /\ u.stations = s.stations /\ u.timers = s.timers /\ u.queue = s.queue
  BY RemoveFacts
<1> HIDE DEF u
<1>2. KeepsFresh(s, u)
  BY <1>1 DEF KeepsFresh, Fresh, FreshAt, Due
<1>3. KeepsBlank(s, u)
  BY <1>1 DEF KeepsBlank, Blank
<1> QED
  BY <1>1, <1>2, <1>3, GoodFrame DEF u

(* The events of the analyzer differ.                                      *)
LEMMA EventDistinct ==
  ASSUME NEW c, NEW d
  PROVE  /\ ~Drops(Touch(c), d)
         /\ Drops(Forget(c), d) => c = d
         /\ ~Drops([kind |-> "status", up |-> TRUE], d)
         /\ Forget(c) # Touch(d) /\ Down # Touch(d)
<1>1. /\ Touch(c).kind = "touch" /\ Touch(d).kind = "touch"
      /\ Forget(c).kind = "forget" /\ Forget(d).kind = "forget"
      /\ Forget(c).cs = c /\ Forget(d).cs = d /\ Down.kind = "status" /\ Down.up = FALSE
  BY DEF Touch, Forget, Down
<1>2. ~Drops(Touch(c), d)
  BY <1>1 DEF Drops
<1>3. Drops(Forget(c), d) => c = d
  BY <1>1 DEF Drops
<1>4. ~Drops([kind |-> "status", up |-> TRUE], d)
  <2> DEFINE e == [kind |-> "status", up |-> TRUE]
  <2>1. e.kind = "status" /\ e.up = TRUE
    OBVIOUS
  <2> HIDE DEF e
  <2>2. e # Down
    BY <1>1, <2>1
  <2>3. ~Drops(e, d)
    BY <1>1, <2>1, <2>2 DEF Drops
  <2> QED
    BY <2>3 DEF e
<1> QED
  BY <1>1, <1>2, <1>3, <1>4

(* What posting to the analyzer changes.                                   *)
LEMMA PostFacts ==
  ASSUME NEW s, Fits(s), NEW kind \in {"touch", "forget"}, NEW cs \in Callsigns
  PROVE  LET u == Post(s, kind, cs) IN
         /\ Fits(u) /\ u.inRange = s.inRange /\ u.matched = s.matched
         /\ u.situations = s.situations /\ u.modelString = s.modelString
         /\ u.readiness = s.readiness /\ u.tempFsInn = s.tempFsInn
         /\ u.stations = s.stations /\ u.timers = s.timers
         /\ [kind |-> kind, cs |-> cs] \in AnalyzerEvents
         /\ u.queue = Append(s.queue, [kind |-> kind, cs |-> cs])
<1> DEFINE u == Post(s, kind, cs)
           e == [kind |-> kind, cs |-> cs]
<1>1. /\ Shape(u) /\ u.inRange = s.inRange /\ u.matched = s.matched
      /\ u.situations = s.situations /\ u.modelString = s.modelString
      /\ u.readiness = s.readiness /\ u.tempFsInn = s.tempFsInn
      /\ u.stations = s.stations /\ u.timers = s.timers
      /\ u.queue = Append(s.queue, e)
  BY DEF Fits, Shape, Post
<1>2. e \in AnalyzerEvents
  BY DEF AnalyzerEvents
<1> HIDE DEF u, e
<1>3. u.queue \in Seq(AnalyzerEvents)
  BY <1>1, <1>2, AppendedAt DEF Fits
<1>4. Fits(u)
  BY <1>1, <1>3 DEF Fits
<1> QED
  BY <1>1, <1>2, <1>4 DEF u, e

(* An aircraft in range may not be forgotten; a touch has it watched.      *)
LEMMA PostGood ==
  ASSUME NEW s, Fits(s), NEW kind \in {"touch", "forget"}, NEW cs \in Callsigns,
         kind = "forget" => cs \notin s.inRange
  PROVE  /\ Good(s, Post(s, kind, cs))
         /\ kind = "touch" => Will(Post(s, kind, cs).queue, stamps[cs], cs)
<1> DEFINE u == Post(s, kind, cs)
           e == [kind |-> kind, cs |-> cs]
<1>1. /\ Fits(u) /\ u.inRange = s.inRange /\ u.matched = s.matched
      /\ u.situations = s.situations /\ u.modelString = s.modelString
      /\ u.readiness = s.readiness /\ u.tempFsInn = s.tempFsInn
      /\ u.stations = s.stations /\ u.timers = s.timers
      /\ e \in AnalyzerEvents /\ u.queue = Append(s.queue, e)
  BY PostFacts
<1>2. kind = "touch" => e = Touch(cs)
  BY DEF Touch
<1>3. kind = "forget" => e = Forget(cs)
  BY DEF Forget
<1> HIDE DEF u, e
<1>4. \A c \in u.inRange : ~Drops(e, c)
  BY <1>1, <1>2, <1>3, EventDistinct
<1>5. s.queue \in Seq(AnalyzerEvents)
  BY DEF Fits
<1>6. \A c \in u.inRange : Will(s.queue, stamps[c], c) => Will(u.queue, stamps[c], c)
  BY <1>1, <1>4, <1>5, WillAppend
<1>7. KeepsWatch(s, u)
  BY <1>1, <1>6 DEF KeepsWatch
<1>8. KeepsFresh(s, u)
  BY <1>1 DEF KeepsFresh, Fresh, FreshAt, Due
<1>9. KeepsBlank(s, u)
  BY <1>1 DEF KeepsBlank, Blank
<1>10. kind = "touch" => Will(u.queue, stamps[cs], cs)
  BY <1>1, <1>2, <1>5, EventDistinct, WillAppend
<1> QED
  BY <1>1, <1>7, <1>8, <1>9, <1>10 DEF Good, u

(* Storing a situation.                                                    *)
Seen(s, cs) == [s EXCEPT !.situations = @ \cup {cs}]

(* storeAircraftSituation tells the watchdog.                              *)
LEMMA StoreGood ==
  ASSUME NEW s, Fits(s), NEW cs \in Callsigns
  PROVE  LET u == StoreAircraftSituation(s, cs) IN
         /\ Good(s, u) /\ u.inRange = s.inRange
         /\ Will(u.queue, stamps[cs], cs)
<1> DEFINE v == Seen(s, cs)
           u == Post(v, "touch", cs)
<1>1. /\ Shape(v) /\ v.inRange = s.inRange /\ v.matched = s.matched
      /\ v.situations = s.situations \cup {cs} /\ v.modelString = s.modelString
      /\ v.readiness = s.readiness /\ v.tempFsInn = s.tempFsInn
      /\ v.stations = s.stations /\ v.timers = s.timers /\ v.queue = s.queue
  BY DEF Fits, Shape, Seen
<1>0. StoreAircraftSituation(s, cs) = u
  BY DEF StoreAircraftSituation, Seen
<1> HIDE DEF v
<1>2. Fits(v)
  BY <1>1 DEF Fits
<1>3. KeepsFresh(s, v)
  BY <1>1 DEF KeepsFresh, Fresh, FreshAt, Due
<1>4. KeepsBlank(s, v)
  BY <1>1 DEF KeepsBlank, Blank
<1>5. Good(s, v)
  BY <1>1, <1>2, <1>3, <1>4, GoodFrame
<1>6. Good(v, u) /\ Will(u.queue, stamps[cs], cs) /\ u.inRange = v.inRange
  BY <1>2, PostGood, PostFacts
<1> QED
  BY <1>0, <1>1, <1>5, <1>6, GoodTrans

(* What addNewAircraftInRange changes.                                     *)
LEMMA AddNewFacts ==
  ASSUME scenario \in Scenarios, NEW s, Fits(s), NEW cs \in Pilots
  PROVE  LET u == AddNewAircraftInRange(s, cs) IN
         /\ Fits(u) /\ u.inRange = s.inRange \cup {cs} /\ u.matched = s.matched
         /\ u.readiness = s.readiness /\ u.queue = s.queue
         /\ DOMAIN s.timers \subseteq DOMAIN u.timers
<1> DEFINE v == [s EXCEPT !.inRange = @ \cup {cs}]
           u == AddNewAircraftInRange(s, cs)
<1>1. CASE cs \in s.inRange
  BY <1>1 DEF AddNewAircraftInRange
<1>2. CASE cs \notin s.inRange
  <2>1. /\ Shape(v) /\ v.inRange = s.inRange \cup {cs} /\ v.matched = s.matched
        /\ v.situations = s.situations /\ v.modelString = s.modelString
        /\ v.readiness = s.readiness /\ v.tempFsInn = s.tempFsInn
        /\ v.stations = s.stations /\ v.timers = s.timers /\ v.queue = s.queue
    BY DEF Fits, Shape
  <2>2. u = Start(v, Verify(cs))
    BY <1>2 DEF AddNewAircraftInRange
  <2> HIDE DEF v
  <2>3. Fits(v)
    BY <2>1 DEF Fits
  <2>4. Fits(u)
    BY <2>2, <2>3, StartGood, VerifyTimer DEF Good
  <2>5. /\ u.inRange = v.inRange /\ u.matched = v.matched /\ u.readiness = v.readiness
        /\ u.queue = v.queue /\ u.timers = BE!BagAdd(v.timers, Verify(cs))
    BY <2>1, <2>2 DEF Start, Shape
  <2> HIDE DEF u
  <2>6. DOMAIN s.timers \subseteq DOMAIN u.timers
    <3>1. DOMAIN BE!BagAdd(v.timers, Verify(cs)) = DOMAIN v.timers \cup {Verify(cs)}
      BY AddDomain
    <3>2. DOMAIN u.timers = DOMAIN v.timers \cup {Verify(cs)}
      BY <2>5, <3>1
    <3> QED
      BY <2>1, <3>2
  <2>7. /\ Fits(u) /\ u.inRange = s.inRange \cup {cs} /\ u.matched = s.matched
        /\ u.readiness = s.readiness /\ u.queue = s.queue
        /\ DOMAIN s.timers \subseteq DOMAIN u.timers
    BY <2>1, <2>4, <2>5, <2>6
  <2> QED
    BY <2>7 DEF u
<1> QED
  BY <1>1, <1>2

(* It is good while connected, if the aircraft is going to be watched.     *)
LEMMA AddNewGood ==
  ASSUME scenario \in Scenarios, NEW s, Fits(s), NEW cs \in Pilots, connected,
         Will(s.queue, stamps[cs], cs)
  PROVE  Good(s, AddNewAircraftInRange(s, cs))
<1> DEFINE u == AddNewAircraftInRange(s, cs)
<1>1. /\ Fits(u) /\ u.inRange = s.inRange \cup {cs} /\ u.matched = s.matched
      /\ u.readiness = s.readiness /\ u.queue = s.queue
      /\ DOMAIN s.timers \subseteq DOMAIN u.timers
  BY AddNewFacts
<1> HIDE DEF u
<1>2. KeepsFresh(s, u)
  BY <1>1 DEF KeepsFresh, Fresh, FreshAt, Due
<1>3. KeepsBlank(s, u)
  BY DEF KeepsBlank
<1>4. KeepsWatch(s, u)
  BY <1>1 DEF KeepsWatch
<1> QED
  BY <1>1, <1>2, <1>3, <1>4 DEF Good, u

(* onAircraftUpdateReceived.                                               *)
LEMMA UpdateGood ==
  ASSUME scenario \in Scenarios, NEW s, Fits(s), NEW cs \in Pilots, NEW distance \in Distances
  PROVE  Good(s, OnAircraftUpdateReceived(s, cs, distance))
<1> DEFINE t == HandleMaxRange(s, cs, distance)
           v == StoreAircraftSituation(t, cs)
           u == OnAircraftUpdateReceived(s, cs, distance)
<1>1. u = s \/ u = t \/ (connected /\ u = AddNewAircraftInRange(v, cs))
  BY DEF OnAircraftUpdateReceived
<1> HIDE DEF u
<1>2. cs \in Callsigns
  BY ScenarioOK
<1>3. Good(s, t)
  BY <1>2, RemoveGood, GoodRefl DEF HandleMaxRange
<1> HIDE DEF t
<1>4. Good(t, v) /\ Will(v.queue, stamps[cs], cs)
  BY <1>2, <1>3, StoreGood DEF Good
<1> HIDE DEF v
<1>5. CASE connected /\ u = AddNewAircraftInRange(v, cs)
  <2>1. Good(v, u)
    BY <1>4, <1>5, AddNewGood DEF Good
  <2> QED
    BY <1>3, <1>4, <2>1, GoodTrans DEF u
<1> QED
  BY <1>1, <1>3, <1>5, GoodRefl DEF u

(* onPilotDisconnected, which removes the aircraft.                        *)
LEMMA PilotGood ==
  ASSUME scenario \in Scenarios, NEW s, Fits(s), NEW cs \in Callsigns
  PROVE  /\ Good(s, OnPilotDisconnected(s, cs))
         /\ cs \notin OnPilotDisconnected(s, cs).inRange
<1> DEFINE v == WithReadiness(s, cs, NotReady)
           t == RemoveAircraft(v, cs)
           u == OnPilotDisconnected(s, cs)
<1>1. u = t \/ u = Post(t, "forget", cs)
  BY DEF OnPilotDisconnected, WithReadiness
<1> HIDE DEF u
<1>2. Good(s, v) /\ v.readiness[cs] = NotReady
  BY NotReadyOK, ReadinessGood, ReadinessFacts
<1> HIDE DEF v
<1>3. Good(v, t) /\ cs \notin t.inRange
  BY <1>2, NotReadyOK, RemoveGood, RemoveFacts DEF Good
<1> HIDE DEF t
<1>4. Good(s, t) /\ Fits(t)
  BY <1>2, <1>3, GoodTrans DEF Good
<1>5. Good(t, Post(t, "forget", cs)) /\ cs \notin Post(t, "forget", cs).inRange
  BY <1>3, <1>4, PostGood, PostFacts
<1>6. Good(s, u) /\ cs \notin u.inRange
  BY <1>1, <1>3, <1>4, <1>5, GoodTrans
<1> QED
  BY <1>6 DEF u

(* Storing the stations.                                                   *)
WithStations(s, C) == [s EXCEPT !.stations = C]

(* They change while connected only.                                       *)
LEMMA StationsGood ==
  ASSUME NEW s, Fits(s), NEW C, C \subseteq Controllers, connected
  PROVE  /\ Good(s, WithStations(s, C)) /\ WithStations(s, C).inRange = s.inRange
<1> DEFINE u == WithStations(s, C)
<1>1. /\ Shape(u) /\ u.inRange = s.inRange /\ u.situations = s.situations
      /\ u.modelString = s.modelString
      /\ u.matched = s.matched /\ u.readiness = s.readiness
      /\ u.tempFsInn = s.tempFsInn /\ u.stations = C
      /\ u.timers = s.timers /\ u.queue = s.queue
  BY DEF Fits, Shape, WithStations
<1> HIDE DEF u
<1>2. Fits(u)
  BY <1>1 DEF Fits
<1>3. KeepsFresh(s, u)
  BY <1>1 DEF KeepsFresh, Fresh, FreshAt, Due
<1>4. KeepsBlank(s, u)
  BY DEF KeepsBlank
<1> QED
  BY <1>1, <1>2, <1>3, <1>4, GoodFrame DEF u

(* onAtcPositionUpdate.                                                    *)
LEMMA AtcUpdateGood ==
  ASSUME scenario \in Scenarios, NEW s, Fits(s), NEW cs \in Controllers
  PROVE  Good(s, OnAtcPositionUpdate(s, cs))
<1>1. CASE connected
  <2>1. OnAtcPositionUpdate(s, cs) = WithStations(s, s.stations \cup {cs})
    BY <1>1 DEF OnAtcPositionUpdate, WithStations
  <2>2. s.stations \cup {cs} \subseteq Controllers
    BY DEF Fits
  <2> QED
    BY <1>1, <2>1, <2>2, StationsGood
<1>2. CASE ~connected
  BY <1>2, GoodRefl DEF OnAtcPositionUpdate
<1> QED
  BY <1>1, <1>2

(* onAtcControllerDisconnected: a station is no aircraft in range.         *)
LEMMA AtcGoneGood ==
  ASSUME scenario \in Scenarios, NEW s, Fits(s), NEW cs \in Callsigns
  PROVE  Good(s, OnAtcControllerDisconnected(s, cs))
<1>1. CASE connected /\ cs \in s.stations
  <2> DEFINE v == WithStations(s, s.stations \ {cs})
             u == OnAtcControllerDisconnected(s, cs)
  <2>1. u = Post(v, "forget", cs)
    BY <1>1 DEF OnAtcControllerDisconnected, WithStations
  <2>2. s.stations \ {cs} \subseteq Controllers /\ cs \notin s.inRange
    BY <1>1, ScenarioOK DEF Fits
  <2>3. Good(s, v) /\ v.inRange = s.inRange
    BY <1>1, <2>2, StationsGood
  <2> HIDE DEF v, u
  <2>4. Good(v, u)
    BY <2>1, <2>2, <2>3, PostGood DEF Good
  <2> QED
    BY <2>3, <2>4, GoodTrans DEF u
<1>2. CASE ~(connected /\ cs \in s.stations)
  BY <1>2, GoodRefl DEF OnAtcControllerDisconnected
<1> QED
  BY <1>1, <1>2

(* What removeAllAircraft changes.                                         *)
LEMMA RemoveAllFacts ==
  ASSUME scenario \in Scenarios, NEW s, Fits(s)
  PROVE  LET u == RemoveAllAircraft(s) IN
         /\ Fits(u) /\ u.inRange = {} /\ u.matched = {}
         /\ u.readiness = s.readiness /\ u.tempFsInn = s.tempFsInn
         /\ u.stations = s.stations /\ u.timers = s.timers
<1> DEFINE u == RemoveAllAircraft(s)
           E == {[kind |-> "forget", cs |-> cs] : cs \in s.inRange}
           q == SetToSeq(E)
<1>1. /\ Shape(u) /\ u.inRange = {} /\ u.matched = {} /\ u.situations = {}
      /\ u.modelString = {} /\ u.readiness = s.readiness /\ u.tempFsInn = s.tempFsInn
      /\ u.stations = s.stations /\ u.timers = s.timers
      /\ u.queue = s.queue \o q
  BY DEF Fits, Shape, RemoveAllAircraft
<1>2. s.inRange \subseteq Callsigns
  BY ScenarioOK DEF Fits
<1>3. E \subseteq AnalyzerEvents
  BY <1>2 DEF AnalyzerEvents
<1>4. IsFiniteSet(E)
  BY <1>2, EventsFinite
<1> HIDE DEF E
<1>5. q \in Seq(E)
  BY <1>4, SetToSeqOK
<1> HIDE DEF q, u
<1>6. q \in Seq(AnalyzerEvents)
  BY <1>3, <1>5
<1>7. u.queue \in Seq(AnalyzerEvents)
  BY <1>1, <1>6, ConcatAt DEF Fits
<1>8. Fits(u)
  BY <1>1, <1>7 DEF Fits
<1> QED
  BY <1>1, <1>8 DEF u

(* The first half of clear.                                                *)
Wiped(s) == [s EXCEPT !.readiness = [cs \in Callsigns |-> NotReady],
                      !.tempFsInn = {}, !.stations = {}]

(* clear leaves nothing, whatever there was.                               *)
LEMMA ClearFacts ==
  ASSUME scenario \in Scenarios, NEW s, Fits(s)
  PROVE  Fits(Clear(s)) /\ Fresh(Clear(s)) /\ Blank(Clear(s))
<1> DEFINE v == Wiped(s)
           u == Clear(s)
<1>1. /\ Shape(v) /\ v.inRange = s.inRange /\ v.situations = s.situations
      /\ v.modelString = s.modelString /\ v.matched = s.matched
      /\ v.readiness = [cs \in Callsigns |-> NotReady]
      /\ v.tempFsInn = {} /\ v.stations = {}
      /\ v.timers = s.timers /\ v.queue = s.queue
  BY DEF Fits, Shape, Wiped
<1>2. u = RemoveAllAircraft(v)
  BY DEF Clear, Wiped
<1> HIDE DEF v, u
<1>3. v.readiness \in [Callsigns -> Readinesses]
  BY <1>1, NotReadyOK
<1>4. Fits(v)
  BY <1>1, <1>3 DEF Fits
<1>5. /\ Fits(u) /\ u.inRange = {} /\ u.readiness = [cs \in Callsigns |-> NotReady]
      /\ u.tempFsInn = {} /\ u.stations = {}
  BY <1>1, <1>2, <1>4, RemoveAllFacts
<1>6. Fresh(u)
  BY <1>5, NotReadyOK DEF Fresh, FreshAt
<1>7. Blank(u)
  BY <1>5 DEF Blank
<1> QED
  BY <1>5, <1>6, <1>7 DEF u

(***************************************************************************)
(* asyncReInitializeAllAircraft: what the lost timer stood for, the reset  *)
(* of cs, is done.                                                         *)
(***************************************************************************)
LEMMA ReInitializeFacts ==
  ASSUME scenario \in Scenarios, NEW s, Fits(s), NEW cs \in Pilots, NEW known
  PROVE  LET u == ReInitialize(s, cs, known) IN
         /\ Fits(u)
         /\ "far" \notin Distances /\ (\A c \in Callsigns \ {cs} : FreshAt(s, c)) => Fresh(u)
<1> DEFINE a == AddNewAircraftInRange(s, cs)
           v == WithReadiness(a, cs, NotReady)
           k == known /\ cs \notin s.inRange
           t == WithModel(v, cs, k)
           t0 == [a EXCEPT !.readiness[cs] = NotReady,
                           !.modelString = IF known /\ cs \notin s.inRange THEN @ \cup {cs} ELSE @]
           u == ReInitialize(s, cs, known)
<1>0. cs \in Callsigns /\ {"icao", "fsinn"} \in RFs
  BY ScenarioOK DEF RFs
<1>1. u = SendReadyForModelMatching(t0, cs, {"icao", "fsinn"})
  BY DEF ReInitialize
<1>2. /\ Fits(a) /\ a.inRange = s.inRange \cup {cs} /\ a.matched = s.matched
      /\ a.readiness = s.readiness /\ a.queue = s.queue
      /\ DOMAIN s.timers \subseteq DOMAIN a.timers
  BY AddNewFacts
<1> HIDE DEF a
<1>3. t0 = t
  BY <1>2 DEF Fits, Shape, WithReadiness, WithModel
<1> HIDE DEF t0, u, k
<1>4. /\ Fits(v) /\ v.inRange = a.inRange /\ v.matched = a.matched /\ v.timers = a.timers
      /\ v.readiness[cs] = NotReady
      /\ \A c \in Callsigns \ {cs} : v.readiness[c] = a.readiness[c]
  BY <1>0, <1>2, NotReadyOK, ReadinessFacts
<1> HIDE DEF v
<1>5. (\A c \in Callsigns \ {cs} : FreshAt(s, c)) => Fresh(v)
  BY <1>2, <1>4, NotReadyOK DEF Fresh, FreshAt, Due
<1>6. Good(v, t)
  BY <1>0, <1>2, <1>4, ModelGood
<1> HIDE DEF t
<1>7. Good(t, u)
  BY <1>0, <1>1, <1>3, <1>6, SendReadyGood DEF Good
<1>8. Good(v, u)
  BY <1>6, <1>7, GoodTrans
<1> QED
  BY <1>5, <1>8 DEF Good, KeepsFresh, u

-----------------------------------------------------------------------------
(* The state of the watchdog.                                              *)
Watchdogs == [left : -1..UpdateInterval, sinceCall : Int, pause : Int]

(* The inductive type invariant.                                           *)
TypeInv ==
  /\ scenario \in Scenarios
  /\ Fits(Now)
  /\ mainQueue \in Seq(MainEvents)
  /\ stamps \in [Callsigns -> Int]
  /\ watchdog \in Watchdogs

(***************************************************************************)
(* The part for NoStaleReadiness: it holds of callsigns that are not in    *)
(* range too, and while the timers of .reinit run.                         *)
(***************************************************************************)
FreshInv == "far" \notin Distances => Fresh(Now)

(***************************************************************************)
(* The part for Watched: an aircraft in range is going to be watched, or   *)
(* it is going to be removed, by the end of the session or by a time out   *)
(* that is under way.                                                      *)
(***************************************************************************)
WatchInv ==
  "reinit" \notin Sent =>
    \A cs \in inRange :
      \/ Within(Down, mainQueue) \/ Within(TimedOut(cs), mainQueue)
      \/ Will(queue, stamps[cs], cs)

(***************************************************************************)
(* The part for LeavesNothing: once the client is disconnected, nothing is *)
(* left, or the signal that clears it is under way.                        *)
(***************************************************************************)
BlankInv ==
  "reinit" \notin Sent /\ ~connected => Within(Down, mainQueue) \/ Blank(Now)

(* The inductive invariant.                                                *)
Inv == TypeInv /\ FreshInv /\ WatchInv /\ BlankInv

(* The fields of the monitor's state,                                      *)
LEMMA NowFields ==
  /\ Shape(Now) /\ Now.inRange = inRange /\ Now.situations = situations
  /\ Now.modelString = modelString /\ Now.readiness = readiness
  /\ Now.tempFsInn = tempFsInn /\ Now.stations = stations
  /\ Now.timers = timers /\ Now.matched = matched /\ Now.queue = queue
  BY DEF Now, Shape

(* and of the next one.                                                    *)
LEMMA NowFieldsNext ==
  /\ Shape(Now') /\ Now'.inRange = inRange' /\ Now'.situations = situations'
  /\ Now'.modelString = modelString' /\ Now'.readiness = readiness'
  /\ Now'.tempFsInn = tempFsInn' /\ Now'.stations = stations'
  /\ Now'.timers = timers' /\ Now'.matched = matched' /\ Now'.queue = queue'
  BY DEF Now, Shape

(* The scenario stays, and the types with it.                              *)
LEMMA SameScenario ==
  ASSUME UNCHANGED scenario
  PROVE  /\ Pilots' = Pilots /\ Controllers' = Controllers /\ Sent' = Sent
         /\ Distances' = Distances
         /\ TimerSet' = TimerSet /\ MainEvents' = MainEvents /\ AnalyzerEvents' = AnalyzerEvents
  BY DEF Pilots, Controllers, Sent, Distances, TimerSet, TimerKinds, MainEvents, AnalyzerEvents

(* The invariants in the next state, in terms of the variables: types,     *)
LEMMA FitsNext ==
  ASSUME UNCHANGED scenario,
         situations' \subseteq Callsigns, inRange' \subseteq Pilots, stations' \subseteq Controllers,
         modelString' \subseteq inRange', matched' \subseteq inRange',
         readiness' \in [Callsigns -> Readinesses],
         DOMAIN timers' \subseteq TimerSet, queue' \in Seq(AnalyzerEvents)
  PROVE  Fits(Now)'
  BY SameScenario, NowFieldsNext DEF Fits, Shape, Readinesses

(* readiness,                                                              *)
LEMMA FreshNext ==
  Fresh(Now)' <=>
    \A cs \in Callsigns :
      "sent" \in readiness'[cs].flags =>
        cs \in matched' \/ \E t \in DOMAIN timers' : t.kind = "reinit" /\ t.cs = cs
  BY NowFieldsNext DEF Fresh, FreshAt, Due

(* and the end of a session.                                               *)
LEMMA BlankNext ==
  Blank(Now)' <=> /\ inRange' = {} /\ stations' = {} /\ tempFsInn' = {}
                  /\ \A cs \in Callsigns : readiness'[cs] = NotReady
  BY NowFieldsNext DEF Blank, NotReady

(* A handler that leaves the monitor in state S.                           *)
LEMMA Becomes ==
  ASSUME UNCHANGED scenario, NEW S, Become(S)
  PROVE  /\ inRange' = S.inRange /\ queue' = S.queue
         /\ Fits(S) => Fits(Now)'
         /\ Fresh(S) => Fresh(Now)'
         /\ Blank(S) => Blank(Now)'
<1>1. /\ inRange' = S.inRange /\ situations' = S.situations
      /\ modelString' = S.modelString /\ readiness' = S.readiness
      /\ tempFsInn' = S.tempFsInn /\ stations' = S.stations
      /\ timers' = S.timers /\ matched' = S.matched /\ queue' = S.queue
  BY Zenon DEF Become
<1>2. Fits(S) => Fits(Now)'
  BY <1>1, FitsNext DEF Fits
<1>3. Fresh(S) => Fresh(Now)'
  BY <1>1, FreshNext DEF Fresh, FreshAt, Due
<1>4. Blank(S) => Blank(Now)'
  BY <1>1, BlankNext DEF Blank
<1> QED
  BY <1>1, <1>2, <1>3, <1>4

(***************************************************************************)
(* A good step keeps the invariant, if no event is taken that the          *)
(* invariant counts on.                                                    *)
(***************************************************************************)
LEMMA GoodStep ==
  ASSUME Inv, UNCHANGED <<scenario, connected, stamps, watchdog>>,
         NEW S, Good(Now, S), Become(S),
         mainQueue' \in Seq(MainEvents),
         Within(Down, mainQueue) => Within(Down, mainQueue'),
         \A cs \in S.inRange :
           Within(TimedOut(cs), mainQueue) => Within(TimedOut(cs), mainQueue')
  PROVE  Inv'
<1>1. /\ inRange' = S.inRange /\ queue' = S.queue
      /\ Fits(S) => Fits(Now)'
      /\ Fresh(S) => Fresh(Now)'
      /\ Blank(S) => Blank(Now)'
  BY Becomes
<1>2. /\ Distances' = Distances /\ Sent' = Sent /\ MainEvents' = MainEvents
  BY SameScenario
<1>3. TypeInv'
  BY <1>1, <1>2 DEF Inv, TypeInv, Good
<1>4. FreshInv'
  BY <1>1, <1>2 DEF Inv, FreshInv, Good, KeepsFresh
<1>5. BlankInv'
  <2> SUFFICES ASSUME "reinit" \notin Sent, ~connected
               PROVE  Within(Down, mainQueue') \/ Blank(Now)'
    BY <1>2 DEF BlankInv, Within, Down
  <2>1. Within(Down, mainQueue) \/ Blank(Now)
    BY DEF Inv, BlankInv
  <2> QED
    BY <1>1, <2>1 DEF Good, KeepsBlank
<1>6. WatchInv'
  <2> SUFFICES ASSUME "reinit" \notin Sent, NEW cs \in inRange'
               PROVE  \/ Within(Down, mainQueue') \/ Within(TimedOut(cs), mainQueue')
                      \/ Will(queue', stamps'[cs], cs)
    BY <1>2 DEF WatchInv, Within, Down, TimedOut, Will, Drops, Touch, Forget
  <2>1. cs \in S.inRange /\ queue' = S.queue
    BY <1>1
  <2>2. \/ Will(S.queue, stamps[cs], cs)
        \/ cs \in inRange /\ (Will(queue, stamps[cs], cs) => Will(S.queue, stamps[cs], cs))
    BY <2>1, NowFields DEF Good, KeepsWatch
  <2>3. CASE Will(S.queue, stamps[cs], cs)
    BY <2>1, <2>3
  <2>4. CASE cs \in inRange /\ (Will(queue, stamps[cs], cs) => Will(S.queue, stamps[cs], cs))
    <3>1. \/ Within(Down, mainQueue) \/ Within(TimedOut(cs), mainQueue)
          \/ Will(queue, stamps[cs], cs)
      BY <2>4 DEF Inv, WatchInv
    <3> QED
      BY <2>1, <2>4, <3>1
  <2> QED
    BY <2>2, <2>3, <2>4
<1> QED
  BY <1>3, <1>4, <1>5, <1>6 DEF Inv

(* The events of the main thread by their kind.                            *)
LEMMA EventKinds ==
  ASSUME NEW e \in MainEvents
  PROVE  /\ e.kind \in {"position", "icao", "fsinn", "delete", "timeout", "status"}
         /\ e.kind = "position" => e.cs \in Pilots \cup Controllers /\ e.distance \in Distances
         /\ e.kind \in {"icao", "fsinn", "delete", "timeout"} => e.cs \in Callsigns
         /\ e.kind = "status" => e.up \in BOOLEAN /\ e = [kind |-> "status", up |-> e.up]
         /\ e.kind # "status" => e # Down
         /\ e.up = TRUE => e # Down
         /\ e.kind # "timeout" => \A cs : e # TimedOut(cs)
         /\ \A cs : cs # e.cs => e # TimedOut(cs)
<1>1. Down.kind = "status" /\ Down.up = FALSE
  BY DEF Down
<1>2. \A cs : TimedOut(cs).kind = "timeout" /\ TimedOut(cs).cs = cs
  BY DEF TimedOut
<1>3. CASE e \in [kind : {"position"}, cs : Pilots \cup Controllers, distance : Distances]
  BY <1>1, <1>2, <1>3
<1>4. CASE e \in [kind : {"icao", "fsinn", "delete", "timeout"}, cs : Callsigns]
  BY <1>1, <1>2, <1>4
<1>5. CASE e \in [kind : {"status"}, up : BOOLEAN]
  BY <1>1, <1>2, <1>5
<1> QED
  BY <1>3, <1>4, <1>5 DEF MainEvents

(* The main thread takes the oldest event and leaves the others.           *)
LEMMA HandlesFacts ==
  ASSUME Inv, NEW kind, Handles(kind)
  PROVE  /\ UNCHANGED <<connected, stamps, watchdog>>
         /\ Event \in MainEvents /\ Event.kind = kind
         /\ mainQueue' \in Seq(MainEvents)
         /\ \A x : Within(x, mainQueue) /\ x # Event => Within(x, mainQueue')
<1>1. /\ mainQueue # <<>> /\ Event.kind = kind /\ mainQueue' = Tail(mainQueue)
      /\ UNCHANGED <<connected, stamps, watchdog>>
  BY DEF Handles, Event, network
<1>2. mainQueue \in Seq(MainEvents)
  BY DEF Inv, TypeInv
<1>3. Event \in MainEvents /\ mainQueue' \in Seq(MainEvents)
  BY <1>1, <1>2, TailAt DEF Event
<1>4. \A x : Within(x, mainQueue) /\ x # Event => Within(x, mainQueue')
  BY <1>1, <1>2, WithinTail DEF Event
<1> QED
  BY <1>1, <1>3, <1>4

(***************************************************************************)
(* A handler that does a good step keeps the invariant, unless its event   *)
(* is the end of a session, or the time out of an aircraft that stays.     *)
(***************************************************************************)
LEMMA HandledGood ==
  ASSUME Inv, UNCHANGED scenario, NEW kind, Handles(kind), Event # Down,
         NEW S, Good(Now, S), Become(S),
         \A cs \in S.inRange : Event # TimedOut(cs)
  PROVE  Inv'
<1>1. /\ UNCHANGED <<connected, stamps, watchdog>>
      /\ mainQueue' \in Seq(MainEvents)
      /\ \A x : Within(x, mainQueue) /\ x # Event => Within(x, mainQueue')
  BY HandlesFacts
<1> QED
  BY <1>1, GoodStep

(* Positions.                                                              *)
LEMMA HandlePositionKeeps ==
  ASSUME Inv, UNCHANGED scenario, HandlePosition
  PROVE  Inv'
<1> DEFINE S == IF Event.cs \in Pilots
                THEN OnAircraftUpdateReceived(Now, Event.cs, Event.distance)
                ELSE OnAtcPositionUpdate(Now, Event.cs)
<1>1. Handles("position") /\ Become(S)
  BY DEF HandlePosition
<1>2. Event \in MainEvents /\ Event.kind = "position"
  BY <1>1, HandlesFacts
<1>3. /\ Event.cs \in Pilots \cup Controllers /\ Event.distance \in Distances
      /\ Event # Down /\ \A cs : Event # TimedOut(cs)
  BY <1>2, EventKinds
<1>4. scenario \in Scenarios /\ Fits(Now)
  BY DEF Inv, TypeInv
<1>5. Good(Now, S)
  BY <1>3, <1>4, UpdateGood, AtcUpdateGood
<1> HIDE DEF S
<1> QED
  BY <1>1, <1>3, <1>5, HandledGood

(* ICAO codes, FsInn packets and delete messages.                          *)
LEMMA HandleDataKeeps ==
  ASSUME Inv, UNCHANGED scenario, HandleIcao \/ HandleFsInn \/ HandleDelete
  PROVE  Inv'
<1>1. scenario \in Scenarios /\ Fits(Now)
  BY DEF Inv, TypeInv
<1>2. ASSUME NEW kind \in {"icao", "fsinn", "delete"}, Handles(kind)
      PROVE  /\ Event.cs \in Callsigns /\ Event # Down
             /\ \A cs : Event # TimedOut(cs)
  <2>1. Event \in MainEvents /\ Event.kind = kind
    BY <1>2, HandlesFacts
  <2> QED
    BY <2>1, EventKinds
<1>3. CASE HandleIcao
  <2>1. PICK known \in BOOLEAN : Become(OnIcaoCodesReceived(Now, Event.cs, known))
    BY <1>3, Zenon DEF HandleIcao
  <2>2. Handles("icao")
    BY <1>3 DEF HandleIcao
  <2> DEFINE S == OnIcaoCodesReceived(Now, Event.cs, known)
  <2>3. Good(Now, S)
    BY <1>1, <1>2, <2>2, IcaoGood
  <2> HIDE DEF S
  <2> QED
    BY <1>2, <2>1, <2>2, <2>3, HandledGood DEF S
<1>4. CASE HandleFsInn
  <2>1. PICK known \in BOOLEAN : Become(OnCustomFSInnPacketReceived(Now, Event.cs, known))
    BY <1>4, Zenon DEF HandleFsInn
  <2>2. Handles("fsinn")
    BY <1>4 DEF HandleFsInn
  <2> DEFINE S == OnCustomFSInnPacketReceived(Now, Event.cs, known)
  <2>3. Good(Now, S)
    BY <1>1, <1>2, <2>2, FsInnGood
  <2> HIDE DEF S
  <2> QED
    BY <1>2, <2>1, <2>2, <2>3, HandledGood DEF S
<1>5. CASE HandleDelete
  <2>1. Handles("delete") /\ Become(Now)
    BY <1>5 DEF HandleDelete
  <2>2. Good(Now, Now)
    BY <1>1, GoodRefl
  <2> QED
    BY <1>2, <2>1, <2>2, HandledGood
<1> QED
  BY <1>3, <1>4, <1>5

(* A time out removes its aircraft.                                        *)
LEMMA HandleTimeoutKeeps ==
  ASSUME Inv, UNCHANGED scenario, HandleTimeout
  PROVE  Inv'
<1> DEFINE S == IF Event.cs \in Pilots THEN OnPilotDisconnected(Now, Event.cs)
                ELSE OnAtcControllerDisconnected(Now, Event.cs)
<1>1. Handles("timeout") /\ Become(S)
  BY DEF HandleTimeout
<1>2. Event \in MainEvents /\ Event.kind = "timeout"
  BY <1>1, HandlesFacts
<1>3. /\ Event.cs \in Callsigns /\ Event # Down
      /\ \A cs : cs # Event.cs => Event # TimedOut(cs)
  BY <1>2, EventKinds
<1>4. scenario \in Scenarios /\ Fits(Now)
  BY DEF Inv, TypeInv
<1>5. Good(Now, S)
  BY <1>3, <1>4, PilotGood, AtcGoneGood
<1>6. Event.cs \in Pilots => Event.cs \notin S.inRange
  BY <1>3, <1>4, PilotGood
<1> HIDE DEF S
<1>7. S.inRange \subseteq Pilots
  BY <1>5 DEF Good, Fits
<1>8. \A cs \in S.inRange : Event # TimedOut(cs)
  BY <1>3, <1>6, <1>7
<1> QED
  BY <1>1, <1>3, <1>5, <1>8, HandledGood

(* The end of a session clears everything.                                 *)
LEMMA StatusKeeps ==
  ASSUME Inv, UNCHANGED scenario, OnConnectionStatusChanged
  PROVE  Inv'
<1>1. Handles("status") /\ Become(IF Event.up THEN Now ELSE Clear(Now))
  BY DEF OnConnectionStatusChanged
<1>2. /\ Event \in MainEvents /\ Event.kind = "status"
      /\ UNCHANGED <<connected, stamps, watchdog>> /\ mainQueue' \in Seq(MainEvents)
  BY <1>1, HandlesFacts
<1>3. scenario \in Scenarios /\ Fits(Now)
  BY DEF Inv, TypeInv
<1>4. Event.up = TRUE \/ Event.up = FALSE
  BY <1>2, EventKinds, BoolCases
<1>5. CASE Event.up = TRUE
  <2>1. Event # Down /\ \A cs : Event # TimedOut(cs)
    BY <1>2, <1>5, EventKinds
  <2>2. Become(Now)
    BY <1>1, <1>5
  <2>3. Good(Now, Now)
    BY <1>3, GoodRefl
  <2> QED
    BY <1>1, <2>1, <2>2, <2>3, HandledGood
<1>6. CASE Event.up = FALSE
  <2> DEFINE S == Clear(Now)
  <2>1. Become(S)
    BY <1>1, <1>6
  <2>2. Fits(S) /\ Fresh(S) /\ Blank(S)
    BY <1>3, ClearFacts
  <2> HIDE DEF S
  <2>3. Fits(Now)' /\ Fresh(Now)' /\ Blank(Now)' /\ inRange' = S.inRange
    BY <2>1, <2>2, Becomes
  <2>4. inRange' = {}
    BY <2>2, <2>3 DEF Blank
  <2>5. TypeInv'
    BY <1>2, <2>3, SameScenario DEF Inv, TypeInv
  <2> QED
    BY <2>3, <2>4, <2>5 DEF Inv, FreshInv, WatchInv, BlankInv
<1> QED
  BY <1>4, <1>5, <1>6

(* A timer has fired; good unless it is one of .reinit.                    *)
LEMMA StopFacts ==
  ASSUME NEW t, Fits(Now), t \in DOMAIN timers
  PROVE  LET s == [Now EXCEPT !.timers = BE!BagRemove(@, t)] IN
         /\ Fits(s) /\ t \in TimerSet
         /\ t.kind # "reinit" => Good(Now, s)
         /\ Fresh(Now) => \A c \in Callsigns \ {t.cs} : FreshAt(s, c)
<1> DEFINE s == [Now EXCEPT !.timers = BE!BagRemove(@, t)]
<1>1. /\ Shape(s) /\ s.inRange = inRange /\ s.situations = situations
      /\ s.modelString = modelString /\ s.readiness = readiness
      /\ s.tempFsInn = tempFsInn /\ s.stations = stations
      /\ s.matched = matched /\ s.queue = queue
      /\ s.timers = BE!BagRemove(timers, t)
  BY NowFields DEF Shape
<1> HIDE DEF s
<1>2. /\ DOMAIN s.timers \subseteq DOMAIN timers
      /\ DOMAIN timers \ {t} \subseteq DOMAIN s.timers
  BY <1>1, RemoveDomain
<1>3. Fits(s) /\ t \in TimerSet
  BY <1>1, <1>2, NowFields DEF Fits
<1>4. Fresh(Now) => \A c \in Callsigns \ {t.cs} : FreshAt(s, c)
  BY <1>1, <1>2, NowFields DEF Fresh, FreshAt, Due
<1>5. ASSUME t.kind # "reinit" PROVE Good(Now, s)
  <2>1. KeepsFresh(Now, s)
    BY <1>1, <1>2, <1>5, NowFields DEF KeepsFresh, Fresh, FreshAt, Due
  <2>2. KeepsBlank(Now, s)
    BY <1>1, NowFields DEF KeepsBlank, Blank
  <2> QED
    BY <1>1, <1>3, <2>1, <2>2, NowFields, GoodFrame
<1> QED
  BY <1>3, <1>4, <1>5 DEF s

(* The timer of sendReadyForModelMatching.                                 *)
LEMMA CheckAgainKeeps ==
  ASSUME Inv, UNCHANGED scenario, Fires("again", CheckAgain)
  PROVE  Inv'
<1>1. PICK t \in DOMAIN timers :
        /\ t.kind = "again"
        /\ CheckAgain([Now EXCEPT !.timers = BE!BagRemove(@, t)], t)
        /\ UNCHANGED <<network, mainQueue, stamps, watchdog>>
  BY DEF Fires
<1> DEFINE s == [Now EXCEPT !.timers = BE!BagRemove(@, t)]
<1>2. scenario \in Scenarios /\ Fits(Now)
  BY DEF Inv, TypeInv
<1>3. Good(Now, s) /\ Fits(s) /\ t \in TimerSet
  BY <1>1, <1>2, StopFacts
<1>4. CheckAgain(s, t) /\ UNCHANGED <<connected, mainQueue, stamps, watchdog>>
  BY <1>1 DEF network
<1> HIDE DEF s
<1>5. t.cs \in Callsigns
  BY <1>2, <1>3, ScenarioOK DEF TimerSet
<1>6. mainQueue' \in Seq(MainEvents) /\ mainQueue' = mainQueue
  BY <1>4 DEF Inv, TypeInv
<1>7. ASSUME NEW S, Good(s, S), Become(S) PROVE Inv'
  <2>1. Good(Now, S)
    BY <1>3, <1>7, GoodTrans
  <2> QED
    BY <1>4, <1>6, <1>7, <2>1, GoodStep
<1>8. CASE Become(s)
  BY <1>3, <1>7, <1>8, GoodRefl
<1>9. CASE Become(SendReadyForModelMatching(s, t.cs, {"recursive"}))
  <2>1. {"recursive"} \in RFs
    BY DEF RFs
  <2>2. Good(s, SendReadyForModelMatching(s, t.cs, {"recursive"}))
    BY <1>2, <1>3, <1>5, <2>1, SendReadyGood
  <2> QED
    BY <1>7, <1>9, <2>2
<1>10. ASSUME NEW known \in BOOLEAN,
              Become(OnCustomFSInnPacketReceived([s EXCEPT !.tempFsInn = @ \ {t.cs}], t.cs, known))
       PROVE  Inv'
  <2> DEFINE v == WithPackets(s, s.tempFsInn \ {t.cs})
  <2>1. Become(OnCustomFSInnPacketReceived(v, t.cs, known))
    BY <1>10 DEF WithPackets
  <2>2. Good(s, v)
    BY <1>3, PacketsGood
  <2> HIDE DEF v
  <2>3. Good(v, OnCustomFSInnPacketReceived(v, t.cs, known))
    BY <1>2, <1>5, <2>2, FsInnGood DEF Good
  <2>4. Good(s, OnCustomFSInnPacketReceived(v, t.cs, known))
    BY <2>2, <2>3, GoodTrans
  <2> QED
    BY <1>7, <2>1, <2>4
<1>11. \/ Become(s)
       \/ Become(SendReadyForModelMatching(s, t.cs, {"recursive"}))
       \/ \E known \in BOOLEAN :
            Become(OnCustomFSInnPacketReceived([s EXCEPT !.tempFsInn = @ \ {t.cs}], t.cs, known))
  BY <1>4, Zenon DEF CheckAgain
<1> QED
  BY <1>8, <1>9, <1>10, <1>11

(* The timer of verifyReceivedIcaoData.                                    *)
LEMMA VerifyAgainKeeps ==
  ASSUME Inv, UNCHANGED scenario, Fires("verify", VerifyAgain)
  PROVE  Inv'
<1>1. PICK t \in DOMAIN timers :
        /\ t.kind = "verify"
        /\ VerifyAgain([Now EXCEPT !.timers = BE!BagRemove(@, t)], t)
        /\ UNCHANGED <<network, mainQueue, stamps, watchdog>>
  BY DEF Fires
<1> DEFINE s == [Now EXCEPT !.timers = BE!BagRemove(@, t)]
           S == VerifyReceivedIcaoData(s, t.cs)
<1>2. scenario \in Scenarios /\ Fits(Now)
  BY DEF Inv, TypeInv
<1>3. Good(Now, s) /\ Fits(s) /\ t \in TimerSet
  BY <1>1, <1>2, StopFacts
<1>4. Become(S) /\ UNCHANGED <<connected, mainQueue, stamps, watchdog>>
  BY <1>1 DEF VerifyAgain, network
<1> HIDE DEF s
<1>5. t.cs \in Callsigns
  BY <1>2, <1>3, ScenarioOK DEF TimerSet
<1>6. mainQueue' \in Seq(MainEvents) /\ mainQueue' = mainQueue
  BY <1>4 DEF Inv, TypeInv
<1>7. Good(Now, S)
  BY <1>2, <1>3, <1>5, VerifyGood, GoodTrans
<1> HIDE DEF S
<1> QED
  BY <1>4, <1>6, <1>7, GoodStep

(* The timers of .reinit.                                                  *)
LEMMA ReInitKeeps ==
  ASSUME Inv, UNCHANGED scenario, Fires("reinit", ReInitAgain)
  PROVE  Inv'
<1>1. PICK t \in DOMAIN timers :
        /\ t.kind = "reinit"
        /\ ReInitAgain([Now EXCEPT !.timers = BE!BagRemove(@, t)], t)
        /\ UNCHANGED <<network, mainQueue, stamps, watchdog>>
  BY DEF Fires
<1> DEFINE s == [Now EXCEPT !.timers = BE!BagRemove(@, t)]
           S == ReInitialize(s, t.cs, "model" \in t.rf)
<1>2. scenario \in Scenarios /\ Fits(Now)
  BY DEF Inv, TypeInv
<1>3. /\ Fits(s) /\ t \in TimerSet
      /\ Fresh(Now) => \A c \in Callsigns \ {t.cs} : FreshAt(s, c)
  BY <1>1, <1>2, StopFacts
<1>4. Become(S) /\ UNCHANGED <<connected, mainQueue, stamps, watchdog>>
  BY <1>1 DEF ReInitAgain, network
<1> HIDE DEF s
<1>5. t.cs \in Pilots /\ "reinit" \in Sent
  BY <1>1, <1>3 DEF TimerSet, TimerKinds
<1>6. Fits(S) /\ ("far" \notin Distances /\ Fresh(Now) => Fresh(S))
  BY <1>2, <1>3, <1>5, ReInitializeFacts
<1> HIDE DEF S
<1>7. Fits(Now)' /\ (Fresh(S) => Fresh(Now)')
  BY <1>4, <1>6, Becomes
<1>8. Distances' = Distances /\ Sent' = Sent /\ MainEvents' = MainEvents
  BY SameScenario
<1>9. TypeInv'
  BY <1>4, <1>7, <1>8 DEF Inv, TypeInv
<1>10. FreshInv'
  BY <1>6, <1>7, <1>8 DEF Inv, FreshInv
<1> QED
  BY <1>5, <1>8, <1>9, <1>10 DEF Inv, WatchInv, BlankInv

(* Steps of others that leave the monitor as it is.                        *)
LEMMA MonitorRests ==
  ASSUME Inv, UNCHANGED <<scenario, monitor>>,
         queue' \in Seq(AnalyzerEvents), mainQueue' \in Seq(MainEvents),
         stamps' \in [Callsigns -> Int], watchdog' \in Watchdogs,
         Within(Down, mainQueue) => Within(Down, mainQueue'),
         \A cs \in inRange :
           \/ Within(Down, mainQueue') \/ Within(TimedOut(cs), mainQueue')
           \/ (Within(TimedOut(cs), mainQueue) => Within(TimedOut(cs), mainQueue'))
              /\ (Will(queue, stamps[cs], cs) => Will(queue', stamps'[cs], cs)),
         connected' \/ ~connected \/ Within(Down, mainQueue')
  PROVE  Inv'
<1>1. /\ inRange' = inRange /\ situations' = situations /\ modelString' = modelString
      /\ readiness' = readiness /\ tempFsInn' = tempFsInn /\ stations' = stations
      /\ timers' = timers /\ matched' = matched
  BY DEF monitor
<1>2. Distances' = Distances /\ Sent' = Sent /\ MainEvents' = MainEvents
  BY SameScenario
<1>3. Fits(Now)
  BY DEF Inv, TypeInv
<1>4. Fits(Now)'
  BY <1>1, <1>3, NowFields, FitsNext DEF Fits
<1>5. TypeInv'
  BY <1>2, <1>4 DEF Inv, TypeInv
<1>6. Fresh(Now) => Fresh(Now)'
  BY <1>1, NowFields, FreshNext DEF Fresh, FreshAt, Due
<1>7. FreshInv'
  BY <1>2, <1>6 DEF Inv, FreshInv
<1>8. Blank(Now) => Blank(Now)'
  BY <1>1, NowFields, BlankNext DEF Blank
<1>9. BlankInv'
  <2> SUFFICES ASSUME "reinit" \notin Sent, ~connected'
               PROVE  Within(Down, mainQueue') \/ Blank(Now)'
    BY <1>2 DEF BlankInv, Within, Down
  <2> QED
    BY <1>8 DEF Inv, BlankInv
<1>10. WatchInv'
  <2> SUFFICES ASSUME "reinit" \notin Sent, NEW cs \in inRange
               PROVE  \/ Within(Down, mainQueue') \/ Within(TimedOut(cs), mainQueue')
                      \/ Will(queue', stamps'[cs], cs)
    BY <1>1, <1>2 DEF WatchInv, Within, Down, TimedOut, Will, Drops, Touch, Forget
  <2>1. \/ Within(Down, mainQueue) \/ Within(TimedOut(cs), mainQueue)
        \/ Will(queue, stamps[cs], cs)
    BY DEF Inv, WatchInv
  <2> QED
    BY <2>1
<1> QED
  BY <1>5, <1>7, <1>9, <1>10 DEF Inv

(* The events of the analyzer by their kind.                               *)
LEMMA AnalyzerEventKinds ==
  ASSUME NEW e \in AnalyzerEvents
  PROVE  /\ e.kind \in {"touch", "forget"} => e.cs \in Callsigns
         /\ e.kind = "touch" => e = Touch(e.cs)
         /\ e.kind = "forget" => e = Forget(e.cs)
         /\ e.kind = "status" =>
              (e.up /\ e = [kind |-> "status", up |-> TRUE]) \/ (~e.up /\ e = Down)
<1>1. CASE e \in [kind : {"touch", "forget"}, cs : Callsigns]
  BY <1>1 DEF Touch, Forget
<1>2. CASE e \in [kind : {"status"}, up : BOOLEAN]
  <2>1. e.kind = "status" /\ e.up \in BOOLEAN /\ e = [kind |-> "status", up |-> e.up]
    BY <1>2
  <2>2. e.up = TRUE \/ e.up = FALSE
    BY <2>1, BoolCases
  <2>3. CASE e.up = TRUE
    BY <2>1, <2>3
  <2>4. CASE e.up = FALSE
    BY <2>1, <2>4 DEF Down
  <2> QED
    BY <2>1, <2>2, <2>3, <2>4
<1> QED
  BY <1>1, <1>2 DEF AnalyzerEvents

(* What the type invariant says of the queues and the analyzer.            *)
LEMMA AnalyzerFacts ==
  ASSUME Inv
  PROVE  /\ queue \in Seq(AnalyzerEvents) /\ mainQueue \in Seq(MainEvents)
         /\ stamps \in [Callsigns -> Int] /\ watchdog \in Watchdogs
         /\ scenario \in Scenarios /\ inRange \subseteq Callsigns
         /\ queue # <<>> => Head(queue) \in AnalyzerEvents /\ Tail(queue) \in Seq(AnalyzerEvents)
<1>1. /\ queue \in Seq(AnalyzerEvents) /\ mainQueue \in Seq(MainEvents)
      /\ stamps \in [Callsigns -> Int] /\ watchdog \in Watchdogs
      /\ scenario \in Scenarios /\ inRange \subseteq Callsigns
  BY NowFields, ScenarioOK DEF Inv, TypeInv, Fits
<1>2. queue # <<>> => Head(queue) \in AnalyzerEvents /\ Tail(queue) \in Seq(AnalyzerEvents)
  BY <1>1, TailAt
<1> QED
  BY <1>1, <1>2

(* The analyzer takes an event and sets the time stamps accordingly.       *)
LEMMA AnalyzerTakes ==
  ASSUME Inv, UNCHANGED <<scenario, connected, mainQueue, monitor>>,
         queue # <<>>, queue' = Tail(queue),
         stamps' \in [Callsigns -> Int], watchdog' \in Watchdogs,
         \A cs \in inRange :
           /\ Head(queue) = Touch(cs) => stamps'[cs] >= 0
           /\ stamps[cs] >= 0 /\ ~Drops(Head(queue), cs) => stamps'[cs] >= 0
  PROVE  Inv'
<1>1. queue' \in Seq(AnalyzerEvents) /\ mainQueue' \in Seq(MainEvents)
  BY AnalyzerFacts
<1>2. \A cs \in inRange : Will(queue, stamps[cs], cs) => Will(queue', stamps'[cs], cs)
  BY AnalyzerFacts, WillTail
<1>3. mainQueue' = mainQueue /\ connected' = connected
  OBVIOUS
<1> QED
  BY <1>1, <1>2, <1>3, MonitorRests

(* watchdogTouchCallsign.                                                  *)
LEMMA TouchKeeps ==
  ASSUME Inv, UNCHANGED scenario, WatchdogTouch
  PROVE  Inv'
<1> DEFINE e == Head(queue)
<1>1. /\ queue # <<>> /\ e.kind = "touch" /\ queue' = Tail(queue)
      /\ stamps' = [stamps EXCEPT ![e.cs] = 0]
      /\ UNCHANGED <<connected, mainQueue, monitor, watchdog>>
  BY DEF WatchdogTouch, network
<1>2. e \in AnalyzerEvents
  BY <1>1, AnalyzerFacts
<1> HIDE DEF e
<1>3. e.cs \in Callsigns /\ e = Touch(e.cs)
  BY <1>1, <1>2, AnalyzerEventKinds
<1>4. stamps' \in [Callsigns -> Int] /\ watchdog' \in Watchdogs
  BY <1>1, <1>3, AnalyzerFacts
<1>5. \A cs \in Callsigns : e = Touch(cs) => cs = e.cs
  BY <1>3 DEF Touch
<1>6. \A cs \in inRange : /\ e = Touch(cs) => stamps'[cs] >= 0
                          /\ stamps[cs] >= 0 => stamps'[cs] >= 0
  BY <1>1, <1>5, AnalyzerFacts
<1> QED
  BY <1>1, <1>4, <1>6, AnalyzerTakes DEF e

(* watchdogRemoveAircraftCallsign and the one for ATC.                     *)
LEMMA ForgetKeeps ==
  ASSUME Inv, UNCHANGED scenario, WatchdogRemove
  PROVE  Inv'
<1> DEFINE e == Head(queue)
<1>1. /\ queue # <<>> /\ e.kind = "forget" /\ queue' = Tail(queue)
      /\ stamps' = [stamps EXCEPT ![e.cs] = -1]
      /\ UNCHANGED <<connected, mainQueue, monitor, watchdog>>
  BY DEF WatchdogRemove, network
<1>2. e \in AnalyzerEvents
  BY <1>1, AnalyzerFacts
<1> HIDE DEF e
<1>3. e.cs \in Callsigns /\ e = Forget(e.cs)
  BY <1>1, <1>2, AnalyzerEventKinds
<1>4. stamps' \in [Callsigns -> Int] /\ watchdog' \in Watchdogs
  BY <1>1, <1>3, AnalyzerFacts
<1>5. \A cs : e # Touch(cs)
  BY <1>3, EventDistinct
<1>6. ASSUME NEW cs \in inRange, stamps[cs] >= 0, ~Drops(e, cs) PROVE stamps'[cs] >= 0
  <2>1. cs # e.cs
    BY <1>3, <1>6 DEF Drops
  <2> QED
    BY <1>1, <1>6, <2>1, AnalyzerFacts
<1> QED
  BY <1>1, <1>4, <1>5, <1>6, AnalyzerTakes DEF e

(* The analyzer's onConnectionStatusChanged.                               *)
LEMMA AnalyzerStatusKeeps ==
  ASSUME Inv, UNCHANGED scenario, AnalyzerStatusChanged
  PROVE  Inv'
<1> DEFINE e == Head(queue)
<1>1. /\ queue # <<>> /\ e.kind = "status" /\ queue' = Tail(queue)
      /\ e.up => watchdog' = [watchdog EXCEPT !.left = UpdateInterval] /\ stamps' = stamps
      /\ ~e.up => /\ watchdog' = [watchdog EXCEPT !.left = -1]
                  /\ stamps' = [cs \in Callsigns |-> -1]
      /\ UNCHANGED <<connected, mainQueue, monitor>>
  BY DEF AnalyzerStatusChanged, network
<1>2. e \in AnalyzerEvents
  BY <1>1, AnalyzerFacts
<1> HIDE DEF e
<1>3. (e.up /\ e = [kind |-> "status", up |-> TRUE]) \/ (~e.up /\ e = Down)
  BY <1>1, <1>2, AnalyzerEventKinds
<1>5. \A cs : e # Touch(cs)
  BY <1>1 DEF Touch
<1>4. UpdateInterval \in -1..UpdateInterval /\ -1 \in -1..UpdateInterval
  BY DelaysOK
<1>6. watchdog' \in Watchdogs /\ stamps' \in [Callsigns -> Int]
  <2>1. stamps \in [Callsigns -> Int] /\ watchdog \in Watchdogs
    BY AnalyzerFacts
  <2>2. CASE e.up
    BY <1>1, <1>4, <2>1, <2>2 DEF Watchdogs
  <2>3. CASE ~e.up
    <3>1. -1 \in Int
      OBVIOUS
    <3>2. stamps' \in [Callsigns -> Int]
      BY <1>1, <2>3, <3>1
    <3>3. watchdog' \in Watchdogs
      BY <1>1, <1>4, <2>1, <2>3 DEF Watchdogs
    <3> QED
      BY <3>2, <3>3
  <2> QED
    BY <2>2, <2>3
<1>7. \A cs \in inRange : stamps[cs] >= 0 /\ ~Drops(e, cs) => stamps'[cs] >= 0
  BY <1>1, <1>3 DEF Drops
<1> QED
  BY <1>1, <1>5, <1>6, <1>7, AnalyzerTakes DEF e

(* The threshold of the watchdog is a number.                              *)
LEMMA ThresholdType == CallThreshold \in Nat
<1>1. 3 * UpdateInterval \in Nat
  BY DelaysOK
<1>2. \A n \in Nat : n \div 2 \in Nat
  BY SMT
<1> QED
  BY <1>1, <1>2 DEF CallThreshold

(* watchdogCheckTimeouts: who loses the time stamp is reported.            *)
LEMMA OnTimeoutKeeps ==
  ASSUME Inv, UNCHANGED scenario, OnTimeout
  PROVE  Inv'
<1> DEFINE late == watchdog.sinceCall > CallThreshold
           runs == ~late /\ watchdog.pause = 0
           out  == {cs \in Callsigns : runs /\ stamps[cs] >= Timeout(cs)}
           E == {[kind |-> "timeout", cs |-> cs] : cs \in out}
           q == SetToSeq(E)
           new == IF late THEN 2 * CallThreshold ELSE watchdog.pause
<1>1. /\ watchdog' = [left |-> UpdateInterval, sinceCall |-> 0, pause |-> new]
      /\ stamps' = [cs \in Callsigns |-> IF cs \in out THEN -1 ELSE stamps[cs]]
      /\ mainQueue' = mainQueue \o q
      /\ UNCHANGED <<connected, monitor, queue>>
  BY DEF OnTimeout, WatchdogCheckTimeouts, network
<1>2. out \subseteq Callsigns
  OBVIOUS
<1>3. new \in Int
  BY ThresholdType, AnalyzerFacts DEF Watchdogs
<1> HIDE DEF out, new
<1>4. watchdog' \in Watchdogs
  BY <1>1, <1>3, DelaysOK DEF Watchdogs
<1>5. stamps' \in [Callsigns -> Int]
  BY <1>1, AnalyzerFacts
<1>6. IsFiniteSet(E)
  BY <1>2, EventsFinite
<1>7. E \subseteq MainEvents
  BY <1>2 DEF MainEvents
<1>8. \A cs \in out : TimedOut(cs) \in E
  BY DEF TimedOut
<1> HIDE DEF E
<1>9. q \in Seq(E) /\ \A x \in E : Within(x, q)
  BY <1>6, SetToSeqOK DEF Within
<1> HIDE DEF q
<1>10. q \in Seq(MainEvents)
  BY <1>7, <1>9
<1>11. mainQueue \in Seq(MainEvents)
  BY AnalyzerFacts
<1>12. mainQueue' \in Seq(MainEvents)
  BY <1>1, <1>10, <1>11, ConcatAt
<1>13. \A x : Within(x, mainQueue) \/ Within(x, q) => Within(x, mainQueue')
  BY <1>1, <1>10, <1>11, WithinConcat
<1>14. ASSUME NEW cs \in inRange
       PROVE  \/ Within(TimedOut(cs), mainQueue')
              \/ (Will(queue, stamps[cs], cs) => Will(queue', stamps'[cs], cs))
  <2>1. CASE cs \in out
    BY <1>8, <1>9, <1>13, <2>1
  <2>2. CASE cs \notin out
    <3>1. cs \in Callsigns
      BY AnalyzerFacts
    <3>2. stamps'[cs] = stamps[cs] /\ queue' = queue
      BY <1>1, <2>2, <3>1
    <3> QED
      BY <3>2
  <2> QED
    BY <2>1, <2>2
<1>15. queue' \in Seq(AnalyzerEvents)
  BY <1>1, AnalyzerFacts
<1>16. UNCHANGED <<connected, monitor>>
  BY <1>1
<1> QED
  BY <1>4, <1>5, <1>12, <1>13, <1>14, <1>15, <1>16, MonitorRests

(* The touch that goes with a position.                                    *)
LEMMA TouchEvent ==
  \A cs \in Callsigns :
    [kind |-> "touch", cs |-> cs] = Touch(cs) /\ Touch(cs) \in AnalyzerEvents
  BY DEF Touch, AnalyzerEvents

(* The events of connectionStatusChanged.                                  *)
LEMMA StatusEvents ==
  /\ [kind |-> "status", up |-> TRUE] \in MainEvents \cap AnalyzerEvents
  /\ Down \in MainEvents \cap AnalyzerEvents
  BY DEF MainEvents, AnalyzerEvents, Down

(* A position arrives.                                                     *)
LEMMA SendsPositionKeeps ==
  ASSUME Inv, UNCHANGED scenario, NEW cs \in Callsigns, SendsPosition(cs)
  PROVE  Inv'
<1>1. /\ cs \in Pilots \cup Controllers
      /\ queue' = Append(queue, [kind |-> "touch", cs |-> cs])
      /\ UNCHANGED <<connected, monitor, stamps, watchdog>>
  BY DEF SendsPosition
<1>2. PICK d \in Distances :
        mainQueue' = Append(mainQueue, [kind |-> "position", cs |-> cs, distance |-> d])
  BY DEF SendsPosition
<1> DEFINE e == [kind |-> "position", cs |-> cs, distance |-> d]
<1>3. e \in MainEvents
  BY <1>1 DEF MainEvents
<1> HIDE DEF e
<1>4. mainQueue \in Seq(MainEvents) /\ queue \in Seq(AnalyzerEvents)
  BY AnalyzerFacts
<1>5. mainQueue' \in Seq(MainEvents) /\ \A x : Within(x, mainQueue) => Within(x, mainQueue')
  BY <1>2, <1>3, <1>4, AppendedAt, WithinAppend DEF e
<1>6. queue' = Append(queue, Touch(cs)) /\ Touch(cs) \in AnalyzerEvents
  BY <1>1, TouchEvent
<1>7. queue' \in Seq(AnalyzerEvents)
  BY <1>4, <1>6, AppendedAt
<1>8. \A c \in inRange : Will(queue, stamps[c], c) => Will(queue', stamps'[c], c)
  BY <1>1, <1>4, <1>6, EventDistinct, WillAppend
<1>9. stamps' \in [Callsigns -> Int] /\ watchdog' \in Watchdogs
  BY <1>1, AnalyzerFacts
<1>10. UNCHANGED <<connected, monitor>>
  BY <1>1
<1> QED
  BY <1>5, <1>7, <1>8, <1>9, <1>10, MonitorRests

(* Another message arrives.                                                *)
LEMMA SendsKeeps ==
  ASSUME Inv, UNCHANGED scenario, NEW cs \in Callsigns, NEW kind \in {"icao", "fsinn", "delete"},
         Sends(kind, cs)
  PROVE  Inv'
<1>1. /\ mainQueue' = Append(mainQueue, [kind |-> kind, cs |-> cs])
      /\ UNCHANGED <<connected, monitor, queue, stamps, watchdog>>
  BY DEF Sends, analyzer
<1> DEFINE e == [kind |-> kind, cs |-> cs]
<1>2. e \in MainEvents
  BY DEF MainEvents
<1> HIDE DEF e
<1>3. mainQueue \in Seq(MainEvents) /\ queue \in Seq(AnalyzerEvents)
  BY AnalyzerFacts
<1>4. mainQueue' \in Seq(MainEvents) /\ \A x : Within(x, mainQueue) => Within(x, mainQueue')
  BY <1>1, <1>2, <1>3, AppendedAt, WithinAppend DEF e
<1>5. queue' \in Seq(AnalyzerEvents) /\ stamps' \in [Callsigns -> Int] /\ watchdog' \in Watchdogs
  BY <1>1, AnalyzerFacts
<1>6. UNCHANGED <<connected, monitor, queue, stamps>>
  BY <1>1
<1> QED
  BY <1>4, <1>5, <1>6, MonitorRests

(* Steps that change nothing here.                                         *)
LEMMA RestsKeeps ==
  ASSUME Inv, UNCHANGED <<scenario, connected, mainQueue, monitor, analyzer>>
  PROVE  Inv'
<1>1. queue' = queue /\ stamps' = stamps /\ watchdog' = watchdog
  BY DEF analyzer
<1>2. queue' \in Seq(AnalyzerEvents) /\ stamps' \in [Callsigns -> Int] /\ watchdog' \in Watchdogs
      /\ mainQueue' \in Seq(MainEvents)
  BY <1>1, AnalyzerFacts
<1> QED
  BY <1>1, <1>2, MonitorRests

(* A session begins.                                                       *)
LEMMA ConnectsKeeps ==
  ASSUME Inv, UNCHANGED scenario, Connects
  PROVE  Inv'
<1> DEFINE e == [kind |-> "status", up |-> TRUE]
<1>1. /\ connected' /\ mainQueue' = Append(mainQueue, e) /\ queue' = Append(queue, e)
      /\ UNCHANGED <<monitor, stamps, watchdog>>
  BY DEF Connects
<1>2. e \in MainEvents /\ e \in AnalyzerEvents
  BY StatusEvents
<1>3. \A cs : ~Drops(e, cs)
  BY EventDistinct
<1> HIDE DEF e
<1>4. mainQueue \in Seq(MainEvents) /\ queue \in Seq(AnalyzerEvents)
  BY AnalyzerFacts
<1>5. mainQueue' \in Seq(MainEvents) /\ \A x : Within(x, mainQueue) => Within(x, mainQueue')
  BY <1>1, <1>2, <1>4, AppendedAt, WithinAppend
<1>6. queue' \in Seq(AnalyzerEvents)
  BY <1>1, <1>2, <1>4, AppendedAt
<1>7. \A c \in inRange : Will(queue, stamps[c], c) => Will(queue', stamps'[c], c)
  BY <1>1, <1>2, <1>3, <1>4, WillAppend
<1>8. stamps' \in [Callsigns -> Int] /\ watchdog' \in Watchdogs /\ UNCHANGED monitor
  BY <1>1, AnalyzerFacts
<1> QED
  BY <1>1, <1>5, <1>6, <1>7, <1>8, MonitorRests

(* A session ends.                                                         *)
LEMMA DisconnectsKeeps ==
  ASSUME Inv, UNCHANGED scenario, Disconnects
  PROVE  Inv'
<1>1. /\ mainQueue' = Append(mainQueue, Down) /\ queue' = Append(queue, Down)
      /\ UNCHANGED <<monitor, stamps, watchdog>>
  BY DEF Disconnects, Down
<1>2. Down \in MainEvents /\ Down \in AnalyzerEvents
  BY StatusEvents
<1>3. mainQueue \in Seq(MainEvents) /\ queue \in Seq(AnalyzerEvents)
  BY AnalyzerFacts
<1>4. mainQueue' \in Seq(MainEvents) /\ Within(Down, mainQueue')
  BY <1>1, <1>2, <1>3, AppendedAt, WithinAppend
<1>5. queue' \in Seq(AnalyzerEvents)
  BY <1>1, <1>2, <1>3, AppendedAt
<1>6. stamps' \in [Callsigns -> Int] /\ watchdog' \in Watchdogs /\ UNCHANGED monitor
  BY <1>1, AnalyzerFacts
<1> QED
  BY <1>4, <1>5, <1>6, MonitorRests

(* .reinit: who was sent to matching will be reset.                        *)
LEMMA ReInitializeAllKeeps ==
  ASSUME Inv, UNCHANGED scenario, ReInitializeAllAircraft
  PROVE  Inv'
<1> DEFINE T == {ReInit(cs, cs \in modelString) : cs \in inRange}
           v == RemoveAllAircraft(Now)
           S == [v EXCEPT !.timers = @ (+) SetToBag(T)]
<1>1. /\ "reinit" \in Sent /\ Become(S)
      /\ UNCHANGED <<connected, mainQueue, stamps, watchdog>>
  BY DEF ReInitializeAllAircraft, Happens
<1>2. scenario \in Scenarios /\ Fits(Now)
  BY DEF Inv, TypeInv
<1>3. /\ Fits(v) /\ v.inRange = {} /\ v.matched = {} /\ v.readiness = readiness
      /\ v.timers = timers
  BY <1>2, NowFields, RemoveAllFacts
<1> HIDE DEF v
<1>4. /\ Shape(S) /\ S.inRange = v.inRange /\ S.situations = v.situations
      /\ S.modelString = v.modelString /\ S.readiness = v.readiness
      /\ S.tempFsInn = v.tempFsInn /\ S.stations = v.stations
      /\ S.matched = v.matched /\ S.queue = v.queue
      /\ S.timers = v.timers (+) SetToBag(T)
  BY <1>3 DEF Fits, Shape
<1>5. inRange \subseteq Pilots /\ matched \subseteq inRange
  BY <1>2, NowFields DEF Fits
<1>6. T \subseteq TimerSet
  <2> SUFFICES ASSUME NEW cs \in inRange PROVE ReInit(cs, cs \in modelString) \in TimerSet
    OBVIOUS
  <2> DEFINE rf == IF cs \in modelString THEN {"model"} ELSE {}
  <2>1. rf \subseteq Marks
    BY DEF Marks
  <2>2. ReInit(cs, cs \in modelString) = [kind |-> "reinit", cs |-> cs, left |-> 0, rf |-> rf]
    BY DEF ReInit
  <2> HIDE DEF rf
  <2> QED
    BY <1>1, <1>5, <2>1, <2>2, DelaysOK DEF TimerSet, TimerKinds
<1>7. \A cs \in inRange : \E t \in T : t.kind = "reinit" /\ t.cs = cs
  <2> TAKE cs \in inRange
  <2>1. ReInit(cs, cs \in modelString) \in T
    OBVIOUS
  <2>2. ReInit(cs, cs \in modelString).kind = "reinit" /\ ReInit(cs, cs \in modelString).cs = cs
    BY DEF ReInit
  <2> HIDE DEF T
  <2> QED
    BY <2>1, <2>2
<1> HIDE DEF S, T
<1>8. DOMAIN S.timers = DOMAIN timers \cup T
  <2>1. DOMAIN SetToBag(T) = T
    BY BagDomain
  <2>2. DOMAIN (v.timers (+) SetToBag(T)) = DOMAIN v.timers \cup DOMAIN SetToBag(T)
    BY UnionDomain
  <2> QED
    BY <1>3, <1>4, <2>1, <2>2
<1>9. Fits(S)
  BY <1>3, <1>4, <1>6, <1>8 DEF Fits
<1>10. Fresh(Now) => Fresh(S)
  BY <1>3, <1>4, <1>5, <1>7, <1>8, NowFields DEF Fresh, FreshAt, Due
<1>11. Fits(Now)' /\ (Fresh(S) => Fresh(Now)')
  BY <1>1, <1>9, Becomes
<1>12. Distances' = Distances /\ Sent' = Sent /\ MainEvents' = MainEvents
  BY SameScenario
<1>13. TypeInv'
  BY <1>1, <1>11, <1>12 DEF Inv, TypeInv
<1>14. FreshInv'
  BY <1>10, <1>11, <1>12 DEF Inv, FreshInv
<1> QED
  BY <1>1, <1>12, <1>13, <1>14 DEF Inv, WatchInv, BlankInv

(* The timers when time passes.                                            *)
LEMMA BagOfAllDomain ==
  ASSUME NEW B
  PROVE  DOMAIN BagOfAll(LAMBDA t : [t EXCEPT !.left = @ - 1], B)
           = {[t EXCEPT !.left = @ - 1] : t \in DOMAIN B}
  BY DEF BagOfAll, BagToSet

(* Ages when time passes.                                                  *)
LEMMA OlderOK ==
  ASSUME NEW age \in Int, NEW max \in Nat
  PROVE  /\ Older(age, max) \in Int /\ (age >= 0 => Older(age, max) >= 0)
         /\ Older(-1, max) = -1
         /\ age \in -1..max => Older(age, max) \in -1..max
  BY DEF Older

(* Time passes, when nothing is under way.                                 *)
LEMMA TickKeeps ==
  ASSUME Inv, UNCHANGED scenario, Tick
  PROVE  Inv'
<1>1. /\ mainQueue = <<>> /\ queue = <<>>
      /\ \A t \in DOMAIN timers : t.left > 0
      /\ watchdog.left # 0
      /\ timers' = BagOfAll(LAMBDA t : [t EXCEPT !.left = @ - 1], timers)
      /\ readiness' = [cs \in Callsigns |->
                         [readiness[cs] EXCEPT !.age = Older(@, MMMaxAgeThreshold)]]
      /\ stamps' = [cs \in Callsigns |-> Older(stamps[cs], Timeout(cs))]
      /\ UNCHANGED <<connected, mainQueue, inRange, situations,
                     modelString, tempFsInn, stations, matched, queue>>
  BY DEF Tick
<1>2. watchdog' = [left |-> IF watchdog.left < 0 THEN -1 ELSE watchdog.left - 1,
                   sinceCall |-> Older(watchdog.sinceCall, CallThreshold + 1),
                   pause |-> IF watchdog.pause = 0 THEN 0 ELSE watchdog.pause - 1]
  BY DEF Tick
<1>3. scenario \in Scenarios /\ Fits(Now)
  BY DEF Inv, TypeInv
<1>4. /\ situations \subseteq Callsigns /\ inRange \subseteq Pilots
      /\ stations \subseteq Controllers
      /\ modelString \subseteq inRange /\ matched \subseteq inRange
      /\ readiness \in [Callsigns -> Readinesses]
      /\ DOMAIN timers \subseteq TimerSet /\ queue \in Seq(AnalyzerEvents)
  BY <1>3, NowFields DEF Fits
<1>5. watchdog' \in Watchdogs
  <2>1. watchdog.left \in -1..UpdateInterval /\ watchdog.sinceCall \in Int /\ watchdog.pause \in Int
    BY AnalyzerFacts DEF Watchdogs
  <2>2. Older(watchdog.sinceCall, CallThreshold + 1) \in Int
    <3>1. CallThreshold + 1 \in Nat
      BY ThresholdType
    <3> QED
      BY <2>1, <3>1, OlderOK
  <2>3. (IF watchdog.left < 0 THEN -1 ELSE watchdog.left - 1) \in -1..UpdateInterval
    BY <2>1, DelaysOK
  <2>4. (IF watchdog.pause = 0 THEN 0 ELSE watchdog.pause - 1) \in Int
    BY <2>1
  <2> QED
    BY <1>2, <2>2, <2>3, <2>4 DEF Watchdogs
<1>6. \A cs : Timeout(cs) \in Nat
  BY DelaysOK DEF Timeout
<1>7. /\ stamps' \in [Callsigns -> Int]
      /\ \A cs \in Callsigns : stamps[cs] >= 0 => stamps'[cs] >= 0
  BY <1>1, <1>6, AnalyzerFacts, OlderOK
<1>8. ASSUME NEW cs \in Callsigns
      PROVE  /\ readiness'[cs] \in Readinesses
             /\ readiness'[cs].flags = readiness[cs].flags
             /\ readiness[cs] = NotReady => readiness'[cs] = NotReady
  <2>1. readiness[cs] \in Readinesses
    BY <1>4
  <2>2. readiness'[cs] = [age |-> Older(readiness[cs].age, MMMaxAgeThreshold),
                          flags |-> readiness[cs].flags]
    BY <1>1, <2>1 DEF Readinesses
  <2>3. /\ readiness[cs].age \in -1..MMMaxAgeThreshold
        /\ Older(readiness[cs].age, MMMaxAgeThreshold) \in -1..MMMaxAgeThreshold
        /\ Older(-1, MMMaxAgeThreshold) = -1
    <3>1. /\ readiness[cs].age \in -1..MMMaxAgeThreshold /\ readiness[cs].age \in Int
          /\ MMMaxAgeThreshold \in Nat
      BY <2>1, DelaysOK DEF Readinesses
    <3> QED
      BY <3>1, OlderOK
  <2> QED
    BY <2>1, <2>2, <2>3 DEF Readinesses, NotReady
<1>9. readiness' \in [Callsigns -> Readinesses]
  BY <1>1, <1>8
<1>10. \A t \in DOMAIN timers : t.kind # "reinit"
  BY <1>1, <1>4 DEF TimerSet
<1>11. DOMAIN timers' = {[t EXCEPT !.left = @ - 1] : t \in DOMAIN timers}
  BY <1>1, BagOfAllDomain
<1>12. \A t \in DOMAIN timers : [t EXCEPT !.left = @ - 1] \in TimerSet
  BY <1>1, <1>4, DelaysOK DEF TimerSet
<1>13. DOMAIN timers' \subseteq TimerSet
  BY <1>11, <1>12
<1>14. Fits(Now)'
  BY <1>1, <1>4, <1>9, <1>13, FitsNext
<1>15. Distances' = Distances /\ Sent' = Sent /\ MainEvents' = MainEvents
  BY SameScenario
<1>16. TypeInv'
  BY <1>1, <1>5, <1>7, <1>14, <1>15 DEF Inv, TypeInv
<1>17. Fresh(Now) => Fresh(Now)'
  BY <1>1, <1>8, <1>10, NowFields, FreshNext DEF Fresh, FreshAt, Due
<1>18. FreshInv'
  BY <1>15, <1>17 DEF Inv, FreshInv
<1>19. Blank(Now) => Blank(Now)'
  BY <1>1, <1>8, NowFields, BlankNext DEF Blank
<1>20. ASSUME NEW e, NEW q, q = <<>> PROVE ~Within(e, q)
  BY <1>20 DEF Within
<1>21. BlankInv'
  <2> SUFFICES ASSUME "reinit" \notin Sent, ~connected PROVE Blank(Now)'
    BY <1>1, <1>15 DEF BlankInv
  <2> QED
    BY <1>1, <1>19, <1>20 DEF Inv, BlankInv
<1>22. WatchInv'
  <2> SUFFICES ASSUME "reinit" \notin Sent, NEW cs \in inRange PROVE Will(queue', stamps'[cs], cs)
    BY <1>1, <1>15 DEF WatchInv, Will, Drops, Touch, Forget, Down
  <2>1. Will(queue, stamps[cs], cs)
    BY <1>1, <1>20 DEF Inv, WatchInv
  <2>2. Len(queue) = 0 /\ queue' = queue
    BY <1>1
  <2>3. stamps[cs] >= 0
    BY <2>1, <2>2 DEF Will
  <2>4. stamps'[cs] >= 0
    BY <1>7, <2>3, AnalyzerFacts
  <2> QED
    BY <2>2, <2>4 DEF Will
<1> QED
  BY <1>16, <1>18, <1>21, <1>22 DEF Inv

(* The invariant holds initially.                                          *)
LEMMA InitHolds == Init => Inv
<1> SUFFICES ASSUME Init PROVE Inv
  OBVIOUS
<1> USE DEF Init
<1>1. DOMAIN timers = {}
  BY DEF EmptyBag, SetToBag
<1>2. readiness \in [Callsigns -> Readinesses]
  BY NotReadyOK
<1>3. Fits(Now)
  BY <1>1, <1>2, NowFields DEF Fits
<1>4. watchdog \in Watchdogs
  BY DelaysOK DEF Watchdogs
<1>5. stamps \in [Callsigns -> Int] /\ mainQueue \in Seq(MainEvents)
  OBVIOUS
<1>6. TypeInv
  BY <1>3, <1>4, <1>5 DEF TypeInv
<1>7. FreshInv
  BY NowFields, NotReadyOK DEF FreshInv, Fresh, FreshAt
<1>8. WatchInv
  BY DEF WatchInv
<1>9. BlankInv
  BY NowFields DEF BlankInv, Blank
<1> QED
  BY <1>6, <1>7, <1>8, <1>9 DEF Inv

(* Every step keeps it.                                                    *)
LEMMA NextKeeps == Inv /\ [Next]_vars => Inv'
<1> SUFFICES ASSUME Inv, [Next]_vars PROVE Inv'
  OBVIOUS
<1>1. CASE UNCHANGED vars
  <2>1. UNCHANGED <<scenario, connected, mainQueue, monitor, analyzer>>
    BY <1>1 DEF vars, network
  <2> QED
    BY <2>1, RestsKeeps
<1>2. CASE Next
  <2>1. UNCHANGED scenario
    BY <1>2 DEF Next
  <2>2. CASE Main
    BY <2>1, <2>2, HandlePositionKeeps, HandleDataKeeps, HandleTimeoutKeeps, StatusKeeps DEF Main
  <2>3. CASE Timers
    BY <2>1, <2>3, CheckAgainKeeps, VerifyAgainKeeps, ReInitKeeps DEF Timers
  <2>4. CASE Analyzer
    BY <2>1, <2>4, TouchKeeps, ForgetKeeps, AnalyzerStatusKeeps, OnTimeoutKeeps DEF Analyzer
  <2>5. CASE Tick
    BY <2>1, <2>5, TickKeeps
  <2>6. CASE Connects
    BY <2>1, <2>6, ConnectsKeeps
  <2>7. CASE Disconnects
    BY <2>1, <2>7, DisconnectsKeeps
  <2>8. CASE ReInitializeAllAircraft
    BY <2>1, <2>8, ReInitializeAllKeeps
  <2>9. ASSUME NEW cs \in Callsigns, SendsPosition(cs) PROVE Inv'
    BY <2>1, <2>9, SendsPositionKeeps
  <2>10. ASSUME NEW cs \in Callsigns, Crashes(cs) PROVE Inv'
    <3>1. UNCHANGED <<scenario, connected, mainQueue, monitor, analyzer>>
      BY <2>1, <2>10 DEF Crashes
    <3> QED
      BY <3>1, RestsKeeps
  <2>11. ASSUME NEW cs \in Callsigns, NEW kind \in {"icao", "fsinn", "delete"}, Sends(kind, cs)
         PROVE  Inv'
    BY <2>1, <2>11, SendsKeeps
  <2> QED
    BY <1>2, <2>2, <2>3, <2>4, <2>5, <2>6, <2>7, <2>8, <2>9, <2>10, <2>11 DEF Next
<1> QED
  BY <1>1, <1>2

(* So it always holds.                                                     *)
LEMMA InvHolds == Spec => []Inv
  BY InitHolds, NextKeeps, PTL DEF Spec

(* It says more than TypeOK.                                               *)
LEMMA InvTypes == Inv => TypeOK
<1> SUFFICES ASSUME Inv PROVE TypeOK
  OBVIOUS
<1>1. Fits(Now) /\ watchdog \in Watchdogs
  BY DEF Inv, TypeInv
<1>2. /\ situations \subseteq Callsigns /\ inRange \subseteq Pilots
      /\ stations \subseteq Controllers
      /\ modelString \subseteq inRange /\ matched \subseteq inRange
      /\ readiness \in [Callsigns -> Readinesses]
      /\ DOMAIN timers \subseteq TimerSet
  BY <1>1, NowFields DEF Fits
<1>3. watchdog.left \in -1..UpdateInterval
  BY <1>1 DEF Watchdogs
<1>4. \A t \in DOMAIN timers : t.left \in 0..MMVerify
  BY <1>2 DEF TimerSet
<1> QED
  BY <1>2, <1>3, <1>4 DEF TypeOK, Readinesses

(* What quiet means for the invariant.                                     *)
LEMMA NothingUnderWay ==
  ASSUME Quiet
  PROVE  (\A e : ~Within(e, mainQueue)) /\ \A t \in DOMAIN timers : t.left > 0
  BY DEF Quiet, Within

(***************************************************************************)
(* Type correctness, for all callsigns, delays and scenarios: pilots only  *)
(* are in range, models and matchings belong to aircraft in range,         *)
(* RecursiveCall is never stored as a flag and no timer runs beyond its    *)
(* delay.                                                                  *)
(***************************************************************************)
THEOREM AirspaceTypeCorrect == Spec => []TypeOK
  BY InvHolds, InvTypes, PTL

(***************************************************************************)
(* For all callsigns, delays and scenarios without far aircraft, .reinit   *)
(* included: when all is quiet, an aircraft that sendReadyForModelMatching *)
(* would take for one already sent has been sent since it was added.       *)
(***************************************************************************)
THEOREM ReadinessFresh == Spec => []NoStaleReadiness
<1>1. Inv => NoStaleReadiness
  <2> SUFFICES ASSUME Inv, Quiet, "far" \notin Distances, NEW cs \in inRange,
                      "sent" \in readiness[cs].flags
               PROVE  cs \in matched
    BY DEF NoStaleReadiness
  <2>1. Fresh(Now) /\ Fits(Now) /\ cs \in Callsigns
    BY AnalyzerFacts DEF Inv, TypeInv, FreshInv
  <2>2. cs \in matched \/ \E t \in DOMAIN timers : t.kind = "reinit"
    BY <2>1, NowFields DEF Fresh, FreshAt, Due
  <2>3. \A t \in DOMAIN timers : t.kind # "reinit"
    BY <2>1, NowFields, NothingUnderWay DEF Fits, TimerSet
  <2> QED
    BY <2>2, <2>3
<1> QED
  BY <1>1, InvHolds, PTL

(***************************************************************************)
(* For all callsigns, delays and scenarios without .reinit: when all is    *)
(* quiet, the analyzer has a time stamp for every aircraft in range,       *)
(* whatever the order in which positions, time outs and the ends of        *)
(* sessions have reached the two threads.                                  *)
(***************************************************************************)
THEOREM EveryoneWatched == Spec => []Watched
<1>1. Inv => Watched
  <2> SUFFICES ASSUME Inv, Quiet, "reinit" \notin Sent, NEW cs \in inRange
               PROVE  stamps[cs] >= 0
    BY DEF Watched
  <2>1. Will(queue, stamps[cs], cs)
    BY NothingUnderWay DEF Inv, WatchInv
  <2>2. Len(queue) = 0
    BY DEF Quiet
  <2> QED
    BY <2>1, <2>2 DEF Will
<1> QED
  BY <1>1, InvHolds, PTL

(***************************************************************************)
(* For all callsigns, delays and scenarios without .reinit: when all is    *)
(* quiet and the client is not connected, no aircraft, station, packet or  *)
(* readiness is left of the session.                                       *)
(***************************************************************************)
THEOREM NothingLeft == Spec => []LeavesNothing
<1>1. Inv => LeavesNothing
  <2> SUFFICES ASSUME Inv, Quiet, ~connected, "reinit" \notin Sent
               PROVE  /\ inRange = {} /\ stations = {} /\ tempFsInn = {}
                      /\ \A cs \in Callsigns : readiness[cs] = NotReady
    BY DEF LeavesNothing
  <2>1. Blank(Now)
    BY NothingUnderWay DEF Inv, BlankInv
  <2> QED
    BY <2>1, NowFields DEF Blank
<1> QED
  BY <1>1, InvHolds, PTL
=============================================================================
