-------------------------- MODULE DataCacheProofs ---------------------------
(***************************************************************************)
(* What the processes that share a data cache can rely on, for every set   *)
(* of processes, keys, values and scenarios: no change is missed but by a  *)
(* repeated uuid, and the last value set is the one on disk.               *)
(***************************************************************************)
EXTENDS DataCache, SequenceTheorems, TLAPS

-----------------------------------------------------------------------------
(* Type correctness, which the other invariants rest on.                   *)


(* Time stamps that have been given out.                                   *)
StampSet == [Keys -> 0..Len(hist)]
(* The uuids: one for every start of a process, or none.                   *)
UuidSet == (Procs \X Nat) \cup {Nil}
(* What .rev can hold.                                                     *)
RevFile == [uuid : UuidSet, ts : StampSet, declared : SUBSET Keys]

(* A CDataCacheRevision.                                                   *)
Revisions ==
  [uuid : UuidSet, newer : StampSet, orig : StampSet, found : BOOLEAN,
   updating : BOOLEAN, writing : BOOLEAN, declared : SUBSET Keys,
   admitted : SUBSET Keys, admittedQ : SUBSET Keys, promises : SUBSET Nat]

(* What is posted to a serializer; the tasks with a key are the saves.     *)
Tasks ==
  {t \in [kind : {"load", "save", "declare", "deliver"}, key : Keys \cup {Nil},
           val : Values \cup {Nil}, promises : SUBSET Nat] :
     t.kind = "save" <=> t.key \in Keys}

(* A value with its time stamp, or Absent.                                 *)
Stamped == [val : Values \cup {Nil}, ts : 0..Len(hist)]
(* The values of a cache.                                                  *)
Entries == [Keys -> Stamped]

(* What a serializer is doing.                                             *)
Jobs ==
  [pc : {"idle", "begin", "loaded", "revised"},
   task : Tasks \cup {Task("pins", Nil, Nil, {})},
   base : Entries, changes : Entries]

(* The thread that calls CData::synchronize.                               *)
WaiterStates ==
  [pc : {"idle", "ask", "wait", "next", "done"}, key : Keys \cup {Nil},
   round : Nat, need : Nat]

(* A set, as the history records it.                                       *)
Sets == [proc : Procs, key : Keys, val : Values]

(* The directory: without .rev there is no file.                           *)
DiskOK ==
  /\ rev \in RevFile
  /\ file \in [Keys -> Values \cup {Nil}]
  /\ rev.uuid = Nil => file = [k \in Keys |-> Nil]

(* The caches in memory.                                                   *)
MemOK == mem \in [Procs -> Entries]
(* The revisions.                                                          *)
RevisionOK == revision \in [Procs -> Revisions]
(* The posted tasks.                                                       *)
QueueOK == queue \in [Procs -> Seq(Tasks)]
(* The serializers.                                                        *)
JobOK == job \in [Procs -> Jobs]
(* The waiting threads.                                                    *)
WaiterOK == waiter \in [Procs -> WaiterStates]
(* Only a running process watches .rev.                                    *)
LifeOK == up \subseteq Procs /\ watch \subseteq up /\ starts \in [Procs -> Nat]
(* The history.                                                            *)
PastOK == hist \in Seq(Sets) /\ Len(hist) <= MaxSets
          /\ skipped \in [Procs -> SUBSET Keys] /\ misread \in [Procs -> SUBSET Keys]

(***************************************************************************)
(* What process p holds: the lock file exactly while its serializer is     *)
(* between beginUpdate and finishUpdate, and nothing once it is down.      *)
(***************************************************************************)
ProcOK(p) ==
  /\ (lock = p) <=> revision[p].updating
  /\ revision[p].updating <=> job[p].pc \in {"loaded", "revised"}
  /\ revision[p].writing <=> job[p].pc # "idle" /\ job[p].task.kind = "save"
  /\ p \notin up => queue[p] = <<>> /\ job[p] = NoJob
  /\ job[p].pc = "idle" => job[p] = NoJob
  /\ job[p].pc = "revised" => job[p].task.kind = "save"

(* That of every process.                                                  *)
LocksOK == \A p \in Procs : ProcOK(p)
(***************************************************************************)
(* Who holds the lock file has seen or written a .rev: saveToFiles never   *)
(* comes before it.                                                        *)
(***************************************************************************)
LockedOK == lock # Nil => rev.uuid # Nil

(* The inductive type invariant.                                           *)
TypeInv ==
  /\ scenario \in Scenarios
  /\ DiskOK /\ MemOK /\ RevisionOK /\ QueueOK /\ JobOK /\ WaiterOK /\ LifeOK /\ PastOK
  /\ lock \in Procs \cup {Nil}
  /\ LocksOK /\ LockedOK

(* There are two Booleans: the form in which the provers use it.           *)
LEMMA BoolCases == \A x : x \in BOOLEAN <=> x = TRUE \/ x = FALSE
  BY Zenon

(* A scenario of the given set has the fields that the module reads.       *)
LEMMA ScenarioOK ==
  scenario \in Scenarios =>
    /\ Uses \in [Procs -> SUBSET Keys]
    /\ Setters \subseteq Procs /\ Waiters \subseteq Procs
    /\ MaxSets \in Nat /\ MaxStarts \in Nat /\ MaxFaults \in Nat
  BY DataCacheAssumption DEF Uses, Setters, Waiters, MaxSets, MaxStarts, MaxFaults

(* Nil is none of the things it stands for the absence of.                 *)
LEMMA NilOK == /\ Nil \notin Values /\ Nil \notin Keys /\ Nil \notin Procs
               /\ \A p \in Procs, n \in Nat : <<p, n>> # Nil
  BY DataCacheAssumption

(* The sets of values that depend on the history, when no value is set.    *)
LEMMA SameTypes ==
  ASSUME UNCHANGED <<scenario, hist>>
  PROVE  /\ StampSet' = StampSet /\ RevFile' = RevFile /\ Revisions' = Revisions
         /\ Entries' = Entries /\ Jobs' = Jobs
         /\ MaxSets' = MaxSets /\ Uses' = Uses
<1>1. MaxSets' = MaxSets /\ Uses' = Uses
  BY DEF MaxSets, Uses
<1>2. StampSet' = StampSet /\ Stamped' = Stamped
  BY DEF StampSet, Stamped
<1>3. RevFile' = RevFile /\ Revisions' = Revisions
  BY <1>2 DEF RevFile, Revisions
<1>4. Entries' = Entries
  BY <1>2 DEF Entries
<1>5. Jobs' = Jobs
  BY <1>4 DEF Jobs
<1> QED
  BY <1>1, <1>2, <1>3, <1>4, <1>5

(* They grow when one is.                                                  *)
LEMMA TypesGrow ==
  ASSUME Len(hist) \in Nat, Len(hist') = Len(hist) + 1
  PROVE  /\ RevFile \subseteq RevFile' /\ Revisions \subseteq Revisions'
         /\ Stamped \subseteq Stamped' /\ Entries \subseteq Entries' /\ Jobs \subseteq Jobs'
<1>1. 0..Len(hist) \subseteq 0..Len(hist')
  OBVIOUS
<1>2. StampSet \subseteq StampSet' /\ Stamped \subseteq Stamped'
  BY <1>1 DEF StampSet, Stamped
<1>3. RevFile \subseteq RevFile' /\ Revisions \subseteq Revisions'
  BY <1>2 DEF RevFile, Revisions
<1>4. Entries \subseteq Entries'
  BY <1>2 DEF Entries
<1>5. Jobs \subseteq Jobs'
  BY <1>4 DEF Jobs
<1> QED
  BY <1>2, <1>3, <1>4, <1>5

(* The empty values have their types.                                      *)
LEMMA NoThings ==
  ASSUME Len(hist) \in Nat
  PROVE  /\ Absent \in Stamped /\ NoValues \in Entries /\ NoStamps \in StampSet
         /\ NoJob \in Jobs /\ NoWaiter \in WaiterStates
         /\ Load \in Tasks /\ Declare \in Tasks
         /\ FreshRevision \in Revisions
<1>1. 0 \in 0..Len(hist)
  OBVIOUS
<1>2. Absent \in Stamped
  BY <1>1 DEF Absent, Stamped
<1>3. NoValues \in Entries
  BY <1>2 DEF NoValues, Entries
<1>4. NoStamps \in StampSet
  BY <1>1 DEF NoStamps, StampSet
<1>5. Load \in Tasks /\ Declare \in Tasks
  BY NilOK DEF Load, Declare, Task, Tasks
<1>6. NoJob \in Jobs
  BY <1>3, <1>5 DEF NoJob, Jobs
<1>7. NoWaiter \in WaiterStates
  BY DEF NoWaiter, WaiterStates
<1>8. FreshRevision \in Revisions
  BY <1>4, BoolCases DEF FreshRevision, Revisions, UuidSet
<1> QED
  BY <1>2, <1>3, <1>4, <1>5, <1>6, <1>7, <1>8

(* The number of sets is within its bound.                                 *)
LEMMA HistLen == TypeInv => Len(hist) \in Nat /\ Len(hist) <= MaxSets /\ MaxSets \in Nat
  BY LenProperties, ScenarioOK DEF TypeInv, PastOK

(* The inductive invariant says more than TypeOK.                          *)
LEMMA TypeInvIsType == TypeInv => TypeOK
<1> SUFFICES ASSUME TypeInv PROVE TypeOK
  OBVIOUS
<1>1. rev.ts \in [Keys -> 0..MaxSets] /\ rev.declared \subseteq Keys
  BY HistLen DEF TypeInv, DiskOK, RevFile, StampSet
<1>2. \A p \in Procs : waiter[p].pc \in {"idle", "ask", "wait", "next", "done"}
  BY DEF TypeInv, WaiterOK, WaiterStates
<1>3. mem \in [Procs -> [Keys -> Entry]]
  <2>1. Stamped \subseteq Entry
    BY HistLen DEF Stamped, Entry
  <2> QED
    BY <2>1 DEF TypeInv, MemOK, Entries
<1> QED
  BY <1>1, <1>2, <1>3 DEF TypeInv, TypeOK, DiskOK, LocksOK, ProcOK, LifeOK

(* It holds initially.                                                     *)
LEMMA InitTypeInv == Init => TypeInv
<1> SUFFICES ASSUME Init PROVE TypeInv
  OBVIOUS
<1>0. scenario \in Scenarios
  BY DEF Init
<1>00. Len(hist) \in Nat
  BY DEF Init
<1>1. DiskOK
  BY <1>00, NoThings DEF Init, DiskOK, RevFile, UuidSet
<1>2. MemOK /\ RevisionOK /\ JobOK /\ WaiterOK /\ LifeOK
  BY <1>00, NoThings DEF Init, MemOK, RevisionOK, JobOK, WaiterOK, LifeOK
<1>3. QueueOK
  BY DEF Init, QueueOK
<1>4. PastOK
  BY <1>0, ScenarioOK DEF Init, PastOK
<1>5. LocksOK
  <2> SUFFICES ASSUME NEW p \in Procs PROVE ProcOK(p)
    BY DEF LocksOK
  <2>1. revision[p] = FreshRevision /\ job[p] = NoJob /\ queue[p] = <<>> /\ lock # p
    BY NilOK DEF Init
  <2> QED
    BY <2>1 DEF ProcOK, FreshRevision, NoJob
<1> QED
  BY <1>0, <1>1, <1>2, <1>3, <1>4, <1>5 DEF TypeInv, Init, LockedOK

-----------------------------------------------------------------------------
(* A revision with something to load is a revision, and keeps its flags.   *)
LEMMA PendingFacts ==
  ASSUME Len(hist) \in Nat, rev \in RevFile, NEW r \in Revisions, NEW stamps \in StampSet,
         NEW u \in BOOLEAN, NEW pins \in BOOLEAN
  PROVE  LET s == Pending(r, stamps, u, pins)
         IN /\ s \in Revisions /\ s.found
            /\ s.uuid = IF u THEN rev.uuid ELSE r.uuid
            /\ s.updating = r.updating /\ s.writing = r.writing
            /\ s.promises = r.promises /\ s.declared = r.declared
            /\ s.admitted \cup s.admittedQ = r.admitted \cup r.admittedQ
            /\ s.orig = rev.ts /\ \A k \in Keys : s.newer[k] \in {0, rev.ts[k]}
            /\ ~pins => \A k \in Keys :
                 /\ stamps[k] < rev.ts[k]
                 /\ k \in rev.declared \cap Deferred => k \in r.admitted \cup r.admittedQ
                 => s.newer[k] = rev.ts[k]
<1> DEFINE newer == {k \in Keys : stamps[k] < rev.ts[k]
                               /\ (pins => k \in rev.declared \cap Pinned)}
           admits == r.admitted \cup r.admittedQ
           kept == {k \in newer : k \in rev.declared \cap Deferred => k \in admits}
           nn == [k \in Keys |-> IF k \in kept THEN rev.ts[k] ELSE 0]
           q == IF u THEN {} ELSE r.admittedQ \cap newer
           uu == IF u THEN rev.uuid ELSE r.uuid
           s == [r EXCEPT !.uuid = uu, !.newer = nn, !.orig = rev.ts, !.found = TRUE,
                          !.admitted = admits, !.admittedQ = q]
<1>1. Pending(r, stamps, u, pins) = s
  BY DEF Pending
<1>2. rev.ts \in StampSet /\ rev.uuid \in UuidSet /\ 0 \in 0..Len(hist)
  BY DEF RevFile
<1>3. nn \in StampSet
  BY <1>2 DEF StampSet
<1>4. uu \in UuidSet /\ q \in SUBSET Keys /\ admits \in SUBSET Keys
      /\ admits \cup q = r.admitted \cup r.admittedQ
  BY <1>2 DEF Revisions
<1> HIDE DEF nn, uu, q, admits
<1>5. s \in Revisions
  BY <1>2, <1>3, <1>4, BoolCases DEF Revisions
<1>6. /\ s.found = TRUE /\ s.uuid = uu /\ s.newer = nn
      /\ s.updating = r.updating /\ s.writing = r.writing
      /\ s.promises = r.promises /\ s.declared = r.declared
      /\ s.admitted = admits /\ s.admittedQ = q /\ s.orig = rev.ts
  BY DEF Revisions
<1>7. ~pins => \A k \in Keys :
                 /\ stamps[k] < rev.ts[k]
                 /\ k \in rev.declared \cap Deferred => k \in r.admitted \cup r.admittedQ
                 => s.newer[k] = rev.ts[k]
  BY <1>6 DEF nn, admits
<1>8. \A k \in Keys : s.newer[k] \in {0, rev.ts[k]}
  BY <1>6 DEF nn
<1> QED
  BY <1>1, <1>4, <1>5, <1>6, <1>7, <1>8 DEF uu

(* So is one with nothing to load.                                         *)
LEMMA SeenFacts ==
  ASSUME Len(hist) \in Nat, rev \in RevFile, NEW r \in Revisions
  PROVE  LET s == [r EXCEPT !.newer = NoStamps, !.orig = rev.ts, !.found = rev.uuid # Nil]
         IN /\ s \in Revisions /\ (s.found <=> rev.uuid # Nil) /\ s.uuid = r.uuid
            /\ s.updating = r.updating /\ s.writing = r.writing
            /\ s.promises = r.promises /\ s.declared = r.declared
            /\ s.admitted = r.admitted /\ s.admittedQ = r.admittedQ
            /\ s.orig = rev.ts /\ \A k \in Keys : s.newer[k] = 0
<1>1. NoStamps \in StampSet /\ rev.ts \in StampSet
  BY NoThings DEF RevFile
<1>2. (rev.uuid # Nil) \in BOOLEAN
  BY BoolCases
<1> DEFINE f == rev.uuid # Nil
<1> HIDE DEF f
<1>3. f \in BOOLEAN
  BY <1>2 DEF f
<1> DEFINE s == [r EXCEPT !.newer = NoStamps, !.orig = rev.ts, !.found = f]
<1>4. s \in Revisions /\ s.found = f /\ s.uuid = r.uuid
      /\ s.updating = r.updating /\ s.writing = r.writing
      /\ s.promises = r.promises /\ s.declared = r.declared
      /\ s.admitted = r.admitted /\ s.admittedQ = r.admittedQ
      /\ s.orig = rev.ts /\ s.newer = NoStamps
  BY <1>1, <1>3 DEF Revisions
<1>5. \A k \in Keys : s.newer[k] = 0
  BY <1>4 DEF NoStamps
<1> QED
  BY <1>4, <1>5 DEF f

(***************************************************************************)
(* What every caller relies on after beginUpdate: a revision with the      *)
(* flags it had; a save always goes on; .rev was found exactly if it has a *)
(* uuid.                                                                   *)
(***************************************************************************)
Begun(b, r, stamps, u, pins) ==
  /\ b.go \in BOOLEAN /\ b.r \in Revisions
  /\ b.r.updating = r.updating /\ b.r.writing = r.writing
  /\ b.r.promises = r.promises /\ b.r.declared = r.declared
  /\ b.r.admitted \cup b.r.admittedQ = r.admitted \cup r.admittedQ
  /\ b.r.orig = rev.ts /\ \A k \in Keys : b.r.newer[k] \in {0, rev.ts[k]}
  /\ r.writing => b.go
  /\ ~b.go => rev.uuid # Nil /\ \A k \in Keys : b.r.newer[k] = 0
  /\ b.r.found <=> rev.uuid # Nil
  /\ u /\ rev.uuid # Nil => b.r.uuid = rev.uuid
  /\ ~u => b.r.uuid = r.uuid
  /\ ~pins /\ rev.uuid # Nil /\ ~SameRevision(r) => \A k \in Keys :
       /\ stamps[k] < rev.ts[k]
       /\ k \in rev.declared \cap Deferred => k \in r.admitted \cup r.admittedQ
       => b.go /\ b.r.newer[k] = rev.ts[k]

(* beginUpdate provides it.                                                *)
LEMMA BeginFacts ==
  ASSUME Len(hist) \in Nat, rev \in RevFile, NEW r \in Revisions, NEW stamps \in StampSet,
         NEW u \in BOOLEAN, NEW pins \in BOOLEAN
  PROVE  Begun(BeginUpdate(r, stamps, u, pins), r, stamps, u, pins)
<1> DEFINE seen == [r EXCEPT !.newer = NoStamps, !.orig = rev.ts, !.found = rev.uuid # Nil]
           b == BeginUpdate(r, stamps, u, pins)
           now == IF u THEN [seen EXCEPT !.uuid = rev.uuid] ELSE seen
           allNew == \A k \in Keys : stamps[k] >= rev.ts[k]
           s == Pending(r, stamps, u, pins)
<1>1. /\ seen \in Revisions /\ (seen.found <=> rev.uuid # Nil) /\ seen.uuid = r.uuid
      /\ seen.updating = r.updating /\ seen.writing = r.writing
      /\ seen.promises = r.promises /\ seen.declared = r.declared
      /\ seen.admitted = r.admitted /\ seen.admittedQ = r.admittedQ
      /\ seen.orig = rev.ts /\ \A k \in Keys : seen.newer[k] = 0
  BY SeenFacts
<1>2. b = CASE rev.uuid = Nil -> [go |-> TRUE, r |-> seen]
            [] rev.uuid # Nil /\ SameRevision(r) -> [go |-> r.writing, r |-> seen]
            [] rev.uuid # Nil /\ ~SameRevision(r) /\ allNew -> [go |-> r.writing, r |-> now]
            [] OTHER -> [go |-> TRUE, r |-> s]
  BY DEF BeginUpdate
<1>3. r.writing \in BOOLEAN /\ rev.uuid \in UuidSet /\ rev.ts \in StampSet
  BY DEF Revisions, RevFile
<1> HIDE DEF b, seen, s, allNew
<1>4. CASE rev.uuid = Nil
  <2>1. b = [go |-> TRUE, r |-> seen]
    BY <1>2, <1>4
  <2> QED
    BY <1>1, <1>4, <2>1 DEF b, Begun
<1>5. CASE rev.uuid # Nil /\ SameRevision(r)
  <2>1. b = [go |-> r.writing, r |-> seen]
    BY <1>2, <1>5
  <2> QED
    BY <1>1, <1>3, <1>5, <2>1 DEF b, SameRevision, Begun
<1>6. CASE rev.uuid # Nil /\ ~SameRevision(r) /\ allNew
  <2>1. b = [go |-> r.writing, r |-> now]
    BY <1>2, <1>6
  <2>2. /\ now \in Revisions /\ (now.found <=> rev.uuid # Nil)
        /\ now.uuid = IF u THEN rev.uuid ELSE r.uuid
        /\ now.updating = r.updating /\ now.writing = r.writing
        /\ now.promises = r.promises /\ now.declared = r.declared
        /\ now.admitted = r.admitted /\ now.admittedQ = r.admittedQ
        /\ now.orig = rev.ts /\ \A k \in Keys : now.newer[k] = 0
    BY <1>1, <1>3 DEF Revisions
  <2>3. \A k \in Keys : ~(stamps[k] < rev.ts[k])
    BY <1>3, <1>6 DEF allNew, StampSet
  <2> HIDE DEF now
  <2> QED
    BY <1>3, <1>6, <2>1, <2>2, <2>3 DEF b, Begun
<1>7. CASE rev.uuid # Nil /\ ~SameRevision(r) /\ ~allNew
  <2>1. b = [go |-> TRUE, r |-> s]
    BY <1>2, <1>7
  <2> QED
    BY <1>7, <2>1, PendingFacts DEF b, s, Begun
<1> QED
  BY <1>4, <1>5, <1>6, <1>7

-----------------------------------------------------------------------------
(***************************************************************************)
(* A step of p leaves the others as they are, as long as it takes the lock *)
(* file only when it is free and gives back only its own.                  *)
(***************************************************************************)
LEMMA OthersOK ==
  ASSUME LocksOK, NEW p \in Procs,
         \A q \in Procs \ {p} :
           /\ revision'[q] = revision[q] /\ job'[q] = job[q] /\ queue'[q] = queue[q]
           /\ (q \in up' <=> q \in up) /\ (lock' = q <=> lock = q),
         ProcOK(p)'
  PROVE  LocksOK'
<1> SUFFICES ASSUME NEW q \in Procs, q # p PROVE ProcOK(q)'
  BY DEF LocksOK
<1> QED
  BY DEF LocksOK, ProcOK, NoJob

(* The constructor.                                                        *)
LEMMA StartOK ==
  ASSUME TypeInv, NEW p \in Procs, Start(p), UNCHANGED <<scenario, hist>>
  PROVE  TypeInv'
<1> DEFINE j == [NoJob EXCEPT !.pc = "begin", !.task = Task("pins", Nil, Nil, {})]
<1>1. j \in Jobs /\ j.pc = "begin" /\ j.task.kind = "pins"
  BY NoThings, HistLen DEF TypeInv, NoJob, Jobs, Task
<1> HIDE DEF j
<1>2. job' = [job EXCEPT ![p] = j] /\ p \notin up
  BY DEF Start, j
<1>3. JobOK'
  BY <1>1, <1>2, SameTypes DEF TypeInv, JobOK
<1>4. LifeOK'
  BY DEF TypeInv, LifeOK, Start
<1>5. job'[p] = j
  BY <1>2 DEF TypeInv, JobOK
<1>6. ProcOK(p)'
  <2>1. job[p] = NoJob
    BY <1>2 DEF TypeInv, LocksOK, ProcOK
  <2> QED
    <3>1. ~revision[p].updating /\ ~revision[p].writing /\ lock # p
      BY <2>1 DEF TypeInv, LocksOK, ProcOK, NoJob
    <3> QED
      BY <1>1, <1>5, <3>1 DEF ProcOK, Start, disk
<1>7. LocksOK'
  BY <1>6, OthersOK DEF TypeInv, Start, JobOK, disk
<1> QED
  BY <1>3, <1>4, <1>7, SameTypes
  DEF TypeInv, Start, disk, past, DiskOK, MemOK, RevisionOK, QueueOK, WaiterOK, PastOK, LockedOK

(* A crash gives the lock file back.                                       *)
LEMMA CrashOK ==
  ASSUME TypeInv, NEW p \in Procs, Crash(p), UNCHANGED <<scenario, hist>>
  PROVE  TypeInv'
<1>1. JobOK' /\ RevisionOK' /\ MemOK' /\ WaiterOK' /\ QueueOK'
  BY NoThings, HistLen, SameTypes DEF TypeInv, JobOK, RevisionOK, MemOK, WaiterOK, QueueOK, Crash
<1>2. LifeOK'
  BY DEF TypeInv, LifeOK, Crash
<1>3. ProcOK(p)'
  BY NilOK DEF TypeInv, ProcOK, JobOK, RevisionOK, QueueOK, Crash, NoJob, FreshRevision
<1>4. LocksOK'
  BY <1>3, OthersOK, NilOK DEF TypeInv, Crash, JobOK, RevisionOK, QueueOK
<1>5. lock' \in {lock, Nil} /\ lock' \in Procs \cup {Nil}
  BY DEF TypeInv, Crash
<1> QED
  BY <1>1, <1>2, <1>4, <1>5, SameTypes DEF TypeInv, Crash, past, DiskOK, PastOK, LockedOK

(* A set gives out a new time stamp.                                       *)
LEMMA SetOK ==
  ASSUME TypeInv, NEW p \in Procs, NEW k \in Keys, NEW v \in Values, Set(p, k, v),
         UNCHANGED scenario
  PROVE  TypeInv'
<1>1. PastOK' /\ Len(hist') = Len(hist) + 1 /\ Len(hist) \in Nat
  <2>1. [proc |-> p, key |-> k, val |-> v] \in Sets
    BY DEF Sets
  <2>2. hist' \in Seq(Sets) /\ Len(hist') = Len(hist) + 1 /\ Len(hist) \in Nat
    BY <2>1, AppendProperties, LenProperties DEF TypeInv, PastOK, Set
  <2> QED
    BY <2>2, ScenarioOK DEF TypeInv, PastOK, Set, MaxSets
<1>2. /\ RevFile \subseteq RevFile' /\ Revisions \subseteq Revisions'
      /\ Stamped \subseteq Stamped' /\ Entries \subseteq Entries' /\ Jobs \subseteq Jobs'
  BY <1>1, TypesGrow
<1>3. MemOK'
  <2>1. [val |-> v, ts |-> Len(hist')] \in Stamped'
    BY <1>1 DEF Stamped
  <2>2. mem \in [Procs -> Entries']
    BY <1>2 DEF TypeInv, MemOK
  <2>3. mem[p] \in [Keys -> Stamped']
    BY <2>2 DEF Entries
  <2>4. [mem[p] EXCEPT ![k] = [val |-> v, ts |-> Len(hist')]] \in Entries'
    BY <2>1, <2>3 DEF Entries
  <2>5. mem' = [mem EXCEPT ![p] = [mem[p] EXCEPT ![k] = [val |-> v, ts |-> Len(hist')]]]
    BY DEF Set, TypeInv, MemOK
  <2> QED
    BY <2>2, <2>4, <2>5 DEF MemOK
<1>4. RevisionOK'
  <2>1. [revision[p] EXCEPT !.admittedQ = @ \cup {k}] \in Revisions
    BY DEF TypeInv, RevisionOK, Revisions
  <2>2. revision' = [revision EXCEPT ![p] = [revision[p] EXCEPT !.admittedQ = @ \cup {k}]]
    BY DEF Set, TypeInv, RevisionOK
  <2> QED
    BY <1>2, <2>1, <2>2 DEF TypeInv, RevisionOK
<1>5. QueueOK'
  <2>1. Save(k, v) \in Tasks
    BY DEF Save, Task, Tasks
  <2> QED
    BY <2>1 DEF TypeInv, QueueOK, Set
<1>6. ProcOK(p)'
  BY DEF TypeInv, LocksOK, ProcOK, RevisionOK, Revisions, Set, Started, disk, life, NoJob
<1>7. LocksOK'
  BY <1>6, OthersOK DEF TypeInv, Set, RevisionOK, QueueOK, disk, life
<1>8. DiskOK' /\ JobOK'
  BY <1>2 DEF TypeInv, DiskOK, JobOK, Set, disk
<1> QED
  BY <1>1, <1>3, <1>4, <1>5, <1>7, <1>8
  DEF TypeInv, Set, disk, life, WaiterOK, LifeOK, LockedOK

(* CData::synchronize begins.                                              *)
LEMMA SynchronizeOK ==
  ASSUME TypeInv, NEW p \in Procs, NEW k \in Keys, Synchronize(p, k), UNCHANGED <<scenario, hist>>
  PROVE  TypeInv'
<1>1. WaiterOK'
  <2>1. rev.ts[k] \in Nat
    BY HistLen DEF TypeInv, DiskOK, RevFile, StampSet
  <2>2. [pc |-> "ask", key |-> k, round |-> 1, need |-> rev.ts[k]] \in WaiterStates
    BY <2>1 DEF WaiterStates
  <2> QED
    BY <2>2 DEF TypeInv, WaiterOK, Synchronize
<1>2. RevisionOK' /\ revision'[p].updating = revision[p].updating
      /\ revision'[p].writing = revision[p].writing
      /\ \A q \in Procs \ {p} : revision'[q] = revision[q]
  BY SameTypes DEF TypeInv, RevisionOK, Revisions, Synchronize
<1>3. QueueOK' /\ \A q \in Procs \ {p} : queue'[q] = queue[q]
  <2>1. UNCHANGED queue \/ queue' = [queue EXCEPT ![p] = Append(@, Load)]
    BY DEF Synchronize
  <2>2. Append(queue[p], Load) \in Seq(Tasks)
    BY NoThings, HistLen DEF TypeInv, QueueOK
  <2> QED
    BY <2>1, <2>2 DEF TypeInv, QueueOK
<1>4. ProcOK(p)'
  BY <1>2 DEF TypeInv, LocksOK, ProcOK, Synchronize, Started, disk, life, NoJob
<1>5. LocksOK'
  BY <1>2, <1>3, <1>4, OthersOK DEF TypeInv, Synchronize, disk, life
<1> QED
  BY <1>1, <1>2, <1>3, <1>5, SameTypes
  DEF TypeInv, Synchronize, disk, life, past, DiskOK, MemOK, JobOK, LifeOK, PastOK, LockedOK

(* The watcher's signal.                                                   *)
LEMMA FileChangedOK ==
  ASSUME TypeInv, NEW p \in Procs, FileChanged(p), UNCHANGED <<scenario, hist>>
  PROVE  TypeInv'
<1>1. QueueOK' /\ \A q \in Procs \ {p} : queue'[q] = queue[q]
  BY NoThings, HistLen DEF TypeInv, QueueOK, FileChanged
<1>2. p \in up /\ LifeOK'
  BY DEF TypeInv, LifeOK, FileChanged, life
<1>3. ProcOK(p)'
  BY <1>2 DEF TypeInv, LocksOK, ProcOK, FileChanged, disk, life, NoJob
<1>4. LocksOK'
  BY <1>1, <1>3, OthersOK DEF TypeInv, FileChanged, disk, life
<1> QED
  BY <1>1, <1>2, <1>4, SameTypes
  DEF TypeInv, FileChanged, disk, life, past, DiskOK, MemOK, JobOK, RevisionOK, WaiterOK, PastOK,
      LockedOK

(* Waking a waiting thread.                                                *)
LEMMA WakeOK ==
  ASSUME NEW w \in WaiterStates, NEW ps
  PROVE  Wake(w, ps) \in WaiterStates
  BY DEF Wake, WaiterStates

(* The serializer takes a task.                                            *)
LEMMA TakeTaskOK ==
  ASSUME TypeInv, NEW p \in Procs, TakeTask(p), UNCHANGED <<scenario, hist>>
  PROVE  TypeInv'
<1> DEFINE t == Head(queue[p])
<1>1. queue[p] \in Seq(Tasks) /\ queue[p] # <<>> /\ t \in Tasks /\ Tail(queue[p]) \in Seq(Tasks)
  BY HeadTailProperties DEF TypeInv, QueueOK, TakeTask
<1>2. QueueOK' /\ \A q \in Procs \ {p} : queue'[q] = queue[q]
  BY <1>1 DEF TypeInv, QueueOK, TakeTask
<1>3. p \in up /\ job[p].pc = "idle" /\ job[p] = NoJob /\ ~revision[p].writing
      /\ ~revision[p].updating /\ lock # p
  BY DEF TypeInv, LocksOK, ProcOK, TakeTask, Started
<1>4. CASE t.kind \notin {"load", "save"}
  <2>1. UNCHANGED job
    BY <1>1, <1>4 DEF TakeTask
  <2>2. RevisionOK' /\ revision'[p].updating = revision[p].updating
        /\ revision'[p].writing = revision[p].writing
        /\ \A q \in Procs \ {p} : revision'[q] = revision[q]
    <3>1. Uses[p] \in SUBSET Keys
      BY ScenarioOK DEF TypeInv
    <3>2. CASE revision' = [revision EXCEPT ![p].declared = Uses[p]]
      BY <3>1, <3>2, SameTypes DEF TypeInv, RevisionOK, Revisions
    <3>3. CASE UNCHANGED revision
      BY <3>3, SameTypes DEF TypeInv, RevisionOK
    <3> QED
      BY <1>4, <3>2, <3>3 DEF TakeTask
  <2>3. WaiterOK'
    <3>1. UNCHANGED waiter \/ waiter' = [waiter EXCEPT ![p] = Wake(@, t.promises)]
      BY <1>4 DEF TakeTask
    <3> QED
      BY <3>1, WakeOK DEF TypeInv, WaiterOK
  <2>4. ProcOK(p)'
    BY <1>3, <2>1, <2>2 DEF TypeInv, LocksOK, ProcOK, TakeTask, disk, life, NoJob
  <2>5. LocksOK'
    BY <1>2, <2>1, <2>2, <2>4, OthersOK DEF TypeInv, TakeTask, disk, life
  <2> QED
    BY <1>2, <2>1, <2>2, <2>3, <2>5, SameTypes
    DEF TypeInv, TakeTask, disk, life, past, DiskOK, MemOK, JobOK, LifeOK, PastOK, LockedOK
<1>5. CASE t.kind \in {"load", "save"}
  <2> DEFINE j == [pc |-> "begin", task |-> t, base |-> mem[p], changes |-> NoValues]
             w == revision[p].writing \/ t.kind = "save"
  <2>1. j \in Jobs /\ j.pc = "begin" /\ j.task = t
    BY <1>1, NoThings, HistLen DEF TypeInv, MemOK, Jobs
  <2>2. job' = [job EXCEPT ![p] = j] /\ revision' = [revision EXCEPT ![p].writing = w]
        /\ UNCHANGED waiter
    BY <1>5 DEF TakeTask
  <2>3. w \in BOOLEAN /\ (w <=> t.kind = "save")
    BY <1>3, BoolCases
  <2> HIDE DEF j, w
  <2>4. JobOK' /\ job'[p] = j /\ \A q \in Procs \ {p} : job'[q] = job[q]
    BY <2>1, <2>2, SameTypes DEF TypeInv, JobOK
  <2>5. RevisionOK' /\ revision'[p].updating = revision[p].updating /\ revision'[p].writing = w
        /\ \A q \in Procs \ {p} : revision'[q] = revision[q]
    BY <2>2, <2>3, SameTypes DEF TypeInv, RevisionOK, Revisions
  <2>6. ProcOK(p)'
    BY <1>3, <2>1, <2>3, <2>4, <2>5 DEF TypeInv, LocksOK, ProcOK, TakeTask, disk, life
  <2>7. LocksOK'
    BY <1>2, <2>4, <2>5, <2>6, OthersOK DEF TypeInv, TakeTask, disk, life
  <2> QED
    BY <1>2, <2>2, <2>4, <2>5, <2>7, SameTypes
    DEF TypeInv, TakeTask, disk, life, past, DiskOK, MemOK, WaiterOK, LifeOK, PastOK, LockedOK
<1> QED
  BY <1>4, <1>5

(* What follows the constructor are tasks.                                 *)
LEMMA AfterStartOK ==
  ASSUME TypeInv, NEW p \in Procs
  PROVE  AfterStart(p) \in Seq(Tasks)
  BY NoThings, HistLen DEF AfterStart

(* toTimestampMap.                                                         *)
LEMMA StampsOK ==
  ASSUME NEW m \in Entries
  PROVE  Stamps(m) \in StampSet /\ \A k \in Keys : Stamps(m)[k] = m[k].ts
  BY DEF Stamps, StampSet, Entries, Stamped

(* writeNewRevision writes a proper .rev.                                  *)
LEMMA WriteNewRevisionOK ==
  ASSUME TypeInv, NEW p \in Procs, NEW r \in Revisions, NEW stamps \in StampSet, NEW excluded,
         WriteNewRevision(p, r, stamps, excluded)
  PROVE  /\ rev' \in RevFile /\ rev'.uuid = Uuid(p) /\ rev'.uuid # Nil /\ Uuid(p) \in UuidSet
         /\ watch' \subseteq up
<1> DEFINE ts == [k \in Keys |-> IF k \in excluded THEN 0
                                 ELSE IF stamps[k] # 0 THEN stamps[k] ELSE r.orig[k]]
<1>1. ts \in StampSet
  BY HistLen DEF Revisions, StampSet
<1>2. Uuid(p) \in UuidSet /\ Uuid(p) # Nil
  BY NilOK DEF Uuid, UuidSet, TypeInv, LifeOK
<1>3. rev' = [uuid |-> Uuid(p), ts |-> ts, declared |-> r.declared]
  BY DEF WriteNewRevision
<1> HIDE DEF ts
<1>4. watch' \subseteq up
  BY DEF WriteNewRevision, TypeInv, LifeOK
<1> QED
  BY <1>1, <1>2, <1>3, <1>4 DEF RevFile, Revisions

(* What beginUpdate of a load or save returns.                             *)
Look(p) ==
  BeginUpdate(revision[p], Stamps(job[p].base), ~(job[p].task.kind = "pins"),
              job[p].task.kind = "pins")

(* The keys whose files are read,                                          *)
Read(p) == {k \in NewerKeys(Look(p).r) : file[k] \notin {Nil, job[p].base[k].val}}

(* those that are taken out of .rev,                                       *)
Lost(p) == NewerKeys(Look(p).r) \ Read(p)

(* those that are loaded,                                                  *)
Got(p) == Read(p) \ {job[p].task.key}

(* and what is loaded.                                                     *)
Changes(p) ==
  [k \in Keys |-> IF k \in Got(p)
                  THEN [val |-> file[k], ts |-> Look(p).r.newer[k]]
                  ELSE Absent]

(* loadFromStore without a guard from beginUpdate,                         *)
NothingToDo(p) ==
  /\ revision' = [revision EXCEPT ![p] = [Look(p).r EXCEPT !.promises = {}]]
  /\ waiter' = [waiter EXCEPT ![p] = Wake(@, Look(p).r.promises)]
  /\ queue' = [queue EXCEPT ![p] = @ \o AfterStart(p)]
  /\ job' = [job EXCEPT ![p] = NoJob] /\ lock' = Nil
  /\ UNCHANGED <<rev, watch>>

(* and with one.                                                           *)
Loads(p) ==
  /\ lock' = p /\ UNCHANGED <<queue, waiter>>
  /\ job' = [job EXCEPT ![p].pc = "loaded", ![p].changes = Changes(p)]
  /\ IF ~Look(p).r.found \/ Lost(p) # {}
     THEN /\ WriteNewRevision(p, Look(p).r, NoStamps, Lost(p))
          /\ revision' = [revision EXCEPT ![p] =
               [Look(p).r EXCEPT !.updating = TRUE, !.uuid = Uuid(p)]]
     ELSE /\ UNCHANGED <<rev, watch>>
          /\ revision' = [revision EXCEPT ![p] = [Look(p).r EXCEPT !.updating = TRUE]]

(* loadFromStore in parts: what it leaves alone, and its two outcomes.     *)
LEMMA LoadParts ==
  ASSUME NEW p, LoadFromStore(p)
  PROVE  /\ job[p].pc = "begin" /\ lock = Nil
         /\ UNCHANGED <<file, mem, up, starts, faults, hist>>
         /\ skipped' = [skipped EXCEPT ![p] =
              IF SameRevision(revision[p])
              THEN {k \in Keys : job[p].base[k].ts < rev.ts[k]} ELSE {}]
         /\ misread' = [misread EXCEPT ![p] =
              (@ \ Got(p)) \cup {k \in Got(p) : file[k] # hist[Look(p).r.newer[k]].val}]
         /\ IF Look(p).go THEN Loads(p) ELSE NothingToDo(p)
<1>1. job[p].pc = "begin" /\ lock = Nil
  BY Zenon DEF LoadFromStore
<1>2. UNCHANGED <<file, mem, up, starts, faults, hist>>
  BY Zenon DEF LoadFromStore, life
<1>3. skipped' = [skipped EXCEPT ![p] =
        IF SameRevision(revision[p])
        THEN {k \in Keys : job[p].base[k].ts < rev.ts[k]} ELSE {}]
  BY Zenon DEF LoadFromStore
<1>6. misread' = [misread EXCEPT ![p] =
        (@ \ Got(p)) \cup {k \in Got(p) : file[k] # hist[Look(p).r.newer[k]].val}]
  BY Zenon DEF LoadFromStore, Look, Read, Got
<1>4. ASSUME ~Look(p).go PROVE NothingToDo(p)
  BY <1>4, Zenon DEF LoadFromStore, NothingToDo, Look, Done
<1>5. ASSUME Look(p).go PROVE Loads(p)
  BY <1>5, Zenon DEF LoadFromStore, Loads, Look, Read, Lost, Got, Changes
<1> QED
  BY <1>1, <1>2, <1>3, <1>4, <1>5, <1>6, Zenon

(* What is known of its beginUpdate.                                       *)
LEMMA LookFacts ==
  ASSUME TypeInv, NEW p \in Procs
  PROVE  /\ Stamps(job[p].base) \in StampSet
         /\ \A k \in Keys : Stamps(job[p].base)[k] = job[p].base[k].ts
         /\ Begun(Look(p), revision[p], Stamps(job[p].base), ~(job[p].task.kind = "pins"),
                  job[p].task.kind = "pins")
<1>1. Len(hist) \in Nat /\ rev \in RevFile /\ revision[p] \in Revisions /\ job[p].base \in Entries
  BY HistLen DEF TypeInv, DiskOK, RevisionOK, JobOK, Jobs
<1>2. Stamps(job[p].base) \in StampSet /\ \A k \in Keys : Stamps(job[p].base)[k] = job[p].base[k].ts
  BY <1>1, StampsOK
<1>3. (job[p].task.kind = "pins") \in BOOLEAN /\ (~(job[p].task.kind = "pins")) \in BOOLEAN
  BY BoolCases
<1> QED
  BY <1>1, <1>2, <1>3, BeginFacts, Zenon DEF Look

(* loadFromStore takes the lock file and keeps it, or has nothing to do.   *)
LEMMA LoadFromStoreOK ==
  ASSUME TypeInv, NEW p \in Procs, LoadFromStore(p), UNCHANGED <<scenario, hist>>
  PROVE  TypeInv'
<1> DEFINE t == job[p].task
           b == Look(p)
<1>0. /\ job[p].pc = "begin" /\ lock = Nil
      /\ UNCHANGED <<file, mem, up, starts, faults, hist>>
      /\ skipped' = [skipped EXCEPT ![p] =
           IF SameRevision(revision[p])
           THEN {k \in Keys : job[p].base[k].ts < rev.ts[k]} ELSE {}]
      /\ IF b.go THEN Loads(p) ELSE NothingToDo(p)
  BY LoadParts
<1>1. Len(hist) \in Nat /\ rev \in RevFile /\ revision[p] \in Revisions /\ job[p] \in Jobs
  BY HistLen DEF TypeInv, DiskOK, RevisionOK, JobOK
<1>2. /\ b.go \in BOOLEAN /\ b.r \in Revisions
      /\ b.r.updating = revision[p].updating /\ b.r.writing = revision[p].writing
      /\ revision[p].writing => b.go
      /\ b.r.found <=> rev.uuid # Nil
  BY LookFacts DEF Begun
<1>3. ~revision[p].updating /\ p \in up /\ (revision[p].writing <=> t.kind = "save")
  <2>1. ProcOK(p)
    BY DEF TypeInv, LocksOK
  <2>2. lock # p
    BY <1>0, NilOK
  <2> QED
    BY <1>0, <2>1, <2>2 DEF ProcOK, NoJob
<1>4. PastOK'
  <2>1. misread' \in [Procs -> SUBSET Keys]
    BY LoadParts DEF TypeInv, PastOK, Got, Read, NewerKeys
  <2> QED
    BY <1>0, <2>1, SameTypes DEF TypeInv, PastOK
<1>5. Changes(p) \in Entries
  <2>1. ASSUME NEW k \in Keys
        PROVE  [val |-> file[k], ts |-> b.r.newer[k]] \in Stamped /\ Absent \in Stamped
    <3>1. file[k] \in Values \cup {Nil} /\ b.r.newer[k] \in 0..Len(hist)
      BY <1>2 DEF TypeInv, DiskOK, Revisions, StampSet
    <3> QED
      BY <1>1, <3>1, NoThings DEF Stamped
  <2> QED
    BY <2>1 DEF Entries, Changes
<1>6. CASE ~b.go
  <2> DEFINE r == [b.r EXCEPT !.promises = {}]
  <2>1. r \in Revisions /\ r.updating = b.r.updating /\ r.writing = b.r.writing
    BY <1>2 DEF Revisions
  <2>2. /\ revision' = [revision EXCEPT ![p] = r]
        /\ waiter' = [waiter EXCEPT ![p] = Wake(@, b.r.promises)]
        /\ queue' = [queue EXCEPT ![p] = @ \o AfterStart(p)]
        /\ job' = [job EXCEPT ![p] = NoJob] /\ lock' = Nil
        /\ UNCHANGED <<rev, watch>>
    BY <1>0, <1>6, Zenon DEF NothingToDo
  <2> HIDE DEF r
  <2>3. RevisionOK' /\ JobOK' /\ WaiterOK'
    <3>1. RevisionOK' /\ JobOK'
      BY <1>1, <2>1, <2>2, NoThings, SameTypes DEF TypeInv, RevisionOK, JobOK
    <3>2. WaiterOK'
      BY <2>2, WakeOK DEF TypeInv, WaiterOK
    <3> QED
      BY <3>1, <3>2
  <2>4. QueueOK' /\ \A q \in Procs \ {p} : queue'[q] = queue[q]
    <3>1. queue[p] \o AfterStart(p) \in Seq(Tasks)
      <4>1. queue[p] \in Seq(Tasks) /\ AfterStart(p) \in Seq(Tasks)
        BY AfterStartOK DEF TypeInv, QueueOK
      <4> QED
        BY <4>1, ConcatProperties, Zenon
    <3> QED
      BY <2>2, <3>1 DEF TypeInv, QueueOK
  <2>5. revision'[p] = r /\ job'[p] = NoJob
    BY <2>2 DEF TypeInv, RevisionOK, JobOK
  <2>6. ProcOK(p)'
    <3>1. ~r.updating /\ ~r.writing
      BY <1>2, <1>3, <1>6, <2>1
    <3>2. up' = up /\ lock' # p
      BY <1>0, <2>2, NilOK
    <3> QED
      BY <1>3, <2>5, <3>1, <3>2 DEF ProcOK, NoJob
  <2>7. \A q \in Procs \ {p} : revision'[q] = revision[q] /\ job'[q] = job[q]
    BY <2>2 DEF TypeInv, RevisionOK, JobOK
  <2>8. LocksOK'
    BY <1>0, <2>2, <2>4, <2>6, <2>7, OthersOK DEF TypeInv
  <2> QED
    BY <1>0, <1>4, <2>2, <2>3, <2>4, <2>8, SameTypes
    DEF TypeInv, DiskOK, MemOK, LifeOK, LockedOK
<1>7. CASE b.go
  <2> DEFINE w == ~b.r.found \/ Lost(p) # {}
             r == IF w THEN [b.r EXCEPT !.updating = TRUE, !.uuid = Uuid(p)]
                  ELSE [b.r EXCEPT !.updating = TRUE]
             j == [job[p] EXCEPT !.pc = "loaded", !.changes = Changes(p)]
  <2>1. /\ lock' = p /\ UNCHANGED <<queue, waiter>>
        /\ job' = [job EXCEPT ![p].pc = "loaded", ![p].changes = Changes(p)]
        /\ revision' = [revision EXCEPT ![p] = r]
        /\ w => WriteNewRevision(p, b.r, NoStamps, Lost(p))
        /\ ~w => UNCHANGED <<rev, watch>>
    BY <1>0, <1>7 DEF Loads
  <2>2. job' = [job EXCEPT ![p] = j]
    BY <1>1, <2>1 DEF TypeInv, JobOK, Jobs
  <2>3. j \in Jobs /\ j.pc = "loaded" /\ j.task = t
    BY <1>1, <1>5 DEF Jobs
  <2>4. w => rev' \in RevFile /\ rev'.uuid = Uuid(p) /\ rev'.uuid # Nil /\ Uuid(p) \in UuidSet
             /\ watch' \subseteq up
    BY <1>1, <1>2, <2>1, NoThings, HistLen, WriteNewRevisionOK
  <2>5. r \in Revisions /\ r.updating = TRUE /\ r.writing = b.r.writing
    <3>1. CASE w
      <4>1. Uuid(p) \in UuidSet
        BY <2>4, <3>1
      <4>2. r = [b.r EXCEPT !.updating = TRUE, !.uuid = Uuid(p)]
        BY <3>1
      <4> QED
        BY <1>2, <4>1, <4>2, BoolCases DEF Revisions
    <3>2. CASE ~w
      <4>1. r = [b.r EXCEPT !.updating = TRUE]
        BY <3>2
      <4> QED
        BY <1>2, <4>1, BoolCases DEF Revisions
    <3> QED
      BY <3>1, <3>2
  <2>6. rev' \in RevFile /\ rev'.uuid # Nil /\ watch' \subseteq up
    BY <1>1, <1>2, <2>1, <2>4 DEF TypeInv, LifeOK
  <2> HIDE DEF w, r, j
  <2>7. DiskOK' /\ LockedOK' /\ LifeOK'
    BY <1>0, <2>6, SameTypes DEF TypeInv, DiskOK, LockedOK, LifeOK
  <2>8. JobOK' /\ RevisionOK'
    BY <2>1, <2>2, <2>3, <2>5, SameTypes DEF TypeInv, JobOK, RevisionOK
  <2>9. job'[p] = j /\ revision'[p] = r
    BY <2>1, <2>2 DEF TypeInv, JobOK, RevisionOK
  <2>10. ProcOK(p)'
    BY <1>0, <1>2, <1>3, <2>1, <2>3, <2>5, <2>9 DEF ProcOK
  <2>11. \A q \in Procs \ {p} :
            revision'[q] = revision[q] /\ job'[q] = job[q] /\ queue'[q] = queue[q]
    BY <2>1, <2>2 DEF TypeInv, RevisionOK, JobOK
  <2>12. LocksOK'
    BY <1>0, <2>1, <2>10, <2>11, OthersOK, NilOK DEF TypeInv
  <2> QED
    BY <1>0, <1>4, <2>1, <2>7, <2>8, <2>12, SameTypes
    DEF TypeInv, MemOK, QueueOK, WaiterOK
<1> QED
  BY <1>6, <1>7

(* saveToStore writes .rev.                                                *)
LEMMA SaveRevisionOK ==
  ASSUME TypeInv, NEW p \in Procs, SaveRevision(p), UNCHANGED <<scenario, hist>>
  PROVE  TypeInv'
<1>1. revision[p] \in Revisions /\ job[p] \in Jobs /\ job[p].base \in Entries
      /\ job[p].pc = "loaded" /\ job[p].task.kind = "save" /\ p \in up
  BY DEF TypeInv, RevisionOK, JobOK, Jobs, SaveRevision, LocksOK, ProcOK, NoJob
<1>2. rev' \in RevFile /\ rev'.uuid = Uuid(p) /\ rev'.uuid # Nil /\ Uuid(p) \in UuidSet
      /\ watch' \subseteq up
  BY <1>1, StampsOK, WriteNewRevisionOK DEF SaveRevision
<1>3. DiskOK' /\ LockedOK' /\ LifeOK'
  BY <1>2, SameTypes DEF TypeInv, DiskOK, LockedOK, LifeOK, SaveRevision, life
<1>4. JobOK' /\ RevisionOK'
  BY <1>1, <1>2, SameTypes DEF TypeInv, JobOK, Jobs, RevisionOK, Revisions, SaveRevision
<1>5. job'[p].pc = "revised" /\ job'[p].task = job[p].task
      /\ revision'[p].updating = revision[p].updating /\ revision'[p].writing = revision[p].writing
  BY <1>1 DEF TypeInv, JobOK, Jobs, RevisionOK, Revisions, SaveRevision
<1>6. ProcOK(p)'
  BY <1>1, <1>5 DEF TypeInv, LocksOK, ProcOK, SaveRevision, life
<1>7. LocksOK'
  BY <1>6, OthersOK DEF TypeInv, RevisionOK, JobOK, SaveRevision, life
<1> QED
  BY <1>3, <1>4, <1>7, SameTypes
  DEF TypeInv, SaveRevision, past, MemOK, QueueOK, WaiterOK, PastOK

(* finishUpdate, its types.                                                *)
LEMMA ApplyOK ==
  ASSUME TypeInv, NEW p \in Procs, Apply(p), UNCHANGED <<scenario, hist, up, starts, watch>>, p \in up
  PROVE  MemOK' /\ RevisionOK' /\ QueueOK' /\ JobOK' /\ WaiterOK' /\ lock' = Nil /\ LifeOK'
<1> DEFINE changes == job[p].changes
           loaded  == {k \in Keys : changes[k] # Absent}
           ps      == revision[p].promises
           m == [k \in Keys |-> IF k \in loaded THEN changes[k] ELSE mem[p][k]]
<1>1. changes \in Entries /\ mem[p] \in Entries /\ revision[p] \in Revisions /\ ps \subseteq Nat
  BY DEF TypeInv, JobOK, Jobs, MemOK, RevisionOK, Revisions
<1>2. m \in Entries
  BY <1>1 DEF Entries
<1>3. MemOK'
  BY <1>2, SameTypes DEF TypeInv, MemOK, Apply
<1>4. RevisionOK'
  BY <1>1, SameTypes, BoolCases DEF TypeInv, RevisionOK, Revisions, Apply
<1>5. JobOK' /\ lock' = Nil
  BY SameTypes, NoThings, HistLen DEF TypeInv, JobOK, Apply, Done
<1>6. WaiterOK'
  <2>1. UNCHANGED waiter \/ waiter' = [waiter EXCEPT ![p] = Wake(@, ps)]
    BY DEF Apply
  <2> QED
    BY <2>1, WakeOK DEF TypeInv, WaiterOK
<1>7. QueueOK'
  <2>1. Deliver(ps) \in Tasks
    BY <1>1, NilOK DEF Deliver, Task, Tasks
  <2>2. <<Deliver(ps)>> \in Seq(Tasks) /\ AfterStart(p) \in Seq(Tasks) /\ queue[p] \in Seq(Tasks)
    BY <2>1, AfterStartOK DEF TypeInv, QueueOK
  <2>3. queue[p] \o AfterStart(p) \in Seq(Tasks)
        /\ queue[p] \o <<Deliver(ps)>> \o AfterStart(p) \in Seq(Tasks)
    BY <2>2, ConcatProperties
  <2>4. \/ queue' = [queue EXCEPT ![p] = @ \o <<Deliver(ps)>> \o AfterStart(p)]
        \/ queue' = [queue EXCEPT ![p] = @ \o AfterStart(p)]
    BY DEF Apply
  <2> QED
    BY <2>3, <2>4 DEF TypeInv, QueueOK
<1> QED
  BY <1>3, <1>4, <1>5, <1>6, <1>7 DEF TypeInv, LifeOK

(* finishUpdate gives the lock file back.                                  *)
LEMMA AppliedOK ==
  ASSUME TypeInv, NEW p \in Procs, Apply(p), UNCHANGED <<scenario, hist, up>>,
         p \in up, lock = p
  PROVE  LocksOK'
<1>1. job'[p] = NoJob /\ lock' = Nil /\ ~revision'[p].updating /\ ~revision'[p].writing
  BY DEF Apply, Done, TypeInv, JobOK, RevisionOK, Revisions
<1>2. ProcOK(p)'
  BY <1>1, NilOK DEF ProcOK, NoJob
<1>3. \A q \in Procs \ {p} : queue'[q] = queue[q]
  BY DEF Apply, TypeInv, QueueOK
<1> QED
  BY <1>1, <1>2, <1>3, OthersOK, NilOK DEF Apply, Done, TypeInv, RevisionOK, JobOK

(* A load ends.                                                            *)
LEMMA FinishLoadOK ==
  ASSUME TypeInv, NEW p \in Procs, FinishLoad(p), UNCHANGED <<scenario, hist>>
  PROVE  TypeInv'
<1>1. Apply(p) /\ UNCHANGED <<up, starts, watch, rev, file, hist, skipped, misread>>
  BY DEF FinishLoad, life, past
<1>2. p \in up /\ lock = p
  BY DEF FinishLoad, TypeInv, LocksOK, ProcOK, NoJob
<1>3. MemOK' /\ RevisionOK' /\ QueueOK' /\ JobOK' /\ WaiterOK' /\ lock' = Nil /\ LifeOK'
  BY <1>1, <1>2, ApplyOK
<1>4. LocksOK'
  BY <1>1, <1>2, AppliedOK
<1> QED
  BY <1>1, <1>3, <1>4, SameTypes DEF TypeInv, DiskOK, PastOK, LockedOK

(* A save ends, with or without the file.                                  *)
LEMMA FinishSaveOK ==
  ASSUME TypeInv, NEW p \in Procs, NEW written \in BOOLEAN, FinishSave(p, written),
         UNCHANGED <<scenario, hist>>
  PROVE  TypeInv'
<1>1. Apply(p) /\ UNCHANGED <<up, starts, watch, rev, hist, skipped, misread>>
  BY DEF FinishSave, life, past
<1>2. p \in up /\ lock = p
  BY DEF FinishSave, TypeInv, LocksOK, ProcOK, NoJob
<1>3. MemOK' /\ RevisionOK' /\ QueueOK' /\ JobOK' /\ WaiterOK' /\ lock' = Nil /\ LifeOK'
  BY <1>1, <1>2, ApplyOK
<1>4. LocksOK'
  BY <1>1, <1>2, AppliedOK
<1>5. rev.uuid # Nil
  BY <1>2, NilOK DEF TypeInv, LockedOK
<1>6. job[p].task.val \in Values \cup {Nil}
  BY DEF TypeInv, JobOK, Jobs, Tasks, Task
<1>7. file' \in [Keys -> Values \cup {Nil}]
  BY <1>6 DEF FinishSave, TypeInv, DiskOK
<1> QED
  BY <1>1, <1>3, <1>4, <1>5, <1>7, SameTypes DEF TypeInv, DiskOK, PastOK, LockedOK

(* isNewerValueAvailable leaves a revision with the flags it had.          *)
LEMMA IsNewerFacts ==
  ASSUME TypeInv, NEW p \in Procs, NEW k
  PROVE  LET a == IsNewerValueAvailable(p, k)
         IN /\ a.r \in Revisions
            /\ a.r.updating = revision[p].updating /\ a.r.writing = revision[p].writing
            /\ a.r.uuid = revision[p].uuid
            /\ a.r.admitted \cup a.r.admittedQ = revision[p].admitted \cup revision[p].admittedQ
<1> DEFINE r == revision[p]
           stamps == [j \in Keys |-> IF j = k THEN mem[p][k].ts ELSE 0]
           b == BeginUpdate(r, stamps, FALSE, FALSE)
           a == IsNewerValueAvailable(p, k)
           c == [b.r EXCEPT !.promises = {}]
<1>1. Len(hist) \in Nat /\ rev \in RevFile /\ r \in Revisions /\ mem[p] \in Entries
  BY HistLen DEF TypeInv, DiskOK, RevisionOK, MemOK
<1>2. stamps \in StampSet
  BY <1>1 DEF StampSet, Entries, Stamped
<1>3. FALSE \in BOOLEAN
  BY BoolCases
<1> HIDE DEF stamps
<1>4. /\ b.r \in Revisions
      /\ b.r.updating = r.updating /\ b.r.writing = r.writing
      /\ b.r.uuid = r.uuid
      /\ b.r.admitted \cup b.r.admittedQ = r.admitted \cup r.admittedQ
  <2>1. Begun(b, r, stamps, FALSE, FALSE)
    BY <1>1, <1>2, <1>3, BeginFacts, Zenon
  <2> HIDE DEF b
  <2> QED
    BY <2>1 DEF Begun
<1> HIDE DEF b
<1>5. /\ c \in Revisions
      /\ c.updating = r.updating /\ c.writing = r.writing
      /\ c.uuid = r.uuid
      /\ c.admitted \cup c.admittedQ = r.admitted \cup r.admittedQ
  BY <1>4 DEF Revisions
<1>6. a.r \in {r, b.r, c}
  BY DEF IsNewerValueAvailable, b, stamps
<1> HIDE DEF a, c
<1> QED
  BY <1>1, <1>4, <1>5, <1>6 DEF a

(* A step that touches a revision and a waiting thread only.               *)
LEMMA RevisionStepOK ==
  ASSUME TypeInv, NEW p \in Procs, NEW r \in Revisions, NEW w \in WaiterStates,
         r.updating = revision[p].updating, r.writing = revision[p].writing,
         revision' = [revision EXCEPT ![p] = r], waiter' = [waiter EXCEPT ![p] = w],
         UNCHANGED <<disk, mem, queue, job, watch, life, past, scenario>>
  PROVE  TypeInv'
<1>1. RevisionOK' /\ WaiterOK' /\ revision'[p] = r
  BY SameTypes DEF TypeInv, RevisionOK, WaiterOK, past
<1>2. ProcOK(p)'
  BY <1>1 DEF TypeInv, LocksOK, ProcOK, disk, life, NoJob
<1>3. LocksOK'
  BY <1>2, OthersOK DEF TypeInv, RevisionOK, disk, life
<1> QED
  BY <1>1, <1>3, SameTypes
  DEF TypeInv, disk, life, past, DiskOK, MemOK, QueueOK, JobOK, LifeOK, PastOK, LockedOK

(* The steps of the waiting thread.                                        *)
LEMMA WaitsOK ==
  ASSUME TypeInv, NEW p \in Procs, Waits(p), UNCHANGED <<scenario, hist>>
  PROVE  TypeInv'
<1> DEFINE a == IsNewerValueAvailable(p, waiter[p].key)
           r == [a.r EXCEPT !.promises = @ \cup {waiter[p].round}]
<1>0. waiter[p] \in WaiterStates /\ revision[p] \in Revisions
  BY DEF TypeInv, WaiterOK, RevisionOK
<1>1. /\ a.r \in Revisions
      /\ a.r.updating = revision[p].updating /\ a.r.writing = revision[p].writing
  BY IsNewerFacts
<1> HIDE DEF a
<1>2. r \in Revisions /\ r.updating = a.r.updating /\ r.writing = a.r.writing
  BY <1>0, <1>1 DEF Revisions, WaiterStates
<1> HIDE DEF r
<1>3. ASSUME NEW pc \in {"idle", "ask", "wait", "next", "done"}, NEW n \in Nat
      PROVE  [waiter[p] EXCEPT !.pc = pc] \in WaiterStates
             /\ [waiter[p] EXCEPT !.pc = pc, !.round = n] \in WaiterStates
  BY <1>0 DEF WaiterStates
<1>4. CASE PromiseLoadedValue(p)
  <2> DEFINE pc == IF a.avail THEN "wait" ELSE "next"
             r2 == IF a.avail THEN r ELSE a.r
  <2>1. revision' = [revision EXCEPT ![p] = r2] /\ waiter' = [waiter EXCEPT ![p].pc = pc]
        /\ UNCHANGED <<disk, mem, queue, job, watch, life, past>>
    BY <1>4 DEF PromiseLoadedValue, a, r
  <2>2. waiter' = [waiter EXCEPT ![p] = [waiter[p] EXCEPT !.pc = pc]]
    BY <2>1 DEF TypeInv, WaiterOK
  <2>3. r2 \in Revisions /\ r2.updating = revision[p].updating /\ r2.writing = revision[p].writing
        /\ pc \in {"idle", "ask", "wait", "next", "done"} /\ 0 \in Nat
    BY <1>1, <1>2
  <2> HIDE DEF pc, r2
  <2>4. [waiter[p] EXCEPT !.pc = pc] \in WaiterStates
    BY <2>3, <1>3
  <2> QED
    BY <2>1, <2>2, <2>3, <2>4, RevisionStepOK
<1>5. CASE WaitTimesOut(p)
  <2> DEFINE pc == IF a.avail THEN "wait" ELSE "next"
  <2>1. revision' = [revision EXCEPT ![p] = a.r] /\ waiter' = [waiter EXCEPT ![p].pc = pc]
        /\ UNCHANGED <<disk, mem, queue, job, watch, life, past>>
    BY <1>5 DEF WaitTimesOut, a
  <2>2. waiter' = [waiter EXCEPT ![p] = [waiter[p] EXCEPT !.pc = pc]]
    BY <2>1 DEF TypeInv, WaiterOK
  <2>3. pc \in {"idle", "ask", "wait", "next", "done"} /\ 0 \in Nat
    OBVIOUS
  <2> HIDE DEF pc
  <2>4. [waiter[p] EXCEPT !.pc = pc] \in WaiterStates
    BY <2>3, <1>3
  <2> QED
    BY <1>1, <2>1, <2>2, <2>4, RevisionStepOK
<1>6. CASE NextRound(p)
  <2> DEFINE pc == IF waiter[p].round = 1 THEN "ask" ELSE "done"
  <2>1. waiter' = [waiter EXCEPT ![p].pc = pc, ![p].round = 2]
        /\ UNCHANGED <<disk, mem, revision, queue, job, watch, life, past>>
    BY <1>6 DEF NextRound, inner
  <2>2. waiter' = [waiter EXCEPT ![p] = [waiter[p] EXCEPT !.pc = pc, !.round = 2]]
    BY <2>1 DEF TypeInv, WaiterOK
  <2>3. pc \in {"idle", "ask", "wait", "next", "done"} /\ 2 \in Nat
    OBVIOUS
  <2> HIDE DEF pc
  <2>4. [waiter[p] EXCEPT !.pc = pc, !.round = 2] \in WaiterStates
    BY <2>3, <1>3
  <2>5. revision' = [revision EXCEPT ![p] = revision[p]]
    BY <2>1 DEF TypeInv, RevisionOK
  <2> QED
    BY <1>0, <2>1, <2>2, <2>4, <2>5, RevisionStepOK
<1> QED
  BY <1>4, <1>5, <1>6 DEF Waits

(* Steps of others.                                                        *)
LEMMA StutterOK ==
  ASSUME TypeInv, UNCHANGED vars
  PROVE  TypeInv'
<1>1. UNCHANGED <<scenario, rev, file, lock, mem, revision, queue, job, watch, waiter,
                  up, starts, faults, hist, skipped, misread>>
  BY DEF vars, disk, inner, life, past
<1>2. LocksOK'
  BY <1>1 DEF TypeInv, LocksOK, ProcOK, NoJob
<1> QED
  BY <1>1, <1>2, SameTypes
  DEF TypeInv, DiskOK, MemOK, RevisionOK, QueueOK, JobOK, WaiterOK, LifeOK, PastOK, LockedOK

(* Every step keeps the invariant.                                         *)
LEMMA NextTypeInv == TypeInv /\ [Next]_vars => TypeInv'
<1> SUFFICES ASSUME TypeInv, [Next]_vars PROVE TypeInv'
  OBVIOUS
<1>1. CASE Next
  <2> PICK p \in Procs :
       \/ Start(p) \/ Crash(p)
       \/ \E k \in Keys, v \in Values : Set(p, k, v)
       \/ \E k \in Keys : Synchronize(p, k)
       \/ FileChanged(p)
       \/ Serializes(p)
       \/ Waits(p)
    BY <1>1 DEF Next
  <2>1. UNCHANGED scenario
    BY <1>1 DEF Next
  <2>2. CASE Serializes(p)
    <3>1. LoadFromStore(p) => UNCHANGED hist
      BY LoadParts
    <3>2. TakeTask(p) \/ SaveRevision(p) \/ FinishLoad(p)
          \/ (\E written \in BOOLEAN : FinishSave(p, written)) => UNCHANGED hist
      BY DEF TakeTask, SaveRevision, FinishLoad, FinishSave, past
    <3>3. UNCHANGED hist
      BY <2>2, <3>1, <3>2 DEF Serializes
    <3> QED
      BY <2>1, <2>2, <3>3, TakeTaskOK, LoadFromStoreOK, SaveRevisionOK, FinishLoadOK, FinishSaveOK
      DEF Serializes
  <2> QED
    <3>1. CASE \E k \in Keys, v \in Values : Set(p, k, v)
      BY <2>1, <3>1, SetOK
    <3>2. CASE Start(p) \/ Crash(p) \/ FileChanged(p) \/ Waits(p)
               \/ \E k \in Keys : Synchronize(p, k)
      <4>1. UNCHANGED hist
        BY <3>2 DEF Start, Crash, FileChanged, Waits, PromiseLoadedValue, WaitTimesOut,
                    NextRound, Synchronize, past
      <4> QED
        BY <2>1, <3>2, <4>1, StartOK, CrashOK, SynchronizeOK, FileChangedOK, WaitsOK
    <3> QED
      BY <2>2, <3>1, <3>2
<1>2. CASE UNCHANGED vars
  BY <1>2, StutterOK
<1> QED
  BY <1>1, <1>2

(* So it always holds.                                                     *)
LEMMA TypeInvAlways == Spec => []TypeInv
  BY InitTypeInv, NextTypeInv, PTL DEF Spec

(***************************************************************************)
(* In every set of processes, keys and scenarios the state has its types,  *)
(* the lock file is held exactly during an update, by the process whose    *)
(* serializer is inside it, and no value file exists before .rev does.     *)
(***************************************************************************)
THEOREM CacheTypeCorrect == Spec => []TypeOK
  BY TypeInvAlways, TypeInvIsType, PTL


-----------------------------------------------------------------------------
(* Tasks that look at .rev.                                                *)
Looks(t) == t.kind \in {"load", "save"}

(***************************************************************************)
(* p is going to look at .rev: its watcher has seen a change, or a task    *)
(* that looks is posted, taken or due.                                     *)
(***************************************************************************)
Busy(p) ==
  \/ p \in watch
  \/ \E i \in 1..Len(queue[p]) : Looks(queue[p][i])
  \/ job[p].pc = "begin"
  \/ job[p].task.kind = "pins"

(***************************************************************************)
(* p would load k, if it looked now and did not take .rev for the one it   *)
(* had read.                                                               *)
(***************************************************************************)
Missing(p, k) ==
  /\ k \in rev.declared \cap Deferred => k \in revision[p].admitted \cup revision[p].admittedQ
  /\ mem[p][k].ts < rev.ts[k]

(***************************************************************************)
(* The value of k is on its way into the cache of p: it is being loaded,   *)
(* or the save under way will tell p to look again.                        *)
(***************************************************************************)
Coming(p, k) ==
  job[p].pc = "loaded" /\ (job[p].task.kind = "save" \/ job[p].changes[k].ts >= rev.ts[k])

(***************************************************************************)
(* A running process is going to look, or has looked at this .rev, and     *)
(* what it misses it has skipped or is loading.                            *)
(***************************************************************************)
Informed(p) ==
  p \in up =>
    \/ Busy(p)
    \/ /\ revision[p].uuid = rev.uuid
       /\ \A k \in Keys : Missing(p, k) => k \in skipped[p] \/ Coming(p, k)

(***************************************************************************)
(* The snapshot of a task that has not looked yet is not newer than the    *)
(* cache.                                                                  *)
(***************************************************************************)
Fresher(p) == job[p].pc = "begin" => \A k \in Keys : mem[p][k].ts >= job[p].base[k].ts

(***************************************************************************)
(* What is being loaded is not older than .rev, as the lock file keeps the *)
(* others from writing.                                                    *)
(***************************************************************************)
Newest(p) ==
  job[p].pc = "loaded" =>
    \A k \in Keys : job[p].changes[k] # Absent => job[p].changes[k].ts >= rev.ts[k]

(* A save that has written .rev has told every running process.            *)
Announced == \A q \in Procs : job[q].pc = "revised" => \A p \in up : Busy(p)

(* The inductive invariant of the first half of MissesExplained.           *)
BehindInv ==
  /\ \A p \in Procs : Informed(p) /\ Fresher(p) /\ Newest(p)
  /\ Announced

(* It says more: who is behind has skipped the value.                      *)
LEMMA BehindInvIsBehind ==
  TypeInv /\ BehindInv /\ Quiet =>
    \A p \in up, k \in Keys : Behind(p, k) => revision[p].uuid = rev.uuid /\ k \in skipped[p]
<1> SUFFICES ASSUME TypeInv, BehindInv, Quiet, NEW p \in up, NEW k \in Keys, Behind(p, k)
             PROVE  revision[p].uuid = rev.uuid /\ k \in skipped[p]
  OBVIOUS
<1>1. p \in Procs /\ job[p] = NoJob /\ queue[p] = <<>> /\ p \notin watch
  BY DEF TypeInv, LifeOK, Quiet
<1>2. ~Busy(p)
  BY <1>1 DEF Busy, NoJob, Declare, Task
<1>3. ~Coming(p, k)
  BY <1>1 DEF Coming, NoJob
<1>4. Missing(p, k)
  BY DEF Behind, Wants, Missing
<1> QED
  BY <1>1, <1>2, <1>3, <1>4 DEF BehindInv, Informed

(* It holds initially.                                                     *)
LEMMA InitBehindInv == Init => BehindInv
  BY DEF Init, BehindInv, Informed, Fresher, Newest, Announced, NoJob

-----------------------------------------------------------------------------
(* A process that nothing touches stays busy.                              *)
LEMMA BusyKept ==
  ASSUME NEW q, Busy(q), queue'[q] = queue[q], job'[q] = job[q], q \in watch => q \in watch'
  PROVE  Busy(q)'
  BY DEF Busy

(* Posting tasks leaves a process busy, or makes it so.                    *)
LEMMA BusyAppend ==
  ASSUME TypeInv, NEW q \in Procs, NEW s \in Seq(Tasks), queue'[q] = queue[q] \o s,
         q \in watch \/ (\E i \in 1..Len(queue[q]) : Looks(queue[q][i]))
                     \/ (\E i \in 1..Len(s) : Looks(s[i])),
         q \in watch => q \in watch'
  PROVE  Busy(q)'
<1>1. queue[q] \in Seq(Tasks)
  BY DEF TypeInv, QueueOK
<1>2. Len(queue[q]) \in Nat /\ Len(s) \in Nat /\ Len(queue'[q]) = Len(queue[q]) + Len(s)
      /\ \A i \in 1..(Len(queue[q]) + Len(s)) :
           queue'[q][i] = IF i <= Len(queue[q]) THEN queue[q][i] ELSE s[i - Len(queue[q])]
  BY <1>1, ConcatProperties, LenProperties
<1>3. CASE q \in watch
  BY <1>3 DEF Busy
<1>4. CASE \E i \in 1..Len(queue[q]) : Looks(queue[q][i])
  <2> PICK i \in 1..Len(queue[q]) : Looks(queue[q][i])
    BY <1>4
  <2>1. i \in 1..Len(queue'[q]) /\ queue'[q][i] = queue[q][i]
    BY <1>2
  <2> QED
    BY <2>1 DEF Busy
<1>5. CASE \E i \in 1..Len(s) : Looks(s[i])
  <2> PICK i \in 1..Len(s) : Looks(s[i])
    BY <1>5
  <2> DEFINE n == i + Len(queue[q])
  <2>1. n \in 1..Len(queue'[q]) /\ queue'[q][n] = s[i]
    BY <1>2
  <2> QED
    BY <2>1 DEF Busy
<1> QED
  BY <1>3, <1>4, <1>5

(* A posted load or save makes it busy.                                    *)
LEMMA BusyTask ==
  ASSUME TypeInv, NEW q \in Procs, NEW t \in Tasks, Looks(t), queue'[q] = Append(queue[q], t),
         q \in watch => q \in watch'
  PROVE  Busy(q)'
<1>1. queue[q] \in Seq(Tasks)
  BY DEF TypeInv, QueueOK
<1>2. Len(queue'[q]) = Len(queue[q]) + 1 /\ queue'[q][Len(queue[q]) + 1] = t
      /\ Len(queue[q]) \in Nat
  BY <1>1, AppendProperties, LenProperties
<1> DEFINE n == Len(queue[q]) + 1
<1>3. n \in 1..Len(queue'[q]) /\ Looks(queue'[q][n])
  BY <1>2
<1> QED
  BY <1>3 DEF Busy

(* A process that nothing touches stays informed.                          *)
LEMMA InformedKept ==
  ASSUME NEW q, Informed(q), q \in up' => q \in up, UNCHANGED rev,
         queue'[q] = queue[q], job'[q] = job[q], mem'[q] = mem[q],
         revision'[q].uuid = revision[q].uuid,
         revision'[q].admitted \cup revision'[q].admittedQ
           = revision[q].admitted \cup revision[q].admittedQ,
         skipped'[q] = skipped[q], q \in watch => q \in watch', UNCHANGED scenario
  PROVE  Informed(q)'
<1>1. Deferred' = Deferred
  BY DEF Deferred
<1>2. CASE Busy(q)
  BY <1>2, BusyKept DEF Informed
<1>3. CASE ~Busy(q)
  <2>1. \A k \in Keys : (Missing(q, k)' <=> Missing(q, k)) /\ (Coming(q, k)' <=> Coming(q, k))
    BY <1>1 DEF Missing, Coming
  <2> QED
    BY <1>3, <2>1 DEF Informed
<1> QED
  BY <1>2, <1>3

(* A step of p that does not write .rev keeps the invariant of the others. *)
LEMMA OthersKept ==
  ASSUME BehindInv, NEW p \in Procs, UNCHANGED scenario, UNCHANGED rev,
         \A q \in Procs \ {p} :
           /\ q \in up' => q \in up
           /\ queue'[q] = queue[q] /\ job'[q] = job[q] /\ mem'[q] = mem[q]
           /\ revision'[q] = revision[q] /\ skipped'[q] = skipped[q]
           /\ q \in watch => q \in watch'
  PROVE  \A q \in Procs \ {p} : /\ Informed(q)' /\ Fresher(q)' /\ Newest(q)'
                                /\ Busy(q) => Busy(q)'
<1> SUFFICES ASSUME NEW q \in Procs \ {p}
             PROVE  /\ Informed(q)' /\ Fresher(q)' /\ Newest(q)'
                    /\ Busy(q) => Busy(q)'
  OBVIOUS
<1>1. Informed(q)'
  BY InformedKept DEF BehindInv
<1>2. Busy(q) => Busy(q)'
  BY BusyKept
<1>3. Fresher(q)' /\ Newest(q)'
  BY DEF BehindInv, Fresher, Newest, Absent
<1> QED
  BY <1>1, <1>2, <1>3

(* A step that ends no announcement keeps Announced.                       *)
LEMMA AnnouncedKept ==
  ASSUME Announced, TypeInv', NEW p \in Procs, job'[p].pc = "revised" => job[p].pc = "revised",
         \A q \in Procs \ {p} : job'[q] = job[q] /\ (q \in up' => q \in up)
                                /\ (Busy(q) => Busy(q)'),
         p \in up' => (p \in up /\ (Busy(p) => Busy(p)')) \/ Busy(p)'
  PROVE  Announced'
<1> SUFFICES ASSUME NEW q \in Procs, job'[q].pc = "revised", NEW r \in up' PROVE Busy(r)'
  BY DEF Announced
<1>1. r \in Procs
  BY DEF TypeInv, LifeOK
<1>2. job[q].pc = "revised"
  OBVIOUS
<1>3. \A s \in up : Busy(s)
  BY <1>2 DEF Announced
<1> QED
  BY <1>1, <1>3

(* The invariant from its parts for p and for the others.                  *)
LEMMA PartsBehind ==
  ASSUME NEW p \in Procs, Announced', Informed(p)', Fresher(p)', Newest(p)',
         \A q \in Procs \ {p} : Informed(q)' /\ Fresher(q)' /\ Newest(q)'
  PROVE  BehindInv'
  BY DEF BehindInv

(* A process that starts is going to look.                                 *)
LEMMA StartBehind ==
  ASSUME TypeInv, BehindInv, NEW p \in Procs, Start(p), UNCHANGED scenario, TypeInv'
  PROVE  BehindInv'
<1>1. job'[p].pc = "begin" /\ job'[p].base = NoValues
  BY DEF Start, TypeInv, JobOK, NoJob
<1>2. Busy(p)' /\ Informed(p)' /\ Newest(p)'
  BY <1>1 DEF Busy, Informed, Newest
<1>3. Fresher(p)'
  <2>1. \A k \in Keys : mem'[p][k].ts \in Nat /\ NoValues[k].ts = 0
    BY HistLen DEF TypeInv, MemOK, Entries, Stamped, NoValues, Absent
  <2> QED
    BY <1>1, <2>1 DEF Fresher
<1>4. \A q \in Procs \ {p} : /\ Informed(q)' /\ Fresher(q)' /\ Newest(q)'
                             /\ Busy(q) => Busy(q)'
  BY OthersKept DEF Start, TypeInv, JobOK, disk, past
<1>5. Announced'
  BY <1>1, <1>2, <1>4, AnnouncedKept DEF Start, TypeInv, JobOK, BehindInv
<1> QED
  BY <1>2, <1>3, <1>4, <1>5, PartsBehind

(* A process that is down need not be informed.                            *)
LEMMA CrashBehind ==
  ASSUME TypeInv, BehindInv, NEW p \in Procs, Crash(p), UNCHANGED scenario, TypeInv'
  PROVE  BehindInv'
<1>1. job'[p].pc = "idle" /\ p \notin up'
  BY DEF Crash, TypeInv, JobOK, NoJob
<1>2. Informed(p)' /\ Newest(p)' /\ Fresher(p)'
  BY <1>1 DEF Informed, Newest, Fresher
<1>4. \A q \in Procs \ {p} : /\ Informed(q)' /\ Fresher(q)' /\ Newest(q)'
                             /\ Busy(q) => Busy(q)'
  BY OthersKept DEF Crash, TypeInv, JobOK, QueueOK, RevisionOK, MemOK, past
<1>5. Announced'
  BY <1>1, <1>4, AnnouncedKept DEF Crash, TypeInv, JobOK, BehindInv
<1> QED
  BY <1>2, <1>4, <1>5, PartsBehind

(* A set posts a save.                                                     *)
LEMMA SetBehind ==
  ASSUME TypeInv, BehindInv, NEW p \in Procs, NEW k \in Keys, NEW v \in Values, Set(p, k, v),
         UNCHANGED scenario, TypeInv'
  PROVE  BehindInv'
<1>1. Busy(p)'
  <2>1. Save(k, v) \in Tasks /\ Looks(Save(k, v))
    BY DEF Save, Task, Tasks, Looks
  <2>2. queue'[p] = Append(queue[p], Save(k, v)) /\ UNCHANGED watch
    BY DEF Set, TypeInv, QueueOK
  <2> QED
    BY <2>1, <2>2, BusyTask
<1>2. Informed(p)' /\ Newest(p)'
  BY <1>1 DEF Informed, Newest, BehindInv, Set, disk, Absent
<1>3. Fresher(p)'
  <2> SUFFICES ASSUME job[p].pc = "begin", NEW j \in Keys
               PROVE  mem'[p][j].ts >= job[p].base[j].ts
    BY DEF Set, Fresher
  <2>1. mem[p][j].ts >= job[p].base[j].ts
    BY DEF BehindInv, Fresher
  <2>2. Len(hist) \in Nat /\ Len(hist') = Len(hist) + 1
    BY HistLen, AppendProperties DEF Set, TypeInv, PastOK, Sets
  <2>3. job[p].base[j].ts \in 0..Len(hist) /\ mem[p][j].ts \in 0..Len(hist)
    BY DEF TypeInv, JobOK, Jobs, MemOK, Entries, Stamped
  <2>4. mem'[p][j] = IF j = k THEN [val |-> v, ts |-> Len(hist')] ELSE mem[p][j]
    BY DEF Set, TypeInv, MemOK, Entries
  <2> QED
    BY <2>1, <2>2, <2>3, <2>4
<1>4. \A q \in Procs \ {p} : /\ Informed(q)' /\ Fresher(q)' /\ Newest(q)'
                             /\ Busy(q) => Busy(q)'
  BY OthersKept DEF Set, TypeInv, QueueOK, RevisionOK, MemOK, disk, life
<1>5. Announced'
  BY <1>1, <1>4, AnnouncedKept DEF Set, life, BehindInv
<1> QED
  BY <1>2, <1>3, <1>4, <1>5, PartsBehind

(* Admitting a deferred value posts a load.                                *)
LEMMA SynchronizeBehind ==
  ASSUME TypeInv, BehindInv, NEW p \in Procs, NEW k \in Keys, Synchronize(p, k),
         UNCHANGED scenario, TypeInv'
  PROVE  BehindInv'
<1>1. CASE k \in Deferred
  <2>1. Busy(p)'
    <3>1. Load \in Tasks /\ Looks(Load)
      BY NoThings, HistLen DEF Load, Task, Looks
    <3>2. queue'[p] = Append(queue[p], Load) /\ UNCHANGED watch
      BY <1>1 DEF Synchronize, TypeInv, QueueOK
    <3> QED
      BY <3>1, <3>2, BusyTask
  <2>2. Informed(p)' /\ Newest(p)' /\ Fresher(p)'
    BY <2>1 DEF Informed, Newest, Fresher, BehindInv, Synchronize, disk, Absent
  <2>3. \A q \in Procs \ {p} : /\ Informed(q)' /\ Fresher(q)' /\ Newest(q)'
                               /\ Busy(q) => Busy(q)'
    BY <1>1, OthersKept DEF Synchronize, TypeInv, QueueOK, RevisionOK, disk, life, past
  <2>4. Announced'
    BY <2>1, <2>3, AnnouncedKept DEF Synchronize, life, BehindInv
  <2> QED
    BY <2>2, <2>3, <2>4, PartsBehind
<1>2. CASE k \notin Deferred
  <2>1. UNCHANGED <<rev, mem, revision, queue, job, watch, up, skipped>>
    BY <1>2 DEF Synchronize, disk, life, past
  <2>2. Informed(p)' /\ Newest(p)' /\ Fresher(p)' /\ (Busy(p) => Busy(p)')
    BY <2>1, InformedKept, BusyKept DEF Newest, Fresher, BehindInv, Absent
  <2>3. \A q \in Procs \ {p} : /\ Informed(q)' /\ Fresher(q)' /\ Newest(q)'
                               /\ Busy(q) => Busy(q)'
    BY <2>1, OthersKept
  <2>4. Announced'
    BY <2>1, <2>2, <2>3, AnnouncedKept DEF BehindInv
  <2> QED
    BY <2>2, <2>3, <2>4, PartsBehind
<1> QED
  BY <1>1, <1>2

(* The watcher's signal posts a load.                                      *)
LEMMA FileChangedBehind ==
  ASSUME TypeInv, BehindInv, NEW p \in Procs, FileChanged(p), UNCHANGED scenario, TypeInv'
  PROVE  BehindInv'
<1>1. Busy(p)'
  <2>1. Load \in Tasks /\ Looks(Load)
    BY NoThings, HistLen DEF Load, Task, Looks
  <2>2. queue'[p] = Append(queue[p], Load) /\ queue[p] \in Seq(Tasks)
    BY DEF FileChanged, TypeInv, QueueOK
  <2>3. Len(queue'[p]) = Len(queue[p]) + 1 /\ queue'[p][Len(queue[p]) + 1] = Load
        /\ Len(queue[p]) \in Nat
    BY <2>1, <2>2, AppendProperties, LenProperties
  <2> DEFINE n == Len(queue[p]) + 1
  <2>4. n \in 1..Len(queue'[p]) /\ Looks(queue'[p][n])
    BY <2>1, <2>3
  <2> QED
    BY <2>4 DEF Busy
<1>2. Informed(p)' /\ Newest(p)' /\ Fresher(p)'
  BY <1>1 DEF Informed, Newest, Fresher, BehindInv, FileChanged, disk, Absent
<1>3. \A q \in Procs \ {p} : /\ Informed(q)' /\ Fresher(q)' /\ Newest(q)'
                             /\ Busy(q) => Busy(q)'
  BY OthersKept DEF FileChanged, TypeInv, QueueOK, disk, life, past
<1>4. Announced'
  BY <1>1, <1>3, AnnouncedKept DEF FileChanged, life, BehindInv
<1> QED
  BY <1>2, <1>3, <1>4, PartsBehind

(* The snapshot is taken with the task.                                    *)
LEMMA TakeTaskBehind ==
  ASSUME TypeInv, BehindInv, NEW p \in Procs, TakeTask(p), UNCHANGED scenario, TypeInv'
  PROVE  BehindInv'
<1> DEFINE t == Head(queue[p])
<1>1. queue[p] \in Seq(Tasks) /\ queue[p] # <<>>
  BY DEF TypeInv, QueueOK, TakeTask
<1>2. /\ Len(queue[p]) \in Nat \ {0} /\ t = queue[p][1]
      /\ Len(Tail(queue[p])) = Len(queue[p]) - 1
      /\ \A i \in 1..(Len(queue[p]) - 1) : Tail(queue[p])[i] = queue[p][i + 1]
  BY <1>1, HeadTailProperties, EmptySeq
<1>3. queue'[p] = Tail(queue[p])
  BY DEF TakeTask, TypeInv, QueueOK
<1>4. \A q \in Procs \ {p} : /\ Informed(q)' /\ Fresher(q)' /\ Newest(q)'
                             /\ Busy(q) => Busy(q)'
  BY OthersKept DEF TakeTask, TypeInv, QueueOK, RevisionOK, JobOK, disk, life, past
<1>5. CASE ~Looks(t)
  <2>1. UNCHANGED job
    BY <1>5 DEF TakeTask, Looks
  <2>2. revision'[p].uuid = revision[p].uuid /\ revision'[p].admitted = revision[p].admitted
        /\ revision'[p].admittedQ = revision[p].admittedQ
    BY <1>5 DEF TakeTask, Looks, TypeInv, RevisionOK, Revisions
  <2>3. Busy(p) => Busy(p)'
    <3> SUFFICES ASSUME NEW i \in 1..Len(queue[p]), Looks(queue[p][i]) PROVE Busy(p)'
      BY <2>1 DEF Busy, TakeTask
    <3>1. i # 1
      BY <1>2, <1>5
    <3> DEFINE n == i - 1
    <3>2. n \in 1..Len(queue'[p]) /\ queue'[p][n] = queue[p][i]
      BY <1>2, <1>3, <3>1
    <3> QED
      BY <3>2 DEF Busy
  <2>4. Informed(p)'
    <3>1. CASE Busy(p)
      BY <2>3, <3>1 DEF Informed
    <3>2. CASE ~Busy(p)
      <4>1. Deferred' = Deferred /\ UNCHANGED <<rev, mem, up, skipped>>
        BY DEF Deferred, TakeTask, disk, life, past
      <4>2. \A k \in Keys : (Missing(p, k)' <=> Missing(p, k)) /\ (Coming(p, k)' <=> Coming(p, k))
        BY <2>1, <2>2, <4>1 DEF Missing, Coming
      <4> QED
        BY <2>2, <3>2, <4>1, <4>2 DEF Informed, BehindInv
    <3> QED
      BY <3>1, <3>2
  <2>5. Newest(p)' /\ Fresher(p)'
    BY <2>1 DEF Newest, Fresher, BehindInv, TakeTask, disk, Absent
  <2>6. Announced'
    BY <1>4, <2>1, <2>3, AnnouncedKept DEF TakeTask, life, BehindInv
  <2> QED
    BY <1>4, <2>4, <2>5, <2>6, PartsBehind
<1>6. CASE Looks(t)
  <2>1. job'[p].pc = "begin" /\ job'[p].base = mem[p]
    BY <1>6 DEF TakeTask, Looks, TypeInv, JobOK
  <2>2. Busy(p)' /\ Informed(p)' /\ Newest(p)'
    BY <2>1 DEF Busy, Informed, Newest
  <2>3. Fresher(p)'
    <3>1. \A k \in Keys : mem[p][k].ts \in 0..Len(hist)
      BY DEF TypeInv, MemOK, Entries, Stamped
    <3> QED
      BY <2>1, <3>1, HistLen DEF Fresher, TakeTask
  <2>4. Announced'
    BY <1>4, <2>1, <2>2, AnnouncedKept DEF TakeTask, TypeInv, JobOK, life, BehindInv
  <2> QED
    BY <1>4, <2>2, <2>3, <2>4, PartsBehind
<1> QED
  BY <1>5, <1>6

(* The waiting thread asks without changing the uuid or the admissions.    *)
LEMMA WaitsBehind ==
  ASSUME TypeInv, BehindInv, NEW p \in Procs, Waits(p), UNCHANGED scenario, TypeInv'
  PROVE  BehindInv'
<1> DEFINE a == IsNewerValueAvailable(p, waiter[p].key)
<1>1. a.r \in Revisions /\ a.r.uuid = revision[p].uuid
      /\ a.r.admitted \cup a.r.admittedQ = revision[p].admitted \cup revision[p].admittedQ
  BY IsNewerFacts
<1> DEFINE r == [a.r EXCEPT !.promises = @ \cup {waiter[p].round}]
<1> HIDE DEF a
<1>2. UNCHANGED <<rev, mem, queue, job, watch, up, skipped>>
  BY DEF Waits, PromiseLoadedValue, WaitTimesOut, NextRound, disk, inner, life, past
<1>3. \/ revision' = [revision EXCEPT ![p] = a.r]
      \/ revision' = [revision EXCEPT ![p] = r]
      \/ UNCHANGED revision
  BY DEF Waits, PromiseLoadedValue, WaitTimesOut, NextRound, a, inner
<1>4. /\ revision'[p].uuid = revision[p].uuid
      /\ revision'[p].admitted \cup revision'[p].admittedQ
           = revision[p].admitted \cup revision[p].admittedQ
      /\ \A q \in Procs \ {p} : revision'[q] = revision[q]
  <2>1. r.uuid = a.r.uuid /\ r.admitted = a.r.admitted /\ r.admittedQ = a.r.admittedQ
    BY <1>1 DEF Revisions
  <2> HIDE DEF r
  <2>2. \A q \in Procs \ {p} : revision'[q] = revision[q]
    BY <1>3 DEF TypeInv, RevisionOK
  <2>3. revision'[p] \in {a.r, r, revision[p]}
    BY <1>3 DEF TypeInv, RevisionOK
  <2> QED
    BY <1>1, <2>1, <2>2, <2>3
<1>5. Informed(p)' /\ Newest(p)' /\ Fresher(p)' /\ (Busy(p) => Busy(p)')
  <2>1. Informed(p)'
    BY <1>2, <1>4, InformedKept DEF BehindInv
  <2> QED
    BY <1>2, <2>1, BusyKept DEF Newest, Fresher, BehindInv, Absent
<1>6. \A q \in Procs \ {p} : /\ Informed(q)' /\ Fresher(q)' /\ Newest(q)'
                             /\ Busy(q) => Busy(q)'
  BY <1>2, <1>4, OthersKept
<1>7. Announced'
  BY <1>2, <1>5, <1>6, AnnouncedKept DEF BehindInv
<1> QED
  BY <1>5, <1>6, <1>7, PartsBehind

(* Who is started sees .rev change, and who is not yet is going to look.   *)
LEMMA WrittenBusy ==
  ASSUME TypeInv, NEW p \in Procs, NEW r, NEW stamps, NEW excluded,
         WriteNewRevision(p, r, stamps, excluded), UNCHANGED up,
         \A q \in up : job'[q].task = job[q].task
  PROVE  \A q \in up' : Busy(q)'
  BY DEF WriteNewRevision, Started, Busy

(* Writing .rev announces it.                                              *)
LEMMA SaveRevisionBehind ==
  ASSUME TypeInv, BehindInv, NEW p \in Procs, SaveRevision(p), UNCHANGED scenario, TypeInv'
  PROVE  BehindInv'
<1>1. job'[p].pc = "revised" /\ \A q \in Procs : job'[q].task = job[q].task
  BY DEF SaveRevision, TypeInv, JobOK, Jobs
<1>2. \A q \in up' : Busy(q)'
  BY <1>1, WrittenBusy DEF SaveRevision, life, TypeInv, LifeOK
<1>3. \A q \in Procs : Informed(q)'
  BY <1>2 DEF Informed
<1>4. Announced'
  BY <1>2 DEF Announced
<1>5. ASSUME NEW q \in Procs PROVE Fresher(q)' /\ Newest(q)'
  <2>1. CASE q = p
    BY <1>1, <2>1 DEF Fresher, Newest
  <2>2. CASE q # p
    <3>1. job'[q] = job[q] /\ UNCHANGED mem
      BY <2>2 DEF SaveRevision, TypeInv, JobOK
    <3>2. job[q].pc # "loaded"
      BY <2>2 DEF SaveRevision, TypeInv, LocksOK, ProcOK
    <3> QED
      BY <3>1, <3>2 DEF Fresher, Newest, BehindInv
  <2> QED
    BY <2>1, <2>2
<1> QED
  BY <1>3, <1>4, <1>5 DEF BehindInv

(* finishUpdate leaves a busy process busy.                                *)
LEMMA ApplyBusy ==
  ASSUME TypeInv, NEW p \in Procs, Apply(p), UNCHANGED watch,
         Busy(p), job[p].pc # "begin"
  PROVE  Busy(p)'
<1> DEFINE d == <<Deliver(revision[p].promises)>>
<1>1. queue[p] \in Seq(Tasks) /\ AfterStart(p) \in Seq(Tasks) /\ d \in Seq(Tasks)
  <2>1. revision[p].promises \subseteq Nat
    BY DEF TypeInv, RevisionOK, Revisions
  <2>2. Deliver(revision[p].promises) \in Tasks
    BY <2>1, NilOK DEF Deliver, Task, Tasks
  <2> QED
    BY <2>2, AfterStartOK DEF TypeInv, QueueOK
<1> HIDE DEF d
<1>2. d \o AfterStart(p) \in Seq(Tasks)
      /\ (queue[p] \o d) \o AfterStart(p) = queue[p] \o (d \o AfterStart(p))
  <2>1. d \o AfterStart(p) \in Seq(Tasks)
    BY <1>1, ConcatProperties
  <2>2. (queue[p] \o d) \o AfterStart(p) = queue[p] \o (d \o AfterStart(p))
    <3>1. \A x, y, z \in Seq(Tasks) : (x \o y) \o z = x \o (y \o z)
      BY ConcatAssociative
    <3> QED
      BY <1>1, <3>1, Zenon
  <2> QED
    BY <2>1, <2>2
<1>3. \E s \in {AfterStart(p), d \o AfterStart(p)} : queue'[p] = queue[p] \o s
  <2>1. \/ queue' = [queue EXCEPT ![p] = (@ \o d) \o AfterStart(p)]
        \/ queue' = [queue EXCEPT ![p] = @ \o AfterStart(p)]
    BY DEF Apply, d
  <2>2. queue'[p] = (queue[p] \o d) \o AfterStart(p) \/ queue'[p] = queue[p] \o AfterStart(p)
    BY <2>1 DEF TypeInv, QueueOK
  <2> QED
    BY <1>2, <2>2
<1>4. job[p].task.kind = "pins" => \E i \in 1..Len(AfterStart(p)) : Looks(AfterStart(p)[i])
  <2> SUFFICES ASSUME job[p].task.kind = "pins"
               PROVE  \E i \in 1..Len(AfterStart(p)) : Looks(AfterStart(p)[i])
    OBVIOUS
  <2>1. AfterStart(p) = <<Declare, Load>>
    BY DEF AfterStart
  <2>2. 2 \in 1..Len(AfterStart(p)) /\ Looks(AfterStart(p)[2])
    BY <2>1 DEF Load, Task, Looks
  <2> QED
    BY <2>2
<1>5. job[p].task.kind = "pins" =>
        \E i \in 1..Len(d \o AfterStart(p)) : Looks((d \o AfterStart(p))[i])
  <2> SUFFICES ASSUME job[p].task.kind = "pins"
               PROVE  \E i \in 1..Len(d \o AfterStart(p)) : Looks((d \o AfterStart(p))[i])
    OBVIOUS
  <2> PICK i \in 1..Len(AfterStart(p)) : Looks(AfterStart(p)[i])
    BY <1>4
  <2>1. Len(d) \in Nat /\ Len(AfterStart(p)) \in Nat
        /\ Len(d \o AfterStart(p)) = Len(d) + Len(AfterStart(p))
        /\ \A j \in 1..(Len(d) + Len(AfterStart(p))) :
             (d \o AfterStart(p))[j] = IF j <= Len(d) THEN d[j] ELSE AfterStart(p)[j - Len(d)]
    BY <1>1, ConcatProperties, LenProperties
  <2> DEFINE n == i + Len(d)
  <2>2. n \in 1..Len(d \o AfterStart(p)) /\ (d \o AfterStart(p))[n] = AfterStart(p)[i]
    BY <2>1
  <2> QED
    BY <2>2
<1>6. p \in watch \/ (\E i \in 1..Len(queue[p]) : Looks(queue[p][i])) \/ job[p].task.kind = "pins"
  BY DEF Busy
<1> QED
  BY <1>1, <1>2, <1>3, <1>4, <1>5, <1>6, BusyAppend

(* finishUpdate leaves the others alone.                                   *)
LEMMA ApplyOthers ==
  ASSUME TypeInv, BehindInv, NEW p \in Procs, Apply(p), UNCHANGED <<watch, rev, up, skipped, scenario>>
  PROVE  /\ \A q \in Procs \ {p} : /\ Informed(q)' /\ Fresher(q)' /\ Newest(q)'
                                   /\ Busy(q) => Busy(q)'
         /\ job'[p] = NoJob /\ Fresher(p)' /\ Newest(p)'
         /\ \A q \in Procs \ {p} : job'[q] = job[q]
<1>1. job'[p] = NoJob /\ \A q \in Procs \ {p} : job'[q] = job[q]
  BY DEF Apply, Done, TypeInv, JobOK
<1>2. Fresher(p)' /\ Newest(p)'
  BY <1>1 DEF Fresher, Newest, NoJob
<1>3. \A q \in Procs \ {p} : queue'[q] = queue[q]
  BY DEF Apply, TypeInv, QueueOK
<1>4. \A q \in Procs \ {p} : mem'[q] = mem[q] /\ revision'[q] = revision[q]
  BY DEF Apply, TypeInv, MemOK, RevisionOK
<1>5. \A q \in Procs \ {p} : /\ Informed(q)' /\ Fresher(q)' /\ Newest(q)'
                             /\ Busy(q) => Busy(q)'
  BY <1>1, <1>3, <1>4, OthersKept
<1> QED
  BY <1>1, <1>2, <1>5

(* What was coming has come.                                               *)
LEMMA FinishLoadBehind ==
  ASSUME TypeInv, BehindInv, NEW p \in Procs, FinishLoad(p), UNCHANGED scenario, TypeInv'
  PROVE  BehindInv'
<1>0. Apply(p) /\ UNCHANGED <<watch, rev, up, skipped>> /\ job[p].pc = "loaded"
      /\ job[p].task.kind # "save"
  BY DEF FinishLoad, life, past
<1>1. /\ \A q \in Procs \ {p} : /\ Informed(q)' /\ Fresher(q)' /\ Newest(q)'
                                /\ Busy(q) => Busy(q)'
      /\ job'[p] = NoJob /\ Fresher(p)' /\ Newest(p)'
      /\ \A q \in Procs \ {p} : job'[q] = job[q]
  BY <1>0, ApplyOthers
<1>2. Busy(p) => Busy(p)'
  BY <1>0, ApplyBusy
<1>3. Informed(p)'
  <2>1. CASE Busy(p) \/ p \notin up
    BY <1>0, <1>2, <2>1 DEF Informed
  <2>2. CASE ~Busy(p) /\ p \in up
    <3>1. revision'[p].uuid = revision[p].uuid /\ revision'[p].admitted = revision[p].admitted
          /\ revision'[p].admittedQ = revision[p].admittedQ
      BY <1>0 DEF Apply, TypeInv, RevisionOK, Revisions
    <3>2. ASSUME NEW k \in Keys, Missing(p, k)' PROVE k \in skipped[p]
      <4>1. Deferred' = Deferred
        BY DEF Deferred
      <4>2. mem'[p][k] = IF job[p].changes[k] # Absent THEN job[p].changes[k] ELSE mem[p][k]
        BY <1>0 DEF Apply, TypeInv, MemOK
      <4>3. mem[p][k].ts \in 0..Len(hist) /\ rev.ts[k] \in 0..Len(hist)
            /\ job[p].changes[k].ts \in 0..Len(hist) /\ Len(hist) \in Nat
        <5>1. mem[p] \in Entries /\ job[p].changes \in Entries
          BY DEF TypeInv, MemOK, JobOK, Jobs
        <5>2. rev.ts \in StampSet
          BY DEF TypeInv, DiskOK, RevFile
        <5> QED
          BY <5>1, <5>2, HistLen DEF Entries, Stamped, StampSet
      <4>4. mem'[p][k].ts < rev.ts[k]
        BY <1>0, <3>2 DEF Missing
      <4>5. job[p].changes[k] = Absent
        BY <1>0, <4>2, <4>3, <4>4 DEF BehindInv, Newest
      <4>6. Missing(p, k)
        <5>1. k \in rev.declared \cap Deferred =>
                k \in revision[p].admitted \cup revision[p].admittedQ
          BY <1>0, <3>1, <3>2, <4>1 DEF Missing
        <5>2. mem[p][k].ts < rev.ts[k]
          BY <4>2, <4>4, <4>5
        <5> QED
          BY <5>1, <5>2 DEF Missing
      <4>7. ~Coming(p, k)
        BY <1>0, <4>2, <4>3, <4>4, <4>5 DEF Coming, Absent
      <4> QED
        BY <2>2, <4>6, <4>7 DEF BehindInv, Informed
    <3>3. revision[p].uuid = rev.uuid
      BY <2>2 DEF BehindInv, Informed
    <3> QED
      BY <1>0, <3>1, <3>2, <3>3 DEF Informed
  <2> QED
    BY <2>1, <2>2
<1>4. Announced'
  BY <1>0, <1>1, <1>2, AnnouncedKept DEF NoJob, BehindInv
<1> QED
  BY <1>1, <1>3, <1>4, PartsBehind

(***************************************************************************)
(* What a save has missed is looked for again, as it was told of its own   *)
(* .rev.                                                                   *)
(***************************************************************************)
LEMMA FinishSaveBehind ==
  ASSUME TypeInv, BehindInv, NEW p \in Procs, NEW written, FinishSave(p, written),
         UNCHANGED scenario, TypeInv'
  PROVE  BehindInv'
<1>0. Apply(p) /\ UNCHANGED <<watch, rev, up, skipped>> /\ job[p].pc = "revised"
  BY DEF FinishSave, life, past
<1>1. /\ \A q \in Procs \ {p} : /\ Informed(q)' /\ Fresher(q)' /\ Newest(q)'
                                /\ Busy(q) => Busy(q)'
      /\ job'[p] = NoJob /\ Fresher(p)' /\ Newest(p)'
      /\ \A q \in Procs \ {p} : job'[q] = job[q]
  BY <1>0, ApplyOthers
<1>2. p \in up /\ Busy(p)
  BY <1>0 DEF BehindInv, Announced, TypeInv, LocksOK, ProcOK, NoJob
<1>3. Busy(p)' /\ Informed(p)'
  BY <1>0, <1>2, ApplyBusy DEF Informed
<1>4. Announced'
  BY <1>0, <1>1, <1>3, AnnouncedKept DEF NoJob, BehindInv
<1> QED
  BY <1>1, <1>3, <1>4, PartsBehind

(* The look at .rev, one case per outcome of beginUpdate.                  *)
LEMMA LoadFromStoreBehind ==
  ASSUME TypeInv, BehindInv, NEW p \in Procs, LoadFromStore(p), UNCHANGED scenario, TypeInv'
  PROVE  BehindInv'
<1> DEFINE t == job[p].task
           base == job[p].base
           pins == t.kind = "pins"
           b == Look(p)
           read == Read(p)
           lost == Lost(p)
           changes == Changes(p)
           w == b.go /\ (~b.r.found \/ lost # {})
<1>1. Len(hist) \in Nat /\ rev \in RevFile /\ revision[p] \in Revisions /\ job[p] \in Jobs
      /\ base \in Entries /\ \A k \in Keys : Stamps(base)[k] = base[k].ts
  BY LookFacts, HistLen DEF TypeInv, DiskOK, RevisionOK, JobOK, Jobs
<1>2. Begun(b, revision[p], Stamps(base), ~pins, pins)
  BY LookFacts, Zenon
<1>0. /\ job[p].pc = "begin" /\ lock = Nil
      /\ UNCHANGED <<file, mem, up, starts, faults, hist>>
      /\ skipped' = [skipped EXCEPT ![p] =
           IF SameRevision(revision[p]) THEN {k \in Keys : base[k].ts < rev.ts[k]} ELSE {}]
      /\ IF b.go THEN Loads(p) ELSE NothingToDo(p)
  BY LoadParts
<1>3. job[p].pc = "begin" /\ lock = Nil /\ p \in up
  BY <1>0 DEF TypeInv, LocksOK, ProcOK, NoJob
<1>4. \A q \in Procs : job[q].pc \notin {"loaded", "revised"}
  BY <1>3, NilOK DEF TypeInv, LocksOK, ProcOK
<1>5. UNCHANGED <<mem, up, file>>
      /\ skipped' = [skipped EXCEPT ![p] =
           IF SameRevision(revision[p]) THEN {k \in Keys : base[k].ts < rev.ts[k]} ELSE {}]
  BY <1>0
<1>6. ~b.go => /\ revision' = [revision EXCEPT ![p] = [b.r EXCEPT !.promises = {}]]
               /\ queue' = [queue EXCEPT ![p] = @ \o AfterStart(p)]
               /\ job' = [job EXCEPT ![p] = NoJob]
               /\ UNCHANGED <<rev, watch>>
  BY <1>0, Zenon DEF NothingToDo
<1>7. b.go => /\ UNCHANGED queue
              /\ job' = [job EXCEPT ![p].pc = "loaded", ![p].changes = changes]
              /\ w => WriteNewRevision(p, b.r, NoStamps, lost)
              /\ ~w => /\ UNCHANGED <<rev, watch>>
                       /\ revision' = [revision EXCEPT ![p] = [b.r EXCEPT !.updating = TRUE]]
  BY <1>0, Zenon DEF Loads
<1>8. \A q \in Procs \ {p} : job'[q] = job[q] /\ queue'[q] = queue[q] /\ skipped'[q] = skipped[q]
                             /\ revision'[q] = revision[q]
  <2>1. \A q \in Procs \ {p} : job'[q] = job[q]
    BY <1>6, <1>7, <1>2 DEF TypeInv, JobOK, Begun
  <2>2. \A q \in Procs \ {p} : queue'[q] = queue[q]
    BY <1>6, <1>7, <1>2 DEF TypeInv, QueueOK, Begun
  <2>3. \A q \in Procs \ {p} : skipped'[q] = skipped[q]
    BY <1>5 DEF TypeInv, PastOK
  <2>4. \A q \in Procs \ {p} : revision'[q] = revision[q]
    <3>1. \E r : revision' = [revision EXCEPT ![p] = r]
      BY <1>0, Zenon DEF Loads, NothingToDo
    <3> QED
      BY <3>1 DEF TypeInv, RevisionOK
  <2> QED
    BY <2>1, <2>2, <2>3, <2>4
<1>9. job'[p].pc \in {"idle", "loaded"} /\ (b.go => job'[p].task = t)
      /\ (b.go => job'[p].pc = "loaded" /\ job'[p].changes = changes)
      /\ (~b.go => job'[p] = NoJob)
  <2>1. CASE b.go
    BY <1>1, <1>7, <2>1 DEF TypeInv, JobOK, Jobs
  <2>2. CASE ~b.go
    BY <1>6, <2>2 DEF TypeInv, JobOK, NoJob
  <2> QED
    BY <2>1, <2>2
<1>10. \A q \in Procs : job'[q].pc # "revised"
  BY <1>4, <1>8, <1>9
<1>11. Announced'
  BY <1>10 DEF Announced
<1>12. Fresher(p)'
  BY <1>9 DEF Fresher
<1>13. Newest(p)'
  <2> SUFFICES ASSUME b.go, NEW k \in Keys, changes[k] # Absent
               PROVE  changes[k].ts >= rev'.ts[k]
    BY <1>9 DEF Newest, NoJob
  <2>1. k \in read /\ changes[k] = [val |-> file[k], ts |-> b.r.newer[k]]
    BY DEF Changes, Got
  <2>2. b.r.newer[k] # 0 /\ k \notin lost
    BY <2>1 DEF Read, Lost, NewerKeys
  <2>3. b.r.newer[k] = rev.ts[k] /\ b.r.orig = rev.ts
    BY <1>2, <2>2 DEF Begun
  <2>4. rev'.ts[k] = rev.ts[k]
    <3>1. CASE w
      BY <1>7, <2>2, <2>3, <3>1 DEF WriteNewRevision, NoStamps
    <3>2. CASE ~w
      BY <1>7, <3>2
    <3> QED
      BY <3>1, <3>2
  <2>5. rev.ts[k] \in 0..Len(hist)
    BY <1>1 DEF RevFile, StampSet
  <2> QED
    BY <2>1, <2>3, <2>4, <2>5
<1>14. CASE w
  <2>1. \A q \in up : job'[q].task = job[q].task
    BY <1>8, <1>9, <1>14 DEF TypeInv, LifeOK
  <2>2. \A q \in up' : Busy(q)'
    BY <1>5, <1>7, <1>14, <2>1, WrittenBusy
  <2>3. \A q \in Procs : Informed(q)'
    BY <2>2 DEF Informed
  <2>4. \A q \in Procs \ {p} : Fresher(q)' /\ Newest(q)'
    BY <1>4, <1>5, <1>8 DEF Fresher, Newest, BehindInv
  <2> QED
    BY <1>11, <1>12, <1>13, <2>3, <2>4, PartsBehind
<1>15. CASE ~w
  <2>1. UNCHANGED <<rev, watch>>
    BY <1>2, <1>6, <1>7, <1>15 DEF Begun
  <2>2. \A q \in Procs \ {p} : /\ Informed(q)' /\ Fresher(q)' /\ Newest(q)'
                               /\ Busy(q) => Busy(q)'
    BY <1>5, <1>8, <2>1, OthersKept
  <2>3. Informed(p)'
    <3>1. CASE pins /\ b.go
      BY <1>9, <3>1 DEF Busy, Informed
    <3>2. CASE pins /\ ~b.go
      <4>1. queue'[p] = queue[p] \o <<Declare, Load>>
        BY <1>6, <3>2 DEF AfterStart, TypeInv, QueueOK
      <4>2. <<Declare, Load>> \in Seq(Tasks)
        BY <1>1, NoThings
      <4>3. 2 \in 1..Len(<<Declare, Load>>) /\ Looks(<<Declare, Load>>[2])
        BY DEF Load, Task, Looks
      <4>4. Busy(p)'
        BY <2>1, <4>1, <4>2, <4>3, BusyAppend
      <4> QED
        BY <4>4 DEF Informed
    <3>3. CASE ~pins
      <4>1. rev.uuid # Nil
        BY <1>2, <1>15 DEF Begun
      <4>2. revision'[p].uuid = b.r.uuid /\ revision'[p].admitted = b.r.admitted
            /\ revision'[p].admittedQ = b.r.admittedQ
        <5>1. b.r \in Revisions
          BY <1>2 DEF Begun
        <5> DEFINE r1 == [b.r EXCEPT !.promises = {}]
                   r2 == [b.r EXCEPT !.updating = TRUE]
        <5>2. r1.uuid = b.r.uuid /\ r1.admitted = b.r.admitted /\ r1.admittedQ = b.r.admittedQ
              /\ r2.uuid = b.r.uuid /\ r2.admitted = b.r.admitted /\ r2.admittedQ = b.r.admittedQ
          BY <5>1 DEF Revisions
        <5> HIDE DEF r1, r2
        <5>3. revision' = [revision EXCEPT ![p] = r1] \/ revision' = [revision EXCEPT ![p] = r2]
          BY <1>2, <1>6, <1>7, <1>15 DEF Begun, r1, r2
        <5>4. revision'[p] \in {r1, r2}
          BY <5>3 DEF TypeInv, RevisionOK
        <5> QED
          BY <5>2, <5>4
      <4>3. revision'[p].uuid = rev.uuid
        BY <1>2, <3>3, <4>1, <4>2 DEF Begun
      <4>4. ASSUME NEW k \in Keys, Missing(p, k)' PROVE k \in skipped'[p] \/ Coming(p, k)'
        <5>1. /\ k \in rev.declared \cap Deferred =>
                 k \in revision[p].admitted \cup revision[p].admittedQ
              /\ mem[p][k].ts < rev.ts[k]
          <6>1. Deferred' = Deferred
            BY DEF Deferred
          <6>2. revision'[p].admitted \cup revision'[p].admittedQ
                  = revision[p].admitted \cup revision[p].admittedQ
            BY <1>2, <4>2 DEF Begun
          <6> QED
            BY <1>5, <2>1, <4>4, <6>1, <6>2 DEF Missing
        <5>2. base[k].ts < rev.ts[k] /\ rev.ts[k] \in Nat /\ rev.ts[k] # 0
          <6>1. mem[p][k].ts >= base[k].ts
            BY <1>3 DEF BehindInv, Fresher
          <6>2. mem[p] \in Entries /\ rev.ts \in StampSet
            BY DEF TypeInv, MemOK, DiskOK, RevFile
          <6>3. mem[p][k].ts \in 0..Len(hist) /\ base[k].ts \in 0..Len(hist)
                /\ rev.ts[k] \in 0..Len(hist)
            BY <1>1, <6>2 DEF Entries, Stamped, StampSet
          <6> QED
            BY <1>1, <5>1, <6>1, <6>3
        <5>3. CASE SameRevision(revision[p])
          BY <1>5, <5>2, <5>3 DEF TypeInv, PastOK
        <5>4. CASE ~SameRevision(revision[p])
          <6>1. Stamps(base)[k] < rev.ts[k]
            BY <1>1, <5>2
          <6>2. b.go /\ b.r.newer[k] = rev.ts[k]
            BY <1>2, <3>3, <4>1, <5>1, <5>4, <6>1 DEF Begun
          <6>3. k \in read
            BY <1>15, <5>2, <6>2 DEF Lost, NewerKeys
          <6>4. job'[p].pc = "loaded" /\ job'[p].changes = changes /\ job'[p].task = t
            BY <1>9, <6>2
          <6>5. CASE t.key = k
            <7>1. t.kind = "save"
              BY <1>1, <3>3, <6>5 DEF Jobs, Tasks, Task
            <7> QED
              BY <6>4, <7>1 DEF Coming
          <6>6. CASE t.key # k
            <7>1. changes[k] = [val |-> file[k], ts |-> rev.ts[k]]
              BY <6>2, <6>3, <6>6 DEF Changes, Got
            <7> QED
              BY <2>1, <5>2, <6>4, <7>1 DEF Coming
          <6> QED
            BY <6>5, <6>6
        <5> QED
          BY <5>3, <5>4
      <4> QED
        BY <2>1, <4>3, <4>4 DEF Informed
    <3> QED
      BY <3>1, <3>2, <3>3
  <2> QED
    BY <1>11, <1>12, <1>13, <2>2, <2>3, PartsBehind
<1> QED
  BY <1>14, <1>15

(* Steps of others.                                                        *)
LEMMA StutterBehind ==
  ASSUME TypeInv, BehindInv, UNCHANGED vars, TypeInv'
  PROVE  BehindInv'
<1>1. UNCHANGED <<scenario, rev, mem, revision, queue, job, watch, up, skipped>>
  BY DEF vars, disk, inner, life, past
<1>2. \A q \in Procs : Informed(q)' /\ Fresher(q)' /\ Newest(q)'
  BY <1>1, InformedKept DEF BehindInv, Fresher, Newest, Absent
<1>3. Announced'
  BY <1>1 DEF BehindInv, Announced, Busy, Looks
<1> QED
  BY <1>2, <1>3 DEF BehindInv

(* Every step keeps the invariant.                                         *)
LEMMA NextBehindInv == TypeInv /\ TypeInv' /\ BehindInv /\ [Next]_vars => BehindInv'
<1> SUFFICES ASSUME TypeInv, TypeInv', BehindInv, [Next]_vars PROVE BehindInv'
  OBVIOUS
<1>1. CASE Next
  <2> PICK p \in Procs :
       \/ Start(p) \/ Crash(p)
       \/ \E k \in Keys, v \in Values : Set(p, k, v)
       \/ \E k \in Keys : Synchronize(p, k)
       \/ FileChanged(p)
       \/ Serializes(p)
       \/ Waits(p)
    BY <1>1 DEF Next
  <2>1. UNCHANGED scenario
    BY <1>1 DEF Next
  <2>2. CASE Serializes(p)
    BY <2>1, <2>2, TakeTaskBehind, LoadFromStoreBehind, SaveRevisionBehind, FinishLoadBehind,
       FinishSaveBehind DEF Serializes
  <2>3. CASE \E k \in Keys, v \in Values : Set(p, k, v)
    BY <2>1, <2>3, SetBehind
  <2>4. CASE \E k \in Keys : Synchronize(p, k)
    BY <2>1, <2>4, SynchronizeBehind
  <2> QED
    BY <2>1, <2>2, <2>3, <2>4, StartBehind, CrashBehind, FileChangedBehind, WaitsBehind
<1>2. CASE UNCHANGED vars
  BY <1>2, StutterBehind
<1> QED
  BY <1>1, <1>2

-----------------------------------------------------------------------------
(* An entry has the value that was set with its time stamp.                *)
Truthful(e) == e.ts # 0 => e.val = hist[e.ts].val

(* What p is about to take into its cache under key k.                     *)
Loading(p, k) == job[p].pc \in {"loaded", "revised"} /\ job[p].changes[k] # Absent

(***************************************************************************)
(* The inductive invariant of the second half: a process has the value of  *)
(* its time stamp, or has misread the file, or is about to replace what it *)
(* has; and what it has just read is right or misread.                     *)
(***************************************************************************)
ReadsOf(p, k) ==
  /\ Truthful(mem[p][k]) \/ k \in misread[p] \/ Loading(p, k)
  /\ Loading(p, k) => Truthful(job[p].changes[k]) \/ k \in misread[p]

ReadInv == \A p \in Procs, k \in Keys : ReadsOf(p, k)

(* What a step leaves alone stays as it was, even when a value is set.     *)
LEMMA TruthfulKept ==
  ASSUME TypeInv, NEW e \in Stamped, Truthful(e),
         \/ hist' = hist
         \/ \E s \in Sets : hist' = Append(hist, s)
  PROVE  e.ts # 0 => e.val = hist'[e.ts].val
<1>1. hist \in Seq(Sets) /\ Len(hist) \in Nat /\ e.ts \in 0..Len(hist)
  BY HistLen DEF TypeInv, PastOK, Stamped
<1>2. CASE hist' = hist
  BY <1>2 DEF Truthful
<1>3. CASE \E s \in Sets : hist' = Append(hist, s)
  <2> PICK s \in Sets : hist' = Append(hist, s)
    BY <1>3
  <2>1. \A i \in 1..Len(hist) : hist'[i] = hist[i]
    BY <1>1, AppendProperties
  <2> QED
    BY <1>1, <2>1 DEF Truthful
<1> QED
  BY <1>2, <1>3

(* Entries of a typed state.                                               *)
LEMMA EntriesTyped ==
  ASSUME TypeInv, NEW q \in Procs, NEW k \in Keys
  PROVE  mem[q][k] \in Stamped /\ job[q].changes[k] \in Stamped
<1>1. mem[q] \in Entries /\ job[q].changes \in Entries
  BY DEF TypeInv, MemOK, JobOK, Jobs
<1> QED
  BY <1>1 DEF Entries

(* A process that reads and loads nothing in this step.                    *)
LEMMA ReadsKept ==
  ASSUME TypeInv, NEW q \in Procs, NEW k \in Keys, ReadsOf(q, k),
         mem'[q][k] = mem[q][k], misread'[q] = misread[q],
         Loading(q, k)' <=> Loading(q, k),
         Loading(q, k) => job'[q].changes[k] = job[q].changes[k],
         \/ hist' = hist
         \/ \E s \in Sets : hist' = Append(hist, s)
  PROVE  ReadsOf(q, k)'
<1>1. Truthful(mem[q][k]) => Truthful(mem[q][k])'
  BY EntriesTyped, TruthfulKept DEF Truthful
<1>2. Loading(q, k) /\ Truthful(job[q].changes[k]) => Truthful(job[q].changes[k])'
  BY EntriesTyped, TruthfulKept DEF Truthful
<1> QED
  BY <1>1, <1>2 DEF ReadsOf

(* A step that no cache and no serializer is part of.                      *)
LEMMA ReadsUntouched ==
  ASSUME TypeInv, ReadInv, UNCHANGED <<mem, misread, job, hist>>
  PROVE  ReadInv'
<1> SUFFICES ASSUME NEW q \in Procs, NEW k \in Keys PROVE ReadsOf(q, k)'
  BY DEF ReadInv
<1>1. ReadsOf(q, k) /\ (Loading(q, k)' <=> Loading(q, k))
  BY DEF ReadInv, Loading, Absent
<1> QED
  BY <1>1, ReadsKept

(* A serializer that begins or gives up has loaded nothing yet.            *)
LEMMA ReadsBegun ==
  ASSUME TypeInv, ReadInv, NEW p \in Procs, NEW j,
         UNCHANGED <<mem, misread, hist>>, job' = [job EXCEPT ![p] = j],
         j.pc \notin {"loaded", "revised"}, job[p].pc \notin {"loaded", "revised"}
  PROVE  ReadInv'
<1> SUFFICES ASSUME NEW q \in Procs, NEW k \in Keys PROVE ReadsOf(q, k)'
  BY DEF ReadInv
<1>1. job'[q] = IF q = p THEN j ELSE job[q]
  BY DEF TypeInv, JobOK
<1>2. ReadsOf(q, k) /\ (Loading(q, k)' <=> Loading(q, k))
  BY <1>1 DEF ReadInv, Loading, Absent
<1>3. Loading(q, k) => job'[q].changes[k] = job[q].changes[k]
  BY <1>1 DEF Loading
<1> QED
  BY <1>2, <1>3, ReadsKept

(* A value that is set has its own time stamp.                             *)
LEMMA SetReads ==
  ASSUME TypeInv, ReadInv, NEW p \in Procs, NEW c \in Keys, NEW v \in Values, Set(p, c, v)
  PROVE  ReadInv'
<1> DEFINE s == [proc |-> p, key |-> c, val |-> v]
<1>1. s \in Sets /\ hist' = Append(hist, s) /\ UNCHANGED <<job, misread>>
  BY DEF Set, Sets
<1>2. Len(hist') = Len(hist) + 1 /\ Len(hist) \in Nat /\ hist'[Len(hist) + 1] = s
  BY <1>1, HistLen, AppendProperties DEF TypeInv, PastOK
<1> SUFFICES ASSUME NEW q \in Procs, NEW k \in Keys PROVE ReadsOf(q, k)'
  BY DEF ReadInv
<1>3. ReadsOf(q, k) /\ (Loading(q, k)' <=> Loading(q, k))
  BY <1>1 DEF ReadInv, Loading, Absent
<1>4. CASE q = p /\ k = c
  <2>1. mem'[q][k] = [val |-> v, ts |-> Len(hist')]
    BY <1>4 DEF Set, TypeInv, MemOK, Entries
  <2>2. Truthful(mem[q][k])'
    BY <1>2, <2>1 DEF Truthful
  <2>3. Loading(q, k) /\ Truthful(job[q].changes[k]) => Truthful(job[q].changes[k])'
    BY <1>1, EntriesTyped, TruthfulKept DEF Truthful
  <2> QED
    BY <1>1, <1>3, <2>2, <2>3 DEF ReadsOf
<1>5. CASE ~(q = p /\ k = c)
  <2>1. mem'[q][k] = mem[q][k]
    BY <1>5 DEF Set, TypeInv, MemOK, Entries
  <2> QED
    BY <1>1, <1>3, <2>1, ReadsKept
<1> QED
  BY <1>4, <1>5

(* A process that dies has read nothing.                                   *)
LEMMA CrashReads ==
  ASSUME TypeInv, ReadInv, NEW p \in Procs, Crash(p)
  PROVE  ReadInv'
<1> SUFFICES ASSUME NEW q \in Procs, NEW k \in Keys PROVE ReadsOf(q, k)'
  BY DEF ReadInv
<1>1. UNCHANGED <<hist, misread>>
  BY DEF Crash, past
<1>2. mem'[q] = (IF q = p THEN NoValues ELSE mem[q]) /\ job'[q] = IF q = p THEN NoJob ELSE job[q]
  BY DEF Crash, TypeInv, MemOK, JobOK
<1>3. CASE q = p
  <2>1. Truthful(mem[q][k])' /\ ~Loading(q, k)'
    BY <1>2, <1>3 DEF NoValues, Absent, NoJob, Truthful, Loading
  <2> QED
    BY <2>1 DEF ReadsOf
<1>4. CASE q # p
  <2>1. ReadsOf(q, k) /\ (Loading(q, k)' <=> Loading(q, k))
    BY <1>2, <1>4 DEF ReadInv, Loading, Absent
  <2> QED
    BY <1>1, <1>2, <1>4, <2>1, ReadsKept
<1> QED
  BY <1>3, <1>4

(* loadFromStore: what is not the value of its time stamp is misread.      *)
LEMMA LoadFromStoreReads ==
  ASSUME TypeInv, ReadInv, NEW p \in Procs, LoadFromStore(p)
  PROVE  ReadInv'
<1>1. /\ job[p].pc = "begin" /\ UNCHANGED <<file, mem, hist>>
      /\ misread' = [misread EXCEPT ![p] =
           (@ \ Got(p)) \cup {k \in Got(p) : file[k] # hist[Look(p).r.newer[k]].val}]
      /\ IF Look(p).go THEN Loads(p) ELSE NothingToDo(p)
  BY LoadParts
<1>2. /\ Look(p).go \in BOOLEAN /\ Look(p).r \in Revisions
      /\ ~Look(p).go => \A k \in Keys : Look(p).r.newer[k] = 0
  BY LookFacts DEF Begun
<1>3. \A k \in Got(p) : k \in Keys /\ Look(p).r.newer[k] # 0
  BY DEF Got, Read, NewerKeys
<1>4. CASE ~Look(p).go
  <2>1. Got(p) = {}
    BY <1>2, <1>3, <1>4
  <2>2. misread' = misread
    BY <1>1, <2>1 DEF TypeInv, PastOK
  <2>3. job' = [job EXCEPT ![p] = NoJob] /\ NoJob.pc \notin {"loaded", "revised"}
    BY <1>1, <1>4 DEF NothingToDo, NoJob
  <2> QED
    BY <1>1, <2>2, <2>3, ReadsBegun
<1>5. CASE Look(p).go
  <2> SUFFICES ASSUME NEW q \in Procs, NEW k \in Keys PROVE ReadsOf(q, k)'
    BY DEF ReadInv
  <2>1. job' = [job EXCEPT ![p].pc = "loaded", ![p].changes = Changes(p)]
    BY <1>1, <1>5 DEF Loads
  <2>2. CASE q # p
    <3>1. job'[q] = job[q] /\ misread'[q] = misread[q]
      BY <1>1, <2>1, <2>2 DEF TypeInv, JobOK, PastOK
    <3>2. ReadsOf(q, k) /\ (Loading(q, k)' <=> Loading(q, k))
      BY <3>1 DEF ReadInv, Loading, Absent
    <3> QED
      BY <1>1, <3>1, <3>2, ReadsKept
  <2>3. CASE q = p
    <3>1. job'[p].pc = "loaded" /\ job'[p].changes = Changes(p)
      BY <2>1 DEF TypeInv, JobOK, Jobs
    <3>2. misread'[p] = (misread[p] \ Got(p))
                          \cup {c \in Got(p) : file[c] # hist[Look(p).r.newer[c]].val}
      BY <1>1 DEF TypeInv, PastOK
    <3>3. CASE k \in Got(p)
      <4>1. job'[p].changes[k] = [val |-> file[k], ts |-> Look(p).r.newer[k]]
        BY <3>1, <3>3 DEF Changes
      <4>2. Loading(p, k)'
        BY <1>3, <3>1, <3>3, <4>1 DEF Loading, Absent
      <4>3. k \in misread'[p] \/ file[k] = hist[Look(p).r.newer[k]].val
        BY <3>2, <3>3
      <4>4. k \in misread'[p] \/ Truthful(job[p].changes[k])'
        BY <1>1, <4>1, <4>3 DEF Truthful
      <4> QED
        BY <2>3, <4>2, <4>4 DEF ReadsOf
    <3>4. CASE k \notin Got(p)
      <4>1. ~Loading(p, k)'
        BY <3>1, <3>4 DEF Changes, Loading, Absent
      <4>2. Truthful(mem[p][k]) \/ k \in misread[p]
        BY <1>1 DEF ReadInv, ReadsOf, Loading
      <4>3. Truthful(mem[p][k])' \/ k \in misread'[p]
        BY <1>1, <3>2, <3>4, <4>2 DEF Truthful
      <4> QED
        BY <2>3, <4>1, <4>3 DEF ReadsOf
    <3> QED
      BY <3>3, <3>4
  <2> QED
    BY <2>2, <2>3
<1> QED
  BY <1>2, <1>4, <1>5

(* applyDeferredChanges takes what was read into the cache.                *)
LEMMA ApplyReads ==
  ASSUME TypeInv, ReadInv, NEW p \in Procs, Apply(p), job[p].pc \in {"loaded", "revised"},
         UNCHANGED <<hist, misread>>
  PROVE  ReadInv'
<1> SUFFICES ASSUME NEW q \in Procs, NEW k \in Keys PROVE ReadsOf(q, k)'
  BY DEF ReadInv
<1>1. /\ mem' = [mem EXCEPT ![p] = [c \in Keys |->
                   IF c \in {d \in Keys : job[p].changes[d] # Absent}
                   THEN job[p].changes[c] ELSE @[c]]]
      /\ job' = [job EXCEPT ![p] = NoJob]
  BY DEF Apply, Done
<1>2. CASE q = p
  <2>1. mem'[q][k] = IF job[p].changes[k] # Absent THEN job[p].changes[k] ELSE mem[p][k]
    BY <1>1, <1>2 DEF TypeInv, MemOK
  <2>2. ~Loading(q, k)'
    BY <1>1, <1>2 DEF TypeInv, JobOK, Loading, NoJob
  <2>3. Truthful(mem'[q][k]) \/ k \in misread[p]
    BY <1>2, <2>1 DEF ReadInv, ReadsOf, Loading
  <2>4. Truthful(mem[q][k])' \/ k \in misread'[q]
    BY <1>2, <2>3 DEF Truthful
  <2> QED
    BY <2>2, <2>4 DEF ReadsOf
<1>3. CASE q # p
  <2>1. mem'[q] = mem[q] /\ job'[q] = job[q]
    BY <1>1, <1>3 DEF TypeInv, MemOK, JobOK
  <2>2. ReadsOf(q, k) /\ (Loading(q, k)' <=> Loading(q, k))
    BY <2>1 DEF ReadInv, Loading, Absent
  <2> QED
    BY <2>1, <2>2, ReadsKept
<1> QED
  BY <1>2, <1>3

(* The other steps of the serializer.                                      *)
LEMMA SerializesReads ==
  ASSUME TypeInv, ReadInv, NEW p \in Procs, Serializes(p)
  PROVE  ReadInv'
<1>1. CASE TakeTask(p)
  <2>1. UNCHANGED <<mem, misread, hist>> /\ job[p].pc = "idle"
    BY <1>1 DEF TakeTask, past
  <2>2. CASE job' = job
    BY <2>1, <2>2, ReadsUntouched
  <2>3. CASE job' # job
    <3> DEFINE j == [pc |-> "begin", task |-> Head(queue[p]), base |-> mem[p],
                     changes |-> NoValues]
    <3>1. job' = [job EXCEPT ![p] = j]
      BY <1>1, <2>3 DEF TakeTask
    <3>2. j.pc = "begin"
      OBVIOUS
    <3> HIDE DEF j
    <3> QED
      BY <2>1, <3>1, <3>2, ReadsBegun
  <2> QED
    BY <2>2, <2>3
<1>2. CASE SaveRevision(p)
  <2>1. UNCHANGED <<mem, misread, hist>> /\ job[p].pc = "loaded"
        /\ job' = [job EXCEPT ![p].pc = "revised"]
    BY <1>2 DEF SaveRevision, past
  <2> SUFFICES ASSUME NEW q \in Procs, NEW k \in Keys PROVE ReadsOf(q, k)'
    BY DEF ReadInv
  <2>2. job'[q].changes = job[q].changes /\ job'[q].pc = IF q = p THEN "revised" ELSE job[q].pc
    BY <2>1 DEF TypeInv, JobOK, Jobs
  <2>3. ReadsOf(q, k) /\ (Loading(q, k)' <=> Loading(q, k))
    BY <2>1, <2>2 DEF ReadInv, Loading, Absent
  <2> QED
    BY <2>1, <2>2, <2>3, ReadsKept
<1>3. CASE FinishLoad(p)
  BY <1>3, ApplyReads DEF FinishLoad, past
<1>4. CASE \E written \in BOOLEAN : FinishSave(p, written)
  BY <1>4, ApplyReads DEF FinishSave, past
<1> QED
  BY <1>1, <1>2, <1>3, <1>4, LoadFromStoreReads DEF Serializes

(* Every step keeps the invariant.                                         *)
LEMMA NextReadInv == TypeInv /\ ReadInv /\ [Next]_vars => ReadInv'
<1> SUFFICES ASSUME TypeInv, ReadInv, [Next]_vars PROVE ReadInv'
  OBVIOUS
<1>1. CASE Next
  <2> PICK p \in Procs :
       \/ Start(p) \/ Crash(p)
       \/ \E k \in Keys, v \in Values : Set(p, k, v)
       \/ \E k \in Keys : Synchronize(p, k)
       \/ FileChanged(p)
       \/ Serializes(p)
       \/ Waits(p)
    BY <1>1 DEF Next
  <2>1. CASE Start(p)
    <3>1. PICK j : job' = [job EXCEPT ![p] = j] /\ j.pc = "begin"
      <4>1. job' = [job EXCEPT ![p] = [NoJob EXCEPT !.pc = "begin",
                                                    !.task = Task("pins", Nil, Nil, {})]]
        BY <2>1 DEF Start
      <4>2. [NoJob EXCEPT !.pc = "begin", !.task = Task("pins", Nil, Nil, {})].pc = "begin"
        BY DEF NoJob
      <4> QED
        BY <4>1, <4>2
    <3>2. job[p].pc = "idle" /\ UNCHANGED <<mem, misread, hist>>
      BY <2>1 DEF Start, past, TypeInv, LocksOK, ProcOK, NoJob
    <3> QED
      BY <3>1, <3>2, ReadsBegun
  <2>2. CASE \E k \in Keys : Synchronize(p, k)
    BY <2>2, ReadsUntouched DEF Synchronize, past
  <2>3. CASE FileChanged(p) \/ Waits(p)
    BY <2>3, ReadsUntouched
    DEF FileChanged, Waits, PromiseLoadedValue, WaitTimesOut, NextRound, past, inner
  <2> QED
    BY <2>1, <2>2, <2>3, CrashReads, SetReads, SerializesReads
<1>2. CASE UNCHANGED vars
  BY <1>2, ReadsUntouched DEF vars, inner, past
<1> QED
  BY <1>1, <1>2

(* It holds initially.                                                     *)
LEMMA InitReadInv == Init => ReadInv
  BY DEF Init, ReadInv, ReadsOf, Truthful, Loading, NoValues, Absent, NoJob

(* It says more: who is mistaken has misread the file.                     *)
LEMMA ReadInvIsRead ==
  TypeInv /\ ReadInv /\ Quiet => \A p \in up, k \in Keys : Mistaken(p, k) => k \in misread[p]
<1> SUFFICES ASSUME TypeInv, ReadInv, Quiet, NEW p \in up, NEW k \in Keys, Mistaken(p, k)
             PROVE  k \in misread[p]
  OBVIOUS
<1>1. p \in Procs /\ job[p] = NoJob
  BY DEF TypeInv, LifeOK, Quiet
<1>2. ~Loading(p, k) /\ ~Truthful(mem[p][k])
  BY <1>1 DEF Loading, NoJob, Mistaken, Truthful
<1> QED
  BY <1>1, <1>2 DEF ReadInv, ReadsOf

(***************************************************************************)
(* For any processes, keys, sets, starts and faults: when all is quiet, a  *)
(* process with an older time stamp than .rev announces has looked at this *)
(* very .rev and skipped the value, because the uuid was the one it had    *)
(* read; and one with another value under the announced time stamp has     *)
(* read a file that did not hold the value of that time stamp.  A change   *)
(* that .rev still announces is missed in these two ways only.             *)
(***************************************************************************)
THEOREM NothingMissed == Spec => []MissesExplained
<1>1. Spec => [](TypeInv /\ BehindInv)
  BY TypeInvAlways, InitBehindInv, NextBehindInv, PTL DEF Spec
<1>2. Spec => [](TypeInv /\ ReadInv)
  BY TypeInvAlways, InitReadInv, NextReadInv, PTL DEF Spec
<1>3. TypeInv /\ BehindInv /\ ReadInv => MissesExplained
  BY BehindInvIsBehind, ReadInvIsRead DEF MissesExplained
<1> QED
  BY <1>1, <1>2, <1>3, PTL

-----------------------------------------------------------------------------
(* When p has set k.                                                       *)
SetsOf(p, k) == {i \in 1..Len(hist) : hist[i].proc = p /\ hist[i].key = k}
(* The last of them.                                                       *)
IsLast(i, S) == i \in S /\ \A j \in S : j <= i

(* A task that saves k.                                                    *)
SaveOf(t, k) == t.kind = "save" /\ t.key = k
(* p has posted one.                                                       *)
InQueue(p, k) == \E i \in 1..Len(queue[p]) : SaveOf(queue[p][i], k)
(* The last one posted.                                                    *)
LastQueued(p, k, i) ==
  SaveOf(queue[p][i], k) /\ \A j \in 1..Len(queue[p]) : j > i => ~SaveOf(queue[p][j], k)
(* The file of k is still to be written by p.                              *)
Saving(p, k) == InQueue(p, k) \/ SaveOf(job[p].task, k)

(* Where there are sets there is a last one.                               *)
Ordered == \A p \in Procs, k \in Keys : SetsOf(p, k) = {} \/ \E i \in Nat : IsLast(i, SetsOf(p, k))

(* The last save of k that p has posted has the value that p has set last. *)
Queued(p) ==
  \A k \in Keys, i \in 1..Len(queue[p]) :
    LastQueued(p, k, i) => queue[p][i].val = LastSet(p, k)

(* So has the save under way, if no other has been posted.                 *)
Running(p) ==
  \A k \in Keys :
    SaveOf(job[p].task, k) /\ ~InQueue(p, k) => job[p].task.val = LastSet(p, k)

(***************************************************************************)
(* The file of k holds a value that some process has set last, or one is   *)
(* still to be written.                                                    *)
(***************************************************************************)
Stored(k) == (\E p \in Procs : file[k] = LastSet(p, k)) \/ (\E p \in Procs : Saving(p, k))

(* The inductive invariant of FileHoldsALastSet.                           *)
FileInv ==
  /\ Ordered
  /\ faults \in Nat
  /\ \A p \in Procs : Queued(p) /\ Running(p)
  /\ faults = 0 => \A k \in Keys : Stored(k)

(* It says more than FileHoldsALastSet.                                    *)
LEMMA FileInvIsFile == TypeInv /\ FileInv => FileHoldsALastSet
<1> SUFFICES ASSUME TypeInv, FileInv, Quiet, faults = 0, NEW k \in Keys
             PROVE  file[k] \in {LastSet(p, k) : p \in Procs}
  BY DEF FileHoldsALastSet
<1>1. ASSUME NEW p \in Procs PROVE ~Saving(p, k)
  <2>1. queue[p] = <<>> /\ job[p] = NoJob
    BY DEF Quiet, TypeInv, LocksOK, ProcOK
  <2> QED
    BY <2>1 DEF Saving, InQueue, SaveOf, NoJob, Declare, Task
<1> QED
  BY <1>1 DEF FileInv, Stored

(* It holds initially.                                                     *)
LEMMA InitFileInv == Init => FileInv
<1> SUFFICES ASSUME Init PROVE FileInv
  OBVIOUS
<1>1. hist = <<>> /\ faults = 0 /\ \A k \in Keys : file[k] = Nil
  BY DEF Init
<1>2. \A p, k : SetsOf(p, k) = {} /\ LastSet(p, k) = Nil
  BY <1>1 DEF SetsOf, LastSet
<1>3. \A p \in Procs : queue[p] = <<>> /\ job[p] = NoJob
  BY DEF Init
<1>4. \A p \in Procs : Queued(p) /\ Running(p)
  BY <1>3 DEF Queued, Running, SaveOf, NoJob, Declare, Task
<1>5. \A k \in Keys : Stored(k)
  BY <1>1, <1>2, DataCacheAssumption DEF Stored
<1> QED
  BY <1>1, <1>2, <1>4, <1>5 DEF FileInv, Ordered

(* The definition of LastSet, in terms of SetsOf.                          *)
LEMMA LastSetIs ==
  ASSUME NEW p, NEW k
  PROVE  LastSet(p, k) = IF SetsOf(p, k) = {} THEN Nil
                         ELSE hist[CHOOSE i \in SetsOf(p, k) : \A j \in SetsOf(p, k) : j <= i].val
  BY DEF LastSet, SetsOf

(* LastSet is the value of the last set.                                   *)
LEMMA LastSetAt ==
  ASSUME NEW p, NEW k, hist \in Seq(Sets), NEW i, IsLast(i, SetsOf(p, k))
  PROVE  LastSet(p, k) = hist[i].val
<1> DEFINE S == SetsOf(p, k)
           c == CHOOSE m \in S : \A j \in S : j <= m
<1>1. i \in S /\ \A j \in S : j <= i
  BY DEF IsLast
<1>2. c \in S /\ \A j \in S : j <= c
  BY <1>1, Zenon
<1>3. S \subseteq Nat
  BY LenProperties DEF SetsOf
<1>4. c = i
  BY <1>1, <1>2, <1>3
<1>5. S # {}
  BY <1>1
<1> HIDE DEF S, c
<1>6. LastSet(p, k) = hist[c].val
  BY <1>5, LastSetIs DEF S, c
<1> QED
  BY <1>4, <1>6

(* A set changes the last set of its process and key, and no other.        *)
LEMMA SetAppended ==
  ASSUME TypeInv, Ordered, NEW p \in Procs, NEW k \in Keys, NEW v \in Values, Set(p, k, v), TypeInv'
  PROVE  /\ Ordered'
         /\ \A q \in Procs, j \in Keys :
              LastSet(q, j)' = IF q = p /\ j = k THEN v ELSE LastSet(q, j)
<1> DEFINE e == [proc |-> p, key |-> k, val |-> v]
           n == Len(hist) + 1
<1>1. hist \in Seq(Sets) /\ hist' \in Seq(Sets) /\ hist' = Append(hist, e) /\ e \in Sets
  BY DEF TypeInv, PastOK, Set, Sets
<1>2. Len(hist) \in Nat /\ Len(hist') = n /\ hist'[n] = e
      /\ \A i \in 1..Len(hist) : hist'[i] = hist[i]
  BY <1>1, AppendProperties, LenProperties
<1>3. ASSUME NEW q \in Procs, NEW j \in Keys, ~(q = p /\ j = k)
      PROVE  SetsOf(q, j)' = SetsOf(q, j) /\ LastSet(q, j)' = LastSet(q, j)
  <2>1. SetsOf(q, j)' = SetsOf(q, j)
    BY <1>2, <1>3 DEF SetsOf
  <2>2. CASE SetsOf(q, j) = {}
    <3>1. LastSet(q, j) = Nil
      BY <2>2, LastSetIs
    <3>2. LastSet(q, j)' = Nil
      BY <2>1, <2>2 DEF LastSet, SetsOf
    <3> QED
      BY <2>1, <3>1, <3>2
  <2>3. CASE SetsOf(q, j) # {}
    <3> PICK i \in Nat : IsLast(i, SetsOf(q, j))
      BY <2>3 DEF Ordered
    <3>1. LastSet(q, j) = hist[i].val
      BY <1>1, LastSetAt
    <3>2. IsLast(i, SetsOf(q, j)')
      BY <2>1
    <3>3. LastSet(q, j)' = hist'[i].val
      <4> DEFINE S == SetsOf(q, j)'
                 c == CHOOSE m \in S : \A l \in S : l <= m
      <4>1. i \in S /\ \A l \in S : l <= i
        BY <3>2 DEF IsLast
      <4>2. c \in S /\ \A l \in S : l <= c
        BY <4>1, Zenon
      <4>3. S \subseteq Nat
        BY <1>2 DEF SetsOf
      <4>4. c = i
        BY <4>1, <4>2, <4>3
      <4>5. LastSet(q, j)' = hist'[c].val
        BY <4>1 DEF LastSet, SetsOf
      <4> QED
        BY <4>4, <4>5
    <3>4. i \in 1..Len(hist)
      BY DEF IsLast, SetsOf
    <3> QED
      BY <1>2, <2>1, <3>1, <3>3, <3>4
  <2> QED
    BY <2>2, <2>3
<1>4. IsLast(n, SetsOf(p, k)') /\ LastSet(p, k)' = v
  <2>1. IsLast(n, SetsOf(p, k)')
    BY <1>2 DEF IsLast, SetsOf
  <2> DEFINE S == SetsOf(p, k)'
             c == CHOOSE m \in S : \A l \in S : l <= m
  <2>2. n \in S /\ \A l \in S : l <= n
    BY <2>1 DEF IsLast
  <2>3. c \in S /\ \A l \in S : l <= c
    BY <2>2, Zenon
  <2>4. S \subseteq Nat
    BY <1>2 DEF SetsOf
  <2>5. c = n
    BY <2>2, <2>3, <2>4
  <2>6. LastSet(p, k)' = hist'[c].val
    BY <2>2 DEF LastSet, SetsOf
  <2> HIDE DEF c
  <2>7. hist'[c] = e
    BY <1>2, <2>5
  <2> QED
    BY <2>1, <2>6, <2>7
<1>5. Ordered'
  <2> SUFFICES ASSUME NEW q \in Procs, NEW j \in Keys
               PROVE  SetsOf(q, j)' = {} \/ \E i \in Nat : IsLast(i, SetsOf(q, j)')
    BY DEF Ordered, IsLast
  <2>1. CASE q = p /\ j = k
    BY <1>2, <1>4, <2>1
  <2>2. CASE ~(q = p /\ j = k)
    BY <1>3, <2>2 DEF Ordered
  <2> QED
    BY <2>1, <2>2
<1> QED
  BY <1>3, <1>4, <1>5

-----------------------------------------------------------------------------
(* No other step changes one.                                              *)
LEMMA SameHist ==
  ASSUME UNCHANGED hist
  PROVE  /\ Ordered' <=> Ordered
         /\ \A p \in Procs, k \in Keys : LastSet(p, k)' = LastSet(p, k)
<1>1. \A p, k : SetsOf(p, k)' = SetsOf(p, k) /\ LastSet(p, k)' = LastSet(p, k)
  BY DEF SetsOf, LastSet
<1> QED
  BY <1>1 DEF Ordered

(* A queue that is left alone.                                             *)
LEMMA QueueKept ==
  ASSUME NEW q, \A k \in Keys : LastSet(q, k)' = LastSet(q, k),
         queue'[q] = queue[q]
  PROVE  /\ Queued(q) => Queued(q)'
         /\ \A k \in Keys : InQueue(q, k)' <=> InQueue(q, k)
  BY DEF Queued, LastQueued, InQueue, SaveOf

(* What an appended sequence consists of.                                  *)
LEMMA AppendedAt ==
  ASSUME NEW S, NEW s \in Seq(S), NEW e \in S, NEW r, r = Append(s, e)
  PROVE  /\ Len(s) \in Nat /\ Len(r) = Len(s) + 1 /\ r[Len(s) + 1] = e
         /\ \A i \in 1..Len(s) : r[i] = s[i]
<1>1. Len(s) \in Nat
  BY LenProperties
<1>2. Len(r) = Len(s) + 1
  BY AppendProperties
<1>3. r[Len(s) + 1] = e
  BY AppendProperties
<1>4. \A i \in 1..Len(s) : r[i] = s[i]
  BY AppendProperties
<1> QED
  BY <1>1, <1>2, <1>3, <1>4

(* What the tail of a sequence consists of.                                *)
LEMMA TailAt ==
  ASSUME NEW S, NEW s \in Seq(S), s # <<>>, NEW r, r = Tail(s)
  PROVE  /\ Len(s) \in Nat \ {0} /\ Len(r) = Len(s) - 1
         /\ \A i \in 1..(Len(s) - 1) : r[i] = s[i + 1]
<1>1. Len(s) \in Nat \ {0}
  BY LenProperties, EmptySeq
<1>2. Len(r) = Len(s) - 1
  BY HeadTailProperties
<1>3. \A i \in 1..Len(r) : r[i] = s[i + 1]
  BY HeadTailProperties
<1> QED
  BY <1>1, <1>2, <1>3

(* What a sequence with a new head consists of.                            *)
LEMMA ConsAt ==
  ASSUME NEW S, NEW e \in S, NEW s \in Seq(S), NEW r, r = <<e>> \o s
  PROVE  /\ r \in Seq(S) /\ Len(s) \in Nat /\ Len(r) = 1 + Len(s) /\ r[1] = e
         /\ \A i \in 2..(1 + Len(s)) : r[i] = s[i - 1]
<1>1. Len(s) \in Nat
  BY LenProperties
<1>2. <<e>> \in Seq(S) /\ Len(<<e>>) = 1 /\ <<e>>[1] = e
  OBVIOUS
<1>3. r \in Seq(S)
  BY <1>2, ConcatProperties
<1>4. Len(r) = 1 + Len(s)
  BY <1>2, ConcatProperties
<1>5. ASSUME NEW i \in 1..(1 + Len(s)) PROVE r[i] = IF i <= 1 THEN <<e>>[i] ELSE s[i - 1]
  BY <1>2, ConcatProperties
<1>6. r[1] = e
  BY <1>1, <1>2, <1>5
<1>7. ASSUME NEW i \in 2..(1 + Len(s)) PROVE r[i] = s[i - 1]
  BY <1>1, <1>5
<1> QED
  BY <1>1, <1>3, <1>4, <1>6, <1>7

(* Posting tasks that save nothing.                                        *)
LEMMA QueueAppended ==
  ASSUME TypeInv, NEW q \in Procs, \A k \in Keys : LastSet(q, k)' = LastSet(q, k),
         NEW s \in Seq(Tasks), \A i \in 1..Len(s) : s[i].kind # "save",
         queue'[q] = queue[q] \o s
  PROVE  /\ Queued(q) => Queued(q)'
         /\ \A k \in Keys : InQueue(q, k)' <=> InQueue(q, k)
<1>1. queue[q] \in Seq(Tasks)
  BY DEF TypeInv, QueueOK
<1>2. Len(queue[q]) \in Nat /\ Len(s) \in Nat /\ Len(queue'[q]) = Len(queue[q]) + Len(s)
      /\ \A i \in 1..(Len(queue[q]) + Len(s)) :
           queue'[q][i] = IF i <= Len(queue[q]) THEN queue[q][i] ELSE s[i - Len(queue[q])]
  BY <1>1, ConcatProperties, LenProperties
<1>3. \A i \in 1..Len(queue[q]) : i \in 1..Len(queue'[q]) /\ queue'[q][i] = queue[q][i]
  BY <1>2
<1>4. \A i \in 1..Len(queue'[q]) : i \notin 1..Len(queue[q]) => queue'[q][i].kind # "save"
  <2> SUFFICES ASSUME NEW i \in 1..Len(queue'[q]), i \notin 1..Len(queue[q])
               PROVE  queue'[q][i].kind # "save"
    OBVIOUS
  <2> DEFINE m == i - Len(queue[q])
  <2>1. m \in 1..Len(s) /\ queue'[q][i] = s[m]
    BY <1>2
  <2> QED
    BY <2>1
<1>5. \A k \in Keys : InQueue(q, k)' <=> InQueue(q, k)
  BY <1>3, <1>4 DEF InQueue, SaveOf
<1>6. ASSUME Queued(q) PROVE Queued(q)'
  <2> SUFFICES ASSUME NEW k \in Keys, NEW i \in 1..Len(queue'[q]), LastQueued(q, k, i)'
               PROVE  queue'[q][i].val = LastSet(q, k)
    BY DEF Queued
  <2>1. i \in 1..Len(queue[q])
    BY <1>4 DEF LastQueued, SaveOf
  <2>2. LastQueued(q, k, i)
    BY <1>3, <2>1 DEF LastQueued, SaveOf
  <2> QED
    BY <1>3, <1>6, <2>1, <2>2 DEF Queued
<1> QED
  BY <1>5, <1>6

(* A save goes on.                                                         *)
LEMMA RunningKept ==
  ASSUME NEW q, \A k \in Keys : LastSet(q, k)' = LastSet(q, k), job'[q].task = job[q].task,
         \A k \in Keys : InQueue(q, k) => InQueue(q, k)'
  PROVE  Running(q) => Running(q)'
  BY DEF Running, SaveOf

(* Without a save under way there is nothing to say of it.                 *)
LEMMA NotSaving ==
  ASSUME NEW q, job'[q].task.kind # "save"
  PROVE  Running(q)'
  BY DEF Running, SaveOf

(* A step of p leaves the others' saves alone.                             *)
LEMMA OthersFile ==
  ASSUME FileInv, NEW p \in Procs, UNCHANGED hist,
         \A q \in Procs \ {p} : queue'[q] = queue[q] /\ job'[q] = job[q]
  PROVE  /\ \A q \in Procs \ {p} : /\ Queued(q)' /\ Running(q)'
                                   /\ \A k \in Keys : Saving(q, k)' <=> Saving(q, k)
         /\ Ordered'
<1>1. Ordered' /\ \A q \in Procs, k \in Keys : LastSet(q, k)' = LastSet(q, k)
  BY SameHist DEF FileInv
<1> SUFFICES ASSUME NEW q \in Procs \ {p}
             PROVE  /\ Queued(q)' /\ Running(q)'
                    /\ \A k \in Keys : Saving(q, k)' <=> Saving(q, k)
  BY <1>1
<1>2. Queued(q)' /\ \A k \in Keys : InQueue(q, k)' <=> InQueue(q, k)
  BY <1>1, QueueKept DEF FileInv
<1>3. Running(q)'
  BY <1>1, <1>2, RunningKept DEF FileInv
<1> QED
  BY <1>2, <1>3 DEF Saving

(* A step that writes no file and loses no save keeps the invariant.       *)
LEMMA QuietStep ==
  ASSUME FileInv, NEW p \in Procs, UNCHANGED <<hist, file, faults>>,
         \A q \in Procs \ {p} : queue'[q] = queue[q] /\ job'[q] = job[q],
         Queued(p)', Running(p)', \A k \in Keys : Saving(p, k) => Saving(p, k)'
  PROVE  FileInv'
<1>1. /\ \A q \in Procs \ {p} : /\ Queued(q)' /\ Running(q)'
                                /\ \A k \in Keys : Saving(q, k)' <=> Saving(q, k)
      /\ Ordered'
  BY OthersFile
<1>2. \A q \in Procs, k \in Keys : LastSet(q, k)' = LastSet(q, k)
  BY SameHist
<1>3. \A k \in Keys : Stored(k) => Stored(k)'
  BY <1>1, <1>2 DEF Stored
<1> QED
  BY <1>1, <1>3 DEF FileInv

(* So does one that posts tasks which save nothing.                        *)
LEMMA AppendStep ==
  ASSUME TypeInv, FileInv, NEW p \in Procs, UNCHANGED <<hist, file, faults>>,
         \A q \in Procs \ {p} : queue'[q] = queue[q] /\ job'[q] = job[q],
         NEW s \in Seq(Tasks), \A i \in 1..Len(s) : s[i].kind # "save",
         queue'[p] = queue[p] \o s,
         job'[p].task = job[p].task \/ (job[p].task.kind # "save" /\ job'[p].task.kind # "save")
  PROVE  FileInv'
<1>1. \A k \in Keys : LastSet(p, k)' = LastSet(p, k)
  BY SameHist
<1>2. Queued(p)' /\ \A k \in Keys : InQueue(p, k)' <=> InQueue(p, k)
  BY <1>1, QueueAppended DEF FileInv
<1>3. Running(p)'
  BY <1>1, <1>2, RunningKept, NotSaving DEF FileInv
<1>4. \A k \in Keys : Saving(p, k) => Saving(p, k)'
  BY <1>2 DEF Saving, SaveOf
<1> QED
  BY <1>2, <1>3, <1>4, QuietStep

(* And one that posts none.                                                *)
LEMMA KeepStep ==
  ASSUME TypeInv, FileInv, NEW p \in Procs, UNCHANGED <<hist, file, faults, queue>>,
         \A q \in Procs \ {p} : job'[q] = job[q],
         job'[p].task = job[p].task \/ (job[p].task.kind # "save" /\ job'[p].task.kind # "save")
  PROVE  FileInv'
<1>1. \A k \in Keys : LastSet(p, k)' = LastSet(p, k)
  BY SameHist
<1>2. Queued(p)' /\ \A k \in Keys : InQueue(p, k)' <=> InQueue(p, k)
  BY <1>1, QueueKept DEF FileInv
<1>3. Running(p)'
  BY <1>1, <1>2, RunningKept, NotSaving DEF FileInv
<1>4. \A k \in Keys : Saving(p, k) => Saving(p, k)'
  BY <1>2 DEF Saving, SaveOf
<1> QED
  BY <1>2, <1>3, <1>4, QuietStep

-----------------------------------------------------------------------------
(* The constructor saves nothing.                                          *)
LEMMA StartFile ==
  ASSUME TypeInv, FileInv, NEW p \in Procs, Start(p)
  PROVE  FileInv'
<1>1. job[p] = NoJob
  BY DEF TypeInv, LocksOK, ProcOK, Start
<1>2. job[p].task.kind # "save" /\ job'[p].task.kind # "save"
      /\ \A q \in Procs \ {p} : job'[q] = job[q]
  BY <1>1 DEF Start, TypeInv, JobOK, NoJob, Declare, Task
<1> QED
  BY <1>2, KeepStep DEF Start, past, disk

(* A crash, which may lose a save, is a fault.                             *)
LEMMA CrashFile ==
  ASSUME TypeInv, FileInv, NEW p \in Procs, Crash(p)
  PROVE  FileInv'
<1>1. UNCHANGED <<hist, file>> /\ faults' = faults + 1 /\ faults \in Nat
  BY DEF Crash, past, FileInv
<1>2. queue'[p] = <<>> /\ job'[p] = NoJob
      /\ \A q \in Procs \ {p} : queue'[q] = queue[q] /\ job'[q] = job[q]
  BY DEF Crash, TypeInv, QueueOK, JobOK
<1>3. Ordered' /\ \A q \in Procs \ {p} : Queued(q)' /\ Running(q)'
  BY <1>1, <1>2, OthersFile
<1>4. Queued(p)' /\ Running(p)'
  BY <1>2, NotSaving DEF Queued, NoJob, Declare, Task
<1> QED
  BY <1>1, <1>3, <1>4 DEF FileInv

(* A set posts the save of its value, behind all others.                   *)
LEMMA SetFile ==
  ASSUME TypeInv, FileInv, NEW p \in Procs, NEW k \in Keys, NEW v \in Values, Set(p, k, v), TypeInv'
  PROVE  FileInv'
<1>1. /\ UNCHANGED <<file, faults, job>>
      /\ queue'[p] = Append(queue[p], Save(k, v)) /\ queue[p] \in Seq(Tasks)
      /\ \A q \in Procs \ {p} : queue'[q] = queue[q]
  BY DEF Set, TypeInv, QueueOK, life, disk
<1>2. Ordered' /\ \A q \in Procs, j \in Keys :
                    LastSet(q, j)' = IF q = p /\ j = k THEN v ELSE LastSet(q, j)
  BY SetAppended DEF FileInv
<1> DEFINE n == Len(queue[p])
<1>3. n \in Nat /\ Len(queue'[p]) = n + 1 /\ queue'[p][n + 1] = Save(k, v)
      /\ \A i \in 1..n : queue'[p][i] = queue[p][i]
  <2>1. Save(k, v) \in Tasks
    BY DEF Save, Task, Tasks
  <2> QED
    BY <1>1, <2>1, AppendedAt
<1>4. SaveOf(Save(k, v), k) /\ Save(k, v).val = v /\ \A j \in Keys \ {k} : ~SaveOf(Save(k, v), j)
  BY DEF SaveOf, Save, Task
<1> HIDE DEF n
<1>5. InQueue(p, k)' /\ \A j \in Keys : InQueue(p, j) => InQueue(p, j)'
  <2>1. InQueue(p, k)'
    BY <1>3, <1>4 DEF InQueue
  <2>2. ASSUME NEW j \in Keys, InQueue(p, j) PROVE InQueue(p, j)'
    BY <1>3, <2>2 DEF InQueue, n
  <2> QED
    BY <2>1, <2>2
<1>6. Queued(p)'
  <2> SUFFICES ASSUME NEW j \in Keys, NEW i \in 1..(n + 1), LastQueued(p, j, i)'
               PROVE  queue'[p][i].val = LastSet(p, j)'
    BY <1>3 DEF Queued
  <2>1. CASE i = n + 1
    <3>1. j = k
      BY <1>3, <1>4, <2>1 DEF LastQueued
    <3> QED
      BY <1>2, <1>3, <1>4, <2>1, <3>1
  <2>2. CASE i # n + 1
    <3>1. i \in 1..n /\ queue'[p][i] = queue[p][i]
      BY <1>3, <2>2
    <3>2. j # k
      <4>1. n + 1 \in 1..(n + 1) /\ n + 1 > i
        BY <1>3, <3>1
      <4>2. ~SaveOf(queue'[p][n + 1], j)
        BY <1>3, <4>1 DEF LastQueued
      <4> QED
        BY <1>3, <1>4, <4>2
    <3>3. \A l \in 1..n : l > i => ~SaveOf(queue[p][l], j)
      <4> SUFFICES ASSUME NEW l \in 1..n, l > i PROVE ~SaveOf(queue[p][l], j)
        OBVIOUS
      <4>1. l \in 1..(n + 1) /\ queue'[p][l] = queue[p][l]
        BY <1>3
      <4> QED
        BY <1>3, <4>1 DEF LastQueued
    <3>4. LastQueued(p, j, i)
      BY <3>1, <3>3 DEF LastQueued, n
    <3> QED
      BY <1>2, <3>1, <3>2, <3>4 DEF FileInv, Queued, n
  <2> QED
    BY <2>1, <2>2
<1>7. Running(p)'
  BY <1>1, <1>2, <1>5 DEF FileInv, Running
<1>8. ASSUME NEW q \in Procs, q # p
      PROVE  Queued(q)' /\ Running(q)' /\ \A j \in Keys : InQueue(q, j)' <=> InQueue(q, j)
  <2>1. \A j \in Keys : LastSet(q, j)' = LastSet(q, j)
    BY <1>2, <1>8
  <2>2. Queued(q)' /\ \A j \in Keys : InQueue(q, j)' <=> InQueue(q, j)
    BY <1>1, <1>8, <2>1, QueueKept DEF FileInv
  <2> QED
    BY <1>1, <2>1, <2>2, RunningKept DEF FileInv
<1>9. ASSUME NEW j \in Keys, Stored(j) PROVE Stored(j)'
  <2>1. CASE j = k
    BY <1>5, <2>1 DEF Stored, Saving
  <2>2. CASE j # k
    <3>1. \A q \in Procs : LastSet(q, j)' = LastSet(q, j)
      BY <1>2, <2>2
    <3>2. \A q \in Procs : Saving(q, j) => Saving(q, j)'
      BY <1>1, <1>5, <1>8 DEF Saving
    <3> QED
      BY <1>1, <1>9, <3>1, <3>2 DEF Stored
  <2> QED
    BY <2>1, <2>2
<1> QED
  BY <1>1, <1>2, <1>6, <1>7, <1>8, <1>9 DEF FileInv

(* Posting a load.                                                         *)
LEMMA PostLoad ==
  ASSUME TypeInv, FileInv, NEW p \in Procs, UNCHANGED <<hist, file, faults, job>>,
         queue' = [queue EXCEPT ![p] = Append(@, Load)]
  PROVE  FileInv'
<1>1. Load \in Tasks /\ Load.kind # "save"
  BY NilOK DEF Load, Task, Tasks
<1>2. queue[p] \in Seq(Tasks) /\ queue'[p] = Append(queue[p], Load)
      /\ \A q \in Procs \ {p} : queue'[q] = queue[q]
  BY DEF TypeInv, QueueOK
<1>3. queue'[p] = queue[p] \o <<Load>>
  BY <1>1, <1>2, AppendIsConcat
<1>4. <<Load>> \in Seq(Tasks) /\ \A i \in 1..Len(<<Load>>) : <<Load>>[i].kind # "save"
  BY <1>1
<1> QED
  BY <1>2, <1>3, <1>4, AppendStep

(* The watcher's signal.                                                   *)
LEMMA FileChangedFile ==
  ASSUME TypeInv, FileInv, NEW p \in Procs, FileChanged(p)
  PROVE  FileInv'
  BY PostLoad DEF FileChanged, past, life, disk

(* Admitting a deferred value.                                             *)
LEMMA SynchronizeFile ==
  ASSUME TypeInv, FileInv, NEW p \in Procs, NEW k \in Keys, Synchronize(p, k)
  PROVE  FileInv'
<1>1. UNCHANGED <<hist, file, faults, job>>
  BY DEF Synchronize, past, life, disk
<1>2. UNCHANGED queue \/ queue' = [queue EXCEPT ![p] = Append(@, Load)]
  BY DEF Synchronize
<1> QED
  BY <1>1, <1>2, PostLoad, KeepStep

(***************************************************************************)
(* The oldest task is taken: a save stays to be done, and the last one     *)
(* posted stays the last.                                                  *)
(***************************************************************************)
LEMMA TakeTaskFile ==
  ASSUME TypeInv, FileInv, NEW p \in Procs, TakeTask(p)
  PROVE  FileInv'
<1> DEFINE n == Len(queue[p])
           t == queue[p][1]
<1>1. UNCHANGED <<hist, file, faults>> /\ queue[p] \in Seq(Tasks) /\ queue[p] # <<>>
      /\ Head(queue[p]) = t /\ queue'[p] = Tail(queue[p])
      /\ \A q \in Procs \ {p} : queue'[q] = queue[q] /\ job'[q] = job[q]
  BY DEF TakeTask, TypeInv, QueueOK, JobOK, past, life, disk
<1>2. n \in Nat \ {0} /\ Len(queue'[p]) = n - 1
      /\ \A i \in 1..(n - 1) : queue'[p][i] = queue[p][i + 1]
  BY <1>1, TailAt
<1>3. job[p] = NoJob /\ job[p].task.kind # "save"
  <2>1. job[p] = NoJob
    BY DEF TakeTask, TypeInv, LocksOK, ProcOK
  <2> QED
    BY <2>1 DEF NoJob, Declare, Task
<1>4. IF t.kind \in {"load", "save"} THEN job'[p].task = t ELSE job'[p] = job[p]
  BY <1>1 DEF TakeTask, TypeInv, JobOK
<1>5. t.kind = "save" => job'[p].task = t
  BY <1>4
<1>6. job'[p].task = t \/ job'[p].task.kind # "save"
  BY <1>3, <1>4
<1>7. \A k \in Keys : LastSet(p, k)' = LastSet(p, k)
  BY <1>1, SameHist
<1> HIDE DEF n, t
<1>8. ASSUME NEW k \in Keys, NEW i \in 1..n, SaveOf(queue[p][i], k)
      PROVE  IF i = 1 THEN SaveOf(t, k) ELSE InQueue(p, k)'
  <2>1. CASE i = 1
    BY <1>8, <2>1 DEF t
  <2>2. CASE i # 1
    <3>1. i - 1 \in 1..(n - 1) /\ queue'[p][i - 1] = queue[p][i]
      BY <1>2, <2>2
    <3> QED
      BY <1>2, <1>8, <2>2, <3>1 DEF InQueue
  <2> QED
    BY <2>1, <2>2
<1>9. Queued(p)'
  <2> SUFFICES ASSUME NEW k \in Keys, NEW i \in 1..(n - 1), LastQueued(p, k, i)'
               PROVE  queue'[p][i].val = LastSet(p, k)'
    BY <1>2 DEF Queued
  <2>1. i + 1 \in 1..n /\ queue'[p][i] = queue[p][i + 1]
    BY <1>2
  <2>2. ASSUME NEW j \in 1..n, j > i + 1 PROVE ~SaveOf(queue[p][j], k)
    <3>1. j - 1 \in 1..(n - 1) /\ j - 1 > i /\ queue'[p][j - 1] = queue[p][j]
      BY <1>2, <2>2
    <3> QED
      BY <1>2, <3>1 DEF LastQueued
  <2>3. LastQueued(p, k, i + 1)
    BY <2>1, <2>2 DEF LastQueued, n
  <2> QED
    BY <1>7, <2>1, <2>3 DEF FileInv, Queued, n
<1>10. Running(p)'
  <2> SUFFICES ASSUME NEW k \in Keys, SaveOf(job'[p].task, k), ~InQueue(p, k)'
               PROVE  job'[p].task.val = LastSet(p, k)'
    BY DEF Running
  <2>1. job'[p].task = t
    BY <1>6 DEF SaveOf
  <2>2. 1 \in 1..n
    BY <1>2
  <2>3. LastQueued(p, k, 1)
    BY <1>8, <2>1 DEF LastQueued, n, t
  <2>4. t.val = LastSet(p, k)
    BY <2>2, <2>3 DEF FileInv, Queued, n, t
  <2> QED
    BY <1>7, <2>1, <2>4
<1>11. ASSUME NEW k \in Keys, Saving(p, k) PROVE Saving(p, k)'
  <2>1. InQueue(p, k)
    BY <1>3, <1>11 DEF Saving, SaveOf
  <2> PICK i \in 1..n : SaveOf(queue[p][i], k)
    BY <2>1 DEF InQueue, n
  <2>2. CASE i = 1
    BY <1>5, <1>8, <2>2 DEF Saving, SaveOf
  <2>3. CASE i # 1
    BY <1>8, <2>3 DEF Saving
  <2> QED
    BY <2>2, <2>3
<1> QED
  BY <1>1, <1>9, <1>10, <1>11, QuietStep

(* The event loop's first tasks save nothing.                              *)
LEMMA AfterStartPlain ==
  ASSUME TypeInv, NEW p \in Procs
  PROVE  AfterStart(p) \in Seq(Tasks) /\ \A i \in 1..Len(AfterStart(p)) : AfterStart(p)[i].kind # "save"
<1>1. Load.kind # "save" /\ Declare.kind # "save"
  BY DEF Load, Declare, Task
<1>2. CASE job[p].task.kind = "pins"
  <2>1. AfterStart(p) = <<Declare, Load>>
    BY <1>2 DEF AfterStart
  <2>2. Len(<<Declare, Load>>) = 2 /\ <<Declare, Load>>[1] = Declare /\ <<Declare, Load>>[2] = Load
    OBVIOUS
  <2>3. \A i \in 1..2 : i = 1 \/ i = 2
    OBVIOUS
  <2>4. AfterStart(p) \in Seq(Tasks)
    BY AfterStartOK
  <2> HIDE DEF Declare, Load
  <2> QED
    BY <1>1, <2>1, <2>2, <2>3, <2>4
<1>3. CASE job[p].task.kind # "pins"
  BY <1>3, AfterStartOK DEF AfterStart
<1> QED
  BY <1>2, <1>3

(* A save never ends in beginUpdate.                                       *)
LEMMA LoadFromStoreFile ==
  ASSUME TypeInv, FileInv, NEW p \in Procs, LoadFromStore(p)
  PROVE  FileInv'
<1> DEFINE b == Look(p)
<1>1. job[p].pc = "begin" /\ UNCHANGED <<hist, file, faults>>
      /\ IF b.go THEN Loads(p) ELSE NothingToDo(p)
  BY LoadParts
<1>2. CASE b.go
  <2>1. UNCHANGED queue /\ job' = [job EXCEPT ![p].pc = "loaded", ![p].changes = Changes(p)]
    BY <1>1, <1>2, Zenon DEF Loads
  <2>2. job'[p].task = job[p].task /\ \A q \in Procs \ {p} : job'[q] = job[q]
    BY <2>1 DEF TypeInv, JobOK, Jobs
  <2> QED
    BY <1>1, <2>1, <2>2, KeepStep
<1>3. CASE ~b.go
  <2>1. queue' = [queue EXCEPT ![p] = @ \o AfterStart(p)] /\ job' = [job EXCEPT ![p] = NoJob]
    BY <1>1, <1>3, Zenon DEF NothingToDo
  <2>2. revision[p].writing <=> job[p].task.kind = "save"
    BY <1>1 DEF TypeInv, LocksOK, ProcOK
  <2>3. revision[p].writing => b.go
    BY LookFacts DEF Begun
  <2>4. job[p].task.kind # "save"
    BY <1>3, <2>2, <2>3
  <2>5. job'[p].task.kind # "save" /\ \A q \in Procs \ {p} : job'[q] = job[q]
    BY <2>1 DEF TypeInv, JobOK, NoJob, Declare, Task
  <2>6. queue'[p] = queue[p] \o AfterStart(p) /\ \A q \in Procs \ {p} : queue'[q] = queue[q]
    BY <2>1 DEF TypeInv, QueueOK
  <2> QED
    BY <1>1, <2>4, <2>5, <2>6, AfterStartPlain, AppendStep
<1> QED
  BY <1>2, <1>3

(* saveToStore writes .rev before the file.                                *)
LEMMA SaveRevisionFile ==
  ASSUME TypeInv, FileInv, NEW p \in Procs, SaveRevision(p)
  PROVE  FileInv'
<1>1. UNCHANGED <<hist, file, faults, queue>>
  BY DEF SaveRevision, past, life
<1>2. job'[p].task = job[p].task /\ \A q \in Procs \ {p} : job'[q] = job[q]
  BY DEF SaveRevision, TypeInv, JobOK, Jobs
<1> QED
  BY <1>1, <1>2, KeepStep

(* Concatenation of tasks.                                                 *)
LEMMA TasksAssociative ==
  \A s, t, u \in Seq(Tasks) : (s \o t) \o u = s \o (t \o u)
<1> DEFINE S == Tasks
<1> HIDE DEF S
<1>1. \A s, t, u \in Seq(S) : (s \o t) \o u = s \o (t \o u)
  BY ConcatAssociative
<1> QED
  BY <1>1 DEF S

(* finishUpdate posts nothing that saves.                                  *)
LEMMA ApplyAppends ==
  ASSUME TypeInv, NEW p \in Procs, Apply(p)
  PROVE  /\ \E s \in Seq(Tasks) : /\ \A i \in 1..Len(s) : s[i].kind # "save"
                                  /\ queue'[p] = queue[p] \o s
         /\ job'[p] = NoJob /\ job'[p].task.kind # "save"
         /\ \A q \in Procs \ {p} : queue'[q] = queue[q] /\ job'[q] = job[q]
<1> DEFINE ps == revision[p].promises
           a == AfterStart(p)
           d == <<Deliver(ps)>>
<1>1. job'[p] = NoJob /\ job'[p].task.kind # "save" /\ \A q \in Procs \ {p} : job'[q] = job[q]
  BY DEF Apply, Done, TypeInv, JobOK, NoJob, Declare, Task
<1>2. queue[p] \in Seq(Tasks) /\ a \in Seq(Tasks) /\ \A i \in 1..Len(a) : a[i].kind # "save"
  BY AfterStartPlain DEF TypeInv, QueueOK
<1>3. Deliver(ps) \in Tasks /\ Deliver(ps).kind # "save"
  BY NilOK DEF TypeInv, RevisionOK, Revisions, Deliver, Task, Tasks
<1>4. d \in Seq(Tasks) /\ Len(d) = 1 /\ d[1].kind # "save"
  BY <1>3
<1>5. \/ queue' = [queue EXCEPT ![p] = @ \o d \o a]
      \/ queue' = [queue EXCEPT ![p] = @ \o a]
  BY DEF Apply
<1> HIDE DEF a, d, ps
<1>6. \A q \in Procs \ {p} : queue'[q] = queue[q]
  BY <1>5 DEF TypeInv, QueueOK
<1>7. CASE queue' = [queue EXCEPT ![p] = @ \o a]
  <2>1. queue'[p] = queue[p] \o a
    BY <1>7 DEF TypeInv, QueueOK
  <2> QED
    BY <1>1, <1>2, <1>6, <2>1
<1>8. CASE queue' = [queue EXCEPT ![p] = @ \o d \o a]
  <2> DEFINE r == d \o a
  <2>1. queue'[p] = (queue[p] \o d) \o a
    BY <1>8 DEF TypeInv, QueueOK
  <2>2. queue'[p] = queue[p] \o r
    BY <1>2, <1>4, <2>1, TasksAssociative, Zenon
  <2>3. r \in Seq(Tasks) /\ Len(a) \in Nat /\ Len(r) = 1 + Len(a) /\ r[1] = Deliver(ps)
        /\ \A i \in 2..(1 + Len(a)) : r[i] = a[i - 1]
    BY <1>2, <1>3, ConsAt DEF d
  <2> HIDE DEF r
  <2>4. ASSUME NEW i \in 1..Len(r) PROVE r[i].kind # "save"
    <3>1. CASE i = 1
      BY <1>3, <2>3, <3>1
    <3>2. CASE i # 1
      <4>1. i - 1 \in 1..Len(a) /\ r[i] = a[i - 1]
        BY <2>3, <3>2
      <4> QED
        BY <1>2, <4>1
    <3> QED
      BY <3>1, <3>2
  <2> QED
    BY <1>1, <1>6, <2>2, <2>3, <2>4
<1> QED
  BY <1>5, <1>7, <1>8

(* A load writes no file.                                                  *)
LEMMA FinishLoadFile ==
  ASSUME TypeInv, FileInv, NEW p \in Procs, FinishLoad(p)
  PROVE  FileInv'
<1>1. UNCHANGED <<hist, file, faults>> /\ job[p].task.kind # "save" /\ Apply(p)
  BY DEF FinishLoad, past, life
<1> PICK s \in Seq(Tasks) : /\ \A i \in 1..Len(s) : s[i].kind # "save"
                            /\ queue'[p] = queue[p] \o s
  BY <1>1, ApplyAppends
<1>2. /\ job'[p].task.kind # "save"
      /\ \A q \in Procs \ {p} : queue'[q] = queue[q] /\ job'[q] = job[q]
  BY <1>1, ApplyAppends
<1> QED
  BY <1>1, <1>2, AppendStep

(***************************************************************************)
(* A save writes the value that its process has set last, or another save  *)
(* of the key is still to come; one that fails is a fault.                 *)
(***************************************************************************)
LEMMA FinishSaveFile ==
  ASSUME TypeInv, FileInv, NEW p \in Procs, NEW written \in BOOLEAN, FinishSave(p, written)
  PROVE  FileInv'
<1> DEFINE t == job[p].task
<1>1. UNCHANGED hist /\ Apply(p) /\ SaveOf(t, t.key) /\ t.key \in Keys
  BY NilOK DEF FinishSave, past, TypeInv, LocksOK, ProcOK, JobOK, Jobs, Tasks, Task, SaveOf
<1> PICK s \in Seq(Tasks) : /\ \A i \in 1..Len(s) : s[i].kind # "save"
                            /\ queue'[p] = queue[p] \o s
  BY <1>1, ApplyAppends
<1>2. /\ job'[p].task.kind # "save"
      /\ \A q \in Procs \ {p} : queue'[q] = queue[q] /\ job'[q] = job[q]
  BY <1>1, ApplyAppends
<1>3. \A q \in Procs, k \in Keys : LastSet(q, k)' = LastSet(q, k)
  BY <1>1, SameHist
<1>4. Queued(p)' /\ \A k \in Keys : InQueue(p, k)' <=> InQueue(p, k)
  BY <1>3, QueueAppended DEF FileInv
<1>5. Running(p)'
  BY <1>2, NotSaving
<1>6. Ordered' /\ \A q \in Procs \ {p} : /\ Queued(q)' /\ Running(q)'
                                         /\ \A k \in Keys : Saving(q, k)' <=> Saving(q, k)
  BY <1>1, <1>2, OthersFile
<1>7. CASE ~written
  <2>1. faults' = faults + 1 /\ faults \in Nat
    BY <1>7 DEF FinishSave, FileInv
  <2> QED
    BY <1>4, <1>5, <1>6, <2>1 DEF FileInv
<1>8. CASE written
  <2>1. faults' = faults /\ file' = [file EXCEPT ![t.key] = t.val] /\ file \in [Keys -> Values \cup {Nil}]
    BY <1>8 DEF FinishSave, TypeInv, DiskOK
  <2>2. ASSUME NEW k \in Keys, Stored(k) PROVE Stored(k)'
    <3>1. CASE k # t.key
      <4>1. file'[k] = file[k]
        BY <2>1, <3>1
      <4>2. Saving(p, k) => Saving(p, k)'
        BY <1>4, <3>1 DEF Saving, SaveOf
      <4>3. \A q \in Procs : Saving(q, k) => Saving(q, k)'
        BY <1>6, <4>2
      <4> QED
        BY <1>3, <2>2, <4>1, <4>3 DEF Stored
    <3>2. CASE k = t.key /\ InQueue(p, k)
      BY <1>4, <3>2 DEF Stored, Saving
    <3>3. CASE k = t.key /\ ~InQueue(p, k)
      <4>1. t.val = LastSet(p, k)
        BY <1>1, <3>3 DEF FileInv, Running
      <4>2. file'[k] = LastSet(p, k)'
        BY <1>1, <1>3, <2>1, <3>3, <4>1
      <4> QED
        BY <4>2 DEF Stored
    <3> QED
      BY <3>1, <3>2, <3>3
  <2> QED
    BY <1>4, <1>5, <1>6, <2>1, <2>2 DEF FileInv
<1> QED
  BY <1>7, <1>8

(* The waiting thread saves nothing.                                       *)
LEMMA WaitsFile ==
  ASSUME TypeInv, FileInv, NEW p \in Procs, Waits(p)
  PROVE  FileInv'
<1>1. UNCHANGED <<hist, file, faults, queue, job>>
  BY DEF Waits, PromiseLoadedValue, WaitTimesOut, NextRound, past, life, disk, inner
<1> QED
  BY <1>1, KeepStep

(* Every step keeps the invariant.                                         *)
LEMMA NextFileInv == TypeInv /\ TypeInv' /\ FileInv /\ [Next]_vars => FileInv'
<1> SUFFICES ASSUME TypeInv, TypeInv', FileInv, [Next]_vars PROVE FileInv'
  OBVIOUS
<1>1. CASE Next
  <2> PICK p \in Procs :
       \/ Start(p) \/ Crash(p)
       \/ \E k \in Keys, v \in Values : Set(p, k, v)
       \/ \E k \in Keys : Synchronize(p, k)
       \/ FileChanged(p)
       \/ Serializes(p)
       \/ Waits(p)
    BY <1>1 DEF Next
  <2>1. CASE Serializes(p)
    BY <2>1, TakeTaskFile, LoadFromStoreFile, SaveRevisionFile, FinishLoadFile, FinishSaveFile
    DEF Serializes
  <2> QED
    BY <2>1, StartFile, CrashFile, SetFile, SynchronizeFile, FileChangedFile, WaitsFile
<1>2. CASE UNCHANGED vars
  <2>1. UNCHANGED <<hist, file, faults, queue, job>>
    BY <1>2 DEF vars, past, life, disk, inner
  <2> PICK p \in Procs : TRUE
    BY DataCacheAssumption
  <2> QED
    BY <2>1, KeepStep
<1> QED
  BY <1>1, <1>2

(***************************************************************************)
(* Without faults, when all is quiet, the file of every key holds the last *)
(* value that one of the processes has set, for any number of processes,   *)
(* keys and sets.                                                          *)
(***************************************************************************)
THEOREM LastSetKept == Spec => []FileHoldsALastSet
  BY TypeInvAlways, InitFileInv, NextFileInv, FileInvIsFile, PTL DEF Spec
=============================================================================
