------------------------------ MODULE DataCache ------------------------------
(***************************************************************************)
(* CDataCache (misc/datacache.cpp): a value cache that several processes   *)
(* share through a directory: a JSON file for every key, a revision file   *)
(* .rev with a uuid and the time stamp of every key, and a lock file.      *)
(*                                                                         *)
(* In every process the main thread sets values and posts the saving to    *)
(* the serializer's thread; the watcher of .rev makes it post a load.  The *)
(* serializer takes a snapshot of the cache (baseline), waits for the      *)
(* lock file, reads .rev and the files with newer time stamps, and then    *)
(* applies them, or first writes .rev and the files.  Between these steps  *)
(* the other threads go on.  One of them may wait for a value in           *)
(* CData::synchronize.                                                     *)
(*                                                                         *)
(* A set is numbered; the number stands for its time stamp, so two sets    *)
(* never share a millisecond.  0 is no time stamp.  CAtomicFile replaces a *)
(* file in one step; a lock file dies with its process.  Pages, ttl,       *)
(* session values, renewTimestamp (which nothing calls) and a lock file    *)
(* that cannot be taken are left out.                                      *)
(***************************************************************************)
EXTENDS Integers, Sequences, FiniteSets

CONSTANTS
  Procs,
  Keys,
  Values,
  Nil,         \* no value, no key, no process, no uuid
  Scenarios    \* who uses what, and the bounds, see below

VARIABLE scenario   \* the one of this behaviour

Uses      == scenario.uses       \* Uses[p]: the keys process p has a CData for
Pinned    == scenario.pinned     \* keys whose trait isPinned
Deferred  == scenario.deferred   \* keys whose trait isDeferred
Setters   == scenario.setters    \* the processes that set values
Waiters   == scenario.waiters    \* the processes that call CData::synchronize
MaxSets   == scenario.maxSets    \* bound: values set
MaxStarts == scenario.maxStarts  \* bound: how often one process starts
MaxFaults == scenario.maxFaults  \* bound: crashes and failed writes

ASSUME DataCacheAssumption ==
  /\ Procs # {}
  /\ Nil \notin Values \cup Keys \cup Procs \cup (Procs \X Nat)
  /\ \A s \in Scenarios :
       /\ s.uses \in [Procs -> SUBSET Keys]
       /\ s.pinned \subseteq Keys /\ s.deferred \subseteq Keys \ s.pinned
       /\ s.setters \subseteq Procs /\ s.waiters \subseteq Procs
       /\ s.maxSets \in Nat /\ s.maxStarts \in Nat /\ s.maxFaults \in Nat

VARIABLES
  rev,       \* .rev: uuid (Nil: the file is empty), time stamps, declared keys
  file,      \* the value on disk of every key
  lock,      \* owner of the lock file
  mem,       \* mem[p][k]: value and time stamp in the cache of p
  revision,  \* revision[p]: the CDataCacheRevision of p
  queue,     \* tasks posted to the serializer of p, oldest first
  job,       \* what the serializer of p is doing
  watch,     \* processes whose watcher has seen .rev change
  waiter,    \* the thread of p that calls CData::synchronize
  up,        \* running processes
  starts,    \* how often each process was started
  hist,      \* history: the sets, in the order of their time stamps
  skipped,   \* history: the newer values on disk that p's last look at .rev did
             \* not see, as it took .rev for one it had read
  misread,   \* history: the keys that p last read when the file did not hold the
             \* value that was set with the time stamp in .rev
  faults

disk  == <<rev, file, lock>>
inner == <<mem, revision, queue, job>>
life  == <<up, starts, faults>>
past  == <<hist, skipped, misread>>
vars  == <<scenario, disk, inner, watch, waiter, life, past>>

-----------------------------------------------------------------------------
Absent   == [val |-> Nil, ts |-> 0]
NoValues == [k \in Keys |-> Absent]
NoStamps == [k \in Keys |-> 0]
Stamps(m) == [k \in Keys |-> m[k].ts]            \* toTimestampMap
NewerKeys(r) == {k \in Keys : r.newer[k] # 0}    \* keysWithNewerTimestamps

Uuid(p) == <<p, starts[p]>>   \* CIdentifier().toUuid: one per process

FreshRevision ==
  [uuid |-> Nil, newer |-> NoStamps, orig |-> NoStamps, found |-> FALSE,
   updating |-> FALSE, writing |-> FALSE, declared |-> {}, admitted |-> {},
   admittedQ |-> {}, promises |-> {}]

Task(kind, k, v, ps) == [kind |-> kind, key |-> k, val |-> v, promises |-> ps]
Load        == Task("load", Nil, Nil, {})
Save(k, v)  == Task("save", k, v, {})
Declare     == Task("declare", Nil, Nil, {})
Deliver(ps) == Task("deliver", Nil, Nil, ps)

NoJob == [pc |-> "idle", task |-> Declare, base |-> NoValues, changes |-> NoValues]
NoWaiter == [pc |-> "idle", key |-> Nil, round |-> 0, need |-> 0]

Started(p) == p \in up /\ job[p].task.kind # "pins"

Init ==
  /\ scenario \in Scenarios
  /\ rev = [uuid |-> Nil, ts |-> NoStamps, declared |-> {}]
  /\ file = [k \in Keys |-> Nil]
  /\ lock = Nil
  /\ mem = [p \in Procs |-> NoValues]
  /\ revision = [p \in Procs |-> FreshRevision]
  /\ queue = [p \in Procs |-> <<>>]
  /\ job = [p \in Procs |-> NoJob]
  /\ watch = {}
  /\ waiter = [p \in Procs |-> NoWaiter]
  /\ up = {} /\ starts = [p \in Procs |-> 0]
  /\ hist = <<>> /\ faults = 0
  /\ skipped = [p \in Procs |-> {}] /\ misread = [p \in Procs |-> {}]

-----------------------------------------------------------------------------
(***************************************************************************)
(* beginUpdate on the revision r, given the time stamps in memory.  `go'   *)
(* is false when it returns no guard; the lock is released again then and  *)
(* the promises are broken.                                                *)
(***************************************************************************)
Pending(r, stamps, updateUuid, pinsOnly) ==
  LET newer   == {k \in Keys : stamps[k] < rev.ts[k]
                               /\ (pinsOnly => k \in rev.declared \cap Pinned)}
      admits  == r.admitted \cup r.admittedQ
      kept    == {k \in newer : k \in rev.declared \cap Deferred => k \in admits}
  IN [r EXCEPT !.uuid = IF updateUuid THEN rev.uuid ELSE r.uuid,
               !.newer = [k \in Keys |-> IF k \in kept THEN rev.ts[k] ELSE 0],
               !.orig = rev.ts,
               !.found = TRUE,
               !.admitted = admits,
               !.admittedQ = IF updateUuid THEN {} ELSE r.admittedQ \cap newer]

(* The .rev on disk is taken for the one that was read last.               *)
SameRevision(r) == rev.uuid = r.uuid /\ r.admittedQ = {}

BeginUpdate(r, stamps, updateUuid, pinsOnly) ==
  LET seen == [r EXCEPT !.newer = NoStamps, !.orig = rev.ts, !.found = rev.uuid # Nil]
  IN CASE rev.uuid = Nil -> [go |-> TRUE, r |-> seen]
       [] rev.uuid # Nil /\ SameRevision(r) -> [go |-> r.writing, r |-> seen]
       [] rev.uuid # Nil /\ ~SameRevision(r) /\ \A k \in Keys : stamps[k] >= rev.ts[k] ->
            [go |-> r.writing,
             r |-> IF updateUuid THEN [seen EXCEPT !.uuid = rev.uuid] ELSE seen]
       [] OTHER -> [go |-> TRUE, r |-> Pending(r, stamps, updateUuid, pinsOnly)]

(* writeNewRevision: the time stamps read, replaced by those in memory.    *)
WriteNewRevision(p, r, stamps, excluded) ==
  /\ rev' = [uuid |-> Uuid(p),
             ts |-> [k \in Keys |-> IF k \in excluded THEN 0
                                    ELSE IF stamps[k] # 0 THEN stamps[k] ELSE r.orig[k]],
             declared |-> r.declared]
  /\ watch' = watch \cup {q \in up : Started(q)}

(* A promise that is given up wakes the thread that waits for it.          *)
Wake(w, ps) == IF w.pc = "wait" /\ w.round \in ps THEN [w EXCEPT !.pc = "next"] ELSE w

-----------------------------------------------------------------------------
(* Constructor: the pinned values are loaded at once, by the main thread.  *)
Start(p) ==
  /\ p \notin up
  /\ starts[p] < MaxStarts
  /\ up' = up \cup {p}
  /\ starts' = [starts EXCEPT ![p] = @ + 1]
  /\ job' = [job EXCEPT ![p] = [NoJob EXCEPT !.pc = "begin",
                                             !.task = Task("pins", Nil, Nil, {})]]
  /\ UNCHANGED <<disk, mem, revision, queue, watch, waiter, past, faults>>

MutSet(p, k, v) ==   \* the newest save is done first
  /\ Started(p)
  /\ p \in Setters
  /\ k \in Uses[p]
  /\ Len(hist) < MaxSets
  /\ hist' = Append(hist, [proc |-> p, key |-> k, val |-> v])
  /\ revision' = [revision EXCEPT ![p].admittedQ = @ \cup {k}]
  /\ mem' = [mem EXCEPT ![p][k] = [val |-> v, ts |-> Len(hist')]]
  /\ queue' = [queue EXCEPT ![p] = <<Save(k, v)>> \o @]
  /\ UNCHANGED <<disk, job, watch, waiter, life, skipped, misread>>

(* CData::set, through the page and changeValues, to saveToStoreAsync.     *)
Set(p, k, v) ==
  /\ Started(p)
  /\ p \in Setters
  /\ k \in Uses[p]
  /\ Len(hist) < MaxSets
  /\ hist' = Append(hist, [proc |-> p, key |-> k, val |-> v])
  /\ revision' = [revision EXCEPT ![p].admittedQ = @ \cup {k}]
  /\ mem' = [mem EXCEPT ![p][k] = [val |-> v, ts |-> Len(hist')]]
  /\ queue' = [queue EXCEPT ![p] = Append(@, Save(k, v))]
  /\ UNCHANGED <<disk, job, watch, waiter, life, skipped, misread>>

MutFileChanged(p) ==   \* no load is posted while another task is
  /\ p \in watch
  /\ watch' = watch \ {p}
  /\ queue' = [queue EXCEPT ![p] = IF @ = <<>> THEN Append(@, Load) ELSE @]
  /\ UNCHANGED <<disk, mem, revision, job, waiter, life, past>>

(* The watcher's signal reaches the main thread: loadFromStoreAsync.       *)
FileChanged(p) ==
  /\ p \in watch
  /\ watch' = watch \ {p}
  /\ queue' = [queue EXCEPT ![p] = Append(@, Load)]
  /\ UNCHANGED <<disk, mem, revision, job, waiter, life, past>>

-----------------------------------------------------------------------------
(***************************************************************************)
(* The serializer takes the next task.  The baseline of a load or save is  *)
(* the cache at this moment, not when the task was posted.                 *)
(***************************************************************************)
TakeTask(p) ==
  /\ Started(p)
  /\ job[p].pc = "idle"
  /\ queue[p] # <<>>
  /\ queue' = [queue EXCEPT ![p] = Tail(@)]
  /\ LET t == Head(queue[p]) IN
       \/ /\ t.kind = "declare"
          /\ revision' = [revision EXCEPT ![p].declared = Uses[p]]
          /\ UNCHANGED <<job, waiter>>
       \/ /\ t.kind = "deliver"
          /\ waiter' = [waiter EXCEPT ![p] = Wake(@, t.promises)]
          /\ UNCHANGED <<job, revision>>
       \/ /\ t.kind \in {"load", "save"}
          /\ job' = [job EXCEPT ![p] = [pc |-> "begin", task |-> t, base |-> mem[p],
                                        changes |-> NoValues]]
          /\ revision' = [revision EXCEPT ![p].writing = @ \/ t.kind = "save"]
          /\ UNCHANGED waiter
  /\ UNCHANGED <<disk, mem, watch, life, past>>

MutDone(p) ==   \* the lock file is not released
  /\ job' = [job EXCEPT ![p] = NoJob]
  /\ UNCHANGED lock

(* The end of a task; the constructor is followed by the event loop.       *)
Done(p) ==
  /\ job' = [job EXCEPT ![p] = NoJob]
  /\ lock' = Nil

AfterStart(p) == IF job[p].task.kind = "pins" THEN <<Declare, Load>> ELSE <<>>

(***************************************************************************)
(* loadFromStore, with the lock, up to m_deferredChanges.  A key whose     *)
(* file is missing, and one whose value on disk equals the one in memory   *)
(* (removeDuplicates), is taken out of .rev.  saveToStore then drops the   *)
(* key it is about to overwrite from the changes.                          *)
(***************************************************************************)
LoadFromStore(p) ==
  /\ job[p].pc = "begin"
  /\ lock = Nil
  /\ LET t    == job[p].task
         base == job[p].base
         pins == t.kind = "pins"
         b    == BeginUpdate(revision[p], Stamps(base), ~pins, pins)
         read == {k \in NewerKeys(b.r) : file[k] \notin {Nil, base[k].val}}
         lost == NewerKeys(b.r) \ read
         got  == read \ {t.key}
     IN /\ skipped' = [skipped EXCEPT ![p] =
             IF SameRevision(revision[p]) THEN {k \in Keys : base[k].ts < rev.ts[k]} ELSE {}]
        /\ misread' = [misread EXCEPT ![p] =
             (@ \ got) \cup {k \in got : file[k] # hist[b.r.newer[k]].val}]
        /\ IF ~b.go
           THEN /\ revision' = [revision EXCEPT ![p] = [b.r EXCEPT !.promises = {}]]
                /\ waiter' = [waiter EXCEPT ![p] = Wake(@, b.r.promises)]
                /\ queue' = [queue EXCEPT ![p] = @ \o AfterStart(p)]
                /\ Done(p)
                /\ UNCHANGED <<rev, watch>>
           ELSE /\ lock' = p
                /\ job' = [job EXCEPT ![p].pc = "loaded",
                                      ![p].changes = [k \in Keys |->
                                         IF k \in got
                                         THEN [val |-> file[k], ts |-> b.r.newer[k]]
                                         ELSE Absent]]
                /\ IF ~b.r.found \/ lost # {}
                   THEN /\ WriteNewRevision(p, b.r, NoStamps, lost)
                        /\ revision' = [revision EXCEPT ![p] =
                             [b.r EXCEPT !.updating = TRUE, !.uuid = Uuid(p)]]
                   ELSE /\ UNCHANGED <<rev, watch>>
                        /\ revision' = [revision EXCEPT ![p] = [b.r EXCEPT !.updating = TRUE]]
                /\ UNCHANGED <<queue, waiter>>
  /\ UNCHANGED <<file, mem, life, hist>>

(* saveToStore writes .rev before the file.                                *)
SaveRevision(p) ==
  /\ job[p].pc = "loaded"
  /\ job[p].task.kind = "save"
  /\ WriteNewRevision(p, revision[p], Stamps(job[p].base), {})
  /\ revision' = [revision EXCEPT ![p].uuid = Uuid(p)]
  /\ job' = [job EXCEPT ![p].pc = "revised"]
  /\ UNCHANGED <<file, lock, mem, queue, waiter, life, past>>

(* applyDeferredChanges and finishUpdate.                                  *)
Apply(p) ==
  LET changes == job[p].changes
      loaded  == {k \in Keys : changes[k] # Absent}
      ps      == revision[p].promises
  IN /\ mem' = [mem EXCEPT ![p] = [k \in Keys |-> IF k \in loaded THEN changes[k] ELSE @[k]]]
     /\ revision' = [revision EXCEPT ![p].promises = {}, ![p].updating = FALSE,
                                     ![p].writing = FALSE]
     /\ IF loaded # {}
        THEN /\ queue' = [queue EXCEPT ![p] = @ \o <<Deliver(ps)>> \o AfterStart(p)]
             /\ UNCHANGED waiter
        ELSE /\ queue' = [queue EXCEPT ![p] = @ \o AfterStart(p)]
             /\ waiter' = [waiter EXCEPT ![p] = Wake(@, ps)]
     /\ Done(p)

FinishLoad(p) ==
  /\ job[p].pc = "loaded"
  /\ job[p].task.kind # "save"
  /\ Apply(p)
  /\ UNCHANGED <<rev, file, watch, life, past>>

(* The rest of saveToStore; an error of saveToFiles is logged.             *)
FinishSave(p, written) ==
  /\ job[p].pc = "revised"
  /\ IF written
     THEN /\ file' = [file EXCEPT ![job[p].task.key] = job[p].task.val]
          /\ UNCHANGED faults
     ELSE /\ faults < MaxFaults
          /\ faults' = faults + 1
          /\ UNCHANGED file
  /\ Apply(p)
  /\ UNCHANGED <<rev, watch, up, starts, past>>

-----------------------------------------------------------------------------
(***************************************************************************)
(* isNewerValueAvailable(k), which holds m_mutex throughout: `avail' is    *)
(* its value and r the revision it leaves.  When no update is under way it *)
(* begins one itself, and for that waits for the lock file.                *)
(***************************************************************************)
IsNewerValueAvailable(p, k) ==
  LET r     == revision[p]
      b     == BeginUpdate(r, [j \in Keys |-> IF j = k THEN mem[p][k].ts ELSE 0],
                           FALSE, FALSE)
      Has(s) == s.newer[k] # 0 \/ k \in s.admittedQ
  IN IF r.updating \/ r.writing
     THEN [avail |-> Has(r), r |-> r]
     ELSE IF b.go THEN [avail |-> Has(b.r), r |-> b.r]
                  ELSE [avail |-> FALSE, r |-> [b.r EXCEPT !.promises = {}]]

CanAsk(p) == revision[p].updating \/ revision[p].writing \/ lock = Nil

MutSynchronize(p, k) ==   \* the value is admitted, but no load is triggered
  /\ Started(p)
  /\ k \in Uses[p]
  /\ p \in Waiters
  /\ waiter[p].pc = "idle"
  /\ waiter' = [waiter EXCEPT ![p] = [pc |-> "ask", key |-> k, round |-> 1,
                                      need |-> rev.ts[k]]]
  /\ revision' = IF k \in Deferred
                  THEN [revision EXCEPT ![p].admittedQ = @ \cup {k}] ELSE revision
  /\ UNCHANGED <<disk, mem, queue, job, watch, life, past>>

(* CData::synchronize; a deferred value is admitted first.                 *)
Synchronize(p, k) ==
  /\ Started(p)
  /\ k \in Uses[p]
  /\ p \in Waiters
  /\ waiter[p].pc = "idle"
  /\ waiter' = [waiter EXCEPT ![p] = [pc |-> "ask", key |-> k, round |-> 1,
                                      need |-> rev.ts[k]]]
  /\ IF k \in Deferred
     THEN /\ revision' = [revision EXCEPT ![p].admittedQ = @ \cup {k}]
          /\ queue' = [queue EXCEPT ![p] = Append(@, Load)]
     ELSE UNCHANGED <<revision, queue>>
  /\ UNCHANGED <<disk, mem, job, watch, life, past>>

(* promiseLoadedValue                                                      *)
PromiseLoadedValue(p) ==
  /\ waiter[p].pc = "ask"
  /\ CanAsk(p)
  /\ LET a == IsNewerValueAvailable(p, waiter[p].key) IN
       /\ revision' = [revision EXCEPT ![p] =
            IF a.avail THEN [a.r EXCEPT !.promises = @ \cup {waiter[p].round}] ELSE a.r]
       /\ waiter' = [waiter EXCEPT ![p].pc = IF a.avail THEN "wait" ELSE "next"]
  /\ UNCHANGED <<disk, mem, queue, job, watch, life, past>>

(* A second has passed: wait on only if there is still something to load.  *)
WaitTimesOut(p) ==
  /\ waiter[p].pc = "wait"
  /\ CanAsk(p)
  /\ LET a == IsNewerValueAvailable(p, waiter[p].key) IN
       /\ revision' = [revision EXCEPT ![p] = a.r]
       /\ waiter' = [waiter EXCEPT ![p].pc = IF a.avail THEN "wait" ELSE "next"]
  /\ UNCHANGED <<disk, mem, queue, job, watch, life, past>>

MutNextRound(p) ==   \* one call of CDataCache::synchronize
  /\ waiter[p].pc = "next"
  /\ waiter' = [waiter EXCEPT ![p].pc = "done", ![p].round = 2]
  /\ UNCHANGED <<disk, inner, watch, life, past>>

(* CData::synchronize calls CDataCache::synchronize twice.                 *)
NextRound(p) ==
  /\ waiter[p].pc = "next"
  /\ waiter' = [waiter EXCEPT ![p].pc = IF waiter[p].round = 1 THEN "ask" ELSE "done",
                              ![p].round = 2]
  /\ UNCHANGED <<disk, inner, watch, life, past>>

-----------------------------------------------------------------------------
(* A process dies, or quits without the tasks it has posted.               *)
Crash(p) ==
  /\ p \in up
  /\ faults < MaxFaults
  /\ faults' = faults + 1
  /\ up' = up \ {p}
  /\ lock' = IF lock = p THEN Nil ELSE lock
  /\ mem' = [mem EXCEPT ![p] = NoValues]
  /\ revision' = [revision EXCEPT ![p] = FreshRevision]
  /\ queue' = [queue EXCEPT ![p] = <<>>]
  /\ job' = [job EXCEPT ![p] = NoJob]
  /\ watch' = watch \ {p}
  /\ waiter' = [waiter EXCEPT ![p] = NoWaiter]
  /\ UNCHANGED <<rev, file, starts, past>>

Serializes(p) ==
  \/ TakeTask(p) \/ LoadFromStore(p) \/ SaveRevision(p) \/ FinishLoad(p)
  \/ \E written \in BOOLEAN : FinishSave(p, written)

Waits(p) == PromiseLoadedValue(p) \/ WaitTimesOut(p) \/ NextRound(p)

Next ==
  /\ \E p \in Procs :
       \/ Start(p) \/ Crash(p)
       \/ \E k \in Keys, v \in Values : Set(p, k, v)
       \/ \E k \in Keys : Synchronize(p, k)
       \/ FileChanged(p)
       \/ Serializes(p)
       \/ Waits(p)
  /\ UNCHANGED scenario

Spec == Init /\ [][Next]_vars

(* Every thread that has something to do goes on.                          *)
Fairness ==
  \A p \in Procs :
    /\ WF_vars(FileChanged(p) /\ UNCHANGED scenario)
    /\ WF_vars(Serializes(p) /\ UNCHANGED scenario)
    /\ WF_vars(Waits(p) /\ UNCHANGED scenario)

FairSpec == Spec /\ Fairness

-----------------------------------------------------------------------------
Entry == [val : Values \cup {Nil}, ts : 0..MaxSets]

(***************************************************************************)
(* Types; and the lock file is held exactly during an update, by the       *)
(* process whose serializer is inside it; and without .rev no file exists, *)
(* so that regenerate has nothing to look for.                             *)
(***************************************************************************)
TypeOK ==
  /\ rev.ts \in [Keys -> 0..MaxSets] /\ rev.declared \subseteq Keys
  /\ rev.uuid = Nil => file = [k \in Keys |-> Nil]
  /\ file \in [Keys -> Values \cup {Nil}]
  /\ mem \in [Procs -> [Keys -> Entry]]
  /\ \A p \in Procs :
       /\ (lock = p) <=> revision[p].updating
       /\ revision[p].updating <=> job[p].pc \in {"loaded", "revised"}
       /\ revision[p].writing <=> job[p].pc # "idle" /\ job[p].task.kind = "save"
       /\ p \notin up => queue[p] = <<>> /\ job[p] = NoJob
       /\ waiter[p].pc \in {"idle", "ask", "wait", "next", "done"}
  /\ watch \subseteq up

Quiet == \A p \in up : queue[p] = <<>> /\ job[p] = NoJob /\ p \notin watch

(* The value of k is loaded by p, unless deferred.                         *)
Wants(p, k) == k \in rev.declared \cap Deferred => k \in revision[p].admitted

(* It has an older time stamp than .rev announces.                         *)
Behind(p, k) == Wants(p, k) /\ mem[p][k].ts < rev.ts[k]

(* It has the announced time stamp, and not the value set with it.         *)
Mistaken(p, k) ==
  mem[p][k].ts = rev.ts[k] /\ rev.ts[k] # 0 /\ mem[p][k].val # hist[rev.ts[k]].val

(***************************************************************************)
(* When all has been read and written, a process has missed a change in    *)
(* two ways only, in whatever order loads, saves, watcher signals,         *)
(* admissions of deferred values and crashes come.  With an older time     *)
(* stamp than .rev has, it has looked at this .rev and took it for the one *)
(* it had read: the uuids are the same (391).  With the same time stamp,   *)
(* it has read the file when that did not hold the value: .rev is written  *)
(* before the files (279), and with the time stamps that memory has when   *)
(* the task runs, not when it was queued (206), so the first of two saves  *)
(* announces the second value over the file of the first, and the reader   *)
(* keeps that for good.  A time stamp newer than that in .rev, which a     *)
(* slower writer puts back, is not counted as a change that was missed.    *)
(***************************************************************************)
MissesExplained ==
  Quiet => \A p \in up, k \in Keys :
             /\ Behind(p, k) => revision[p].uuid = rev.uuid /\ k \in skipped[p]
             /\ Mistaken(p, k) => k \in misread[p]

(***************************************************************************)
(* datacache.h:98, of beginUpdate: "false means update is not started      *)
(* (error, or already up-to-date)".  When all is quiet nobody is behind.   *)
(***************************************************************************)
UpToDate == Quiet => \A p \in up, k \in Keys : ~Behind(p, k)

LastSet(p, k) ==
  LET S == {i \in 1..Len(hist) : hist[i].proc = p /\ hist[i].key = k}
  IN IF S = {} THEN Nil ELSE hist[CHOOSE i \in S : \A j \in S : j <= i].val

(***************************************************************************)
(* When all is quiet, the file of a key holds the last value that one of   *)
(* the processes has set: no older one survives, and no load brings one    *)
(* back.                                                                   *)
(***************************************************************************)
FileHoldsALastSet ==
  Quiet /\ faults = 0 =>
    \A k \in Keys : file[k] \in {LastSet(p, k) : p \in Procs}

(***************************************************************************)
(* CData::synchronize on a deferred value returns with the value that .rev *)
(* announced when it was called, or a newer one, although the load that it *)
(* waits for may be one that was under way before the value was admitted.  *)
(* This is said of a process that waits for what one other process sets,   *)
(* and that one sets nothing else: of several writers the slower one puts  *)
(* .rev back to its older time stamp, and the save of one key announces    *)
(* every key in memory, before the files of the others are written.        *)
(***************************************************************************)
SynchronizeLoads ==
  faults = 0 =>
    \A p \in up, q \in Procs \ Waiters :
      waiter[p].pc = "done" /\ waiter[p].key \in Deferred
      /\ Setters = {q} /\ Uses[q] = {waiter[p].key} =>
      LET e == mem[p][waiter[p].key]
          n == waiter[p].need
      IN e.ts >= n \/ e.val = hist[n].val

(* CData::synchronize returns.                                             *)
SynchronizeReturns ==
  \A p \in Procs : waiter[p].pc # "idle" ~> waiter[p].pc \in {"done", "idle"}
=============================================================================
