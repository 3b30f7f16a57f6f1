----------------------------- MODULE ValueCache -----------------------------
(***************************************************************************)
(* The settings cache of swift: CValueCache and its CValuePages            *)
(* (misc/valuecache.cpp) in the core process and in the GUI processes that *)
(* share it through CContextApplication (core/context/contextapplication*, *)
(* misc/settingscache.cpp).                                                *)
(*                                                                         *)
(* Each process has one cache, which lives in its main thread.  A page     *)
(* holds the copies of one QObject.  Pages of the main thread are wired to *)
(* the cache by direct calls; pages of other threads by queued signals,    *)
(* one FIFO queue each way.  Only the core writes the settings files       *)
(* (enableLocalSave); GUI processes send their changes to it over DBus and *)
(* it tells everybody, the originator included.                            *)
(*                                                                         *)
(* A slot that runs synchronously is part of the step that emits its       *)
(* signal, so every function below maps a state record to a state record   *)
(* in the order in which the code makes its calls.                         *)
(***************************************************************************)
EXTENDS Integers, Sequences, FiniteSets

CONSTANTS
  Procs, Core,      \* processes; the one that runs CContextApplication itself
  Pages, Home,      \* pages; Home[p]: the process of page p
  MainPages,        \* pages that live in the main thread of their process
  Keys, Values,     \* a value stands for the pair of value and timestamp
  Invalid,          \* the invalid CVariant
  Accepts,          \* Accepts[p]: the values page p's validators let through
  Default,          \* the default value of every CCached
  Nobody,           \* sender() of a change no page made
  OnDisk,           \* the contents of the settings files at start
  Uses,             \* the optional operations users perform in this instance
  MaxChanges,       \* bound: changes made by pages, loads and clears
  MaxSyncs,         \* bound: synchronizeLocalSettings calls
  MaxNesting        \* bound: BatchGuards of one page alive at once

ASSUME CacheAssumption ==
  /\ Core \in Procs
  /\ Home \in [Pages -> Procs]
  /\ MainPages \subseteq Pages
  /\ Invalid \notin Values
  /\ Accepts \in [Pages -> SUBSET Values]
  /\ \A p \in Pages : Default \in Accepts[p]
  /\ Nobody \notin Pages \cup Procs
  /\ OnDisk \in [Keys -> Values \cup {Invalid}]
  /\ Uses \subseteq {"save", "load", "clear"}
  /\ MaxChanges \in Nat
  /\ MaxSyncs \in Nat
  /\ MaxNesting \in Nat

VARIABLES
  page,       \* page[p][k]: CValuePage::Element
  batch,      \* batch[p]: m_batchMode and m_batchedValues
  cache,      \* cache[r][k]: CValueCache::Element
  toCache,    \* toCache[p]: queued valuesWantToCache signals
  toPage,     \* toPage[p]: queued valuesChanged signals
  toCore,     \* toCore[r]: DBus calls changeSettings of GUI process r
  toProc,     \* toProc[r]: DBus signals settingsChanged to GUI process r
  snap,       \* snap[r]: the getAllSettings call of r, if it waits for one
  synced,     \* GUI processes that have run synchronizeLocalSettings
  disk,       \* the settings files
  blame,      \* blame[k]: history, why a saved flag may be wrong
  changes,    \* number of changes so far
  syncs       \* number of synchronizeLocalSettings calls so far

vars == <<page, batch, cache, toCache, toPage, toCore, toProc, snap, synced,
          disk, blame, changes, syncs>>

Guis == Procs \ {Core}
AnyValue == Values \cup {Invalid}
PagesOf(r) == {p \in Pages : Home[p] = r}

(* A partial map from keys to values: CVariantMap.                         *)
Maps == UNION {[K -> AnyValue] : K \in SUBSET Keys}
Empty == [k \in {} |-> Invalid]
Single(k, v) == [j \in {k} |-> v]

(* CVariantMap::insert.                                                    *)
Inserted(vals, k, v) ==
  [j \in DOMAIN vals \cup {k} |-> IF j = k THEN v ELSE vals[j]]

(* CValueCachePacket; timestamps are part of the values.                   *)
Packet(vals, saved, changed) == [vals |-> vals, saved |-> saved, changed |-> changed]

(* The variables a synchronous chain of calls may write.                   *)
State == [page |-> page, cache |-> cache, toCache |-> toCache, toPage |-> toPage,
          toCore |-> toCore, toProc |-> toProc, disk |-> disk, blame |-> blame]

Becomes(S) ==
  /\ page' = S.page /\ cache' = S.cache
  /\ toCache' = S.toCache /\ toPage' = S.toPage
  /\ toCore' = S.toCore /\ toProc' = S.toProc
  /\ disk' = S.disk /\ blame' = S.blame

-----------------------------------------------------------------------------
(* Mutant: foreign changes are ratified although an own one is pending.    *)
MutFromCache(el, p, m) ==
  [k \in Keys |->
     IF ~ el[k].made \/ k \notin DOMAIN m.pkt.vals THEN el[k]
     ELSE IF m.by = p THEN [el[k] EXCEPT !.pending = @ - 1]
     ELSE IF m.pkt.vals[k] \in Accepts[p]
     THEN [el[k] EXCEPT !.val = m.pkt.vals[k], !.saved = m.pkt.saved]
     ELSE el[k]]

(* CValuePage::setValuesFromCache on the elements el of page p.            *)
FromCache(el, p, m) ==
  [k \in Keys |->
     IF ~ el[k].made \/ k \notin DOMAIN m.pkt.vals THEN el[k]
     ELSE IF m.by = p THEN [el[k] EXCEPT !.pending = @ - 1]
     ELSE IF el[k].pending = 0 /\ m.pkt.vals[k] \in Accepts[p]
     THEN [el[k] EXCEPT !.val = m.pkt.vals[k], !.saved = m.pkt.saved]
     ELSE el[k]]

(* emit CValueCache::valuesChanged: direct for main pages, else queued.    *)
EmitValuesChanged(S, r, pkt, by) ==
  LET m == [pkt |-> pkt, by |-> by] IN
  [S EXCEPT
     !.page = [p \in Pages |-> IF p \in PagesOf(r) \cap MainPages
                               THEN FromCache(S.page[p], p, m) ELSE S.page[p]],
     !.toPage = [p \in Pages |-> IF p \in PagesOf(r) \ MainPages
                                 THEN Append(S.toPage[p], m) ELSE S.toPage[p]]]

(***************************************************************************)
(* emit valuesSaveRequested.  Only the core has enabled local saving:      *)
(* saveToStoreByPacket writes the packet's values file by file until one   *)
(* fails (ok: the keys whose files are written) and logs the error; it     *)
(* does not look at the saved flags.                                       *)
(***************************************************************************)
SaveRequested(S, r, vals, ok) ==
  IF r # Core THEN S
  ELSE [S EXCEPT
          !.disk = [k \in Keys |-> IF k \in ok \cap DOMAIN vals THEN vals[k] ELSE @[k]],
          !.blame = [k \in Keys |->
                       IF k \notin DOMAIN vals THEN @[k]
                       ELSE IF k \notin ok THEN @[k] \cup {"write failed"}
                       ELSE IF vals[k] = S.cache[Core][k].val THEN {}
                       ELSE @[k] \cup {"overtaken"}]]

(* Mutant: the cache ratifies although an own change is pending.           *)
MutRatified(c, r, pkt, origin) == {k \in DOMAIN pkt.vals : origin # r}

(* The keys whose foreign change cache c of process r takes.               *)
Ratified(c, r, pkt, origin) ==
  {k \in DOMAIN pkt.vals : origin # r /\ c[k].pending = 0}

(* CValueCache::changeValuesFromRemote of process r.                       *)
ChangeValuesFromRemote(S, r, pkt, origin, ok) ==
  LET c == S.cache[r]
      ratified == Ratified(c, r, pkt, origin)
      after == [S EXCEPT !.cache[r] =
                  [k \in Keys |->
                     IF k \in DOMAIN pkt.vals /\ origin = r
                     THEN [c[k] EXCEPT !.pending = @ - 1]
                     ELSE IF k \in ratified
                     THEN [c[k] EXCEPT !.val = pkt.vals[k], !.saved = pkt.saved]
                     ELSE c[k]]]
      news == Packet([k \in ratified |-> pkt.vals[k]], pkt.saved, TRUE)
      saving(T, vals) == IF pkt.saved THEN SaveRequested(T, r, vals, ok) ELSE T
  IN IF DOMAIN pkt.vals = {} THEN S
     ELSE IF ~ pkt.changed THEN saving(S, pkt.vals)
     ELSE IF origin = r THEN saving(after, pkt.vals)
     ELSE IF ratified = {} THEN after
     ELSE EmitValuesChanged(saving(after, news.vals), r, news, Nobody)

(* Mutant: the originator is left out, as a round-trip check would do.     *)
MutChangeSettings(S, pkt, origin, ok) ==
  LET T == ChangeValuesFromRemote(S, Core, pkt, origin, ok) IN
  [T EXCEPT !.toProc = [r \in Guis |->
     IF r = origin THEN @[r] ELSE Append(@[r], [pkt |-> pkt, by |-> origin])]]

(* CContextApplication::changeSettings: tell every process, origin too.    *)
ChangeSettings(S, pkt, origin, ok) ==
  LET T == ChangeValuesFromRemote(S, Core, pkt, origin, ok) IN
  [T EXCEPT !.toProc = [r \in Guis |-> Append(@[r], [pkt |-> pkt, by |-> origin])]]

(* Mutant: a local change is not counted as pending.                       *)
MutTaken(e, v, pkt) ==
  IF pkt.changed THEN [val |-> v, saved |-> pkt.saved, pending |-> e.pending]
  ELSE [e EXCEPT !.saved = pkt.saved]

(* A cache element after a local change to v.                              *)
Taken(e, v, pkt) ==
  IF pkt.changed THEN [val |-> v, saved |-> pkt.saved, pending |-> e.pending + 1]
  ELSE [e EXCEPT !.saved = pkt.saved]

(***************************************************************************)
(* CValueCache::changeValues of process r: take the values, tell the       *)
(* pages, tell the other processes.                                        *)
(***************************************************************************)
ChangeValues(S, r, pkt, by, ok) ==
  LET taken == [S EXCEPT !.cache[r] =
                  [k \in Keys |-> IF k \in DOMAIN pkt.vals
                                  THEN Taken(@[k], pkt.vals[k], pkt) ELSE @[k]]]
      told == IF pkt.changed THEN EmitValuesChanged(taken, r, pkt, by) ELSE taken
  IN IF DOMAIN pkt.vals = {} THEN S
     ELSE IF r = Core THEN ChangeSettings(told, pkt, Core, ok)
     ELSE [told EXCEPT !.toCore[r] = Append(@, pkt)]

(* emit CValuePage::valuesWantToCache.                                     *)
WantToCache(S, p, pkt, ok) ==
  IF p \in MainPages THEN ChangeValues(S, Home[p], pkt, p, ok)
  ELSE [S EXCEPT !.toCache[p] = Append(@, pkt)]

-----------------------------------------------------------------------------
NoElement == [made |-> FALSE, val |-> Invalid, saved |-> FALSE, pending |-> 0]
Idle == [st |-> "idle", vals |-> Empty]

Init ==
  /\ page = [p \in Pages |-> [k \in Keys |-> NoElement]]
  /\ batch = [p \in Pages |-> [mode |-> 0, vals |-> Empty]]
  /\ cache = [r \in Procs |-> [k \in Keys |->
                [val |-> Invalid, saved |-> FALSE, pending |-> 0]]]
  /\ toCache = [p \in Pages |-> <<>>]
  /\ toPage = [p \in Pages |-> <<>>]
  /\ toCore = [r \in Guis |-> <<>>]
  /\ toProc = [r \in Guis |-> <<>>]
  /\ snap = [r \in Guis |-> Idle]
  /\ synced = {}
  /\ disk = OnDisk
  /\ blame = [k \in Keys |-> {}]
  /\ changes = 0
  /\ syncs = 0

(* The main thread of r is not inside the blocking call getAllSettings.    *)
Ready(r) == r \notin {g \in Guis : snap[g].st # "idle"}

(* The thread of page p can run.                                           *)
Runs(p) == p \notin MainPages \/ Ready(Home[p])

CountChange == changes < MaxChanges /\ changes' = changes + 1 /\ UNCHANGED syncs

(* CValuePage::createElement: a CCached member is constructed.             *)
CreateElement(p, k) ==
  /\ ~ page[p][k].made /\ Runs(p)
  /\ LET e == cache[Home[p]][k] IN
     page' = [page EXCEPT ![p][k] =
                [made |-> TRUE, saved |-> e.saved, pending |-> 0,
                 val |-> IF e.val \in Accepts[p] THEN e.val ELSE Default]]
  /\ UNCHANGED <<batch, cache, toCache, toPage, toCore, toProc, snap, synced,
                 disk, blame, changes, syncs>>

(***************************************************************************)
(* CValuePage::setValue with a value the validator lets through: set, or   *)
(* setAndSave and save (save = TRUE).                                      *)
(***************************************************************************)
SetValue(p, k, v, save, ok) ==
  /\ page[p][k].made /\ Runs(p) /\ v \in Accepts[p]
  /\ save => "save" \in Uses
  /\ UNCHANGED <<snap, synced>>
  /\ \/ /\ v = page[p][k].val /\ save
        /\ CountChange
        /\ Becomes(WantToCache([State EXCEPT !.page[p][k].saved = TRUE], p,
                               Packet(Single(k, v), TRUE, FALSE), ok))
        /\ UNCHANGED batch
     \/ /\ v # page[p][k].val /\ batch[p].mode > 0
        /\ batch' = [batch EXCEPT ![p].vals = Inserted(@, k, v)]
        /\ Becomes(State)
        /\ UNCHANGED <<changes, syncs>>
     \/ /\ v # page[p][k].val /\ batch[p].mode <= 0
        /\ CountChange
        /\ Becomes(WantToCache(
             [State EXCEPT !.page[p][k] = [made |-> TRUE, val |-> v, saved |-> save,
                                           pending |-> @.pending + 1]],
             p, Packet(Single(k, v), save, TRUE), ok))
        /\ UNCHANGED batch

(* CValueCache::batchChanges: a BatchGuard is constructed.                 *)
BeginBatch(p) ==
  /\ Runs(p) /\ batch[p].mode < MaxNesting
  /\ batch' = [batch EXCEPT ![p] =
       [mode |-> @.mode + 1, vals |-> IF @.mode <= 0 THEN Empty ELSE @.vals]]
  /\ UNCHANGED <<page, cache, toCache, toPage, toCore, toProc, snap, synced,
                 disk, blame, changes, syncs>>

(* CValuePage::abandonBatch: a BatchGuard is destroyed by an exception.    *)
AbandonBatch(p) ==
  /\ Runs(p) /\ batch[p].mode > 0
  /\ batch' = [batch EXCEPT ![p].mode = @ - 1]
  /\ UNCHANGED <<page, cache, toCache, toPage, toCore, toProc, snap, synced,
                 disk, blame, changes, syncs>>

(* Mutant: a batched change is not counted as pending.                     *)
MutBatched(e, v) == [e EXCEPT !.val = v, !.saved = FALSE]

(* A page element after the end of a batch that set it to v.               *)
Batched(e, v) == [e EXCEPT !.val = v, !.saved = FALSE, !.pending = @ + 1]

(* CValuePage::endBatch: a BatchGuard is destroyed normally.               *)
EndBatch(p) ==
  /\ Runs(p) /\ batch[p].mode > 0
  /\ batch' = [batch EXCEPT ![p].mode = @ - 1]
  /\ LET vals == batch[p].vals IN
     IF batch[p].mode > 1 \/ DOMAIN vals = {}
     THEN Becomes(State) /\ UNCHANGED <<changes, syncs>>
     ELSE /\ CountChange
          /\ Becomes(WantToCache(
               [State EXCEPT !.page[p] =
                  [k \in Keys |-> IF k \in DOMAIN vals
                                  THEN Batched(@[k], vals[k]) ELSE @[k]]],
               p, Packet(vals, FALSE, TRUE), Keys))
  /\ UNCHANGED <<snap, synced>>

(* The cache's thread runs changeValues for a queued page.                 *)
CacheTakes(p, ok) ==
  /\ toCache[p] # <<>> /\ Ready(Home[p])
  /\ Becomes(ChangeValues([State EXCEPT !.toCache[p] = Tail(@)], Home[p],
                          Head(toCache[p]), p, ok))
  /\ UNCHANGED <<batch, snap, synced, changes, syncs>>

(* The page's thread runs setValuesFromCache.                              *)
PageTakes(p) ==
  /\ toPage[p] # <<>>
  /\ page' = [page EXCEPT ![p] = FromCache(@, p, Head(toPage[p]))]
  /\ toPage' = [toPage EXCEPT ![p] = Tail(@)]
  /\ UNCHANGED <<batch, cache, toCache, toCore, toProc, snap, synced, disk,
                 blame, changes, syncs>>

(* The core serves the DBus call changeSettings of GUI process r.          *)
CoreTakes(r, ok) ==
  /\ toCore[r] # <<>>
  /\ Becomes(ChangeSettings([State EXCEPT !.toCore[r] = Tail(@)],
                            Head(toCore[r]), r, ok))
  /\ UNCHANGED <<batch, snap, synced, changes, syncs>>

(* GUI process r receives the DBus signal settingsChanged.                 *)
ProcTakes(r) ==
  /\ toProc[r] # <<>> /\ Ready(r)
  /\ LET m == Head(toProc[r]) IN
     Becomes(ChangeValuesFromRemote([State EXCEPT !.toProc[r] = Tail(@)], r,
                                    m.pkt, m.by, Keys))
  /\ UNCHANGED <<batch, snap, synced, changes, syncs>>

(* synchronizeLocalSettings of a proxy: getAllSettings is a blocking call. *)
BeginSync(r) ==
  /\ Ready(r)
  /\ syncs < MaxSyncs /\ syncs' = syncs + 1
  /\ snap' = [snap EXCEPT ![r].st = "asked"]
  /\ UNCHANGED <<page, batch, cache, toCache, toPage, toCore, toProc, synced,
                 disk, blame, changes>>

(* The core answers with its valid values.                                 *)
GetAllSettings(r) ==
  /\ snap[r].st = "asked" /\ toCore[r] = <<>>
  /\ LET valid == {k \in Keys : cache[Core][k].val # Invalid} IN
     snap' = [snap EXCEPT ![r] =
       [st |-> "answered", vals |-> [k \in valid |-> cache[Core][k].val]]]
  /\ UNCHANGED <<page, batch, cache, toCache, toPage, toCore, toProc, synced,
                 disk, blame, changes, syncs>>

(* The call returns and the snapshot is applied as a foreign change.       *)
EndSync(r) ==
  /\ snap[r].st = "answered"
  /\ Becomes(ChangeValuesFromRemote(State, r, Packet(snap[r].vals, FALSE, TRUE),
                                    Nobody, Keys))
  /\ snap' = [snap EXCEPT ![r] = Idle]
  /\ synced' = synced \cup {r}
  /\ UNCHANGED <<batch, changes, syncs>>

(***************************************************************************)
(* loadFromStore of the core: the values of the files that could be read   *)
(* (K) and that differ from the current ones are inserted, marked saved.   *)
(***************************************************************************)
LoadFromStore(K, ok) ==
  /\ "load" \in Uses /\ CountChange
  /\ LET differ == {k \in K : disk[k] # Invalid /\ disk[k] # cache[Core][k].val} IN
     Becomes(ChangeValues(State, Core,
                          Packet([k \in differ |-> disk[k]], TRUE, TRUE), Nobody, ok))
  /\ UNCHANGED <<batch, snap, synced>>

(* CValueCache::clearAllValues in process r.                               *)
ClearAllValues(r) ==
  /\ "clear" \in Uses /\ Ready(r) /\ CountChange
  /\ LET valid == {k \in Keys : cache[r][k].val # Invalid} IN
     Becomes(ChangeValues(State, r, Packet([k \in valid |-> Invalid], FALSE, TRUE),
                          Nobody, Keys))
  /\ UNCHANGED <<batch, snap, synced>>

(* Mutant: markAllAsSaved although a file could not be written.            *)
MutSaveToStore(K, ok) ==
  /\ "save" \in Uses
  /\ LET written == {k \in K \cap ok : cache[Core][k].val # Invalid} IN
     disk' = [k \in Keys |-> IF k \in written THEN cache[Core][k].val ELSE disk[k]]
  /\ cache' = [cache EXCEPT ![Core] =
       [k \in Keys |-> IF k \in K THEN [@[k] EXCEPT !.saved = TRUE] ELSE @[k]]]
  /\ UNCHANGED <<page, batch, toCache, toPage, toCore, toProc, snap, synced,
                 blame, changes, syncs>>

(***************************************************************************)
(* saveSettings and saveSettingsByKey, run by the core: write the valid    *)
(* values of K file by file, then markAllAsSaved; an error ends the        *)
(* writing and changes no flag.                                            *)
(***************************************************************************)
SaveToStore(K, ok) ==
  /\ "save" \in Uses
  /\ LET valid == {k \in K : cache[Core][k].val # Invalid}
         written == valid \cap ok
     IN /\ disk' = [k \in Keys |-> IF k \in written THEN cache[Core][k].val ELSE disk[k]]
        /\ blame' = [k \in Keys |-> IF k \in written THEN {} ELSE blame[k]]
        /\ cache' = [cache EXCEPT ![Core] =
             [k \in Keys |-> IF k \in K /\ written = valid
                             THEN [@[k] EXCEPT !.saved = TRUE] ELSE @[k]]]
  /\ UNCHANGED <<page, batch, toCache, toPage, toCore, toProc, snap, synced, changes,
                 syncs>>

(* The keys of K whose files get written, if a packet is saved at all.     *)
Outcomes(saving, K) == IF saving THEN SUBSET K ELSE {K}
OutcomesAhead(q) == IF q = <<>> THEN {} ELSE Outcomes(Head(q).saved, DOMAIN Head(q).vals)

PageStep(p) ==
  \/ \E k \in Keys : CreateElement(p, k)
  \/ \E k \in Keys, v \in Values, save \in BOOLEAN :
       \E ok \in Outcomes(save /\ p \in MainPages, {k}) : SetValue(p, k, v, save, ok)
  \/ BeginBatch(p) \/ AbandonBatch(p) \/ EndBatch(p)

CacheStep(p) == \E ok \in OutcomesAhead(toCache[p]) : CacheTakes(p, ok)

CoreStep(r) == \E ok \in OutcomesAhead(toCore[r]) : CoreTakes(r, ok)

GuiStep(r) ==
  \/ ProcTakes(r) \/ BeginSync(r) \/ GetAllSettings(r) \/ EndSync(r)
  \/ CoreStep(r)

StoreStep ==
  \/ \E K \in SUBSET Keys \ {{}} : \E ok \in SUBSET K :
       LoadFromStore(K, ok) \/ SaveToStore(K, ok)
  \/ \E r \in Procs : ClearAllValues(r)

Next ==
  \/ \E p \in Pages : PageStep(p) \/ PageTakes(p) \/ CacheStep(p)
  \/ \E r \in Guis : GuiStep(r)
  \/ StoreStep

Spec == Init /\ [][Next]_vars

(***************************************************************************)
(* Queued signals, DBus messages and calls are delivered.  SF for what the *)
(* GUI's event loop delivers, because a blocking call suspends the loop    *)
(* now and then; posted events keep their turn.  Nothing else is fair:     *)
(* users need not change, create, save or load anything.                   *)
(***************************************************************************)
Fairness ==
  /\ \A p \in Pages : /\ WF_vars(PageTakes(p))
                      /\ SF_vars(CacheStep(p))
  /\ \A r \in Guis : /\ SF_vars(ProcTakes(r))
                     /\ WF_vars(CoreStep(r))
                     /\ WF_vars(GetAllSettings(r))
                     /\ WF_vars(EndSync(r))

FairSpec == Spec /\ Fairness

-----------------------------------------------------------------------------
(* Type invariant.                                                         *)
Packets == [vals : Maps, saved : BOOLEAN, changed : BOOLEAN]
CacheElement == [val : AnyValue, saved : BOOLEAN, pending : Nat]
PageElement == [made : BOOLEAN, val : AnyValue, saved : BOOLEAN, pending : Nat]

Messages(senders) == [pkt : Packets, by : senders]

TypeOK ==
  /\ page \in [Pages -> [Keys -> PageElement]]
  /\ batch \in [Pages -> [mode : 0..MaxNesting, vals : Maps]]
  /\ cache \in [Procs -> [Keys -> CacheElement]]
  /\ toCache \in [Pages -> Seq(Packets)]
  /\ toPage \in [Pages -> Seq(Messages(Pages \cup {Nobody}))]
  /\ toCore \in [Guis -> Seq(Packets)]
  /\ toProc \in [Guis -> Seq(Messages(Procs))]
  /\ snap \in [Guis -> [st : {"idle", "asked", "answered"}, vals : Maps]]
  /\ synced \subseteq Guis
  /\ disk \in [Keys -> AnyValue]
  /\ blame \in [Keys -> SUBSET {"write failed", "overtaken"}]
  /\ changes \in 0..MaxChanges
  /\ syncs \in 0..MaxSyncs

(***************************************************************************)
(* Refinement.  For one key k, the pages of a process and its cache        *)
(* implement EchoSync, and so do the caches of all processes around the    *)
(* core.  What EchoSyncProofs shows of EchoSync therefore holds here.      *)
(***************************************************************************)
Nth(R, n) == CHOOSE i \in R : Cardinality({j \in R : j <= i}) = n

(* The elements of q at the positions R, in their order.                   *)
Pick(q, R) == [n \in 1..Cardinality(R) |-> q[Nth(R, n)]]

(* The packet changes the value of k.                                      *)
Carries(pkt, k) == pkt.changed /\ k \in DOMAIN pkt.vals

UpOf(q, k) ==
  LET s == Pick(q, {i \in 1..Len(q) : Carries(q[i], k)})
  IN [n \in DOMAIN s |-> s[n].vals[k]]

DownOf(q, k) ==
  LET s == Pick(q, {i \in 1..Len(q) : Carries(q[i].pkt, k)})
  IN [n \in DOMAIN s |-> [val |-> s[n].pkt.vals[k], by |-> s[n].by]]

PageLevel(r, k) == INSTANCE EchoSync WITH
  Clients <- PagesOf(r), Direct <- PagesOf(r) \cap MainPages,
  Values <- AnyValue, Accepts <- [p \in PagesOf(r) |-> Accepts[p]],
  MaxQueue <- -1,
  hub <- cache[r][k].val,
  val <- [p \in PagesOf(r) |-> page[p][k].val],
  pending <- [p \in PagesOf(r) |-> page[p][k].pending],
  up <- [p \in PagesOf(r) |-> UpOf(toCache[p], k)],
  down <- [p \in PagesOf(r) |-> DownOf(toPage[p], k)],
  attached <- {p \in PagesOf(r) : page[p][k].made}

ProcLevel(k) == INSTANCE EchoSync WITH
  Clients <- Procs, Direct <- {Core},
  Values <- AnyValue, Accepts <- [r \in Procs |-> Values],
  MaxQueue <- -1,
  hub <- cache[Core][k].val,
  val <- [r \in Procs |-> cache[r][k].val],
  pending <- [r \in Procs |-> cache[r][k].pending],
  up <- [r \in Procs |-> IF r = Core THEN <<>> ELSE UpOf(toCore[r], k)],
  down <- [r \in Procs |-> IF r = Core THEN <<>> ELSE DownOf(toProc[r], k)],
  attached <- synced \cup {Core}

(* The pages and the cache of every process implement EchoSync.            *)
PagesImplementEchoSync ==
  /\ \A r \in Procs, k \in Keys : PageLevel(r, k)!Init
  /\ [][\A r \in Procs, k \in Keys :
          [PageLevel(r, k)!Next]_(PageLevel(r, k)!echoVars)]_vars

(* The caches of all processes implement EchoSync, with the core as hub.   *)
ProcsImplementEchoSync ==
  /\ \A k \in Keys : ProcLevel(k)!Init
  /\ [][\A k \in Keys : [ProcLevel(k)!Next]_(ProcLevel(k)!echoVars)]_vars

(* Page p must show the core's value of k.                                 *)
Shows(p, k) ==
  (/\ page[p][k].made
   /\ Home[p] \in synced \cup {Core}
   /\ cache[Core][k].val \in Accepts[p])
  => page[p][k].val = cache[Core][k].val

Quiet ==
  /\ \A p \in Pages : toCache[p] = <<>> /\ toPage[p] = <<>>
  /\ \A r \in Guis : toCore[r] = <<>> /\ toProc[r] = <<>> /\ Ready(r)

(***************************************************************************)
(* End to end: when nothing is in flight, every page of every synchronized *)
(* process shows the core's value, however changes of pages in different   *)
(* threads and processes, loads, clears and snapshots crossed.             *)
(***************************************************************************)
EndToEnd == Quiet => \A p \in Pages, k \in Keys : Shows(p, k)

(***************************************************************************)
(* A page never loses its own value while a change of its own is pending   *)
(* (valuecache.cpp 754: "ratify a change only if own change is not         *)
(* pending").                                                              *)
(***************************************************************************)
ReadYourWrites ==
  [][\A p \in Pages, k \in Keys :
       page[p][k].pending > 0 /\ page'[p][k].val # page[p][k].val
       => page'[p][k].pending = page[p][k].pending + 1]_vars

(***************************************************************************)
(* The core's saved flag is wrong for two reasons only: a write failed, or *)
(* a page re-saved a value that another change had overtaken.              *)
(***************************************************************************)
SavedFlagExplained ==
  \A k \in Keys : cache[Core][k].saved /\ cache[Core][k].val # Invalid
                  /\ blame[k] = {} => disk[k] = cache[Core][k].val

(***************************************************************************)
(* Once changes stop, every page of every synchronized process shows the   *)
(* core's value for ever.                                                  *)
(***************************************************************************)
EventuallyShown == <>[](\A p \in Pages, k \in Keys : Shows(p, k))

(***************************************************************************)
(* No page and no cache stays deaf: while an own change is pending the     *)
(* changes of others are ignored, and every pending change comes back.     *)
(***************************************************************************)
AnyPending ==
  \E k \in Keys : \/ \E p \in Pages : page[p][k].pending > 0
                 \/ \E r \in Procs : cache[r][k].pending > 0

NobodyStaysDeaf == AnyPending ~> ~AnyPending
=============================================================================
