------------------------- MODULE ValueCacheProofs --------------------------
(***************************************************************************)
(* The settings cache, proved for every set of processes, pages, keys and  *)
(* values.  The invariant CacheInv has two halves: WiringInv, which every  *)
(* step of the model keeps while it is a move of ValueCacheSteps for every *)
(* page and process; and AllRight, which EchoClient keeps for every such   *)
(* move.  Type correctness, the end-to-end promise and read-your-writes    *)
(* follow from it, and so does the refinement of EchoSync at both levels,  *)
(* since a move is also a step of EchoSync.                                *)
(***************************************************************************)
EXTENDS ValueCacheSteps

-----------------------------------------------------------------------------
(* What a batch holds exists in the page.                                  *)
BatchOK == \A p \in Pages : \A k \in DOMAIN batch[p].vals : page[p][k].made

(***************************************************************************)
(* An answered snapshot is what the core has, but for keys whose changes   *)
(* are on their way to the process.                                        *)
(***************************************************************************)
SnapOK ==
  \A g \in Guis : snap[g].st = "answered" =>
    \A k \in Keys : DownOf(toProc[g], k) = <<>> =>
      cache[Core][k].val = IF k \in DOMAIN snap[g].vals THEN snap[g].vals[k] ELSE Invalid

Batches == [mode : 0..MaxNesting, vals : Maps]
Snaps == [st : {"idle", "asked", "answered"}, vals : Maps]

RestOK ==
  /\ batch \in [Pages -> Batches]
  /\ snap \in [Guis -> Snaps]
  /\ synced \subseteq Guis
  /\ changes \in 0..MaxChanges /\ syncs \in 0..MaxSyncs

(* The invariant without what EchoClient says of the counters.             *)
WiringInv ==
  /\ State \in States /\ WiredBut(State, Nobody, {})
  /\ RestOK /\ BatchOK /\ SnapOK

(* What every step does; only ready processes take messages.               *)
Moves(N) ==
  /\ StepFacts(State, synced, State', synced', N)
  /\ \A g \in N : g \in Guis /\ snap[g].st = "idle"

(* A function from some of the keys to values is a map.                    *)
LEMMA MapsIntro ==
  ASSUME NEW K, K \subseteq Keys, NEW f \in [K -> AnyValue]
  PROVE  f \in Maps /\ DOMAIN f = K
BY DEF Maps

(* A packet of a map is one.                                               *)
LEMMA PacketTyped ==
  ASSUME NEW vals \in Maps, NEW s \in BOOLEAN, NEW c \in BOOLEAN
  PROVE  /\ Packet(vals, s, c) \in Packets
         /\ Packet(vals, s, c).vals = vals /\ Packet(vals, s, c).changed = c
BY DEF Packet, Packets

(* The next state of a chain of calls.                                     *)
LEMMA ChainMoves ==
  ASSUME NEW Y, Becomes(Y), NEW B, StepFacts(State, synced, Y, B, {}), synced' = B
  PROVE  Moves({})
<1>1. Y \in States
  BY DEF StepFacts
<1>2. State' = Y
  BY <1>1, BecomesState
<1> QED
  BY <1>2 DEF Moves

(* A step that changes none of it.                                         *)
LEMMA StillMoves ==
  ASSUME WiringInv, State' = State, synced' = synced
  PROVE  Moves({})
<1>1. \A r \in Procs, k \in Keys : SameCache(State.cache[r][k], State.cache[r][k])
  BY DEF SameCache
<1> DEFINE X == State
<1>2. X \in States /\ WiredBut(X, Nobody, {}) /\ State' = X
  BY DEF WiringInv
<1> HIDE DEF X
<1>3. StepFacts(X, synced, X, synced, {})
  BY <1>1, <1>2, NoMoves DEF X
<1> QED
  BY <1>2, <1>3 DEF Moves, X

(* Batches and snapshots stay right.                                       *)
LEMMA BatchKept ==
  ASSUME WiringInv, NEW N, Moves(N),
         \A p \in Pages : \A k \in DOMAIN batch'[p].vals : k \in DOMAIN batch[p].vals
  PROVE  BatchOK'
<1>1. \A p \in Pages : \A k \in DOMAIN batch[p].vals : k \in Keys
  BY MapsAre DEF WiringInv, RestOK, Batches
<1>2. \A p \in Pages, k \in Keys : page[p][k].made => page'[p][k].made
  BY DEF Moves, StepFacts, State
<1> QED
  BY <1>1, <1>2 DEF BatchOK, WiringInv

(***************************************************************************)
(* An answered snapshot stays right: its process takes no message          *)
(* meanwhile.                                                              *)
(***************************************************************************)
LEMMA SnapKept ==
  ASSUME WiringInv, NEW N, Moves(N),
         \A g \in Guis : snap'[g].st = "answered" => snap'[g] = snap[g]
  PROVE  SnapOK'
<1> SUFFICES ASSUME NEW g \in Guis, snap'[g].st = "answered", NEW k \in Keys,
                    DownOf(toProc'[g], k) = <<>>
             PROVE  cache'[Core][k].val =
                      IF k \in DOMAIN snap'[g].vals THEN snap'[g].vals[k] ELSE Invalid
  BY DEF SnapOK
<1>1. snap'[g] = snap[g] /\ g \notin N
  BY DEF Moves
<1> DEFINE X == State
           Y == State'
<1>2. /\ X \in States /\ Y \in States /\ ProcMoves(X, synced, Y, synced', N, k)
      /\ X.toProc[g] = toProc[g] /\ X.cache[Core][k].val = cache[Core][k].val
      /\ Y.toProc[g] = toProc'[g] /\ Y.cache[Core][k].val = cache'[Core][k].val
  BY DEF Moves, StepFacts, WiringInv, State
<1> HIDE DEF X, Y
<1>3. DownOf(X.toProc[g], k) = <<>> /\ Y.cache[Core][k].val = X.cache[Core][k].val
  BY <1>1, <1>2, NothingMissed
<1> QED
  BY <1>1, <1>2, <1>3 DEF WiringInv, SnapOK

-----------------------------------------------------------------------------
(* What every action does.                                                 *)
LEMMA DoCreateElement ==
  ASSUME WiringInv, NEW p \in Pages, NEW k \in Keys, CreateElement(p, k)
  PROVE  Moves({})
<1> USE CacheAssumption
<1> DEFINE X == State
           c == cache[Home[p]][k]
           e == [made |-> TRUE, saved |-> c.saved, pending |-> 0,
                 val |-> IF c.val \in Accepts[p] THEN c.val ELSE Default]
<1>1. X \in States /\ WiredBut(X, Nobody, {}) /\ Home[p] \in Procs
  BY DEF WiringInv
<1>2. X.page = page /\ X.cache = cache
  BY DEF State
<1>3. c \in CacheEl
  BY <1>1, <1>2 DEF States
<1>4. e \in PageEl /\ e.made /\ e.pending = 0 /\ (c.val \in Accepts[p] => e.val = c.val)
  BY <1>3 DEF PageEl, CacheEl, AnyValue
<1>5. ~ X.page[p][k].made
  BY DEF CreateElement, State
<1>6. State' = [X EXCEPT !.page = [X.page EXCEPT ![p][k] = e]] /\ synced' = synced
  <2>1. /\ page' = [page EXCEPT ![p][k] = e]
        /\ UNCHANGED <<cache, toCache, toPage, toCore, toProc, synced, disk, blame>>
    BY DEF CreateElement
  <2> HIDE DEF e
  <2> QED
    BY <2>1 DEF State
<1>7. X.cache[Home[p]][k].val \in Accepts[p] => e.val = X.cache[Home[p]][k].val
  BY <1>2, <1>4
<1> DEFINE Y == State'
<1> HIDE DEF X, e, c, Y
<1>8. StepFacts(X, synced, Y, synced, {})
  BY <1>1, <1>4, <1>5, <1>6, <1>7, CreateMoves DEF Y
<1> QED
  BY <1>6, <1>8 DEF Moves, X, Y

(* A page changes values or asks for them to be saved.                     *)
LEMMA DoWant ==
  ASSUME WiringInv, NEW p \in Pages, NEW pkt \in Packets, NEW el \in [Keys -> PageEl],
         Wants(page[p], el, pkt), NEW ok, synced' = synced,
         Becomes(WantToCache([State EXCEPT !.page[p] = el], p, pkt, ok))
  PROVE  Moves({})
<1> DEFINE X == State
           Y == WantToCache([X EXCEPT !.page[p] = el], p, pkt, ok)
<1>1. X \in States /\ WiredBut(X, Nobody, {}) /\ Wants(X.page[p], el, pkt) /\ Becomes(Y)
  BY DEF WiringInv, State
<1>2. StepFacts(X, synced, Y, synced, {})
  <2> HIDE DEF X
  <2> QED
    BY <1>1, WantMoves
<1> HIDE DEF Y
<1> QED
  BY <1>1, <1>2, ChainMoves

(***************************************************************************)
(* CValuePage::setValue, with a change, batched, or saving the value it    *)
(* has.                                                                    *)
(***************************************************************************)
LEMMA DoSetValue ==
  ASSUME WiringInv, NEW p \in Pages, NEW k \in Keys, NEW v \in Values, NEW save \in BOOLEAN,
         NEW ok, SetValue(p, k, v, save, ok)
  PROVE  Moves({})
<1> USE CacheAssumption
<1>1. synced' = synced /\ page[p][k].made
  BY DEF SetValue
<1>2. page \in [Pages -> [Keys -> PageEl]] /\ page[p] \in [Keys -> PageEl] /\ page[p][k] \in PageEl
  BY DEF WiringInv, States, State
<1>3. Single(k, v) \in Maps /\ DOMAIN Single(k, v) = {k} /\ Single(k, v)[k] = v
  BY MapsIntro DEF Single, AnyValue
<1>4. page[p][k].made = TRUE
  BY <1>1, <1>2 DEF PageEl
<1>5. ASSUME v = page[p][k].val, save,
             Becomes(WantToCache([State EXCEPT !.page[p][k].saved = TRUE], p,
                                 Packet(Single(k, v), TRUE, FALSE), ok))
      PROVE  Moves({})
  <2> DEFINE el == [page[p] EXCEPT ![k].saved = TRUE]
             pkt == Packet(Single(k, v), TRUE, FALSE)
  <2>1. pkt \in Packets /\ pkt.vals = Single(k, v) /\ pkt.changed = FALSE
    BY <1>3, PacketTyped
  <2>2. el \in [Keys -> PageEl]
    BY <1>2 DEF PageEl
  <2>3. Wants(page[p], el, pkt)
    <3>1. \A j \in Keys : el[j].made = page[p][j].made /\ el[j].val = page[p][j].val
                          /\ el[j].pending = page[p][j].pending
      BY <1>2 DEF PageEl
    <3>2. \A j : ~ Carries(pkt, j)
      BY <2>1 DEF Carries
    <3>3. \A j \in DOMAIN pkt.vals : page[p][j].made
      BY <1>1, <1>3, <2>1
    <3> HIDE DEF el, pkt
    <3> QED
      BY <3>1, <3>2, <3>3 DEF Wants
  <2>4. [State EXCEPT !.page[p][k].saved = TRUE] = [State EXCEPT !.page[p] = el]
    BY <1>2 DEF State
  <2>5. Becomes(WantToCache([State EXCEPT !.page[p] = el], p, pkt, ok))
    BY <1>5, <2>4
  <2> HIDE DEF el, pkt
  <2> QED
    BY <1>1, <2>1, <2>2, <2>3, <2>5, DoWant
<1>6. ASSUME Becomes(WantToCache(
               [State EXCEPT !.page[p][k] = [made |-> TRUE, val |-> v, saved |-> save,
                                             pending |-> @.pending + 1]],
               p, Packet(Single(k, v), save, TRUE), ok))
      PROVE  Moves({})
  <2> DEFINE el == [page[p] EXCEPT ![k] = [made |-> TRUE, val |-> v, saved |-> save,
                                           pending |-> page[p][k].pending + 1]]
             pkt == Packet(Single(k, v), save, TRUE)
  <2>1. pkt \in Packets /\ pkt.vals = Single(k, v) /\ pkt.changed = TRUE
    BY <1>3, PacketTyped
  <2>2. el \in [Keys -> PageEl]
    BY <1>2 DEF PageEl, AnyValue
  <2>3. Wants(page[p], el, pkt)
    <3>1. \A j \in Keys \ {k} : el[j] = page[p][j]
      BY <1>2
    <3>2. el[k].made = page[p][k].made /\ el[k].val = v /\ el[k].pending = page[p][k].pending + 1
      BY <1>2, <1>4
    <3>3. \A j : Carries(pkt, j) <=> j = k
      BY <1>3, <2>1 DEF Carries
    <3>4. pkt.vals[k] = v /\ \A j \in DOMAIN pkt.vals : page[p][j].made
      BY <1>1, <1>3, <2>1
    <3> HIDE DEF el, pkt
    <3> QED
      BY <3>1, <3>2, <3>3, <3>4 DEF Wants
  <2>4. [State EXCEPT !.page[p][k] = [made |-> TRUE, val |-> v, saved |-> save,
                                      pending |-> @.pending + 1]]
          = [State EXCEPT !.page[p] = el]
    BY <1>2 DEF State
  <2>5. Becomes(WantToCache([State EXCEPT !.page[p] = el], p, pkt, ok))
    BY <1>6, <2>4
  <2> HIDE DEF el, pkt
  <2> QED
    BY <1>1, <2>1, <2>2, <2>3, <2>5, DoWant
<1>7. ASSUME Becomes(State) PROVE Moves({})
  <2>1. State' = State
    BY <1>7, BecomesState DEF WiringInv
  <2> QED
    BY <1>1, <2>1, StillMoves
<1> QED
  BY <1>5, <1>6, <1>7 DEF SetValue

(* An element after the end of a batch.                                    *)
LEMMA BatchedType ==
  ASSUME NEW e \in PageEl, NEW v \in AnyValue
  PROVE  /\ Batched(e, v) \in PageEl /\ Batched(e, v).made = e.made
         /\ Batched(e, v).val = v /\ Batched(e, v).pending = e.pending + 1
<1>1. Batched(e, v) \in PageEl
  <2>1. ASSUME NEW s \in BOOLEAN
        PROVE  [e EXCEPT !.val = v, !.saved = s, !.pending = @ + 1] \in PageEl
    <3> DEFINE f == [e EXCEPT !.val = v, !.saved = s]
    <3>1. f \in PageEl
      BY DEF PageEl
    <3>2. [e EXCEPT !.val = v, !.saved = s, !.pending = @ + 1]
            = [f EXCEPT !.pending = @ + 1]
      BY DEF PageEl
    <3> HIDE DEF f
    <3>3. [f EXCEPT !.pending = @ + 1] \in PageEl
      BY <3>1 DEF PageEl
    <3> QED
      BY <3>2, <3>3
  <2>2. FALSE \in BOOLEAN
    OBVIOUS
  <2> QED
    BY <2>1, <2>2 DEF Batched
<1>2. Batched(e, v).made = e.made
  BY DEF Batched, PageEl
<1>3. Batched(e, v).val = v
  BY DEF Batched, PageEl
<1>4. Batched(e, v).pending = e.pending + 1
  BY DEF Batched, PageEl
<1> QED
  BY <1>1, <1>2, <1>3, <1>4

(* CValuePage::endBatch, of the outermost guard or not.                    *)
LEMMA DoEndBatch ==
  ASSUME WiringInv, NEW p \in Pages, EndBatch(p)
  PROVE  Moves({})
<1> USE CacheAssumption
<1> DEFINE vals == batch[p].vals
<1>1. synced' = synced
  BY DEF EndBatch
<1>2. page \in [Pages -> [Keys -> PageEl]] /\ page[p] \in [Keys -> PageEl]
  BY DEF WiringInv, States, State
<1>3. vals \in Maps /\ DOMAIN vals \subseteq Keys /\ \A k \in DOMAIN vals : vals[k] \in AnyValue
  BY MapsAre DEF WiringInv, RestOK, Batches
<1>4. \A k \in DOMAIN vals : page[p][k].made
  BY DEF WiringInv, BatchOK
<1>5. CASE batch[p].mode > 1 \/ DOMAIN vals = {}
  <2>1. Becomes(State)
    BY <1>5 DEF EndBatch
  <2>2. State' = State
    BY <2>1, BecomesState DEF WiringInv
  <2> QED
    BY <1>1, <2>2, StillMoves
<1>6. CASE ~ (batch[p].mode > 1 \/ DOMAIN vals = {})
  <2> DEFINE el == [k \in Keys |-> IF k \in DOMAIN vals THEN Batched(page[p][k], vals[k])
                                   ELSE page[p][k]]
             pkt == Packet(vals, FALSE, TRUE)
  <2>1. pkt \in Packets /\ pkt.vals = vals /\ pkt.changed = TRUE
    BY <1>3, PacketTyped
  <2>2. ASSUME NEW k \in Keys
        PROVE  /\ el[k] \in PageEl /\ el[k].made = page[p][k].made
               /\ IF k \in DOMAIN vals
                  THEN el[k].val = vals[k] /\ el[k].pending = page[p][k].pending + 1
                  ELSE el[k].val = page[p][k].val /\ el[k].pending = page[p][k].pending
    <3>1. page[p][k] \in PageEl
      BY <1>2
    <3>2. CASE k \in DOMAIN vals
      <4>1. el[k] = Batched(page[p][k], vals[k])
        BY <3>2
      <4>2. vals[k] \in AnyValue
        BY <1>3, <3>2
      <4>3. /\ Batched(page[p][k], vals[k]) \in PageEl
            /\ Batched(page[p][k], vals[k]).made = page[p][k].made
            /\ Batched(page[p][k], vals[k]).val = vals[k]
            /\ Batched(page[p][k], vals[k]).pending = page[p][k].pending + 1
        BY <3>1, <4>2, BatchedType
      <4> HIDE DEF el, vals
      <4> QED
        BY <3>2, <4>1, <4>3
    <3>3. CASE k \notin DOMAIN vals
      BY <3>1, <3>3
    <3> QED
      BY <3>2, <3>3
  <2>3. el \in [Keys -> PageEl]
    BY <2>2
  <2>4. Wants(page[p], el, pkt)
    <3>1. \A k : Carries(pkt, k) <=> k \in DOMAIN vals
      BY <2>1 DEF Carries
    <3> HIDE DEF el, pkt, vals
    <3> QED
      BY <1>4, <2>1, <2>2, <3>1 DEF Wants
  <2>5. Becomes(WantToCache(
          [State EXCEPT !.page[p] = [k \in Keys |-> IF k \in DOMAIN vals
                                                    THEN Batched(@[k], vals[k]) ELSE @[k]]],
          p, pkt, Keys))
    BY <1>6 DEF EndBatch
  <2>6. [State EXCEPT !.page[p] = [k \in Keys |-> IF k \in DOMAIN vals
                                                  THEN Batched(@[k], vals[k]) ELSE @[k]]]
          = [State EXCEPT !.page[p] = el]
    BY DEF State
  <2>7. Becomes(WantToCache([State EXCEPT !.page[p] = el], p, pkt, Keys))
    BY <2>5, <2>6
  <2> HIDE DEF el, pkt
  <2> QED
    BY <1>1, <2>1, <2>3, <2>4, <2>7, DoWant
<1> QED
  BY <1>5, <1>6

-----------------------------------------------------------------------------
(* A queued page change reaches its cache.                                 *)
LEMMA DoCacheTakes ==
  ASSUME WiringInv, NEW p \in Pages, NEW ok, CacheTakes(p, ok)
  PROVE  Moves({})
<1> DEFINE X == State
           Y == ChangeValues([X EXCEPT !.toCache[p] = Tail(@)], Home[p], Head(X.toCache[p]), p, ok)
<1>1. X \in States /\ WiredBut(X, Nobody, {})
  BY DEF WiringInv
<1>2. X.toCache = toCache
  BY DEF State
<1>3. X.toCache[p] # <<>> /\ synced' = synced
  BY <1>2 DEF CacheTakes
<1>4. Becomes(Y)
  BY <1>2 DEF CacheTakes
<1>5. StepFacts(X, synced, Y, synced, {})
  <2> HIDE DEF X
  <2> QED
    BY <1>1, <1>3, CacheTakesMoves
<1> HIDE DEF Y
<1> QED
  BY <1>3, <1>4, <1>5, ChainMoves

(* A queued broadcast reaches its page.                                    *)
LEMMA DoPageTakes ==
  ASSUME WiringInv, NEW p \in Pages, PageTakes(p)
  PROVE  Moves({})
<1> DEFINE X == State
           Y == [X EXCEPT !.page = [X.page EXCEPT ![p] = FromCache(@, p, Head(X.toPage[p]))],
                          !.toPage = [X.toPage EXCEPT ![p] = Tail(@)]]
<1>1. X \in States /\ WiredBut(X, Nobody, {})
  BY DEF WiringInv
<1>2. X.toPage = toPage /\ X.page = page
  BY DEF State
<1>3. X.toPage[p] # <<>> /\ synced' = synced
  BY <1>2 DEF PageTakes
<1>4. State' = Y
  <2> DEFINE P == [page EXCEPT ![p] = FromCache(@, p, Head(toPage[p]))]
             Q == [toPage EXCEPT ![p] = Tail(@)]
  <2>1. /\ page' = P /\ toPage' = Q
        /\ UNCHANGED <<cache, toCache, toCore, toProc, synced, disk, blame>>
    BY DEF PageTakes
  <2>2. Y = [X EXCEPT !.page = P, !.toPage = Q]
    BY <1>2
  <2> HIDE DEF P, Q, Y
  <2> QED
    BY <2>1, <2>2 DEF State
<1>5. StepFacts(X, synced, Y, synced, {})
  <2> HIDE DEF X
  <2> QED
    BY <1>1, <1>3, PageTakesMoves
<1> HIDE DEF Y
<1> QED
  BY <1>3, <1>4, <1>5 DEF Moves

(* The core serves changeSettings.                                         *)
LEMMA DoCoreTakes ==
  ASSUME WiringInv, NEW r \in Guis, NEW ok, CoreTakes(r, ok)
  PROVE  Moves({})
<1> DEFINE X == State
           Y == ChangeSettings([X EXCEPT !.toCore[r] = Tail(@)], Head(X.toCore[r]), r, ok)
<1>1. X \in States /\ WiredBut(X, Nobody, {})
  BY DEF WiringInv
<1>2. X.toCore = toCore
  BY DEF State
<1>3. X.toCore[r] # <<>> /\ synced' = synced
  BY <1>2 DEF CoreTakes
<1>4. Becomes(Y)
  BY <1>2 DEF CoreTakes
<1>5. StepFacts(X, synced, Y, synced, {})
  <2> HIDE DEF X
  <2> QED
    BY <1>1, <1>3, CoreTakesMoves
<1> HIDE DEF Y
<1> QED
  BY <1>3, <1>4, <1>5, ChainMoves

(* A GUI process receives settingsChanged.                                 *)
LEMMA DoProcTakes ==
  ASSUME WiringInv, NEW r \in Guis, ProcTakes(r)
  PROVE  Moves({r})
<1> DEFINE X == State
           m == Head(X.toProc[r])
           S == [X EXCEPT !.toProc[r] = Tail(@)]
           Y == ChangeValuesFromRemote(S, r, m.pkt, m.by, Keys)
<1>1. X \in States /\ WiredBut(X, Nobody, {})
  BY DEF WiringInv
<1>2. X.toProc = toProc
  BY DEF State
<1>3. X.toProc[r] # <<>> /\ synced' = synced /\ snap[r].st = "idle"
  BY <1>2 DEF ProcTakes, Ready
<1>4. Becomes(Y)
  BY <1>2 DEF ProcTakes
<1>5. StepFacts(X, synced, Y, synced, {r})
  <2>1. m = Head(X.toProc[r]) /\ S = [X EXCEPT !.toProc[r] = Tail(@)]
        /\ Y = ChangeValuesFromRemote(S, r, m.pkt, m.by, Keys)
    OBVIOUS
  <2> HIDE DEF X, m, S, Y
  <2> QED
    BY <1>1, <1>3, <2>1, ProcTakesMoves
<1> HIDE DEF Y
<1>6. Y \in States
  BY <1>5 DEF StepFacts
<1>7. State' = Y
  BY <1>4, <1>6, BecomesState
<1> QED
  BY <1>3, <1>5, <1>7 DEF Moves

(* A snapshot is applied.                                                  *)
LEMMA DoEndSync ==
  ASSUME WiringInv, NEW r \in Guis, EndSync(r)
  PROVE  Moves({})
<1> DEFINE X == State
           vals == snap[r].vals
           Y == ChangeValuesFromRemote(X, r, Packet(vals, FALSE, TRUE), Nobody, Keys)
<1>1. X \in States /\ WiredBut(X, Nobody, {})
  BY DEF WiringInv
<1>2. vals \in Maps
  BY DEF WiringInv, RestOK, Snaps
<1>3. synced' = synced \cup {r} /\ Becomes(Y)
  BY DEF EndSync
<1>4. \A k \in Keys : DownOf(X.toProc[r], k) = <<>> =>
        X.cache[Core][k].val = IF k \in DOMAIN vals THEN vals[k] ELSE Invalid
  BY DEF WiringInv, SnapOK, EndSync, State
<1>5. StepFacts(X, synced, Y, synced \cup {r}, {})
  <2> HIDE DEF X, vals
  <2> QED
    BY <1>1, <1>2, <1>4, EndSyncMoves
<1> HIDE DEF Y
<1> QED
  BY <1>3, <1>5, ChainMoves

(* A change that no page made.                                             *)
LEMMA DoChange ==
  ASSUME WiringInv, NEW r \in Procs, NEW pkt \in Packets, NEW ok, synced' = synced,
         Becomes(ChangeValues(State, r, pkt, Nobody, ok))
  PROVE  Moves({})
<1> DEFINE X == State
           Y == ChangeValues(X, r, pkt, Nobody, ok)
<1>1. X \in States /\ WiredBut(X, Nobody, {}) /\ Becomes(Y)
  BY DEF WiringInv
<1>2. StepFacts(X, synced, Y, synced, {})
  <2> HIDE DEF X
  <2> QED
    BY <1>1, HubMoves
<1> HIDE DEF Y
<1> QED
  BY <1>1, <1>2, ChainMoves

(* The core loads its files.                                               *)
LEMMA DoLoadFromStore ==
  ASSUME WiringInv, NEW K \in SUBSET Keys, NEW ok, LoadFromStore(K, ok)
  PROVE  Moves({})
<1> DEFINE differ == {k \in K : disk[k] # Invalid /\ disk[k] # cache[Core][k].val}
           vals == [k \in differ |-> disk[k]]
           pkt == Packet(vals, TRUE, TRUE)
<1>1. disk \in [Keys -> AnyValue]
  BY DEF WiringInv, States, State
<1>2. differ \subseteq Keys /\ vals \in [differ -> AnyValue]
  BY <1>1
<1>3. vals \in Maps
  BY <1>2, MapsIntro
<1>4. pkt \in Packets
  BY <1>3, PacketTyped
<1>5. Becomes(ChangeValues(State, Core, pkt, Nobody, ok)) /\ synced' = synced
  BY DEF LoadFromStore
<1> HIDE DEF pkt
<1> QED
  BY <1>4, <1>5, DoChange, CacheAssumption

(* A process clears its values.                                            *)
LEMMA DoClearAllValues ==
  ASSUME WiringInv, NEW r \in Procs, ClearAllValues(r)
  PROVE  Moves({})
<1> DEFINE valid == {k \in Keys : cache[r][k].val # Invalid}
           vals == [k \in valid |-> Invalid]
           pkt == Packet(vals, FALSE, TRUE)
<1>1. valid \subseteq Keys /\ vals \in [valid -> AnyValue]
  BY DEF AnyValue
<1>2. vals \in Maps
  BY <1>1, MapsIntro
<1>3. pkt \in Packets
  BY <1>2, PacketTyped
<1>4. Becomes(ChangeValues(State, r, pkt, Nobody, Keys)) /\ synced' = synced
  BY DEF ClearAllValues
<1> HIDE DEF pkt
<1> QED
  BY <1>3, <1>4, DoChange

(* The core writes its files: only saved flags change.                     *)
LEMMA DoSaveToStore ==
  ASSUME WiringInv, NEW K \in SUBSET Keys, NEW ok, SaveToStore(K, ok)
  PROVE  Moves({})
<1> USE CacheAssumption
<1> DEFINE X == State
           Y == State'
           valid == {k \in K : cache[Core][k].val # Invalid}
           written == valid \cap ok
           done == written = valid
<1>1. X \in States /\ WiredBut(X, Nobody, {})
  BY DEF WiringInv
<1>2. cache \in [Procs -> [Keys -> CacheEl]] /\ disk \in [Keys -> AnyValue]
      /\ blame \in [Keys -> SUBSET Reasons]
  BY <1>1 DEF States, State
<1>3. /\ disk' = [k \in Keys |-> IF k \in written THEN cache[Core][k].val ELSE disk[k]]
      /\ blame' = [k \in Keys |-> IF k \in written THEN {} ELSE blame[k]]
      /\ cache' = [cache EXCEPT ![Core] =
           [k \in Keys |-> IF k \in K /\ written = valid
                           THEN [cache[Core][k] EXCEPT !.saved = TRUE] ELSE cache[Core][k]]]
      /\ UNCHANGED <<page, toCache, toPage, toCore, toProc, synced>>
  BY DEF SaveToStore
<1> HIDE DEF written, valid
<1>4. ASSUME NEW k \in Keys, NEW e, e = [cache[Core][k] EXCEPT !.saved = TRUE]
      PROVE  e \in CacheEl /\ SameCache(cache[Core][k], e)
  <2>1. cache[Core][k] \in CacheEl
    BY <1>2
  <2>2. e \in CacheEl
    BY <1>4, <2>1 DEF CacheEl
  <2>3. e.val = cache[Core][k].val /\ e.pending = cache[Core][k].pending
    BY <1>4, <2>1 DEF CacheEl
  <2> QED
    BY <2>2, <2>3 DEF SameCache
<1>5. /\ cache' \in [Procs -> [Keys -> CacheEl]]
      /\ \A r \in Procs, k \in Keys : SameCache(cache[r][k], cache'[r][k])
  <2>1. ASSUME NEW k \in Keys
        PROVE  cache'[Core][k] \in CacheEl /\ SameCache(cache[Core][k], cache'[Core][k])
    <3>1. \/ cache'[Core][k] = cache[Core][k]
          \/ cache'[Core][k] = [cache[Core][k] EXCEPT !.saved = TRUE]
      BY <1>2, <1>3
    <3>2. cache[Core][k] \in CacheEl /\ SameCache(cache[Core][k], cache[Core][k])
      BY <1>2 DEF SameCache
    <3> QED
      BY <1>4, <3>1, <3>2
  <2>2. \A r \in Procs \ {Core} : cache'[r] = cache[r]
    BY <1>2, <1>3
  <2>3. \A r \in Procs, k \in Keys : SameCache(cache[r][k], cache'[r][k])
    BY <2>1, <2>2 DEF SameCache
  <2>4. cache' \in [Procs -> [Keys -> CacheEl]]
    <3> DEFINE row == [k \in Keys |-> IF k \in K /\ written = valid
                           THEN [cache[Core][k] EXCEPT !.saved = TRUE] ELSE cache[Core][k]]
    <3>1. row \in [Keys -> CacheEl]
      <4>1. \A k \in Keys : row[k] = cache'[Core][k]
        BY <1>2, <1>3
      <4>2. \A k \in Keys : row[k] \in CacheEl
        BY <2>1, <4>1
      <4> QED
        BY <4>2
    <3>2. cache' = [cache EXCEPT ![Core] = row]
      BY <1>3
    <3> HIDE DEF row
    <3> QED
      BY <1>2, <3>1, <3>2
  <2> QED
    BY <2>3, <2>4
<1>6. disk' \in [Keys -> AnyValue] /\ blame' \in [Keys -> SUBSET Reasons]
  <2>1. \A k \in Keys : cache[Core][k].val \in AnyValue
    BY <1>2 DEF CacheEl
  <2> QED
    BY <1>2, <1>3, <2>1
<1>7. /\ Y.page = X.page /\ Y.toCache = X.toCache /\ Y.toPage = X.toPage
      /\ Y.toCore = X.toCore /\ Y.toProc = X.toProc
      /\ \A r \in Procs, k \in Keys : SameCache(X.cache[r][k], Y.cache[r][k])
  BY <1>3, <1>5 DEF State
<1>8. Y \in States
  BY <1>1, <1>3, <1>5, <1>6 DEF States, State
<1>9. StepFacts(X, synced, Y, synced, {})
  <2> HIDE DEF X, Y
  <2> QED
    BY <1>1, <1>7, <1>8, NoMoves
<1> QED
  BY <1>3, <1>9 DEF Moves

-----------------------------------------------------------------------------
(* The invariant holds in the initial states,                              *)
LEMMA InitWiring == Init => WiringInv
<1> SUFFICES ASSUME Init PROVE WiringInv
  OBVIOUS
<1> USE CacheAssumption
<1>1. NoElement \in PageEl
  BY DEF NoElement, PageEl, AnyValue
<1>e. ~ NoElement.made /\ NoElement.pending = 0
  BY DEF NoElement
<1>c. [val |-> Invalid, saved |-> FALSE, pending |-> 0] \in CacheEl
  BY DEF CacheEl, AnyValue
<1>2. Empty \in Maps /\ DOMAIN Empty = {}
  <2>1. {} \subseteq Keys /\ Empty \in [{} -> AnyValue]
    BY DEF Empty
  <2> QED
    BY <2>1, MapsIntro
<1>3. State \in States
  <2>1. page \in [Pages -> [Keys -> PageEl]]
    BY <1>1 DEF Init
  <2>c. cache \in [Procs -> [Keys -> CacheEl]]
    BY <1>c DEF Init
  <2>2. /\ toCache \in [Pages -> Seq(Packets)] /\ toPage \in [Pages -> Seq(PageMsgs)]
        /\ toCore \in [Guis -> Seq(Packets)] /\ toProc \in [Guis -> Seq(Messages(Procs))]
    BY EmptySeq DEF Init
  <2>3. disk \in [Keys -> AnyValue] /\ blame \in [Keys -> SUBSET Reasons]
    BY DEF Init, AnyValue
  <2> QED
    BY <2>1, <2>c, <2>2, <2>3 DEF State, States
<1>4. WiredBut(State, Nobody, {})
  <2>1. \A p \in Pages, k \in Keys : page[p][k] = NoElement
    BY DEF Init
  <2>2. \A k \in Keys : cache[Core][k].pending = 0
    BY DEF Init
  <2>3. \A p \in Pages : toCache[p] = <<>> /\ toPage[p] = <<>>
    BY DEF Init
  <2>4. \A p \in MainPages : p \in Pages
    OBVIOUS
  <2>5. \A A : <<>> \in Seq(A)
    BY EmptySeq
  <2> QED
    BY <1>e, <2>1, <2>2, <2>3, <2>4, <2>5 DEF WiredBut, State
<1>5. RestOK
  <2>1. batch \in [Pages -> Batches]
    BY <1>2 DEF Init, Batches
  <2>2. snap \in [Guis -> Snaps]
    BY <1>2 DEF Init, Idle, Snaps
  <2> QED
    BY <2>1, <2>2 DEF RestOK, Init
<1>6. BatchOK
  BY <1>2 DEF BatchOK, Init
<1>7. SnapOK
  BY DEF SnapOK, Init, Idle
<1> QED
  BY <1>3, <1>4, <1>5, <1>6, <1>7 DEF WiringInv

-----------------------------------------------------------------------------
(* and every step keeps it.                                                *)
LEMMA WiringKept ==
  ASSUME WiringInv, NEW N, Moves(N), RestOK', BatchOK', SnapOK'
  PROVE  WiringInv' /\ \E M : Moves(M)
<1>1. State' \in States /\ WiredBut(State', Nobody, {})
  BY DEF Moves, StepFacts
<1> QED
  BY <1>1 DEF WiringInv

(* A step that leaves batches, snapshots and the number of syncs alone.    *)
LEMMA PlainStep ==
  ASSUME WiringInv, NEW N, Moves(N), UNCHANGED <<batch, snap, synced>>,
         changes' \in 0..MaxChanges, syncs' \in 0..MaxSyncs
  PROVE  WiringInv' /\ \E M : Moves(M)
<1>1. RestOK'
  BY DEF WiringInv, RestOK
<1>2. BatchOK'
  BY BatchKept
<1>3. SnapOK'
  BY SnapKept
<1> QED
  BY <1>1, <1>2, <1>3, WiringKept

(* A counted change stays within the bound.                                *)
LEMMA ChangeCounted ==
  ASSUME RestOK, CountChange
  PROVE  changes' \in 0..MaxChanges /\ syncs' \in 0..MaxSyncs
BY CacheAssumption DEF RestOK, CountChange

(* The same for a step that changes a batch only.                          *)
LEMMA BatchStep ==
  ASSUME WiringInv, NEW N, Moves(N), UNCHANGED <<snap, synced>>,
         changes' \in 0..MaxChanges, syncs' \in 0..MaxSyncs,
         NEW p \in Pages, NEW b \in Batches, batch' = [batch EXCEPT ![p] = b],
         \A k \in DOMAIN b.vals : k \in DOMAIN batch[p].vals \/ page[p][k].made
  PROVE  WiringInv' /\ \E M : Moves(M)
<1>0. batch \in [Pages -> Batches]
  BY DEF WiringInv, RestOK
<1>1. RestOK'
  BY <1>0 DEF WiringInv, RestOK
<1>2. BatchOK'
  <2>1. \A d \in Pages, k \in Keys : page[d][k].made => page'[d][k].made
    BY DEF Moves, StepFacts, State
  <2>2. \A d \in Pages \ {p} : batch'[d] = batch[d]
    BY <1>0
  <2>3. batch'[p] = b
    BY <1>0
  <2>4. \A d \in Pages : \A k \in DOMAIN batch[d].vals : k \in Keys /\ page[d][k].made
    BY <1>0, MapsAre DEF WiringInv, BatchOK, Batches
  <2>5. \A k \in DOMAIN b.vals : k \in Keys
    BY MapsAre DEF Batches
  <2>6. ASSUME NEW d \in Pages, NEW k \in DOMAIN batch'[d].vals PROVE page'[d][k].made
    <3>1. CASE d = p
      BY <2>1, <2>3, <2>4, <2>5, <3>1
    <3>2. CASE d # p
      BY <2>1, <2>2, <2>4, <3>2
    <3> QED
      BY <3>1, <3>2
  <2> QED
    BY <2>6 DEF BatchOK
<1>3. SnapOK'
  BY SnapKept
<1> QED
  BY <1>1, <1>2, <1>3, WiringKept

(* The record of a batch with one more value, or another depth.            *)
LEMMA BatchRecord ==
  ASSUME NEW m \in 0..MaxNesting, NEW vals \in Maps
  PROVE  [mode |-> m, vals |-> vals] \in Batches
BY DEF Batches

(* The empty map.                                                          *)
LEMMA EmptyMap == Empty \in Maps /\ DOMAIN Empty = {}
<1>1. {} \subseteq Keys /\ Empty \in [{} -> AnyValue]
  BY DEF Empty
<1> QED
  BY <1>1, MapsIntro

(* CVariantMap::insert yields a map.                                       *)
LEMMA InsertedMap ==
  ASSUME NEW vals \in Maps, NEW k \in Keys, NEW v \in AnyValue
  PROVE  Inserted(vals, k, v) \in Maps /\ DOMAIN Inserted(vals, k, v) = DOMAIN vals \cup {k}
<1>1. DOMAIN vals \subseteq Keys /\ \A j \in DOMAIN vals : vals[j] \in AnyValue
  BY MapsAre
<1>2. Inserted(vals, k, v) \in [DOMAIN vals \cup {k} -> AnyValue]
  BY <1>1 DEF Inserted
<1>3. DOMAIN vals \cup {k} \subseteq Keys
  BY <1>1
<1> QED
  BY <1>2, <1>3, MapsIntro

-----------------------------------------------------------------------------
(* setValue keeps the invariant.                                           *)
LEMMA SetValueKeeps ==
  ASSUME WiringInv, NEW p \in Pages, NEW k \in Keys, NEW v \in Values, NEW save \in BOOLEAN,
         NEW ok, SetValue(p, k, v, save, ok)
  PROVE  WiringInv' /\ \E M : Moves(M)
<1>1. Moves({})
  BY DoSetValue
<1>2. UNCHANGED <<snap, synced>>
  BY DEF SetValue
<1>3. RestOK
  BY DEF WiringInv
<1>4. CASE UNCHANGED batch /\ CountChange
  BY <1>1, <1>2, <1>3, <1>4, ChangeCounted, PlainStep
<1>5. CASE batch' = [batch EXCEPT ![p].vals = Inserted(@, k, v)] /\ UNCHANGED <<changes, syncs>>
  <2> DEFINE b == [mode |-> batch[p].mode, vals |-> Inserted(batch[p].vals, k, v)]
  <2>1. batch[p] \in Batches /\ batch \in [Pages -> Batches]
    BY <1>3 DEF RestOK
  <2>2. /\ Inserted(batch[p].vals, k, v) \in Maps
        /\ DOMAIN Inserted(batch[p].vals, k, v) = DOMAIN batch[p].vals \cup {k}
    <3>1. batch[p].vals \in Maps /\ v \in AnyValue
      BY <2>1 DEF Batches, AnyValue
    <3> QED
      BY <3>1, InsertedMap
  <2>3. b \in Batches
    <3>1. batch[p].mode \in 0..MaxNesting
      BY <2>1 DEF Batches
    <3> QED
      BY <2>2, <3>1, BatchRecord
  <2>4. batch' = [batch EXCEPT ![p] = b]
    <3>1. batch' = [batch EXCEPT ![p] = [batch[p] EXCEPT !.vals = Inserted(batch[p].vals, k, v)]]
      BY <1>5, <2>1
    <3>2. [batch[p] EXCEPT !.vals = Inserted(batch[p].vals, k, v)] = b
      BY <2>1 DEF Batches
    <3> QED
      BY <3>1, <3>2
  <2>5. b.vals = Inserted(batch[p].vals, k, v)
    OBVIOUS
  <2>6. \A j \in DOMAIN b.vals : j \in DOMAIN batch[p].vals \/ page[p][j].made
    BY <2>2, <2>5 DEF SetValue
  <2>7. changes' \in 0..MaxChanges /\ syncs' \in 0..MaxSyncs
    BY <1>3, <1>5 DEF RestOK
  <2> HIDE DEF b
  <2> QED
    BY <1>1, <1>2, <2>3, <2>4, <2>6, <2>7, BatchStep
<1> QED
  BY <1>4, <1>5 DEF SetValue

(* BatchGuards keep it.                                                    *)
LEMMA BatchesKeep ==
  ASSUME WiringInv, NEW p \in Pages, BeginBatch(p) \/ AbandonBatch(p) \/ EndBatch(p)
  PROVE  WiringInv' /\ \E M : Moves(M)
<1>0. RestOK /\ batch[p] \in Batches /\ batch \in [Pages -> Batches]
  BY DEF WiringInv, RestOK
<1>1. batch[p].mode \in 0..MaxNesting /\ batch[p].vals \in Maps
  BY <1>0 DEF Batches
<1>2. UNCHANGED <<snap, synced>>
  BY DEF BeginBatch, AbandonBatch, EndBatch
<1>3. Moves({})
  <2>1. ASSUME UNCHANGED <<page, cache, toCache, toPage, toCore, toProc, disk, blame>>
        PROVE  State' = State
    BY <2>1 DEF State
  <2>2. CASE BeginBatch(p) \/ AbandonBatch(p)
    BY <1>2, <2>1, <2>2, StillMoves DEF BeginBatch, AbandonBatch
  <2>3. CASE EndBatch(p)
    BY <2>3, DoEndBatch
  <2> QED
    BY <2>2, <2>3
<1>4. changes' \in 0..MaxChanges /\ syncs' \in 0..MaxSyncs
  <2>1. UNCHANGED <<changes, syncs>> \/ CountChange
    BY DEF BeginBatch, AbandonBatch, EndBatch
  <2> QED
    BY <1>0, <2>1, ChangeCounted DEF RestOK
<1>5. CASE BeginBatch(p)
  <2> DEFINE W == IF batch[p].mode <= 0 THEN Empty ELSE batch[p].vals
             b == [mode |-> batch[p].mode + 1, vals |-> W]
  <2>1. W \in Maps /\ \A j \in DOMAIN W : j \in DOMAIN batch[p].vals
    BY <1>1, EmptyMap
  <2>2. batch[p].mode + 1 \in 0..MaxNesting
    BY <1>1, <1>5, CacheAssumption DEF BeginBatch
  <2>3. batch' = [batch EXCEPT ![p] = b]
    BY <1>0, <1>5 DEF BeginBatch
  <2>4. b.vals = W
    OBVIOUS
  <2> HIDE DEF W
  <2>5. b \in Batches
    BY <2>1, <2>2, BatchRecord
  <2> HIDE DEF b
  <2> QED
    BY <1>2, <1>3, <1>4, <2>1, <2>3, <2>4, <2>5, BatchStep
<1>6. CASE AbandonBatch(p) \/ EndBatch(p)
  <2> DEFINE b == [mode |-> batch[p].mode - 1, vals |-> batch[p].vals]
  <2>1. batch[p].mode > 0 /\ batch' = [batch EXCEPT ![p].mode = @ - 1]
    BY <1>6 DEF AbandonBatch, EndBatch
  <2>2. batch[p].mode - 1 \in 0..MaxNesting
    BY <1>1, <2>1, CacheAssumption
  <2>3. batch' = [batch EXCEPT ![p] = b]
    <3>1. batch' = [batch EXCEPT ![p] = [batch[p] EXCEPT !.mode = batch[p].mode - 1]]
      BY <1>0, <2>1
    <3>2. [batch[p] EXCEPT !.mode = batch[p].mode - 1] = b
      BY <1>0 DEF Batches
    <3> QED
      BY <3>1, <3>2
  <2>4. b.vals = batch[p].vals
    OBVIOUS
  <2>5. b \in Batches
    BY <1>1, <2>2, BatchRecord
  <2> HIDE DEF b
  <2> QED
    BY <1>2, <1>3, <1>4, <2>3, <2>4, <2>5, BatchStep
<1> QED
  BY <1>5, <1>6

(* Asking for the core's values, and the answer.                           *)
LEMMA AskingKeeps ==
  ASSUME WiringInv, NEW r \in Guis, BeginSync(r) \/ GetAllSettings(r)
  PROVE  WiringInv' /\ \E M : Moves(M)
<1>0. RestOK /\ snap \in [Guis -> Snaps] /\ snap[r] \in Snaps
  BY DEF WiringInv, RestOK
<1>1. UNCHANGED <<page, batch, cache, toCache, toPage, toCore, toProc, synced, disk, blame, changes>>
  BY DEF BeginSync, GetAllSettings
<1>2. Moves({})
  <2>1. State' = State
    BY <1>1 DEF State
  <2> QED
    BY <1>1, <2>1, StillMoves
<1>3. BatchOK'
  BY <1>1, <1>2, BatchKept
<1>4. CASE BeginSync(r)
  <2>1. /\ snap' = [snap EXCEPT ![r].st = "asked"]
        /\ syncs < MaxSyncs /\ syncs' = syncs + 1
    BY <1>4 DEF BeginSync
  <2>2. snap'[r].st = "asked" /\ snap'[r].vals = snap[r].vals
        /\ \A g \in Guis \ {r} : snap'[g] = snap[g]
    BY <1>0, <2>1 DEF Snaps
  <2>3. snap' \in [Guis -> Snaps]
    BY <1>0, <2>1 DEF Snaps
  <2>4. syncs' \in 0..MaxSyncs
    BY <1>0, <2>1, CacheAssumption DEF RestOK
  <2>5. RestOK'
    BY <1>0, <1>1, <2>3, <2>4 DEF RestOK
  <2>6. SnapOK'
    BY <1>2, <2>2, SnapKept
  <2> QED
    BY <1>2, <1>3, <2>5, <2>6, WiringKept
<1>5. CASE GetAllSettings(r)
  <2> DEFINE valid == {k \in Keys : cache[Core][k].val # Invalid}
             vals == [k \in valid |-> cache[Core][k].val]
             s == [st |-> "answered", vals |-> vals]
  <2>1. snap' = [snap EXCEPT ![r] = s] /\ syncs' = syncs
    BY <1>5 DEF GetAllSettings
  <2>2. cache \in [Procs -> [Keys -> CacheEl]]
    BY DEF WiringInv, States, State
  <2>3. vals \in [valid -> AnyValue] /\ valid \subseteq Keys
    BY <2>2, CacheAssumption DEF CacheEl
  <2>4. vals \in Maps /\ DOMAIN vals = valid
    BY <2>3, MapsIntro
  <2>5. \A k \in Keys : cache[Core][k].val = IF k \in DOMAIN vals THEN vals[k] ELSE Invalid
    OBVIOUS
  <2>6. s.vals = vals /\ s.st = "answered"
    OBVIOUS
  <2> HIDE DEF vals
  <2>7. s \in Snaps
    BY <2>4 DEF Snaps
  <2> HIDE DEF s
  <2>8. snap' \in [Guis -> Snaps]
    BY <1>0, <2>1, <2>7
  <2>9. RestOK'
    BY <1>0, <1>1, <2>1, <2>8 DEF RestOK
  <2>10. SnapOK'
    <3>1. snap'[r] = s /\ \A g \in Guis \ {r} : snap'[g] = snap[g]
      BY <1>0, <2>1
    <3>2. toProc' = toProc /\ cache' = cache
      BY <1>1
    <3>3. ASSUME NEW g \in Guis, snap'[g].st = "answered", NEW k \in Keys,
                 DownOf(toProc'[g], k) = <<>>
          PROVE  cache'[Core][k].val =
                   IF k \in DOMAIN snap'[g].vals THEN snap'[g].vals[k] ELSE Invalid
      <4>1. CASE g = r
        BY <2>5, <2>6, <3>1, <3>2, <4>1
      <4>2. CASE g # r
        BY <3>1, <3>2, <3>3, <4>2 DEF WiringInv, SnapOK
      <4> QED
        BY <4>1, <4>2
    <3> QED
      BY <3>3 DEF SnapOK
  <2> QED
    BY <1>2, <1>3, <2>9, <2>10, WiringKept
<1> QED
  BY <1>4, <1>5

(* The end of a synchronization keeps it.                                  *)
LEMMA EndSyncKeeps ==
  ASSUME WiringInv, NEW r \in Guis, EndSync(r)
  PROVE  WiringInv' /\ \E M : Moves(M)
<1>0. RestOK /\ snap \in [Guis -> Snaps]
  BY DEF WiringInv, RestOK
<1>1. Moves({})
  BY DoEndSync
<1>2. /\ snap' = [snap EXCEPT ![r] = Idle] /\ synced' = synced \cup {r}
      /\ UNCHANGED <<batch, changes, syncs>>
  BY DEF EndSync
<1>3. Idle \in Snaps /\ Idle.st = "idle"
  BY EmptyMap DEF Idle, Snaps
<1>4. RestOK'
  BY <1>0, <1>2, <1>3 DEF RestOK
<1>5. BatchOK'
  BY <1>1, <1>2, BatchKept
<1>6. SnapOK'
  <2>1. \A g \in Guis : snap'[g].st = "answered" => snap'[g] = snap[g]
    BY <1>0, <1>2, <1>3
  <2> QED
    BY <1>1, <2>1, SnapKept
<1> QED
  BY <1>1, <1>4, <1>5, <1>6, WiringKept

(* Every step keeps it, and is a move of every page and every process.     *)
LEMMA WiringStep ==
  ASSUME WiringInv, [Next]_vars
  PROVE  WiringInv' /\ \E M : Moves(M)
<1>0. RestOK
  BY DEF WiringInv
<1>1. ASSUME UNCHANGED <<changes, syncs>> \/ CountChange
      PROVE  changes' \in 0..MaxChanges /\ syncs' \in 0..MaxSyncs
  BY <1>0, <1>1, ChangeCounted DEF RestOK
<1>2. CASE UNCHANGED vars
  <2>1. State' = State /\ synced' = synced
    BY <1>2 DEF vars, State
  <2>2. Moves({})
    BY <2>1, StillMoves
  <2>3. UNCHANGED <<batch, snap, synced>> /\ UNCHANGED <<changes, syncs>>
    BY <1>2 DEF vars
  <2> QED
    BY <1>1, <2>2, <2>3, PlainStep
<1>3. ASSUME NEW p \in Pages, PageStep(p) PROVE WiringInv' /\ \E M : Moves(M)
  <2>1. ASSUME NEW k \in Keys, CreateElement(p, k) PROVE WiringInv' /\ \E M : Moves(M)
    <3>1. Moves({})
      BY <2>1, DoCreateElement
    <3>2. UNCHANGED <<batch, snap, synced>> /\ UNCHANGED <<changes, syncs>>
      BY <2>1 DEF CreateElement
    <3> QED
      BY <1>1, <3>1, <3>2, PlainStep
  <2>2. ASSUME NEW k \in Keys, NEW v \in Values, NEW save \in BOOLEAN, NEW ok,
               SetValue(p, k, v, save, ok)
        PROVE  WiringInv' /\ \E M : Moves(M)
    BY <2>2, SetValueKeeps
  <2>3. ASSUME BeginBatch(p) \/ AbandonBatch(p) \/ EndBatch(p)
        PROVE  WiringInv' /\ \E M : Moves(M)
    BY <2>3, BatchesKeep
  <2> QED
    BY <1>3, <2>1, <2>2, <2>3 DEF PageStep
<1>4. ASSUME NEW p \in Pages, PageTakes(p) PROVE WiringInv' /\ \E M : Moves(M)
  <2>1. Moves({})
    BY <1>4, DoPageTakes
  <2>2. UNCHANGED <<batch, snap, synced>> /\ UNCHANGED <<changes, syncs>>
    BY <1>4 DEF PageTakes
  <2> QED
    BY <1>1, <2>1, <2>2, PlainStep
<1>5. ASSUME NEW p \in Pages, CacheStep(p) PROVE WiringInv' /\ \E M : Moves(M)
  <2> PICK ok : CacheTakes(p, ok)
    BY <1>5 DEF CacheStep
  <2>1. Moves({})
    BY DoCacheTakes
  <2>2. UNCHANGED <<batch, snap, synced>> /\ UNCHANGED <<changes, syncs>>
    BY DEF CacheTakes
  <2> QED
    BY <1>1, <2>1, <2>2, PlainStep
<1>6. ASSUME NEW r \in Guis, GuiStep(r) PROVE WiringInv' /\ \E M : Moves(M)
  <2>1. CASE ProcTakes(r)
    <3>1. Moves({r})
      BY <2>1, DoProcTakes
    <3>2. UNCHANGED <<batch, snap, synced>> /\ UNCHANGED <<changes, syncs>>
      BY <2>1 DEF ProcTakes
    <3> QED
      BY <1>1, <3>1, <3>2, PlainStep
  <2>2. CASE BeginSync(r) \/ GetAllSettings(r)
    BY <2>2, AskingKeeps
  <2>3. CASE EndSync(r)
    BY <2>3, EndSyncKeeps
  <2>4. CASE CoreStep(r)
    <3> PICK ok : CoreTakes(r, ok)
      BY <2>4 DEF CoreStep
    <3>1. Moves({})
      BY DoCoreTakes
    <3>2. UNCHANGED <<batch, snap, synced>> /\ UNCHANGED <<changes, syncs>>
      BY DEF CoreTakes
    <3> QED
      BY <1>1, <3>1, <3>2, PlainStep
  <2> QED
    BY <1>6, <2>1, <2>2, <2>3, <2>4 DEF GuiStep
<1>7. CASE StoreStep
  <2>1. ASSUME NEW K \in SUBSET Keys, NEW ok, LoadFromStore(K, ok)
        PROVE  WiringInv' /\ \E M : Moves(M)
    <3>1. Moves({})
      BY <2>1, DoLoadFromStore
    <3>2. UNCHANGED <<batch, snap, synced>> /\ CountChange
      BY <2>1 DEF LoadFromStore
    <3> QED
      BY <1>1, <3>1, <3>2, PlainStep
  <2>2. ASSUME NEW K \in SUBSET Keys, NEW ok, SaveToStore(K, ok)
        PROVE  WiringInv' /\ \E M : Moves(M)
    <3>1. Moves({})
      BY <2>2, DoSaveToStore
    <3>2. UNCHANGED <<batch, snap, synced>> /\ UNCHANGED <<changes, syncs>>
      BY <2>2 DEF SaveToStore
    <3> QED
      BY <1>1, <3>1, <3>2, PlainStep
  <2>3. ASSUME NEW r \in Procs, ClearAllValues(r) PROVE WiringInv' /\ \E M : Moves(M)
    <3>1. Moves({})
      BY <2>3, DoClearAllValues
    <3>2. UNCHANGED <<batch, snap, synced>> /\ CountChange
      BY <2>3 DEF ClearAllValues
    <3> QED
      BY <1>1, <3>1, <3>2, PlainStep
  <2> QED
    BY <1>7, <2>1, <2>2, <2>3 DEF StoreStep
<1> QED
  BY <1>2, <1>3, <1>4, <1>5, <1>6, <1>7 DEF Next

-----------------------------------------------------------------------------
(***************************************************************************)
(* Every page is a client of its cache, and every cache of the core, for   *)
(* which EchoClient's invariant holds.                                     *)
(***************************************************************************)
AllRight ==
  /\ \A p \in Pages, k \in Keys : Right(p, Accepts[p], PageView(State, p, k))
  /\ \A r \in Procs, k \in Keys : Right(r, Values, ProcView(State, synced, r, k))

CacheInv == WiringInv /\ AllRight

(* A client with nothing in flight.                                        *)
LEMMA QuietRight ==
  ASSUME NEW c, NEW A, NEW x, x.pending = 0, x.up = <<>>, x.down = <<>>,
         c \in x.attached => x.val = x.hub
  PROVE  Right(c, A, x)
<1>1. OwnOf(<<>>, c) = {} /\ Len(<<>>) = 0
  BY DEF OwnOf
<1>3. OwnOf(x.down, c) = {} /\ Len(x.up) = 0
  BY <1>1
<1>2. Cardinality(OwnOf(x.down, c)) = 0
  BY <1>3, FS_EmptySet
<1>4. x.pending = Len(x.up) + Cardinality(OwnOf(x.down, c))
  BY <1>2, <1>3
<1> QED
  BY <1>3, <1>4 DEF Right

(* In the initial states every client is right.                            *)
LEMMA InitRight == ASSUME Init PROVE AllRight
<1>1. ASSUME NEW p \in Pages, NEW k \in Keys
      PROVE  Right(p, Accepts[p], PageView(State, p, k))
  <2> DEFINE x == PageView(State, p, k)
  <2>1. ~ NoElement.made /\ NoElement.pending = 0
    BY DEF NoElement
  <2>2. page[p][k] = NoElement /\ toCache[p] = <<>> /\ toPage[p] = <<>>
    BY DEF Init
  <2>3. /\ x.pending = page[p][k].pending /\ x.up = UpOf(toCache[p], k)
        /\ x.down = DownOf(toPage[p], k)
        /\ x.attached = {q \in PagesOf(Home[p]) : page[q][k].made}
    BY DEF PageView, State
  <2> HIDE DEF x
  <2>4. x.pending = 0 /\ x.up = <<>> /\ x.down = <<>> /\ p \notin x.attached
    BY <2>1, <2>2, <2>3, NothingThrough
  <2>5. Right(p, Accepts[p], x)
    BY <2>4, QuietRight
  <2> QED
    BY <2>5 DEF x
<1>2. ASSUME NEW r \in Procs, NEW k \in Keys
      PROVE  Right(r, Values, ProcView(State, synced, r, k))
  <2> DEFINE x == ProcView(State, synced, r, k)
  <2>1. cache[r][k].pending = 0 /\ synced = {} /\ (r # Core => toCore[r] = <<>> /\ toProc[r] = <<>>)
    BY DEF Init, Guis
  <2>2. /\ x.pending = cache[r][k].pending /\ x.val = cache[r][k].val
        /\ x.hub = cache[Core][k].val
        /\ x.up = IF r = Core THEN <<>> ELSE UpOf(toCore[r], k)
        /\ x.down = IF r = Core THEN <<>> ELSE DownOf(toProc[r], k)
        /\ x.attached = synced \cup {Core}
    BY DEF ProcView, State
  <2> HIDE DEF x
  <2>3. x.pending = 0 /\ x.up = <<>> /\ x.down = <<>> /\ (r \in x.attached => x.val = x.hub)
    BY <2>1, <2>2, NothingThrough
  <2>4. Right(r, Values, x)
    BY <2>3, QuietRight
  <2> QED
    BY <2>4 DEF x
<1> QED
  BY <1>1, <1>2 DEF AllRight

(* To every page and every process a step is one of EchoClient.            *)
LEMMA StepsOfClients ==
  ASSUME CacheInv, [Next]_vars
  PROVE  /\ WiringInv'
         /\ \A p \in Pages, k \in Keys :
              /\ PageView(State, p, k) \in PageViews /\ PageView(State', p, k) \in PageViews
              /\ ClientStep(p, Accepts[p], Pages \cup {Nobody},
                            PageView(State, p, k), PageView(State', p, k))
         /\ \A r \in Procs, k \in Keys :
              /\ ProcView(State, synced, r, k) \in ProcViews
              /\ ProcView(State', synced', r, k) \in ProcViews
              /\ ClientStep(r, Values, Procs,
                            ProcView(State, synced, r, k), ProcView(State', synced', r, k))
<1> USE CacheAssumption
<1>1. WiringInv /\ WiringInv' /\ \E M : Moves(M)
  BY WiringStep DEF CacheInv
<1>2. PICK N : Moves(N)
  BY <1>1
<1> DEFINE X == State
           Y == State'
           A == synced
           B == synced'
<1>3. X \in States /\ Y \in States /\ A \in SUBSET Guis /\ B \in SUBSET Guis
  BY <1>1 DEF WiringInv, RestOK
<1>4. /\ \A r \in Procs, k \in Keys : PageMoves(X, Y, r, k)
      /\ \A k \in Keys : ProcMoves(X, A, Y, B, N, k)
  BY <1>2 DEF Moves, StepFacts
<1> HIDE DEF X, Y, A, B
<1>5. ASSUME NEW p \in Pages, NEW k \in Keys
      PROVE  /\ PageView(X, p, k) \in PageViews /\ PageView(Y, p, k) \in PageViews
             /\ ClientStep(p, Accepts[p], Pages \cup {Nobody}, PageView(X, p, k), PageView(Y, p, k))
  <2>1. PageMoves(X, Y, Home[p], k)
    BY <1>4
  <2>2. PageView(X, p, k) \in PageViews /\ PageView(Y, p, k) \in PageViews
    BY <1>3, ViewsTyped
  <2>3. ClientStep(p, Accepts[p], Pages \cup {Nobody}, PageView(X, p, k), PageView(Y, p, k))
    BY <2>1, PageMovesAreSteps
  <2> QED
    BY <2>2, <2>3
<1>6. ASSUME NEW r \in Procs, NEW k \in Keys
      PROVE  /\ ProcView(X, A, r, k) \in ProcViews /\ ProcView(Y, B, r, k) \in ProcViews
             /\ ClientStep(r, Values, Procs, ProcView(X, A, r, k), ProcView(Y, B, r, k))
  <2>1. ProcMoves(X, A, Y, B, N, k)
    BY <1>4
  <2>2. ProcView(X, A, r, k) \in ProcViews /\ ProcView(Y, B, r, k) \in ProcViews
    BY <1>3, ViewsTyped
  <2>3. ClientStep(r, Values, Procs, ProcView(X, A, r, k), ProcView(Y, B, r, k))
    BY <2>1, ProcMovesAreSteps
  <2> QED
    BY <2>2, <2>3
<1> QED
  BY <1>1, <1>5, <1>6 DEF X, Y, A, B

(* Every step keeps every client right: EchoClient says so.                *)
LEMMA RightStep == CacheInv /\ [Next]_vars => CacheInv'
<1> SUFFICES ASSUME CacheInv, [Next]_vars PROVE CacheInv'
  OBVIOUS
<1>1. ASSUME NEW p \in Pages, NEW k \in Keys
      PROVE  Right(p, Accepts[p], PageView(State', p, k))
  <2> DEFINE x == PageView(State, p, k)
             y == PageView(State', p, k)
             B == Pages \cup {Nobody}
  <2>1. x \in PageViews /\ y \in PageViews /\ ClientStep(p, Accepts[p], B, x, y)
    BY StepsOfClients
  <2>2. Right(p, Accepts[p], x)
    BY DEF CacheInv, AllRight
  <2> HIDE DEF x, y, B
  <2>3. Right(p, Accepts[p], y)
    BY <2>1, <2>2, StepKeepsRight DEF PageViews, B
  <2> QED
    BY <2>3 DEF y
<1>2. ASSUME NEW r \in Procs, NEW k \in Keys
      PROVE  Right(r, Values, ProcView(State', synced', r, k))
  <2> DEFINE x == ProcView(State, synced, r, k)
             y == ProcView(State', synced', r, k)
  <2>1. x \in ProcViews /\ y \in ProcViews /\ ClientStep(r, Values, Procs, x, y)
    BY StepsOfClients
  <2>2. Right(r, Values, x)
    BY DEF CacheInv, AllRight
  <2> HIDE DEF x, y
  <2>3. Right(r, Values, y)
    BY <2>1, <2>2, StepKeepsRight DEF ProcViews
  <2> QED
    BY <2>3 DEF y
<1>3. WiringInv'
  BY StepsOfClients
<1>4. AllRight'
  BY <1>1, <1>2 DEF AllRight
<1> QED
  BY <1>3, <1>4 DEF CacheInv

(***************************************************************************)
(* THE INVARIANT.  The wiring is as it should be, batches and snapshots    *)
(* hold what they should, and every page and every process is right.       *)
(***************************************************************************)
THEOREM CacheInvHolds == Spec => []CacheInv
<1>1. Init => CacheInv
  BY InitWiring, InitRight DEF CacheInv
<1> QED
  BY <1>1, RightStep, PTL DEF Spec

-----------------------------------------------------------------------------
(* The counters are natural numbers.                                       *)
LEMMA CountersNat ==
  ASSUME CacheInv
  PROVE  /\ \A p \in Pages, k \in Keys : page[p][k].pending \in Nat
         /\ \A r \in Procs, k \in Keys : cache[r][k].pending \in Nat
<1>1. State \in States /\ synced \in SUBSET Guis
  BY DEF CacheInv, WiringInv, RestOK
<1>2. ASSUME NEW p \in Pages, NEW k \in Keys PROVE page[p][k].pending \in Nat
  <2> DEFINE X == State
             x == PageView(X, p, k)
  <2>1. x.pending = page[p][k].pending /\ Right(p, Accepts[p], x)
    BY DEF PageView, State, CacheInv, AllRight
  <2> HIDE DEF X
  <2>2. x \in PageViews
    BY <1>1, ViewsTyped DEF X
  <2> HIDE DEF x
  <2>3. x.pending \in Nat
    BY <2>1, <2>2, NothingPending DEF PageViews
  <2> QED
    BY <2>1, <2>3
<1>3. ASSUME NEW r \in Procs, NEW k \in Keys PROVE cache[r][k].pending \in Nat
  <2> DEFINE X == State
             x == ProcView(X, synced, r, k)
  <2>1. x.pending = cache[r][k].pending /\ Right(r, Values, x)
    BY DEF ProcView, State, CacheInv, AllRight
  <2> HIDE DEF X
  <2>2. x \in ProcViews
    BY <1>1, ViewsTyped DEF X
  <2> HIDE DEF x
  <2>3. x.pending \in Nat
    BY <2>1, <2>2, NothingPending DEF ProcViews
  <2> QED
    BY <2>1, <2>3
<1> QED
  BY <1>2, <1>3

(* The invariant implies the type invariant of the model,                  *)
LEMMA CacheInvTypes == CacheInv => TypeOK
<1> SUFFICES ASSUME CacheInv PROVE TypeOK
  OBVIOUS
<1>1. State \in States /\ RestOK
  BY DEF CacheInv, WiringInv
<1>2. /\ page \in [Pages -> [Keys -> PageEl]] /\ cache \in [Procs -> [Keys -> CacheEl]]
      /\ toCache \in [Pages -> Seq(Packets)] /\ toPage \in [Pages -> Seq(PageMsgs)]
      /\ toCore \in [Guis -> Seq(Packets)] /\ toProc \in [Guis -> Seq(Messages(Procs))]
      /\ disk \in [Keys -> AnyValue] /\ blame \in [Keys -> SUBSET Reasons]
  BY <1>1 DEF States, State
<1>3. page \in [Pages -> [Keys -> PageElement]]
  <2>1. \A e \in PageEl : e.pending \in Nat => e \in PageElement
    BY DEF PageEl, PageElement
  <2>2. \A p \in Pages, k \in Keys : page[p][k] \in PageElement
    BY <1>2, <2>1, CountersNat
  <2>3. \A p \in Pages : page[p] \in [Keys -> PageElement]
    BY <1>2, <2>2
  <2> QED
    BY <1>2, <2>3
<1>4. cache \in [Procs -> [Keys -> CacheElement]]
  <2>1. \A e \in CacheEl : e.pending \in Nat => e \in CacheElement
    BY DEF CacheEl, CacheElement
  <2>2. \A r \in Procs, k \in Keys : cache[r][k] \in CacheElement
    BY <1>2, <2>1, CountersNat
  <2>3. \A r \in Procs : cache[r] \in [Keys -> CacheElement]
    BY <1>2, <2>2
  <2> QED
    BY <1>2, <2>3
<1> QED
  BY <1>1, <1>2, <1>3, <1>4 DEF TypeOK, RestOK, Batches, Snaps, PageMsgs, Reasons

(***************************************************************************)
(* Type correctness.  Hence no m_pendingChanges ever is negative, at       *)
(* either level, as the Q_ASSERTs of valuecache.cpp (305, 752) claim.      *)
(***************************************************************************)
THEOREM TypesHold == Spec => []TypeOK
BY CacheInvHolds, CacheInvTypes, PTL

(* and that quiet pages show the core's value.                             *)
LEMMA CacheInvEndToEnd == CacheInv => EndToEnd
<1> SUFFICES ASSUME CacheInv, Quiet, NEW p \in Pages, NEW k \in Keys,
                    page[p][k].made, Home[p] \in synced \cup {Core},
                    cache[Core][k].val \in Accepts[p]
             PROVE  page[p][k].val = cache[Core][k].val
  BY DEF EndToEnd, Shows
<1> USE CacheAssumption
<1> DEFINE r == Home[p]
           x == PageView(State, p, k)
           y == ProcView(State, synced, r, k)
<1>1. r \in Procs /\ cache[Core][k].val \in Values
  OBVIOUS
<1>2. Right(p, Accepts[p], x) /\ Right(r, Values, y)
  BY <1>1 DEF CacheInv, AllRight
<1>3. /\ toCache[p] = <<>> /\ toPage[p] = <<>>
      /\ r # Core => toCore[r] = <<>> /\ toProc[r] = <<>>
  BY <1>1 DEF Quiet, Guis
<1>4. /\ x.hub = cache[r][k].val /\ x.val = page[p][k].val
      /\ x.up = UpOf(toCache[p], k) /\ x.down = DownOf(toPage[p], k)
      /\ p \in x.attached
  BY DEF PageView, State, PagesOf
<1>5. /\ y.hub = cache[Core][k].val /\ y.val = cache[r][k].val
      /\ y.up = IF r = Core THEN <<>> ELSE UpOf(toCore[r], k)
      /\ y.down = IF r = Core THEN <<>> ELSE DownOf(toProc[r], k)
      /\ r \in y.attached
  BY DEF ProcView, State
<1> HIDE DEF x, y, r
<1>6. x.up = <<>> /\ x.down = <<>> /\ y.up = <<>> /\ y.down = <<>>
  BY <1>3, <1>4, <1>5, NothingThrough
<1>7. cache[r][k].val = cache[Core][k].val
  BY <1>1, <1>2, <1>5, <1>6 DEF Right
<1> QED
  BY <1>2, <1>4, <1>6, <1>7 DEF Right

(***************************************************************************)
(* When nothing is in flight, every page of every synchronized process     *)
(* shows the core's value that its validator lets through, whatever        *)
(* crossed: changes, loads, clears, batches and snapshots.                 *)
(***************************************************************************)
THEOREM EndToEndHolds == Spec => []EndToEnd
BY CacheInvHolds, CacheInvEndToEnd, PTL

(***************************************************************************)
(* A page with a pending change of its own loses its value to nobody       *)
(* (CValuePage::setValuesFromCache ratifies nothing meanwhile).            *)
(***************************************************************************)
THEOREM ReadYourWritesHolds == Spec => ReadYourWrites
<1>1. CacheInv /\ [Next]_vars =>
        [\A p \in Pages, k \in Keys :
           page[p][k].pending > 0 /\ page'[p][k].val # page[p][k].val
           => page'[p][k].pending = page[p][k].pending + 1]_vars
  <2> SUFFICES ASSUME CacheInv, [Next]_vars, NEW p \in Pages, NEW k \in Keys,
                      page[p][k].pending > 0, page'[p][k].val # page[p][k].val
               PROVE  page'[p][k].pending = page[p][k].pending + 1
    OBVIOUS
  <2> DEFINE x == PageView(State, p, k)
             y == PageView(State', p, k)
             B == Pages \cup {Nobody}
  <2>1. x \in PageViews /\ y \in PageViews /\ ClientStep(p, Accepts[p], B, x, y)
    BY StepsOfClients
  <2>2. Right(p, Accepts[p], x)
    BY DEF CacheInv, AllRight
  <2>3. /\ x.val = page[p][k].val /\ x.pending = page[p][k].pending
        /\ y.val = page'[p][k].val /\ y.pending = page'[p][k].pending
    BY DEF PageView, State
  <2> HIDE DEF x, y, B
  <2>4. y.pending = x.pending + 1
    BY <2>1, <2>2, <2>3, StepReadsOwnWrites DEF PageViews, B
  <2> QED
    BY <2>3, <2>4
<1> QED
  BY <1>1, CacheInvHolds, PTL DEF Spec, ReadYourWrites

-----------------------------------------------------------------------------
(* The saved flag of k in the core is right in state S, or explained.      *)
SavedKey(S, k) ==
  S.cache[Core][k].saved /\ S.cache[Core][k].val # Invalid /\ S.blame[k] = {}
  => S.disk[k] = S.cache[Core][k].val

SavedOK(S) == \A k \in Keys : SavedKey(S, k)

(* A step that does not touch what the flag is about.                      *)
SameStore(S, T) ==
  /\ T.cache[Core] = S.cache[Core] /\ T.disk = S.disk /\ T.blame = S.blame

(* It keeps the flags right, or explained.                                 *)
LEMMA SameStoreSaved ==
  ASSUME NEW S, NEW T, SameStore(S, T)
  PROVE  \A k \in Keys : SavedKey(S, k) <=> SavedKey(T, k)
BY DEF SameStore, SavedKey

(* Saving makes the flags of the keys it is asked for right or explained.  *)
LEMMA SaveSaves ==
  ASSUME NEW S \in States, NEW vals \in Maps, NEW ok, NEW T, T = SaveRequested(S, Core, vals, ok)
  PROVE  /\ T.cache = S.cache
         /\ \A k \in Keys : k \in DOMAIN vals \/ SavedKey(S, k) => SavedKey(T, k)
<1> DEFINE D == [k \in Keys |-> IF k \in ok \cap DOMAIN vals THEN vals[k] ELSE S.disk[k]]
           B == [k \in Keys |->
                     IF k \notin DOMAIN vals THEN S.blame[k]
                     ELSE IF k \notin ok THEN S.blame[k] \cup {"write failed"}
                     ELSE IF vals[k] = S.cache[Core][k].val THEN {}
                     ELSE S.blame[k] \cup {"overtaken"}]
<1>1. T = [S EXCEPT !.disk = D, !.blame = B]
  BY DEF SaveRequested
<1>2. \A k \in Keys : /\ k \notin DOMAIN vals => B[k] = S.blame[k] /\ D[k] = S.disk[k]
                      /\ k \in DOMAIN vals /\ B[k] = {} => D[k] = S.cache[Core][k].val
  OBVIOUS
<1> HIDE DEF D, B
<1>3. T.cache = S.cache /\ T.disk = D /\ T.blame = B
  BY <1>1 DEF States
<1> QED
  BY <1>2, <1>3 DEF SavedKey

(***************************************************************************)
(* changeValuesFromRemote of the core: it repairs the keys K of a packet   *)
(* that is its own or that changes nothing.                                *)
(***************************************************************************)
LEMMA CoreSaves ==
  ASSUME NEW S \in States, NEW pkt \in Packets, NEW origin, NEW ok,
         NEW T, T = ChangeValuesFromRemote(S, Core, pkt, origin, ok),
         \A k \in Keys : \/ SavedKey(S, k)
                         \/ k \in DOMAIN pkt.vals /\ pkt.saved /\ (origin = Core \/ ~ pkt.changed)
  PROVE  SavedOK(T)
<1> USE CacheAssumption
<1> DEFINE c == S.cache[Core]
           R == Ratified(c, Core, pkt, origin)
           d == [k \in Keys |->
                     IF k \in DOMAIN pkt.vals /\ origin = Core
                     THEN [c[k] EXCEPT !.pending = @ - 1]
                     ELSE IF k \in R
                     THEN [c[k] EXCEPT !.val = pkt.vals[k], !.saved = pkt.saved]
                     ELSE c[k]]
           A == [S EXCEPT !.cache[Core] = d]
           N == News(c, Core, pkt, origin)
           V(X, vals) == IF pkt.saved THEN SaveRequested(X, Core, vals, ok) ELSE X
<1>1. pkt.vals \in Maps /\ pkt.saved \in BOOLEAN /\ DOMAIN pkt.vals \subseteq Keys
      /\ \A k \in DOMAIN pkt.vals : pkt.vals[k] \in AnyValue
  BY MapsAre DEF Packets
<1>2. c \in [Keys -> CacheEl] /\ S.cache \in [Procs -> [Keys -> CacheEl]]
  BY DEF States
<1>3. R \subseteq DOMAIN pkt.vals /\ (origin = Core => R = {})
  BY DEF Ratified
<1>4. N \in Packets /\ N.vals \in Maps /\ DOMAIN N.vals = R /\ N.saved = pkt.saved
      /\ \A k \in R : N.vals[k] = pkt.vals[k]
  BY NewsType DEF Packets
<1>5. T = IF DOMAIN pkt.vals = {} THEN S
          ELSE IF ~ pkt.changed THEN V(S, pkt.vals)
          ELSE IF origin = Core THEN V(A, pkt.vals)
          ELSE IF R = {} THEN A
          ELSE EmitValuesChanged(V(A, N.vals), Core, N, Nobody)
  BY DEF ChangeValuesFromRemote, News
<1> HIDE DEF R, N
(* the cache                                                               *)
<1>6. ASSUME NEW k \in Keys
      PROVE  /\ d[k] \in CacheEl
             /\ IF k \in R THEN d[k].val = pkt.vals[k] /\ d[k].saved = pkt.saved
                ELSE d[k].val = c[k].val /\ d[k].saved = c[k].saved
  <2>1. c[k] \in CacheEl
    BY <1>2
  <2> HIDE DEF c
  <2>2. CASE k \in DOMAIN pkt.vals /\ origin = Core
    <3>1. d[k] = [c[k] EXCEPT !.pending = @ - 1] /\ k \notin R
      BY <1>3, <2>2
    <3>2. d[k] \in CacheEl
      BY <2>1, <3>1 DEF CacheEl
    <3>3. d[k].val = c[k].val /\ d[k].saved = c[k].saved
      BY <2>1, <3>1 DEF CacheEl
    <3> QED
      BY <3>1, <3>2, <3>3
  <2>3. CASE k \in R
    <3>1. d[k] = [c[k] EXCEPT !.val = pkt.vals[k], !.saved = pkt.saved]
      BY <1>3, <2>3
    <3>2. d[k] \in CacheEl
      BY <1>1, <1>3, <2>1, <2>3, <3>1 DEF CacheEl
    <3>3. d[k].val = pkt.vals[k] /\ d[k].saved = pkt.saved
      BY <2>1, <3>1 DEF CacheEl
    <3> QED
      BY <2>3, <3>2, <3>3
  <2>4. CASE ~ (k \in DOMAIN pkt.vals /\ origin = Core) /\ k \notin R
    <3>1. d[k] = c[k]
      BY <2>4, Zenon
    <3> QED
      BY <2>1, <2>4, <3>1
  <2> QED
    BY <2>2, <2>3, <2>4
<1>7. d \in [Keys -> CacheEl]
  BY <1>6, Zenon
<1> HIDE DEF d
<1>8. A \in States /\ A.cache[Core] = d /\ A.disk = S.disk /\ A.blame = S.blame
  BY <1>2, <1>7 DEF States
<1> HIDE DEF A
<1>9. \A k \in Keys : k \notin R /\ SavedKey(S, k) => SavedKey(A, k)
  BY <1>6, <1>8 DEF SavedKey
<1>10. \A k \in Keys : k \in R /\ ~ pkt.saved => SavedKey(A, k)
  BY <1>6, <1>8 DEF SavedKey
<1> HIDE DEF c
(* saving                                                                  *)
<1>11. ASSUME NEW X \in States, NEW vals \in Maps,
              \A k \in Keys : SavedKey(X, k) \/ (k \in DOMAIN vals /\ pkt.saved)
       PROVE  SavedOK(V(X, vals)) /\ V(X, vals) \in States
  <2>1. CASE pkt.saved
    <3> DEFINE W == SaveRequested(X, Core, vals, ok)
    <3>1. W \in States
      BY SaveEffect
    <3>2. \A k \in Keys : k \in DOMAIN vals \/ SavedKey(X, k) => SavedKey(W, k)
      BY SaveSaves
    <3> HIDE DEF W
    <3>3. SavedOK(W)
      BY <1>11, <3>2 DEF SavedOK
    <3>4. V(X, vals) = W
      BY <2>1 DEF W
    <3> QED
      BY <3>1, <3>3, <3>4
  <2>2. CASE ~ pkt.saved
    BY <1>11, <2>2 DEF SavedOK
  <2> QED
    BY <2>1, <2>2
<1> HIDE DEF V
<1>12. CASE DOMAIN pkt.vals = {}
  BY <1>5, <1>12 DEF SavedOK
<1>13. CASE DOMAIN pkt.vals # {} /\ ~ pkt.changed
  <2>1. SavedOK(V(S, pkt.vals))
    BY <1>1, <1>11
  <2> QED
    BY <1>5, <1>13, <2>1
<1>14. CASE DOMAIN pkt.vals # {} /\ pkt.changed /\ origin = Core
  <2>1. \A k \in Keys : SavedKey(A, k) \/ (k \in DOMAIN pkt.vals /\ pkt.saved)
    BY <1>3, <1>9, <1>14
  <2>2. SavedOK(V(A, pkt.vals))
    BY <1>1, <1>8, <1>11, <2>1
  <2> QED
    BY <1>5, <1>14, <2>2
<1>15. CASE DOMAIN pkt.vals # {} /\ pkt.changed /\ origin # Core
  <2>1. \A k \in Keys : SavedKey(S, k)
    BY <1>15
  <2>2. \A k \in Keys : SavedKey(A, k) \/ (k \in DOMAIN N.vals /\ pkt.saved)
    BY <1>4, <1>9, <1>10, <2>1
  <2>3. CASE R = {}
    BY <1>4, <1>5, <1>15, <2>2, <2>3 DEF SavedOK
  <2>4. CASE R # {}
    <3> DEFINE X == V(A, N.vals)
    <3>1. SavedOK(X) /\ X \in States
      BY <1>4, <1>8, <1>11, <2>2
    <3>2. T = EmitValuesChanged(X, Core, N, Nobody)
      BY <1>5, <1>15, <2>4
    <3> HIDE DEF X
    <3>3. T.cache = X.cache /\ T.disk = X.disk /\ T.blame = X.blame
      BY <1>4, <3>1, <3>2, EmitEffect
    <3> QED
      BY <3>1, <3>3 DEF SavedOK, SavedKey
  <2> QED
    BY <2>3, <2>4
<1> QED
  BY <1>12, <1>13, <1>14, <1>15

(* changeValuesFromRemote of a GUI process touches none of it.             *)
LEMMA GuiSaves ==
  ASSUME NEW S \in States, NEW r \in Guis, NEW pkt \in Packets, NEW origin, NEW ok,
         NEW T, T = ChangeValuesFromRemote(S, r, pkt, origin, ok)
  PROVE  SameStore(S, T)
<1> USE CacheAssumption
<1> DEFINE c == S.cache[r]
           R == Ratified(c, r, pkt, origin)
           d == [k \in Keys |->
                     IF k \in DOMAIN pkt.vals /\ origin = r
                     THEN [c[k] EXCEPT !.pending = @ - 1]
                     ELSE IF k \in R
                     THEN [c[k] EXCEPT !.val = pkt.vals[k], !.saved = pkt.saved]
                     ELSE c[k]]
           A == [S EXCEPT !.cache[r] = d]
           N == News(c, r, pkt, origin)
           V(X, vals) == IF pkt.saved THEN SaveRequested(X, r, vals, ok) ELSE X
<1>0. r # Core /\ r \in Procs
  BY DEF Guis
<1>s. \A X, vals : V(X, vals) = X
  BY <1>0 DEF SaveRequested
<1>t. T = IF DOMAIN pkt.vals = {} THEN S
          ELSE IF ~ pkt.changed THEN V(S, pkt.vals)
          ELSE IF origin = r THEN V(A, pkt.vals)
          ELSE IF R = {} THEN A
          ELSE EmitValuesChanged(V(A, N.vals), r, N, Nobody)
  BY DEF ChangeValuesFromRemote, News
<1> HIDE DEF V, R, A, N
<1>1. \/ T = S \/ T = A \/ T = EmitValuesChanged(A, r, N, Nobody)
  BY <1>s, <1>t
<1> USE DEF A
<1> HIDE DEF N, d
<1>2. A.cache[Core] = S.cache[Core] /\ A.disk = S.disk /\ A.blame = S.blame
  <2>1. /\ DOMAIN S = {"page", "cache", "toCache", "toPage", "toCore", "toProc", "disk", "blame"}
        /\ S.cache \in [Procs -> [Keys -> CacheEl]]
    BY DEF States
  <2>2. A = [S EXCEPT !.cache = [S.cache EXCEPT ![r] = d]]
    BY <2>1
  <2> HIDE DEF A
  <2> QED
    BY <1>0, <2>1, <2>2
<1>a. DOMAIN A = {"page", "cache", "toCache", "toPage", "toCore", "toProc", "disk", "blame"}
  BY DEF States
<1> HIDE DEF A
<1>3. EmitValuesChanged(A, r, N, Nobody).cache = A.cache
      /\ EmitValuesChanged(A, r, N, Nobody).disk = A.disk
      /\ EmitValuesChanged(A, r, N, Nobody).blame = A.blame
  BY <1>a DEF EmitValuesChanged
<1> QED
  BY <1>1, <1>2, <1>3 DEF SameStore

(* changeSettings only tells the processes in addition.                    *)
LEMMA SettingsSave ==
  ASSUME NEW S \in States, NEW pkt \in Packets, NEW origin \in Procs, NEW ok,
         NEW T, T = ChangeSettings(S, pkt, origin, ok),
         \A k \in Keys : \/ SavedKey(S, k)
                         \/ k \in DOMAIN pkt.vals /\ pkt.saved /\ (origin = Core \/ ~ pkt.changed)
  PROVE  SavedOK(T)
<1> USE CacheAssumption
<1> DEFINE X == ChangeValuesFromRemote(S, Core, pkt, origin, ok)
           Q == [r \in Guis |-> Append(X.toProc[r], [pkt |-> pkt, by |-> origin])]
<1>1. T = [X EXCEPT !.toProc = Q]
  BY DEF ChangeSettings
<1>2. RemoteEffect(S, X, Core, pkt, origin)
  BY RemoteEffectHolds
<1>3. X \in States
  BY <1>2 DEF RemoteEffect
<1>4. SavedOK(X)
  BY CoreSaves
<1> HIDE DEF X, Q
<1>5. T.cache = X.cache /\ T.disk = X.disk /\ T.blame = X.blame
  BY <1>1, <1>3 DEF States
<1> QED
  BY <1>4, <1>5 DEF SavedOK, SavedKey

(* changeValues of any process.                                            *)
LEMMA ChangeSaves ==
  ASSUME NEW S \in States, NEW r \in Procs, NEW pkt \in Packets, NEW by \in Pages \cup {Nobody},
         NEW ok, NEW T, T = ChangeValues(S, r, pkt, by, ok), SavedOK(S)
  PROVE  SavedOK(T)
<1> USE CacheAssumption
<1> DEFINE d == [k \in Keys |-> IF k \in DOMAIN pkt.vals
                                THEN Taken(S.cache[r][k], pkt.vals[k], pkt) ELSE S.cache[r][k]]
           A == [S EXCEPT !.cache[r] = d]
           B == IF pkt.changed THEN EmitValuesChanged(A, r, pkt, by) ELSE A
<1>1. T = IF DOMAIN pkt.vals = {} THEN S
          ELSE IF r = Core THEN ChangeSettings(B, pkt, Core, ok)
          ELSE [B EXCEPT !.toCore[r] = Append(@, pkt)]
  BY DEF ChangeValues, States
<1>2. /\ pkt.saved \in BOOLEAN /\ \A k \in DOMAIN pkt.vals : pkt.vals[k] \in AnyValue
  BY MapsAre DEF Packets
<1>3. ASSUME NEW k \in Keys
      PROVE  /\ d[k] \in CacheEl
             /\ k \in DOMAIN pkt.vals => d[k].saved = pkt.saved
             /\ k \notin DOMAIN pkt.vals => d[k] = S.cache[r][k]
  <2> DEFINE e == S.cache[r][k]
  <2>1. e \in CacheEl
    BY DEF States
  <2> HIDE DEF e
  <2>2. CASE k \notin DOMAIN pkt.vals
    <3>1. d[k] = e
      BY <2>2 DEF e
    <3> QED
      BY <2>1, <2>2, <3>1 DEF e
  <2>3. CASE k \in DOMAIN pkt.vals /\ pkt.changed
    <3>1. d[k] = [val |-> pkt.vals[k], saved |-> pkt.saved, pending |-> e.pending + 1]
      BY <2>3 DEF Taken, e
    <3> QED
      BY <1>2, <2>1, <2>3, <3>1 DEF CacheEl
  <2>4. CASE k \in DOMAIN pkt.vals /\ ~ pkt.changed
    <3>1. d[k] = [e EXCEPT !.saved = pkt.saved]
      BY <2>4 DEF Taken, e
    <3>2. d[k] \in CacheEl
      BY <1>2, <2>1, <3>1 DEF CacheEl
    <3>3. d[k].saved = pkt.saved
      BY <2>1, <3>1 DEF CacheEl
    <3> QED
      BY <2>4, <3>2, <3>3
  <2> QED
    BY <2>2, <2>3, <2>4
<1>4. d \in [Keys -> CacheEl]
  BY <1>3
<1> HIDE DEF d
<1>5. /\ A \in States /\ A.cache = [S.cache EXCEPT ![r] = d] /\ A.disk = S.disk /\ A.blame = S.blame
      /\ S.cache \in [Procs -> [Keys -> CacheEl]]
  BY <1>4 DEF States
<1> HIDE DEF A
<1>6. B \in States /\ B.cache = A.cache /\ B.disk = A.disk /\ B.blame = A.blame
  <2>1. EmitValuesChanged(A, r, pkt, by) \in States
        /\ EmitValuesChanged(A, r, pkt, by).cache = A.cache
        /\ EmitValuesChanged(A, r, pkt, by).disk = A.disk
        /\ EmitValuesChanged(A, r, pkt, by).blame = A.blame
    BY <1>5, EmitEffect
  <2> QED
    BY <1>5, <2>1
<1> HIDE DEF B
<1>7. CASE r = Core
  <2>1. \A k \in Keys : SavedKey(B, k) \/ (k \in DOMAIN pkt.vals /\ pkt.saved)
    BY <1>3, <1>5, <1>6, <1>7 DEF SavedOK, SavedKey
  <2>2. SavedOK(ChangeSettings(B, pkt, Core, ok))
    BY <1>6, <2>1, SettingsSave
  <2> QED
    BY <1>1, <1>7, <2>2
<1>8. CASE r # Core
  <2>1. SavedOK(B)
    BY <1>5, <1>6, <1>8 DEF SavedOK, SavedKey
  <2>2. LET U == [B EXCEPT !.toCore[r] = Append(@, pkt)]
        IN  U.cache = B.cache /\ U.disk = B.disk /\ U.blame = B.blame
    BY <1>6 DEF States
  <2>3. SavedOK([B EXCEPT !.toCore[r] = Append(@, pkt)])
    BY <2>1, <2>2 DEF SavedOK, SavedKey
  <2> QED
    BY <1>1, <1>8, <2>3
<1> QED
  BY <1>7, <1>8, Zenon

(* A page wants its values in the cache.                                   *)
LEMMA WantSaves ==
  ASSUME WiringInv, SavedOK(State), NEW p \in Pages, NEW pkt \in Packets,
         NEW el \in [Keys -> PageEl], NEW ok,
         NEW T, T = WantToCache([State EXCEPT !.page[p] = el], p, pkt, ok)
  PROVE  SavedOK(T)
<1> USE CacheAssumption
<1> DEFINE X == State
           S == [X EXCEPT !.page[p] = el]
<1>1. X \in States /\ SavedOK(X) /\ Home[p] \in Procs
  BY DEF WiringInv
<1>2. T = IF p \in MainPages THEN ChangeValues(S, Home[p], pkt, p, ok)
          ELSE [S EXCEPT !.toCache[p] = Append(@, pkt)]
  BY DEF WantToCache
<1> HIDE DEF X
<1>3. S \in States /\ S.cache = X.cache /\ S.disk = X.disk /\ S.blame = X.blame
  BY <1>1 DEF States
<1> HIDE DEF S
<1>4. SavedOK(S)
  BY <1>1, <1>3 DEF SavedOK, SavedKey
<1>5. CASE p \in MainPages
  BY <1>1, <1>2, <1>3, <1>4, <1>5, ChangeSaves
<1>6. CASE p \notin MainPages
  <2>1. T = [S EXCEPT !.toCache[p] = Append(@, pkt)]
    BY <1>2, <1>6
  <2>2. T.cache = S.cache /\ T.disk = S.disk /\ T.blame = S.blame
    BY <1>3, <2>1 DEF States
  <2> QED
    BY <1>4, <2>2 DEF SavedOK, SavedKey
<1> QED
  BY <1>5, <1>6

(* The next state of a chain of calls.                                     *)
LEMMA BecomesSaved ==
  ASSUME NEW T, Becomes(T), SavedOK(T)
  PROVE  SavedFlagExplained'
<1>1. cache' = T.cache /\ disk' = T.disk /\ blame' = T.blame
  BY DEF Becomes
<1> QED
  BY <1>1 DEF SavedOK, SavedKey, SavedFlagExplained

(* SavedFlagExplained, said of a state record.                             *)
LEMMA SavedIs == SavedFlagExplained <=> SavedOK(State)
BY DEF SavedFlagExplained, SavedOK, SavedKey, State

(* setValue and setAndSave.                                                *)
LEMMA SetValueSaves ==
  ASSUME WiringInv, SavedOK(State), NEW p \in Pages, NEW k \in Keys, NEW v \in Values,
         NEW save \in BOOLEAN, NEW ok, SetValue(p, k, v, save, ok)
  PROVE  SavedFlagExplained'
<1>1. page \in [Pages -> [Keys -> PageEl]] /\ page[p] \in [Keys -> PageEl] /\ page[p][k] \in PageEl
  BY DEF WiringInv, States, State
<1>2. Single(k, v) \in Maps
  BY MapsIntro DEF Single, AnyValue
<1>3. ASSUME Becomes(WantToCache([State EXCEPT !.page[p][k].saved = TRUE], p,
                                 Packet(Single(k, v), TRUE, FALSE), ok))
      PROVE  SavedFlagExplained'
  <2> DEFINE el == [page[p] EXCEPT ![k].saved = TRUE]
             pkt == Packet(Single(k, v), TRUE, FALSE)
  <2>1. pkt \in Packets
    BY <1>2, PacketTyped
  <2>2. el \in [Keys -> PageEl]
    BY <1>1 DEF PageEl
  <2>4. [State EXCEPT !.page[p][k].saved = TRUE] = [State EXCEPT !.page[p] = el]
    BY <1>1 DEF State
  <2>5. Becomes(WantToCache([State EXCEPT !.page[p] = el], p, pkt, ok))
    BY <1>3, <2>4
  <2> HIDE DEF el, pkt
  <2>6. SavedOK(WantToCache([State EXCEPT !.page[p] = el], p, pkt, ok))
    BY <2>1, <2>2, WantSaves
  <2> QED
    BY <2>5, <2>6, BecomesSaved
<1>4. ASSUME Becomes(WantToCache(
               [State EXCEPT !.page[p][k] = [made |-> TRUE, val |-> v, saved |-> save,
                                             pending |-> @.pending + 1]],
               p, Packet(Single(k, v), save, TRUE), ok))
      PROVE  SavedFlagExplained'
  <2> DEFINE el == [page[p] EXCEPT ![k] = [made |-> TRUE, val |-> v, saved |-> save,
                                           pending |-> page[p][k].pending + 1]]
             pkt == Packet(Single(k, v), save, TRUE)
  <2>1. pkt \in Packets
    BY <1>2, PacketTyped
  <2>2. el \in [Keys -> PageEl]
    BY <1>1 DEF PageEl, AnyValue
  <2>4. [State EXCEPT !.page[p][k] = [made |-> TRUE, val |-> v, saved |-> save,
                                      pending |-> @.pending + 1]]
          = [State EXCEPT !.page[p] = el]
    BY <1>1 DEF State
  <2>5. Becomes(WantToCache([State EXCEPT !.page[p] = el], p, pkt, ok))
    BY <1>4, <2>4
  <2> HIDE DEF el, pkt
  <2>6. SavedOK(WantToCache([State EXCEPT !.page[p] = el], p, pkt, ok))
    BY <2>1, <2>2, WantSaves
  <2> QED
    BY <2>5, <2>6, BecomesSaved
<1>5. ASSUME Becomes(State) PROVE SavedFlagExplained'
  BY <1>5, BecomesSaved
<1> QED
  BY <1>3, <1>4, <1>5 DEF SetValue

(* The end of a batch.                                                     *)
LEMMA EndBatchSaves ==
  ASSUME WiringInv, SavedOK(State), NEW p \in Pages, EndBatch(p)
  PROVE  SavedFlagExplained'
<1> DEFINE vals == batch[p].vals
           el == [k \in Keys |-> IF k \in DOMAIN vals THEN Batched(page[p][k], vals[k])
                                 ELSE page[p][k]]
           pkt == Packet(vals, FALSE, TRUE)
<1>1. \A k \in Keys : page[p][k] \in PageEl
  BY DEF WiringInv, States, State
<1>2. vals \in Maps /\ \A k \in DOMAIN vals : vals[k] \in AnyValue
  BY MapsAre DEF WiringInv, RestOK, Batches
<1>3. pkt \in Packets
  BY <1>2, PacketTyped
<1>4. el \in [Keys -> PageEl]
  <2>1. \A k \in Keys : k \in DOMAIN vals => Batched(page[p][k], vals[k]) \in PageEl
    BY <1>1, <1>2, BatchedType
  <2> QED
    BY <1>1, <2>1
<1>5. [State EXCEPT !.page[p] = [k \in Keys |-> IF k \in DOMAIN vals
                                                THEN Batched(@[k], vals[k]) ELSE @[k]]]
        = [State EXCEPT !.page[p] = el]
  BY DEF State
<1>6. Becomes(State) \/ Becomes(WantToCache([State EXCEPT !.page[p] = el], p, pkt, Keys))
  BY <1>5 DEF EndBatch
<1> HIDE DEF el, pkt
<1>7. SavedOK(WantToCache([State EXCEPT !.page[p] = el], p, pkt, Keys))
  BY <1>3, <1>4, WantSaves
<1> QED
  BY <1>6, <1>7, BecomesSaved

(* Signals, calls and snapshots that arrive.                               *)
LEMMA TakingSaves ==
  ASSUME WiringInv, SavedOK(State)
  PROVE  /\ \A p \in Pages : \A ok : CacheTakes(p, ok) => SavedFlagExplained'
         /\ \A r \in Guis : \A ok : CoreTakes(r, ok) => SavedFlagExplained'
         /\ \A r \in Guis : ProcTakes(r) \/ EndSync(r) => SavedFlagExplained'
<1> USE CacheAssumption
<1> DEFINE X == State
<1>0. X \in States /\ SavedOK(X) /\ X.toCache = toCache /\ X.toCore = toCore /\ X.toProc = toProc
  BY DEF WiringInv, State
<1>1. ASSUME NEW p \in Pages, NEW ok, CacheTakes(p, ok) PROVE SavedFlagExplained'
  <2> DEFINE S == [X EXCEPT !.toCache[p] = Tail(@)]
             m == Head(X.toCache[p])
             T == ChangeValues(S, Home[p], m, p, ok)
  <2>1. X.toCache[p] # <<>> /\ Becomes(T)
    BY <1>0, <1>1 DEF CacheTakes
  <2> HIDE DEF X
  <2>2. X.toCache[p] \in Seq(Packets) /\ X.toCache \in [Pages -> Seq(Packets)]
    BY <1>0 DEF States
  <2>3. m \in Packets /\ Tail(X.toCache[p]) \in Seq(Packets)
    BY <2>1, <2>2, HeadTailProperties
  <2>4. S \in States /\ S.cache = X.cache /\ S.disk = X.disk /\ S.blame = X.blame
    BY <1>0, <2>2, <2>3 DEF States
  <2> HIDE DEF S, m
  <2>5. SavedOK(S)
    BY <1>0, <2>4 DEF SavedOK, SavedKey
  <2>6. SavedOK(T)
    BY <2>3, <2>4, <2>5, ChangeSaves
  <2> HIDE DEF T
  <2> QED
    BY <2>1, <2>6, BecomesSaved
<1>2. ASSUME NEW r \in Guis, NEW ok, CoreTakes(r, ok) PROVE SavedFlagExplained'
  <2> DEFINE S == [X EXCEPT !.toCore[r] = Tail(@)]
             m == Head(X.toCore[r])
             T == ChangeSettings(S, m, r, ok)
  <2>0. r \in Procs
    BY DEF Guis
  <2>1. X.toCore[r] # <<>> /\ Becomes(T)
    BY <1>0, <1>2 DEF CoreTakes
  <2> HIDE DEF X
  <2>2. X.toCore[r] \in Seq(Packets) /\ X.toCore \in [Guis -> Seq(Packets)]
    BY <1>0 DEF States
  <2>3. m \in Packets /\ Tail(X.toCore[r]) \in Seq(Packets)
    BY <2>1, <2>2, HeadTailProperties
  <2>4. S \in States /\ S.cache = X.cache /\ S.disk = X.disk /\ S.blame = X.blame
    BY <1>0, <2>2, <2>3 DEF States
  <2> HIDE DEF S, m
  <2>5. \A k \in Keys : SavedKey(S, k)
    BY <1>0, <2>4 DEF SavedOK, SavedKey
  <2>6. SavedOK(T)
    BY <2>0, <2>3, <2>4, <2>5, SettingsSave
  <2> HIDE DEF T
  <2> QED
    BY <2>1, <2>6, BecomesSaved
<1>3. ASSUME NEW r \in Guis, ProcTakes(r) PROVE SavedFlagExplained'
  <2> DEFINE S == [X EXCEPT !.toProc[r] = Tail(@)]
             m == Head(X.toProc[r])
             T == ChangeValuesFromRemote(S, r, m.pkt, m.by, Keys)
  <2>1. X.toProc[r] # <<>> /\ Becomes(T)
    BY <1>0, <1>3 DEF ProcTakes
  <2> HIDE DEF X
  <2>2. X.toProc[r] \in Seq(Messages(Procs)) /\ X.toProc \in [Guis -> Seq(Messages(Procs))]
    BY <1>0 DEF States
  <2>3. m \in Messages(Procs) /\ Tail(X.toProc[r]) \in Seq(Messages(Procs))
    BY <2>1, <2>2, HeadTailProperties
  <2>p. m.pkt \in Packets
    BY <2>3 DEF Messages
  <2>4. S \in States /\ S.cache = X.cache /\ S.disk = X.disk /\ S.blame = X.blame
    BY <1>0, <2>2, <2>3 DEF States
  <2> HIDE DEF S, m
  <2>5. SameStore(S, T)
    BY <2>4, <2>p, GuiSaves
  <2> HIDE DEF T
  <2>6. SavedOK(T)
    BY <1>0, <2>4, <2>5 DEF SavedOK, SavedKey, SameStore
  <2> QED
    BY <2>1, <2>6, BecomesSaved
<1>4. ASSUME NEW r \in Guis, EndSync(r) PROVE SavedFlagExplained'
  <2> DEFINE pkt == Packet(snap[r].vals, FALSE, TRUE)
             T == ChangeValuesFromRemote(X, r, pkt, Nobody, Keys)
  <2>1. Becomes(T)
    BY <1>4 DEF EndSync
  <2> HIDE DEF X
  <2>2. snap[r].vals \in Maps
    BY DEF WiringInv, RestOK, Snaps
  <2>3. pkt \in Packets
    BY <2>2, PacketTyped
  <2> HIDE DEF pkt
  <2>5. SameStore(X, T)
    BY <1>0, <2>3, GuiSaves
  <2> HIDE DEF T
  <2>6. SavedOK(T)
    BY <1>0, <2>5 DEF SavedOK, SavedKey, SameStore
  <2> QED
    BY <2>1, <2>6, BecomesSaved
<1> QED
  BY <1>1, <1>2, <1>3, <1>4

(* The core's store, and clearing.                                         *)
LEMMA StoreSaves ==
  ASSUME WiringInv, SavedOK(State), StoreStep
  PROVE  SavedFlagExplained'
<1> USE CacheAssumption
<1>0. State \in States
  BY DEF WiringInv
<1>1. ASSUME NEW r \in Procs, NEW pkt \in Packets, NEW ok,
             Becomes(ChangeValues(State, r, pkt, Nobody, ok))
      PROVE  SavedFlagExplained'
  <2>1. SavedOK(ChangeValues(State, r, pkt, Nobody, ok))
    BY <1>0, ChangeSaves
  <2> QED
    BY <1>1, <2>1, BecomesSaved
<1>2. ASSUME NEW K \in SUBSET Keys, NEW ok, LoadFromStore(K, ok) PROVE SavedFlagExplained'
  <2> DEFINE differ == {k \in K : disk[k] # Invalid /\ disk[k] # cache[Core][k].val}
             vals == [k \in differ |-> disk[k]]
             pkt == Packet(vals, TRUE, TRUE)
  <2>1. disk \in [Keys -> AnyValue]
    BY <1>0 DEF States, State
  <2>2. differ \subseteq Keys /\ vals \in [differ -> AnyValue]
    BY <2>1
  <2>3. vals \in Maps
    BY <2>2, MapsIntro
  <2>4. pkt \in Packets
    BY <2>3, PacketTyped
  <2>5. Becomes(ChangeValues(State, Core, pkt, Nobody, ok))
    BY <1>2 DEF LoadFromStore
  <2> HIDE DEF pkt
  <2> QED
    BY <1>1, <2>4, <2>5
<1>3. ASSUME NEW r \in Procs, ClearAllValues(r) PROVE SavedFlagExplained'
  <2> DEFINE valid == {k \in Keys : cache[r][k].val # Invalid}
             vals == [k \in valid |-> Invalid]
             pkt == Packet(vals, FALSE, TRUE)
  <2>1. valid \subseteq Keys /\ vals \in [valid -> AnyValue]
    BY DEF AnyValue
  <2>2. vals \in Maps
    BY <2>1, MapsIntro
  <2>3. pkt \in Packets
    BY <2>2, PacketTyped
  <2>4. Becomes(ChangeValues(State, r, pkt, Nobody, Keys))
    BY <1>3 DEF ClearAllValues
  <2> HIDE DEF pkt
  <2> QED
    BY <1>1, <2>3, <2>4
<1>4. ASSUME NEW K \in SUBSET Keys, NEW ok, SaveToStore(K, ok) PROVE SavedFlagExplained'
  <2> DEFINE valid == {k \in K : cache[Core][k].val # Invalid}
             written == valid \cap ok
  <2>1. /\ disk' = [k \in Keys |-> IF k \in written THEN cache[Core][k].val ELSE disk[k]]
        /\ blame' = [k \in Keys |-> IF k \in written THEN {} ELSE blame[k]]
        /\ cache' = [cache EXCEPT ![Core] =
             [k \in Keys |-> IF k \in K /\ written = valid
                             THEN [cache[Core][k] EXCEPT !.saved = TRUE] ELSE cache[Core][k]]]
    BY <1>4 DEF SaveToStore
  <2>2. cache \in [Procs -> [Keys -> CacheEl]]
    BY <1>0 DEF States, State
  <2>3. ASSUME NEW k \in Keys
        PROVE  cache'[Core][k].saved /\ cache'[Core][k].val # Invalid /\ blame'[k] = {}
               => disk'[k] = cache'[Core][k].val
    <3>0. k \in valid <=> k \in K /\ cache[Core][k].val # Invalid
      OBVIOUS
    <3>1. /\ disk'[k] = IF k \in written THEN cache[Core][k].val ELSE disk[k]
          /\ k \notin written => blame'[k] = blame[k]
      BY <2>1
    <3> DEFINE e == cache[Core][k]
    <3>2. e \in CacheEl
      BY <2>2
    <3> HIDE DEF valid, written
    <3>3. cache'[Core][k] = IF k \in K /\ written = valid THEN [e EXCEPT !.saved = TRUE] ELSE e
      BY <2>1, <2>2
    <3> HIDE DEF e
    <3>4. cache'[Core][k].val = e.val /\ (~ (k \in K /\ written = valid) => cache'[Core][k] = e)
      BY <3>2, <3>3 DEF CacheEl
    <3>5. e.saved /\ e.val # Invalid /\ blame[k] = {} => disk[k] = e.val
      BY DEF e, SavedOK, SavedKey, State
    <3>6. CASE k \in written
      BY <3>1, <3>4, <3>6 DEF e
    <3>7. CASE k \notin written
      <4>1. CASE k \in K /\ written = valid
        <5>1. e.val = Invalid
          BY <3>0, <3>7, <4>1 DEF e
        <5> QED
          BY <3>4, <5>1
      <4>2. CASE ~ (k \in K /\ written = valid)
        BY <3>1, <3>4, <3>5, <3>7, <4>2
      <4> QED
        BY <4>1, <4>2
    <3> QED
      BY <3>6, <3>7
  <2> QED
    BY <2>3 DEF SavedFlagExplained
<1> QED
  BY <1>2, <1>3, <1>4 DEF StoreStep

(***************************************************************************)
(* The core's saved flag is wrong only if a write failed or if a page      *)
(* saved a value that another change had overtaken.                        *)
(***************************************************************************)
THEOREM SavedFlagHolds == Spec => []SavedFlagExplained
<1>1. Init => SavedFlagExplained
  BY CacheAssumption DEF Init, SavedFlagExplained
<1>2. CacheInv /\ SavedFlagExplained /\ [Next]_vars => SavedFlagExplained'
  <2> SUFFICES ASSUME WiringInv, SavedFlagExplained, [Next]_vars PROVE SavedFlagExplained'
    BY DEF CacheInv
  <2>0. SavedOK(State)
    BY SavedIs
  <2>s. ASSUME UNCHANGED <<cache, disk, blame>> PROVE SavedFlagExplained'
    BY <2>s DEF SavedFlagExplained
  <2>1. CASE UNCHANGED vars
    BY <2>1, <2>s DEF vars
  <2>2. ASSUME NEW p \in Pages, PageStep(p) PROVE SavedFlagExplained'
    <3>1. ASSUME NEW k \in Keys, CreateElement(p, k) PROVE SavedFlagExplained'
      BY <2>s, <3>1 DEF CreateElement
    <3>2. ASSUME NEW k \in Keys, NEW v \in Values, NEW save \in BOOLEAN, NEW ok,
                 SetValue(p, k, v, save, ok)
          PROVE  SavedFlagExplained'
      BY <2>0, <3>2, SetValueSaves
    <3>3. ASSUME BeginBatch(p) \/ AbandonBatch(p) PROVE SavedFlagExplained'
      BY <2>s, <3>3 DEF BeginBatch, AbandonBatch
    <3>4. ASSUME EndBatch(p) PROVE SavedFlagExplained'
      BY <2>0, <3>4, EndBatchSaves
    <3> QED
      BY <2>2, <3>1, <3>2, <3>3, <3>4 DEF PageStep
  <2>3. ASSUME NEW p \in Pages, PageTakes(p) \/ CacheStep(p) PROVE SavedFlagExplained'
    <3>1. CASE PageTakes(p)
      BY <2>s, <3>1 DEF PageTakes
    <3>2. CASE CacheStep(p)
      BY <2>0, <3>2, TakingSaves DEF CacheStep
    <3> QED
      BY <2>3, <3>1, <3>2
  <2>4. ASSUME NEW r \in Guis, GuiStep(r) PROVE SavedFlagExplained'
    <3>1. CASE ProcTakes(r) \/ EndSync(r)
      BY <2>0, <3>1, TakingSaves
    <3>2. CASE BeginSync(r) \/ GetAllSettings(r)
      BY <2>s, <3>2 DEF BeginSync, GetAllSettings
    <3>3. CASE CoreStep(r)
      BY <2>0, <3>3, TakingSaves DEF CoreStep
    <3> QED
      BY <2>4, <3>1, <3>2, <3>3 DEF GuiStep
  <2>5. CASE StoreStep
    BY <2>0, <2>5, StoreSaves
  <2> QED
    BY <2>1, <2>2, <2>3, <2>4, <2>5 DEF Next
<1> QED
  BY <1>1, <1>2, CacheInvHolds, PTL DEF Spec

-----------------------------------------------------------------------------
(***************************************************************************)
(* The pages of process r and its cache implement EchoSync for key k.      *)
(***************************************************************************)
LEMMA PageInit ==
  ASSUME Init, NEW r \in Procs, NEW k \in Keys
  PROVE  PageLevel(r, k)!Init
<1> DEFINE C == PagesOf(r)
           h == cache[r][k].val
           V == [p \in C |-> page[p][k].val]
           T == {p \in C : page[p][k].made}
<1>1. WiringInv
  BY InitWiring
<1>2. h \in AnyValue /\ C \subseteq Pages
  BY <1>1 DEF WiringInv, States, State, CacheEl, PagesOf
<1>3. V \in [C -> AnyValue]
  BY <1>1, <1>2 DEF WiringInv, States, State, PageEl
<1>4. ~ NoElement.made /\ NoElement.pending = 0
  BY DEF NoElement
<1>5. \A p \in C : /\ page[p][k] = NoElement
                   /\ toCache[p] = <<>> /\ toPage[p] = <<>>
  BY <1>2 DEF Init
<1>6. T \in SUBSET {c \in C : h \in [p \in C |-> Accepts[p]][c] => V[c] = h}
  BY <1>4, <1>5
<1>7. [p \in C |-> page[p][k].pending] = [c \in C |-> 0]
  BY <1>4, <1>5
<1>8. [p \in C |-> UpOf(toCache[p], k)] = [c \in C |-> <<>>]
  BY <1>5, NothingThrough
<1>9. [p \in C |-> DownOf(toPage[p], k)] = [c \in C |-> <<>>]
  BY <1>5, NothingThrough
<1> QED
  BY <1>2, <1>3, <1>6, <1>7, <1>8, <1>9 DEF PageLevel!Init

(* A sequence has a length, so that no queue is full.                      *)
LEMMA NeverFull == ASSUME NEW S, NEW s \in Seq(S) PROVE Len(s) # -1
BY LenProperties

(* A move of the pages of r is a step of EchoSync, or none.                *)
LEMMA PageBridge ==
  ASSUME WiringInv, WiringInv', NEW r \in Procs, NEW k \in Keys, PageMoves(State, State', r, k)
  PROVE  [PageLevel(r, k)!Next]_(PageLevel(r, k)!echoVars)
<1> USE CacheAssumption
<1> DEFINE C == PagesOf(r)
           D == C \cap MainPages
           A == [p \in C |-> Accepts[p]]
           h == cache[r][k].val
           V == [p \in C |-> page[p][k].val]
           P == [p \in C |-> page[p][k].pending]
           U == [p \in C |-> UpOf(toCache[p], k)]
           W == [p \in C |-> DownOf(toPage[p], k)]
           T == {p \in C : page[p][k].made}
           h1 == cache'[r][k].val
           V1 == [p \in C |-> page'[p][k].val]
           P1 == [p \in C |-> page'[p][k].pending]
           U1 == [p \in C |-> UpOf(toCache'[p], k)]
           W1 == [p \in C |-> DownOf(toPage'[p], k)]
           T1 == {p \in C : page'[p][k].made}
           X == State
           Y == State'
           x(p) == PageView(X, p, k)
           y(p) == PageView(Y, p, k)
           Ad(c, v, B) == IF c \in B /\ v \in A[c] THEN {v} ELSE AnyValue
           Bc(v, c) == /\ \A d \in C \ D : Len(W[d]) # -1
                       /\ h1 = v
                       /\ W1 = [d \in C |-> IF d \in D THEN W[d]
                                            ELSE Append(W[d], [val |-> v, by |-> c])]
                       /\ V1 \in [C -> AnyValue]
                       /\ \A d \in C : IF d \in D
                                       THEN V1[d] \in (IF d = c THEN {v} ELSE Ad(d, v, T))
                                       ELSE V1[d] = V[d]
(* the steps of EchoSync, in these terms                                   *)
<1>1. ASSUME h1 = h, V1 = V, P1 = P, U1 = U, W1 = W, T1 = T
      PROVE  UNCHANGED PageLevel(r, k)!echoVars
  BY <1>1 DEF PageLevel!echoVars
<1>2. ASSUME NEW c \in C \ D, NEW v \in AnyValue, Len(U[c]) # -1, V1 = [V EXCEPT ![c] = v],
             P1 = [P EXCEPT ![c] = P[c] + 1], U1 = [U EXCEPT ![c] = Append(U[c], v)],
             h1 = h, W1 = W, T1 = T
      PROVE  PageLevel(r, k)!Next
  <2>1. PageLevel(r, k)!Change(c, v)
    BY <1>2 DEF PageLevel!Change
  <2> QED
    BY <2>1 DEF PageLevel!Next
<1>3. ASSUME NEW v, NEW c, Bc(v, c) PROVE PageLevel(r, k)!Broadcast(v, c)
  BY <1>3 DEF PageLevel!Broadcast, PageLevel!Adopted
<1> HIDE DEF Bc
<1>4. ASSUME NEW c \in D, NEW v \in AnyValue, Bc(v, c), P1 = P, U1 = U, T1 = T
      PROVE  PageLevel(r, k)!Next
  <2>0. PageLevel(r, k)!Broadcast(v, c)
    BY <1>3, <1>4
  <2>1. PageLevel(r, k)!ChangeDirect(c, v)
    BY <1>4, <2>0 DEF PageLevel!ChangeDirect
  <2> QED
    BY <2>1 DEF PageLevel!Next
<1>5. ASSUME NEW v \in AnyValue, Bc(v, Nobody), P1 = P, U1 = U, T1 = T
      PROVE  PageLevel(r, k)!Next
  <2>0. PageLevel(r, k)!Broadcast(v, Nobody)
    BY <1>3, <1>5
  <2>1. PageLevel(r, k)!ChangeHub(v)
    BY <1>5, <2>0 DEF PageLevel!ChangeHub
  <2> QED
    BY <2>1 DEF PageLevel!Next
<1>6. ASSUME NEW c \in C \ D, U[c] # <<>>, Bc(Head(U[c]), c), P1 = P,
             U1 = [U EXCEPT ![c] = Tail(U[c])], T1 = T
      PROVE  PageLevel(r, k)!Next
  <2>0. PageLevel(r, k)!Broadcast(Head(U[c]), c)
    BY <1>3, <1>6
  <2>1. PageLevel(r, k)!Relay(c)
    BY <1>6, <2>0 DEF PageLevel!Relay
  <2> QED
    BY <2>1 DEF PageLevel!Next
<1>7. ASSUME NEW c \in C \ D, W[c] # <<>>, W1 = [W EXCEPT ![c] = Tail(W[c])],
             IF Head(W[c]).by = c THEN P1 = [P EXCEPT ![c] = P[c] - 1] /\ V1 = V
             ELSE P1 = P /\ IF P[c] = 0
                            THEN \E v \in Ad(c, Head(W[c]).val, T) : V1 = [V EXCEPT ![c] = v]
                            ELSE V1 = V,
             h1 = h, U1 = U, T1 = T
      PROVE  PageLevel(r, k)!Next
  <2>1. PageLevel(r, k)!Receive(c)
    BY <1>7 DEF PageLevel!Receive, PageLevel!Adopted
  <2> QED
    BY <2>1 DEF PageLevel!Next
<1>8. ASSUME NEW c \in C, T1 = T \cup {c},
             IF P[c] = 0
             THEN \E read \in (IF W[c] = <<>> THEN {h} ELSE AnyValue) :
                  \E v \in Ad(c, read, T1) : V1 = [V EXCEPT ![c] = v]
             ELSE V1 = V,
             h1 = h, P1 = P, U1 = U, W1 = W
      PROVE  PageLevel(r, k)!Next
  <2>1. PageLevel(r, k)!Attach(c)
    BY <1>8 DEF PageLevel!Attach, PageLevel!Adopted
  <2> QED
    BY <2>1 DEF PageLevel!Next
(* what the views say                                                      *)
<1>9. X \in States /\ Y \in States /\ C \subseteq Pages /\ \A p \in C : Home[p] = r
  BY DEF WiringInv, PagesOf
<1>10. /\ h = X.cache[r][k].val /\ h1 = Y.cache[r][k].val
       /\ \A p \in C : /\ page[p][k] = X.page[p][k] /\ page'[p][k] = Y.page[p][k]
                       /\ toCache[p] = X.toCache[p] /\ toCache'[p] = Y.toCache[p]
                       /\ toPage[p] = X.toPage[p] /\ toPage'[p] = Y.toPage[p]
  BY DEF State
<1> HIDE DEF X, Y
<1>11. ASSUME NEW p \in C
       PROVE  /\ x(p).hub = h /\ x(p).val = V[p] /\ x(p).pending = P[p]
              /\ x(p).up = U[p] /\ x(p).down = W[p] /\ (p \in x(p).attached <=> p \in T)
  BY <1>9, <1>10 DEF PageView
<1>12. ASSUME NEW p \in C
       PROVE  /\ y(p).hub = h1 /\ y(p).val = V1[p] /\ y(p).pending = P1[p]
              /\ y(p).up = U1[p] /\ y(p).down = W1[p] /\ (p \in y(p).attached <=> p \in T1)
  BY <1>9, <1>10 DEF PageView
<1>13. /\ h \in AnyValue /\ h1 \in AnyValue
       /\ \A p \in C : V1[p] \in AnyValue /\ U[p] \in Seq(AnyValue)
                       /\ W[p] \in Seq(Told(AnyValue, Pages \cup {Nobody}))
  <2>1. \A p \in C : x(p) \in PageViews /\ y(p) \in PageViews
    BY <1>9, ViewsTyped
  <2>2. h \in AnyValue /\ h1 \in AnyValue
    BY <1>9, <1>10 DEF States, CacheEl
  <2> HIDE DEF x, y
  <2> QED
    BY <1>11, <1>12, <2>1, <2>2 DEF PageViews, Views
<1>14. \A p \in C : Len(U[p]) # -1 /\ Len(W[p]) # -1
  BY <1>13, NeverFull
<1>15. /\ V = [p \in C |-> V[p]] /\ P = [p \in C |-> P[p]] /\ U = [p \in C |-> U[p]]
       /\ W = [p \in C |-> W[p]] /\ T \subseteq C
       /\ V1 = [p \in C |-> V1[p]] /\ P1 = [p \in C |-> P1[p]] /\ U1 = [p \in C |-> U1[p]]
       /\ W1 = [p \in C |-> W1[p]] /\ T1 \subseteq C
  OBVIOUS
<1>16. \A p \in C : A[p] = Accepts[p]
  OBVIOUS
<1>17. D = C \cap MainPages /\ C = PagesOf(r) /\ Nobody \notin C
  BY <1>9
<1> HIDE DEF C, D, A, h, V, P, U, W, T, h1, V1, P1, U1, W1, T1, x, y
<1>18. ASSUME NEW N, PagesButStay(X, Y, r, k, N)
       PROVE  /\ h1 = h
              /\ \A p \in C \ N : V1[p] = V[p] /\ P1[p] = P[p] /\ U1[p] = U[p] /\ W1[p] = W[p]
                                  /\ (p \in T1 <=> p \in T)
  <2>1. h1 = h
    BY <1>10, <1>18 DEF PagesButStay
  <2>2. \A p \in C \ N : Stays(p, x(p), y(p))
    BY <1>17, <1>18 DEF PagesButStay, PageStays, x, y
  <2> QED
    BY <1>11, <1>12, <2>1, <2>2 DEF Stays
<1>19. CASE PagesButStay(X, Y, r, k, {})
  <2>1. h1 = h /\ \A p \in C : V1[p] = V[p] /\ P1[p] = P[p] /\ U1[p] = U[p] /\ W1[p] = W[p]
                               /\ (p \in T1 <=> p \in T)
    BY <1>18, <1>19
  <2>2. V1 = V /\ P1 = P /\ U1 = U /\ W1 = W
    BY <1>15, <2>1
  <2>3. T1 = T
    BY <1>15, <2>1
  <2> QED
    BY <1>1, <2>1, <2>2, <2>3
<1>20. ASSUME NEW b \in Pages, PageChanges(X, Y, r, k, b) PROVE PageLevel(r, k)!Next
  <2>1. b \in C \ D /\ Changes(b, x(b), y(b)) /\ PagesButStay(X, Y, r, k, {b})
    BY <1>17, <1>20 DEF PageChanges, x, y
  <2>2. h1 = h /\ \A p \in C \ {b} : V1[p] = V[p] /\ P1[p] = P[p] /\ U1[p] = U[p] /\ W1[p] = W[p]
                                     /\ (p \in T1 <=> p \in T)
    BY <1>18, <2>1
  <2>3. P1[b] = P[b] + 1 /\ U1[b] = Append(U[b], V1[b]) /\ W1[b] = W[b] /\ (b \in T1 <=> b \in T)
    BY <1>11, <1>12, <2>1 DEF Changes
  <2>4. V1 = [V EXCEPT ![b] = V1[b]] /\ P1 = [P EXCEPT ![b] = P[b] + 1]
    BY <1>15, <2>1, <2>2, <2>3
  <2>5. U1 = [U EXCEPT ![b] = Append(U[b], V1[b])]
    BY <1>15, <2>1, <2>2, <2>3
  <2>6. W1 = W
    BY <1>15, <2>2, <2>3
  <2>7. T1 = T
    <3>1. \A p \in C : p \in T1 <=> p \in T
      BY <2>2, <2>3
    <3> QED
      BY <1>15, <3>1
  <2>8. V1[b] \in AnyValue /\ Len(U[b]) # -1
    BY <1>13, <1>14, <2>1
  <2> QED
    BY <1>2, <2>1, <2>2, <2>4, <2>5, <2>6, <2>7, <2>8
<1>21. ASSUME NEW b \in Pages, PageReceives(X, Y, r, k, b) PROVE PageLevel(r, k)!Next
  <2>1. b \in C \ D /\ Receives(b, A[b], x(b), y(b)) /\ PagesButStay(X, Y, r, k, {b})
    BY <1>16, <1>17, <1>21 DEF PageReceives, x, y
  <2>2. h1 = h /\ \A p \in C \ {b} : V1[p] = V[p] /\ P1[p] = P[p] /\ U1[p] = U[p] /\ W1[p] = W[p]
                                     /\ (p \in T1 <=> p \in T)
    BY <1>18, <2>1
  <2>3. /\ W[b] # <<>> /\ W1[b] = Tail(W[b]) /\ U1[b] = U[b] /\ (b \in T1 <=> b \in T)
        /\ IF Head(W[b]).by = b THEN P1[b] = P[b] - 1 /\ V1[b] = V[b]
           ELSE /\ P1[b] = P[b]
                /\ IF P[b] = 0 THEN b \in T /\ Head(W[b]).val \in A[b] => V1[b] = Head(W[b]).val
                   ELSE V1[b] = V[b]
    BY <1>11, <1>12, <2>1 DEF Receives
  <2>4. W1 = [W EXCEPT ![b] = Tail(W[b])]
    BY <1>15, <2>1, <2>2, <2>3
  <2>5. U1 = U
    BY <1>15, <2>2, <2>3
  <2>6. T1 = T
    <3>1. \A p \in C : p \in T1 <=> p \in T
      BY <2>2, <2>3
    <3> QED
      BY <1>15, <3>1
  <2>7. /\ P1[b] = P[b] => P1 = P
        /\ V1[b] = V[b] => V1 = V
        /\ V1 = [V EXCEPT ![b] = V1[b]]
        /\ P1[b] = P[b] - 1 => P1 = [P EXCEPT ![b] = P[b] - 1]
    BY <1>15, <2>1, <2>2
  <2>8. V1[b] \in AnyValue
    BY <1>13, <2>1
  <2>9. (b \in T /\ Head(W[b]).val \in A[b] => V1[b] = Head(W[b]).val)
          => V1[b] \in Ad(b, Head(W[b]).val, T)
    BY <2>8
  <2> HIDE DEF Ad
  <2>10. IF Head(W[b]).by = b THEN P1 = [P EXCEPT ![b] = P[b] - 1] /\ V1 = V
         ELSE P1 = P /\ IF P[b] = 0
                        THEN \E v \in Ad(b, Head(W[b]).val, T) : V1 = [V EXCEPT ![b] = v]
                        ELSE V1 = V
    BY <2>3, <2>7, <2>9
  <2> QED
    BY <1>7, <2>1, <2>2, <2>3, <2>4, <2>5, <2>6, <2>10
<1>22. ASSUME NEW b \in Pages, PageAttaches(X, Y, r, k, b) PROVE PageLevel(r, k)!Next
  <2>1. b \in C /\ b \in T1 /\ Attaches(A[b], x(b), y(b)) /\ PagesButStay(X, Y, r, k, {b})
    BY <1>10, <1>16, <1>17, <1>22 DEF PageAttaches, x, y, T1
  <2>2. h1 = h /\ \A p \in C \ {b} : V1[p] = V[p] /\ P1[p] = P[p] /\ U1[p] = U[p] /\ W1[p] = W[p]
                                     /\ (p \in T1 <=> p \in T)
    BY <1>18, <2>1
  <2>3. /\ W1[b] = W[b] /\ U1[b] = U[b] /\ P1[b] = P[b]
        /\ IF P[b] = 0 THEN W[b] = <<>> /\ h \in A[b] => V1[b] = h ELSE V1[b] = V[b]
    BY <1>11, <1>12, <2>1 DEF Attaches
  <2>4. P1 = P /\ U1 = U /\ W1 = W
    BY <1>15, <2>2, <2>3
  <2>5. T1 = T \cup {b}
    BY <1>15, <2>1, <2>2
  <2>6. (V1[b] = V[b] => V1 = V) /\ V1 = [V EXCEPT ![b] = V1[b]]
    BY <1>15, <2>1, <2>2
  <2>7. V1[b] \in AnyValue /\ Invalid \in AnyValue /\ Invalid \notin A[b]
    BY <1>9, <1>13, <1>16, <2>1 DEF AnyValue
  <2>8. P[b] = 0 => \E read \in (IF W[b] = <<>> THEN {h} ELSE AnyValue) :
                    V1[b] \in Ad(b, read, T1)
    <3>1. CASE P[b] = 0 /\ W[b] = <<>>
      BY <2>3, <2>7, <3>1
    <3>2. CASE P[b] = 0 /\ W[b] # <<>>
      BY <2>7, <3>2
    <3> QED
      BY <3>1, <3>2
  <2> HIDE DEF Ad
  <2>9. IF P[b] = 0
        THEN \E read \in (IF W[b] = <<>> THEN {h} ELSE AnyValue) :
             \E v \in Ad(b, read, T1) : V1 = [V EXCEPT ![b] = v]
        ELSE V1 = V
    BY <2>3, <2>6, <2>8
  <2> QED
    BY <1>8, <2>1, <2>2, <2>4, <2>5, <2>9
<1>23. ASSUME NEW b \in Pages \cup {Nobody}, CacheTells(X, Y, r, k, b) PROVE PageLevel(r, k)!Next
  <2>1. /\ b \in C \cup {Nobody}
        /\ \A p \in D : Called(p, A[p], x(p), y(p)) /\ (p = b => V1[p] = h1)
        /\ \A p \in C \ D : Posted(p, b, x(p), y(p))
    BY <1>9, <1>10, <1>16, <1>17, <1>23 DEF CacheTells, x, y, V1, C, D
  <2>2. ASSUME NEW p \in D
        PROVE  /\ P1[p] = P[p] /\ U1[p] = U[p] /\ W1[p] = W[p] /\ (p \in T1 <=> p \in T)
               /\ p \in T /\ h1 \in A[p] => V1[p] = h1
    <3>1. p \in C
      BY <1>17
    <3> QED
      BY <1>11, <1>12, <2>1, <3>1 DEF Called
  <2>3. ASSUME NEW p \in C \ D
        PROVE  /\ W1[p] = Append(W[p], [val |-> h1, by |-> b])
               /\ V1[p] = V[p] /\ P1[p] = P[p] /\ (p \in T1 <=> p \in T)
               /\ IF b = p THEN U[p] # <<>> /\ h1 = Head(U[p]) /\ U1[p] = Tail(U[p])
                  ELSE U1[p] = U[p]
    <3>1. p \in C /\ Posted(p, b, x(p), y(p))
      BY <2>1
    <3>2. /\ x(p).val = V[p] /\ x(p).pending = P[p] /\ x(p).up = U[p] /\ x(p).down = W[p]
          /\ (p \in x(p).attached <=> p \in T)
      BY <1>11, <3>1
    <3>3. /\ y(p).hub = h1 /\ y(p).val = V1[p] /\ y(p).pending = P1[p]
          /\ y(p).up = U1[p] /\ y(p).down = W1[p] /\ (p \in y(p).attached <=> p \in T1)
      BY <1>12, <3>1
    <3> QED
      BY <3>1, <3>2, <3>3 DEF Posted
  <2>4. P1 = P
    <3>1. \A p \in C : P1[p] = P[p]
      BY <2>2, <2>3
    <3> QED
      BY <1>15, <3>1
  <2>5. T1 = T
    BY <1>15, <2>2, <2>3
  <2>6. Bc(h1, b)
    <3> USE DEF Bc
    <3>1. W1 = [d \in C |-> IF d \in D THEN W[d] ELSE Append(W[d], [val |-> h1, by |-> b])]
      BY <1>15, <2>2, <2>3
    <3>2. V1 \in [C -> AnyValue]
      BY <1>13, <1>15
    <3>3. ASSUME NEW d \in D PROVE V1[d] \in (IF d = b THEN {h1} ELSE Ad(d, h1, T))
      <4>1. V1[d] \in AnyValue
        BY <1>13, <1>17
      <4> QED
        BY <2>1, <2>2, <4>1
    <3>4. \A d \in C \ D : V1[d] = V[d] /\ Len(W[d]) # -1
      BY <1>14, <2>3
    <3> HIDE DEF Ad
    <3>5. \A d \in C : IF d \in D THEN V1[d] \in (IF d = b THEN {h1} ELSE Ad(d, h1, T))
                       ELSE V1[d] = V[d]
      BY <3>3, <3>4
    <3> QED
      BY <3>1, <3>2, <3>4, <3>5
  <2>7. CASE b = Nobody \/ b \in D
    <3>1. U1 = U
      BY <1>15, <1>17, <2>2, <2>3, <2>7
    <3> QED
      BY <1>4, <1>5, <1>13, <2>4, <2>5, <2>6, <2>7, <3>1
  <2>8. CASE b \in C \ D
    <3>1. U[b] # <<>> /\ h1 = Head(U[b]) /\ U1[b] = Tail(U[b])
      BY <2>3, <2>8
    <3>2. U1 = [U EXCEPT ![b] = Tail(U[b])]
      BY <1>15, <2>2, <2>3, <2>8, <3>1
    <3> QED
      BY <1>6, <2>4, <2>5, <2>6, <2>8, <3>1, <3>2
  <2> QED
    BY <2>1, <2>7, <2>8
<1>24. PageMoves(X, Y, r, k)
  BY DEF X, Y
<1> QED
  BY <1>19, <1>20, <1>21, <1>22, <1>23, <1>24 DEF PageMoves

-----------------------------------------------------------------------------
(***************************************************************************)
(* The caches of all processes implement EchoSync for key k.               *)
(***************************************************************************)
LEMMA ProcInit ==
  ASSUME Init, NEW k \in Keys
  PROVE  ProcLevel(k)!Init
<1> USE CacheAssumption
<1> DEFINE h == cache[Core][k].val
           V == [r \in Procs |-> cache[r][k].val]
<1>1. \A r \in Procs : cache[r][k].val = Invalid /\ cache[r][k].pending = 0
  BY DEF Init
<1>2. h \in AnyValue /\ V \in [Procs -> AnyValue]
  BY <1>1 DEF AnyValue
<1>3. \A r \in Procs : r # Core => toCore[r] = <<>> /\ toProc[r] = <<>>
  BY DEF Init, Guis
<1>4. synced \cup {Core} \in SUBSET {c \in Procs : h \in [r \in Procs |-> Values][c] => V[c] = h}
  BY DEF Init
<1>5. [r \in Procs |-> cache[r][k].pending] = [c \in Procs |-> 0]
  BY <1>1
<1>6. [r \in Procs |-> IF r = Core THEN <<>> ELSE UpOf(toCore[r], k)] = [c \in Procs |-> <<>>]
  BY <1>3, NothingThrough
<1>7. [r \in Procs |-> IF r = Core THEN <<>> ELSE DownOf(toProc[r], k)] = [c \in Procs |-> <<>>]
  BY <1>3, NothingThrough
<1> QED
  BY <1>2, <1>4, <1>5, <1>6, <1>7 DEF ProcLevel!Init

(* A move of the processes is a step of EchoSync, or none.                 *)
LEMMA ProcBridge ==
  ASSUME WiringInv, WiringInv', NEW k \in Keys, NEW N, N \subseteq Guis,
         ProcMoves(State, synced, State', synced', N, k)
  PROVE  [ProcLevel(k)!Next]_(ProcLevel(k)!echoVars)
<1> USE CacheAssumption
<1> DEFINE C == Procs
           D == {Core}
           A == [r \in Procs |-> Values]
           h == cache[Core][k].val
           V == [r \in Procs |-> cache[r][k].val]
           P == [r \in Procs |-> cache[r][k].pending]
           U == [r \in Procs |-> IF r = Core THEN <<>> ELSE UpOf(toCore[r], k)]
           W == [r \in Procs |-> IF r = Core THEN <<>> ELSE DownOf(toProc[r], k)]
           T == synced \cup {Core}
           h1 == cache'[Core][k].val
           V1 == [r \in Procs |-> cache'[r][k].val]
           P1 == [r \in Procs |-> cache'[r][k].pending]
           U1 == [r \in Procs |-> IF r = Core THEN <<>> ELSE UpOf(toCore'[r], k)]
           W1 == [r \in Procs |-> IF r = Core THEN <<>> ELSE DownOf(toProc'[r], k)]
           T1 == synced' \cup {Core}
           X == State
           Y == State'
           x(r) == ProcView(X, synced, r, k)
           y(r) == ProcView(Y, synced', r, k)
           Ad(c, v, B) == IF c \in B /\ v \in A[c] THEN {v} ELSE AnyValue
           Bc(v, c) == /\ \A d \in C \ D : Len(W[d]) # -1
                       /\ h1 = v
                       /\ W1 = [d \in C |-> IF d \in D THEN W[d]
                                            ELSE Append(W[d], [val |-> v, by |-> c])]
                       /\ V1 \in [C -> AnyValue]
                       /\ \A d \in C : IF d \in D
                                       THEN V1[d] \in (IF d = c THEN {v} ELSE Ad(d, v, T))
                                       ELSE V1[d] = V[d]
(* the steps of EchoSync, in these terms                                   *)
<1>1. ASSUME h1 = h, V1 = V, P1 = P, U1 = U, W1 = W, T1 = T
      PROVE  UNCHANGED ProcLevel(k)!echoVars
  BY <1>1 DEF ProcLevel!echoVars
<1>2. ASSUME NEW c \in C \ D, NEW v \in AnyValue, Len(U[c]) # -1, V1 = [V EXCEPT ![c] = v],
             P1 = [P EXCEPT ![c] = P[c] + 1], U1 = [U EXCEPT ![c] = Append(U[c], v)],
             h1 = h, W1 = W, T1 = T
      PROVE  ProcLevel(k)!Next
  <2>1. ProcLevel(k)!Change(c, v)
    BY <1>2 DEF ProcLevel!Change
  <2> QED
    BY <2>1 DEF ProcLevel!Next
<1>3. ASSUME NEW v, NEW c, Bc(v, c) PROVE ProcLevel(k)!Broadcast(v, c)
  BY <1>3 DEF ProcLevel!Broadcast, ProcLevel!Adopted
<1> HIDE DEF Bc
<1>4. ASSUME NEW c \in D, NEW v \in AnyValue, Bc(v, c), P1 = P, U1 = U, T1 = T
      PROVE  ProcLevel(k)!Next
  <2>0. ProcLevel(k)!Broadcast(v, c)
    BY <1>3, <1>4
  <2>1. ProcLevel(k)!ChangeDirect(c, v)
    BY <1>4, <2>0 DEF ProcLevel!ChangeDirect
  <2> QED
    BY <2>1 DEF ProcLevel!Next
<1>6. ASSUME NEW c \in C \ D, U[c] # <<>>, Bc(Head(U[c]), c), P1 = P,
             U1 = [U EXCEPT ![c] = Tail(U[c])], T1 = T
      PROVE  ProcLevel(k)!Next
  <2>0. ProcLevel(k)!Broadcast(Head(U[c]), c)
    BY <1>3, <1>6
  <2>1. ProcLevel(k)!Relay(c)
    BY <1>6, <2>0 DEF ProcLevel!Relay
  <2> QED
    BY <2>1 DEF ProcLevel!Next
<1>7. ASSUME NEW c \in C \ D, W[c] # <<>>, W1 = [W EXCEPT ![c] = Tail(W[c])],
             IF Head(W[c]).by = c THEN P1 = [P EXCEPT ![c] = P[c] - 1] /\ V1 = V
             ELSE P1 = P /\ IF P[c] = 0
                            THEN \E v \in Ad(c, Head(W[c]).val, T) : V1 = [V EXCEPT ![c] = v]
                            ELSE V1 = V,
             h1 = h, U1 = U, T1 = T
      PROVE  ProcLevel(k)!Next
  <2>1. ProcLevel(k)!Receive(c)
    BY <1>7 DEF ProcLevel!Receive, ProcLevel!Adopted
  <2> QED
    BY <2>1 DEF ProcLevel!Next
<1>8. ASSUME NEW c \in C, T1 = T \cup {c},
             IF P[c] = 0
             THEN \E read \in (IF W[c] = <<>> THEN {h} ELSE AnyValue) :
                  \E v \in Ad(c, read, T1) : V1 = [V EXCEPT ![c] = v]
             ELSE V1 = V,
             h1 = h, P1 = P, U1 = U, W1 = W
      PROVE  ProcLevel(k)!Next
  <2>1. ProcLevel(k)!Attach(c)
    BY <1>8 DEF ProcLevel!Attach, ProcLevel!Adopted
  <2> QED
    BY <2>1 DEF ProcLevel!Next
(* what the views say                                                      *)
<1>9. X \in States /\ Y \in States /\ synced \in SUBSET Guis /\ synced' \in SUBSET Guis
  BY DEF WiringInv, RestOK
<1>10. X.cache = cache /\ Y.cache = cache' /\ X.toCore = toCore /\ Y.toCore = toCore'
       /\ X.toProc = toProc /\ Y.toProc = toProc'
  BY DEF State
<1> HIDE DEF X, Y
<1>11. ASSUME NEW p \in C
       PROVE  /\ x(p).hub = h /\ x(p).val = V[p] /\ x(p).pending = P[p]
              /\ x(p).up = U[p] /\ x(p).down = W[p] /\ (p \in x(p).attached <=> p \in T)
  BY <1>10 DEF ProcView
<1>12. ASSUME NEW p \in C
       PROVE  /\ y(p).hub = h1 /\ y(p).val = V1[p] /\ y(p).pending = P1[p]
              /\ y(p).up = U1[p] /\ y(p).down = W1[p] /\ (p \in y(p).attached <=> p \in T1)
  BY <1>10 DEF ProcView
<1>13. /\ h \in AnyValue /\ h1 \in AnyValue
       /\ \A p \in C : V1[p] \in AnyValue /\ U[p] \in Seq(AnyValue)
                       /\ W[p] \in Seq(Told(AnyValue, Procs))
  <2>1. \A p \in C : x(p) \in ProcViews /\ y(p) \in ProcViews
    BY <1>9, ViewsTyped
  <2>2. h \in AnyValue /\ h1 \in AnyValue
    BY <1>9, <1>10 DEF States, CacheEl
  <2> HIDE DEF x, y
  <2> QED
    BY <1>11, <1>12, <2>1, <2>2 DEF ProcViews, Views
<1>14. \A p \in C : Len(U[p]) # -1 /\ Len(W[p]) # -1
  BY <1>13, NeverFull
<1>15. /\ V = [p \in C |-> V[p]] /\ P = [p \in C |-> P[p]] /\ U = [p \in C |-> U[p]]
       /\ W = [p \in C |-> W[p]] /\ T \subseteq C
       /\ V1 = [p \in C |-> V1[p]] /\ P1 = [p \in C |-> P1[p]] /\ U1 = [p \in C |-> U1[p]]
       /\ W1 = [p \in C |-> W1[p]] /\ T1 \subseteq C
  BY <1>9 DEF Guis
<1>16. \A p \in C : A[p] = Values
  OBVIOUS
<1>17. D = {Core} /\ C = Procs /\ Guis = C \ D /\ V1[Core] = h1 /\ Core \in C
  BY DEF Guis
<1>0. \A b \in synced' : b \in T1
  OBVIOUS
<1> HIDE DEF C, D, A, h, V, P, U, W, T, h1, V1, P1, U1, W1, T1, x, y
<1>18. ASSUME NEW M, ProcsButStay(X, synced, Y, synced', k, M)
       PROVE  /\ h1 = h
              /\ \A p \in C \ M : V1[p] = V[p] /\ P1[p] = P[p] /\ U1[p] = U[p] /\ W1[p] = W[p]
                                  /\ (p \in T1 <=> p \in T)
  <2>1. h1 = h
    BY <1>10, <1>18 DEF ProcsButStay, h, h1
  <2>2. \A p \in C \ M : Stays(p, x(p), y(p))
    BY <1>17, <1>18 DEF ProcsButStay, ProcStays, x, y
  <2> QED
    BY <1>11, <1>12, <2>1, <2>2 DEF Stays
<1>19. CASE ProcsButStay(X, synced, Y, synced', k, {})
  <2>1. h1 = h /\ \A p \in C : V1[p] = V[p] /\ P1[p] = P[p] /\ U1[p] = U[p] /\ W1[p] = W[p]
                               /\ (p \in T1 <=> p \in T)
    BY <1>18, <1>19
  <2>2. V1 = V /\ P1 = P /\ U1 = U /\ W1 = W
    BY <1>15, <2>1
  <2>3. T1 = T
    BY <1>15, <2>1
  <2> QED
    BY <1>1, <2>1, <2>2, <2>3
<1>20. ASSUME NEW b, CacheChanges(X, synced, Y, synced', k, b) PROVE ProcLevel(k)!Next
  <2>1. b \in C \ D /\ Changes(b, x(b), y(b)) /\ ProcsButStay(X, synced, Y, synced', k, {b})
    BY <1>17, <1>20 DEF CacheChanges, x, y
  <2>2. h1 = h /\ \A p \in C \ {b} : V1[p] = V[p] /\ P1[p] = P[p] /\ U1[p] = U[p] /\ W1[p] = W[p]
                                     /\ (p \in T1 <=> p \in T)
    BY <1>18, <2>1
  <2>3. P1[b] = P[b] + 1 /\ U1[b] = Append(U[b], V1[b]) /\ W1[b] = W[b] /\ (b \in T1 <=> b \in T)
    BY <1>11, <1>12, <2>1 DEF Changes
  <2>4. V1 = [V EXCEPT ![b] = V1[b]] /\ P1 = [P EXCEPT ![b] = P[b] + 1]
    BY <1>15, <2>1, <2>2, <2>3
  <2>5. U1 = [U EXCEPT ![b] = Append(U[b], V1[b])]
    BY <1>15, <2>1, <2>2, <2>3
  <2>6. W1 = W
    BY <1>15, <2>2, <2>3
  <2>7. T1 = T
    <3>1. \A p \in C : p \in T1 <=> p \in T
      BY <2>2, <2>3
    <3> QED
      BY <1>15, <3>1
  <2>8. V1[b] \in AnyValue /\ Len(U[b]) # -1
    BY <1>13, <1>14, <2>1
  <2> QED
    BY <1>2, <2>1, <2>2, <2>4, <2>5, <2>6, <2>7, <2>8
<1>21. ASSUME NEW b, CacheReceives(X, synced, Y, synced', k, b) PROVE ProcLevel(k)!Next
  <2>1. b \in C \ D /\ Receives(b, A[b], x(b), y(b)) /\ ProcsButStay(X, synced, Y, synced', k, {b})
    BY <1>16, <1>17, <1>21 DEF CacheReceives, x, y
  <2>2. h1 = h /\ \A p \in C \ {b} : V1[p] = V[p] /\ P1[p] = P[p] /\ U1[p] = U[p] /\ W1[p] = W[p]
                                     /\ (p \in T1 <=> p \in T)
    BY <1>18, <2>1
  <2>3. /\ W[b] # <<>> /\ W1[b] = Tail(W[b]) /\ U1[b] = U[b] /\ (b \in T1 <=> b \in T)
        /\ IF Head(W[b]).by = b THEN P1[b] = P[b] - 1 /\ V1[b] = V[b]
           ELSE /\ P1[b] = P[b]
                /\ IF P[b] = 0 THEN b \in T /\ Head(W[b]).val \in A[b] => V1[b] = Head(W[b]).val
                   ELSE V1[b] = V[b]
    BY <1>11, <1>12, <2>1 DEF Receives
  <2>4. W1 = [W EXCEPT ![b] = Tail(W[b])]
    BY <1>15, <2>1, <2>2, <2>3
  <2>5. U1 = U
    BY <1>15, <2>2, <2>3
  <2>6. T1 = T
    <3>1. \A p \in C : p \in T1 <=> p \in T
      BY <2>2, <2>3
    <3> QED
      BY <1>15, <3>1
  <2>7. /\ P1[b] = P[b] => P1 = P
        /\ V1[b] = V[b] => V1 = V
        /\ V1 = [V EXCEPT ![b] = V1[b]]
        /\ P1[b] = P[b] - 1 => P1 = [P EXCEPT ![b] = P[b] - 1]
    BY <1>15, <2>1, <2>2
  <2>8. V1[b] \in AnyValue
    BY <1>13, <2>1
  <2>9. (b \in T /\ Head(W[b]).val \in A[b] => V1[b] = Head(W[b]).val)
          => V1[b] \in Ad(b, Head(W[b]).val, T)
    BY <2>8
  <2> HIDE DEF Ad
  <2>10. IF Head(W[b]).by = b THEN P1 = [P EXCEPT ![b] = P[b] - 1] /\ V1 = V
         ELSE P1 = P /\ IF P[b] = 0
                        THEN \E v \in Ad(b, Head(W[b]).val, T) : V1 = [V EXCEPT ![b] = v]
                        ELSE V1 = V
    BY <2>3, <2>7, <2>9
  <2> QED
    BY <1>7, <2>1, <2>2, <2>3, <2>4, <2>5, <2>6, <2>10
<1>22. ASSUME NEW b, CacheAttaches(X, synced, Y, synced', k, b) PROVE ProcLevel(k)!Next
  <2>1. b \in C /\ b \in T1 /\ Attaches(A[b], x(b), y(b)) /\ ProcsButStay(X, synced, Y, synced', k, {b})
    BY <1>0, <1>16, <1>17, <1>22 DEF CacheAttaches, x, y
  <2>2. h1 = h /\ \A p \in C \ {b} : V1[p] = V[p] /\ P1[p] = P[p] /\ U1[p] = U[p] /\ W1[p] = W[p]
                                     /\ (p \in T1 <=> p \in T)
    BY <1>18, <2>1
  <2>3. /\ W1[b] = W[b] /\ U1[b] = U[b] /\ P1[b] = P[b]
        /\ IF P[b] = 0 THEN W[b] = <<>> /\ h \in A[b] => V1[b] = h ELSE V1[b] = V[b]
    BY <1>11, <1>12, <2>1 DEF Attaches
  <2>4. P1 = P /\ U1 = U /\ W1 = W
    BY <1>15, <2>2, <2>3
  <2>5. T1 = T \cup {b}
    BY <1>15, <2>1, <2>2
  <2>6. (V1[b] = V[b] => V1 = V) /\ V1 = [V EXCEPT ![b] = V1[b]]
    BY <1>15, <2>1, <2>2
  <2>7. V1[b] \in AnyValue /\ Invalid \in AnyValue /\ Invalid \notin A[b]
    BY <1>13, <1>16, <2>1 DEF AnyValue
  <2>8. P[b] = 0 => \E read \in (IF W[b] = <<>> THEN {h} ELSE AnyValue) :
                    V1[b] \in Ad(b, read, T1)
    <3>1. CASE P[b] = 0 /\ W[b] = <<>>
      BY <2>3, <2>7, <3>1
    <3>2. CASE P[b] = 0 /\ W[b] # <<>>
      BY <2>7, <3>2
    <3> QED
      BY <3>1, <3>2
  <2> HIDE DEF Ad
  <2>9. IF P[b] = 0
        THEN \E read \in (IF W[b] = <<>> THEN {h} ELSE AnyValue) :
             \E v \in Ad(b, read, T1) : V1 = [V EXCEPT ![b] = v]
        ELSE V1 = V
    BY <2>3, <2>6, <2>8
  <2> QED
    BY <1>8, <2>1, <2>2, <2>4, <2>5, <2>9
<1>23. ASSUME NEW b, CoreTells(X, synced, Y, synced', k, b) PROVE ProcLevel(k)!Next
  <2>1. /\ b \in C
        /\ \A p \in D : Called(p, A[p], x(p), y(p))
        /\ \A p \in C \ D : Posted(p, b, x(p), y(p))
    BY <1>16, <1>17, <1>23 DEF CoreTells, x, y
  <2>2. ASSUME NEW p \in D
        PROVE  /\ P1[p] = P[p] /\ U1[p] = U[p] /\ W1[p] = W[p] /\ (p \in T1 <=> p \in T)
               /\ V1[p] = h1
    <3>1. p \in C /\ V1[p] = h1
      BY <1>17
    <3> QED
      BY <1>11, <1>12, <2>1, <3>1 DEF Called
  <2>3. ASSUME NEW p \in C \ D
        PROVE  /\ W1[p] = Append(W[p], [val |-> h1, by |-> b])
               /\ V1[p] = V[p] /\ P1[p] = P[p] /\ (p \in T1 <=> p \in T)
               /\ IF b = p THEN U[p] # <<>> /\ h1 = Head(U[p]) /\ U1[p] = Tail(U[p])
                  ELSE U1[p] = U[p]
    <3>1. p \in C /\ Posted(p, b, x(p), y(p))
      BY <2>1
    <3>2. /\ x(p).val = V[p] /\ x(p).pending = P[p] /\ x(p).up = U[p] /\ x(p).down = W[p]
          /\ (p \in x(p).attached <=> p \in T)
      BY <1>11, <3>1
    <3>3. /\ y(p).hub = h1 /\ y(p).val = V1[p] /\ y(p).pending = P1[p]
          /\ y(p).up = U1[p] /\ y(p).down = W1[p] /\ (p \in y(p).attached <=> p \in T1)
      BY <1>12, <3>1
    <3> QED
      BY <3>1, <3>2, <3>3 DEF Posted
  <2>4. P1 = P
    <3>1. \A p \in C : P1[p] = P[p]
      BY <2>2, <2>3
    <3> QED
      BY <1>15, <3>1
  <2>5. T1 = T
    <3>1. \A p \in C : p \in T1 <=> p \in T
      BY <2>2, <2>3
    <3> QED
      BY <1>15, <3>1
  <2>6. Bc(h1, b)
    <3> USE DEF Bc
    <3>1. W1 = [d \in C |-> IF d \in D THEN W[d] ELSE Append(W[d], [val |-> h1, by |-> b])]
      BY <1>15, <2>2, <2>3
    <3>2. V1 \in [C -> AnyValue]
      BY <1>13, <1>15
    <3>3. ASSUME NEW d \in D PROVE V1[d] \in (IF d = b THEN {h1} ELSE Ad(d, h1, T))
      BY <1>13, <2>2
    <3>4. \A d \in C \ D : V1[d] = V[d] /\ Len(W[d]) # -1
      BY <1>14, <2>3
    <3> HIDE DEF Ad
    <3>5. \A d \in C : IF d \in D THEN V1[d] \in (IF d = b THEN {h1} ELSE Ad(d, h1, T))
                       ELSE V1[d] = V[d]
      BY <3>3, <3>4
    <3> QED
      BY <3>1, <3>2, <3>4, <3>5
  <2>7. CASE b \in D
    <3>1. U1 = U
      BY <1>15, <1>17, <2>2, <2>3, <2>7
    <3> QED
      BY <1>4, <1>13, <2>4, <2>5, <2>6, <2>7, <3>1
  <2>8. CASE b \in C \ D
    <3>1. U[b] # <<>> /\ h1 = Head(U[b]) /\ U1[b] = Tail(U[b])
      BY <2>3, <2>8
    <3>2. U1 = [U EXCEPT ![b] = Tail(U[b])]
      BY <1>15, <2>2, <2>3, <2>8, <3>1
    <3> QED
      BY <1>6, <2>4, <2>5, <2>6, <2>8, <3>1, <3>2
  <2> QED
    BY <2>1, <2>7, <2>8
<1>24. ProcMoves(X, synced, Y, synced', N, k)
  BY DEF X, Y
<1> QED
  BY <1>19, <1>20, <1>21, <1>22, <1>23, <1>24 DEF ProcMoves

-----------------------------------------------------------------------------
(* So is every step of the model, at both levels.                          *)
LEMMA BothBridges ==
  ASSUME WiringInv, [Next]_vars
  PROVE  /\ \A r \in Procs, k \in Keys : [PageLevel(r, k)!Next]_(PageLevel(r, k)!echoVars)
         /\ \A k \in Keys : [ProcLevel(k)!Next]_(ProcLevel(k)!echoVars)
<1>1. WiringInv' /\ \E M : Moves(M)
  BY WiringStep
<1>2. PICK N : Moves(N)
  BY <1>1
<1>3. /\ \A r \in Procs, k \in Keys : PageMoves(State, State', r, k)
      /\ \A k \in Keys : ProcMoves(State, synced, State', synced', N, k)
      /\ N \subseteq Guis
  BY <1>2 DEF Moves, StepFacts
<1>4. ASSUME NEW r \in Procs, NEW k \in Keys
      PROVE  [PageLevel(r, k)!Next]_(PageLevel(r, k)!echoVars)
  BY <1>1, <1>3, PageBridge
<1>5. ASSUME NEW k \in Keys PROVE [ProcLevel(k)!Next]_(ProcLevel(k)!echoVars)
  BY <1>1, <1>3, ProcBridge
<1> QED
  BY <1>4, <1>5

(***************************************************************************)
(* For every key, the pages of every process around its cache implement    *)
(* EchoSync: CValuePage and CValueCache run its protocol.                  *)
(***************************************************************************)
THEOREM PagesRefine == Spec => PagesImplementEchoSync
<1>1. Init => \A r \in Procs, k \in Keys : PageLevel(r, k)!Init
  BY PageInit
<1>2. CacheInv /\ [Next]_vars =>
        [\A r \in Procs, k \in Keys : [PageLevel(r, k)!Next]_(PageLevel(r, k)!echoVars)]_vars
  BY BothBridges DEF CacheInv
<1> QED
  BY <1>1, <1>2, CacheInvHolds, PTL DEF Spec, PagesImplementEchoSync

(***************************************************************************)
(* For every key, the caches of all processes around the core implement    *)
(* EchoSync: CContextApplication::changeSettings is its hub.               *)
(***************************************************************************)
THEOREM ProcsRefine == Spec => ProcsImplementEchoSync
<1>1. Init => \A k \in Keys : ProcLevel(k)!Init
  BY ProcInit
<1>2. CacheInv /\ [Next]_vars =>
        [\A k \in Keys : [ProcLevel(k)!Next]_(ProcLevel(k)!echoVars)]_vars
  BY BothBridges DEF CacheInv
<1> QED
  BY <1>1, <1>2, CacheInvHolds, PTL DEF Spec, ProcsImplementEchoSync
=============================================================================
