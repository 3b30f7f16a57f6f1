----------------------------- MODULE MCDataCache -----------------------------
(***************************************************************************)
(* Two processes.                                                          *)
(***************************************************************************)
EXTENDS DataCache, TLC

CONSTANTS gui, core, k1, k2, val1, val2, nil

Both(S) == [p \in Procs |-> S]

(* Both set values of two keys, one of them pinned.                        *)
Sharing ==
  [uses |-> Both({k1, k2}), pinned |-> {k1}, deferred |-> {},
   setters |-> {gui, core}, waiters |-> {},
   maxSets |-> 2, maxStarts |-> 1, maxFaults |-> 0]

(* One crash or failed write, and a restart.                               *)
Restarting ==
  [Sharing EXCEPT !.uses = Both({k1}), !.setters = {gui}, !.maxStarts = 2,
                  !.maxFaults = 1]

(* One process waits for a deferred value that the other one sets.         *)
Waiting ==
  [Sharing EXCEPT !.uses = Both({k1}), !.pinned = {}, !.deferred = {k1},
                  !.setters = {gui}, !.waiters = {core}, !.maxSets = 1]

Repeating == [Sharing EXCEPT !.uses = Both({k1}), !.setters = {gui}]

SafetyScenarios == {Sharing, Restarting, Waiting}
RepeatScenarios == {Repeating}
=============================================================================
