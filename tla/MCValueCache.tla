---------------------------- MODULE MCValueCache ----------------------------
(* ValueCache for TLC.  "Shared" has a core and a GUI process, one key, a  *)
(* page in the core's main thread and pages in other threads of the core   *)
(* and of the GUI; "Batch" has the core alone, two keys and two pages.     *)
EXTENDS ValueCache, TLC

CONSTANTS core, gui, pm, pt, pg, k1, k2, a, b, invalid, nobody

SharedHome == (pm :> core) @@ (pt :> core) @@ (pg :> gui)
SharedAccepts == (pm :> {a, b}) @@ (pt :> {a}) @@ (pg :> {a, b})
SharedOnDisk == k1 :> b

BatchHome == (pm :> core) @@ (pt :> core)
BatchAccepts == (pm :> {a}) @@ (pt :> {a, b})
BatchOnDisk == (k1 :> b) @@ (k2 :> invalid)
=============================================================================
