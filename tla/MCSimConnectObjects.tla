------------------------ MODULE MCSimConnectObjects ------------------------
(***************************************************************************)
(* SimConnectObjects for TLC: two aircraft and two models.  A scenario     *)
(* bounds what the contexts do and what the simulator does wrong, so that  *)
(* each combination is explored as far as it is interesting.               *)
(***************************************************************************)
EXTENDS SimConnectObjects

CONSTANTS A, B, m1, m2

(* Two aircraft come and go, and wait for each other.                      *)
Traffic ==
  [aircraft |-> {A, B}, commands |-> {"appear", "leave"}, maxCommands |-> 3,
   faults |-> {}, maxFaults |-> 0, prompt |-> FALSE, situation |-> "valid"]

(* One aircraft and everything that can be done with it.                   *)
User == [Traffic EXCEPT !.aircraft = {A},
           !.commands = {"appear", "leave", "match", "model", "enable", "disconnect"}]
Stops == [Traffic EXCEPT !.aircraft = {A}, !.commands = {"appear", "leave", "stop"},
                         !.maxCommands = 4]

(* The simulator fails: now and then, and up to all the thresholds.        *)
Both == [Traffic EXCEPT !.commands = {"appear"}, !.faults = {"refuse", "drop"},
                        !.maxCommands = 2, !.maxFaults = 2]
One == [Both EXCEPT !.aircraft = {A}, !.commands = {"appear", "leave"}, !.maxCommands = 3]
Failing == [Both EXCEPT !.aircraft = {A}, !.maxCommands = 1, !.maxFaults = 4]

(* Aircraft without a position.                                            *)
NoPosition == [Both EXCEPT !.faults = {}, !.situation = "none"]
StoredPosition == [NoPosition EXCEPT !.situation = "stored"]

Prompted(s) == [s EXCEPT !.prompt = TRUE]
PromptUser == Prompted([User EXCEPT !.commands = @ \ {"disconnect"}])

ObjectScenarios ==
  {Prompted(Traffic), PromptUser, NoPosition, StoredPosition,
   [User EXCEPT !.commands = {"appear", "leave", "disconnect"}],
   [One EXCEPT !.maxCommands = 2],
   [Both EXCEPT !.maxFaults = 1],
   Prompted([Both EXCEPT !.faults = {"drop"}]),
   Prompted([Both EXCEPT !.faults = {"refuse"}]),
   [Failing EXCEPT !.faults = {"drop"}], Prompted(Failing),
   Prompted([Stops EXCEPT !.commands = {"appear", "stop"}, !.aircraft = {A, B}])}

DropScenarios == {[Failing EXCEPT !.faults = {"drop"}]}
=============================================================================
