---------------------------- MODULE MCContextNetwork ----------------------------
(***************************************************************************)
(* The scenarios the runs start from.                                      *)
(***************************************************************************)
EXTENDS ContextNetwork

Classic ==
  [transport |-> "tcp", protocol |-> "classic", challenge |-> FALSE, loadBalancing |-> FALSE,
   netErrors |-> FALSE, lines |-> {}, maxFaults |-> 1,
   reconnect |-> TRUE, maxAttempts |-> 1, appendAttempt |-> FALSE,
   maxCommands |-> 1, maxNesting |-> 1, maxLogins |-> 2]

(* A server that kicks and refuses; a user who connects during a reconnect *)
(* and disconnects at any time, and one who does both again.               *)
Hostile ==
  [Classic EXCEPT !.lines = {"kill", "fatal"}, !.maxFaults = 2, !.maxAttempts = 2,
                  !.maxCommands = 2, !.maxNesting = 2, !.maxLogins = 3]
Impatient == [Classic EXCEPT !.lines = {"kill"}, !.maxCommands = 3]

(* A WebSocket server that identifies itself, to a client that answers and *)
(* to one whose network does not use the challenge.                        *)
WebSocket ==
  [Classic EXCEPT !.transport = "ws", !.protocol = "plain", !.challenge = TRUE,
                  !.lines = {"identify", "kill"}, !.maxCommands = 2]
Unanswered == [WebSocket EXCEPT !.challenge = FALSE, !.maxCommands = 1]

(* Connections that the server closes, or that break.                      *)
Dropping ==
  [Classic EXCEPT !.netErrors = TRUE, !.lines = {"kill", "fatal"}, !.maxFaults = 2,
                  !.maxAttempts = 2, !.appendAttempt = TRUE, !.maxLogins = 4]

(* Load balancing, a token service, and rehosts.                           *)
Services ==
  [Classic EXCEPT !.protocol = "jwt", !.challenge = TRUE, !.loadBalancing = TRUE,
                  !.netErrors = TRUE, !.lines = {"identify", "rehost"}, !.maxFaults = 2]

AllScenarios      == {Hostile, Impatient, WebSocket, Unanswered, Dropping, Services}
UserStopScenarios == {[Classic EXCEPT !.maxCommands = 2]}
BreakScenarios    == {[Classic EXCEPT !.netErrors = TRUE]}
=============================================================================
