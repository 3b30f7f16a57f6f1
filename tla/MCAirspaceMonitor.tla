-------------------------- MODULE MCAirspaceMonitor --------------------------
(***************************************************************************)
(* AirspaceMonitor for TLC: the scenarios, each with one callsign, since   *)
(* neither thread relates one callsign to another.  The code tells apart   *)
(* only the order of its delays: 2 s, 6 s, 20 s and 24 s in the monitor,   *)
(* and 7.5 s, 15 s and 50 s in the analyzer.                               *)
(***************************************************************************)
EXTENDS AirspaceMonitor

CONSTANT A

(* An aircraft whose data arrives, late or never.                          *)
Data ==
  [pilots |-> {A}, controllers |-> {}, distances |-> {"near"},
   sent |-> {"icao", "fsinn"}, maxEvents |-> 2, maxQueue |-> 1]

(* The watchdog, and the end of the session.                               *)
Lost == [Data EXCEPT !.sent = {"delete", "crash", "disconnect"}, !.maxQueue = 2]

(* Aircraft at the edge of the range, and beyond.                          *)
Ranged == [Data EXCEPT !.distances = {"near", "edge", "far"},
                       !.sent = {"disconnect"}, !.maxEvents = 1, !.maxQueue = 2]

(* The command .reinit, before or after data has been received.           *)
ReInited == [Data EXCEPT !.sent = {"icao", "reinit"}]

(* A controller, whose callsign may look like that of an aircraft.         *)
Station ==
  [Data EXCEPT !.pilots = {}, !.controllers = {A},
               !.sent = {"fsinn", "delete", "crash", "disconnect"}, !.maxQueue = 2]

AirspaceScenarios == {Data, Lost, Ranged, ReInited, Station}
StationScenarios == {[Station EXCEPT !.sent = {"crash"}]}
=============================================================================
