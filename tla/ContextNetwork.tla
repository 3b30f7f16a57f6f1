---------------------------- MODULE ContextNetwork ----------------------------
(***************************************************************************)
(* CContextNetwork (core/context/contextnetworkimpl.cpp) and its FSD       *)
(* client: the user's connect and disconnect, and the automatic reconnect  *)
(* that network-operator-guide.md describes under fsd.reconnect.           *)
(*                                                                         *)
(* The context lives in the main thread.  It reads the client's status     *)
(* directly, posts calls to the client's thread and gets the status        *)
(* changes and kicks back as queued signals, so what it reads and what it  *)
(* has been told differ.  connectToNetwork first tries the server's port   *)
(* in canConnect, a nested event loop of up to 5 s during which the main   *)
(* thread handles everything else: the calls under way are a stack         *)
(* (frames) and only the innermost can go on.                              *)
(*                                                                         *)
(* The login parameters are reduced to the callsign's suffix.  Shutdown is *)
(* left out.                                                               *)
(***************************************************************************)
EXTENDS FsdClient

ReconnectEnabled == scenario.reconnect     \* fsd.reconnect enabled, and not
                                           \* switched off by the user
MaxAttempts      == scenario.maxAttempts   \* fsd.reconnect.max_attempts
AppendAttempt    == scenario.appendAttempt \* fsd.reconnect.append_attempt_to_callsign
MaxCommands      == scenario.maxCommands   \* bound: what the user asks for
MaxLogins        == scenario.maxLogins     \* bound: logins begun when the reconnect
                                           \* timer still fires
MaxNesting       == scenario.maxNesting    \* bound: calls of connectToNetwork
                                           \* inside one another

ContextScenario(s) ==
  /\ s.reconnect \in BOOLEAN
  /\ s.maxAttempts \in Nat
  /\ s.appendAttempt \in BOOLEAN
  /\ s.maxCommands \in Nat
  /\ s.maxLogins \in Nat
  /\ s.maxNesting \in Nat \ {0}

ASSUME ContextAssumption == \A s \in Scenarios : ContextScenario(s)

VARIABLES
  frames,        \* connectToNetwork calls waiting in canConnect, outermost first
  armed,         \* m_reconnectTimer is running
  attempt,       \* m_reconnectAttempt
  inProgress,    \* m_reconnectInProgress
  haveLogin,     \* m_reconnectLogin.isValid()
  userReq,       \* m_userDisconnectRequested
  kicked,        \* m_kickedDisconnectRequested
  unexpected,    \* m_unexpectedDisconnectPending
  callsign,      \* suffix of the FSD client's callsign, 0 for none
  commands,      \* commands of the user so far
  last,          \* history: the last command, connect posted or kick
  tries          \* history: automatic logins since the last command or Connected

reconnect == <<armed, attempt, inProgress>>
flags     == <<userReq, kicked, unexpected>>
history   == <<last, tries>>
ctxVars   == <<frames, reconnect, haveLogin, flags, callsign, commands, history>>
vars      == <<scenario, fsdVars, ctxVars>>

Frames == [auto : BOOLEAN, byTimer : BOOLEAN, suffix : 0..MaxAttempts]

Init ==
  /\ FsdInit
  /\ frames = <<>>
  /\ armed = FALSE /\ attempt = 0 /\ inProgress = FALSE
  /\ haveLogin = FALSE
  /\ userReq = FALSE /\ kicked = FALSE /\ unexpected = FALSE
  /\ callsign = 0
  /\ commands = 0 /\ last = "none" /\ tries = 0

-----------------------------------------------------------------------------
CancelReconnect == armed' = FALSE /\ inProgress' = FALSE

ClearFlags == userReq' = FALSE /\ kicked' = FALSE /\ unexpected' = FALSE

MutScheduleReconnect ==   \* one attempt too many
  IF ReconnectEnabled /\ haveLogin /\ attempt <= MaxAttempts
  THEN attempt' = attempt + 1 /\ armed' = TRUE
  ELSE attempt' = 0 /\ UNCHANGED armed

ScheduleReconnect ==
  IF ReconnectEnabled /\ haveLogin /\ attempt < MaxAttempts
  THEN attempt' = attempt + 1 /\ armed' = TRUE
  ELSE attempt' = 0 /\ UNCHANGED armed

UserCommands(cmd) ==
  /\ commands < MaxCommands
  /\ commands' = commands + 1
  /\ last' = cmd
  /\ tries' = 0

(***************************************************************************)
(* connectToNetwork called by the user, up to canConnect.  A call during   *)
(* an automatic one takes itself for automatic (m_reconnectInProgress).    *)
(***************************************************************************)
UserConnects ==
  /\ UserCommands("connect")
  /\ Len(frames) < MaxNesting
  /\ IF inProgress
     THEN UNCHANGED <<reconnect, flags>>
     ELSE CancelReconnect /\ attempt' = 0 /\ ClearFlags
  /\ frames' = Append(frames, [auto |-> inProgress, byTimer |-> FALSE, suffix |-> 0])
  /\ UNCHANGED <<fsdVars, haveLogin, callsign>>

(* reconnectCallsignForAttempt                                             *)
ReconnectCallsign == IF AppendAttempt THEN attempt ELSE 0

(***************************************************************************)
(* m_reconnectTimer: reconnectToNetwork, up to canConnect.  The event loop *)
(* delivers what was queued before it fires a timer; and as its delay is   *)
(* seconds, the client's thread is done with the error of the connection   *)
(* that was lost.                                                          *)
(***************************************************************************)
ReconnectToNetwork ==
  /\ armed
  /\ signals = <<>>
  /\ ~closing /\ \A i \in 1..Len(inbox) : inbox[i].op # "error"
  /\ logins < MaxLogins
  /\ Len(frames) < MaxNesting
  /\ armed' = FALSE
  /\ IF ~haveLogin \/ userReq \/ kicked \/ status # "Disconnected"
     THEN UNCHANGED <<frames, attempt, inProgress, flags, tries>>
     ELSE IF ~ReconnectEnabled
     THEN attempt' = 0 /\ UNCHANGED <<frames, inProgress, flags, tries>>
     ELSE /\ inProgress' = TRUE
          /\ ClearFlags
          /\ frames' = Append(frames, [auto |-> TRUE, byTimer |-> TRUE,
                                       suffix |-> ReconnectCallsign])
          /\ tries' = tries + 1
          /\ UNCHANGED attempt
  /\ UNCHANGED <<fsdVars, haveLogin, callsign, commands, last>>

(***************************************************************************)
(* The own aircraft's callsign carries no suffix and connectToNetwork      *)
(* leaves it so: setPilot gives the user the aircraft's callsign, not the  *)
(* other way round.  The FSD client logs in with the aircraft's.           *)
(***************************************************************************)
SetPilot(aircraft, user) == [aircraft EXCEPT !.pilot = aircraft.callsign]
ClientCallsign(user) == SetPilot([callsign |-> 0, pilot |-> 0], user).callsign

(* The innermost canConnect returns and connectToNetwork goes on.          *)
ConnectToNetwork(reachable) ==
  /\ frames # <<>>
  /\ LET n == Len(frames)
         f == frames[n]
         starts == reachable /\ status = "Disconnected"
     IN /\ frames' = SubSeq(frames, 1, n - 1)
        /\ inProgress' = IF f.byTimer THEN FALSE ELSE inProgress
        /\ IF starts
           THEN /\ inbox' = Append(inbox, Call("connect"))
                /\ callsign' = ClientCallsign(f.suffix)
                /\ haveLogin' = (haveLogin \/ ~f.auto)
                /\ last' = "connect"
                /\ UNCHANGED <<armed, attempt>>
           ELSE /\ IF f.byTimer THEN ScheduleReconnect ELSE UNCHANGED <<armed, attempt>>
                /\ UNCHANGED <<inbox, callsign, haveLogin, last>>
  /\ UNCHANGED <<status, closing, transport, rehost, sending, login, awaited, signals,
                 faults, flags, commands, tries>>

(* disconnectFromNetwork                                                   *)
UserDisconnects ==
  /\ UserCommands("disconnect")
  /\ userReq' = TRUE
  /\ unexpected' = FALSE
  /\ CancelReconnect
  /\ inbox' = IF status # "Disconnected" THEN Append(inbox, Call("disconnect")) ELSE inbox
  /\ UNCHANGED <<status, closing, transport, rehost, sending, login, awaited, signals,
                 faults, frames, attempt, haveLogin, kicked, callsign>>

-----------------------------------------------------------------------------
MutOnKicked ==   \* the kick is not remembered
  /\ unexpected' = FALSE
  /\ CancelReconnect
  /\ UNCHANGED <<attempt, userReq, kicked, tries>>

OnKicked ==
  /\ kicked' = TRUE
  /\ unexpected' = FALSE
  /\ CancelReconnect
  /\ UNCHANGED <<attempt, userReq, tries>>

Wanted(from) == from \in {"Connected", "Connecting"} /\ ~userReq /\ ~kicked

OnFsdConnectionStatusChanged(from, to) ==
  CASE to = "Disconnecting" ->
         /\ unexpected' = Wanted(from)
         /\ UNCHANGED <<reconnect, userReq, kicked, tries>>
    [] to = "Disconnected" ->
         /\ ClearFlags
         /\ IF Wanted(from) \/ (unexpected /\ ~userReq /\ ~kicked)
            THEN ScheduleReconnect
            ELSE UNCHANGED <<armed, attempt>>
         /\ UNCHANGED <<inProgress, tries>>
    [] to = "Connected" ->
         /\ attempt' = 0
         /\ ClearFlags
         /\ CancelReconnect
         /\ tries' = 0
    [] OTHER -> UNCHANGED <<reconnect, flags, tries>>

(* The main thread takes the oldest signal of the client.                  *)
TakeSignal ==
  /\ signals # <<>>
  /\ signals' = Tail(signals)
  /\ LET m == Head(signals) IN
       IF m.kind = "kick" THEN OnKicked ELSE OnFsdConnectionStatusChanged(m.from, m.to)
  /\ UNCHANGED <<status, closing, transport, rehost, sending, login, awaited, inbox,
                 faults, frames, haveLogin, callsign, commands, last>>

FsdStep ==
  /\ FsdNext
  /\ last' = IF \E i \in (Len(signals) + 1)..Len(signals') : signals'[i].kind = "kick"
             THEN "kick" ELSE last
  /\ UNCHANGED <<frames, reconnect, haveLogin, flags, callsign, commands, tries>>

Next ==
  /\ \/ FsdStep
     \/ UserConnects \/ UserDisconnects
     \/ ReconnectToNetwork \/ TakeSignal
     \/ \E reachable \in BOOLEAN : ConnectToNetwork(reachable)
  /\ UNCHANGED scenario

Spec == Init /\ [][Next]_vars

(***************************************************************************)
(* Both event loops go on: what is posted is handled, timers fire, and     *)
(* canConnect ends after 5 s.  Nothing is asked of the server, the network *)
(* or the HTTP services.                                                   *)
(***************************************************************************)
Fairness ==
  /\ WF_vars(FsdStep /\ inbox # <<>> /\ inbox' = Tail(inbox) /\ UNCHANGED scenario)
  /\ WF_vars(FsdStep /\ closing /\ UNCHANGED scenario)
  /\ WF_vars(FsdStep /\ (checks' # checks /\ checks' \subseteq checks) /\ UNCHANGED scenario)
  /\ WF_vars(TakeSignal /\ UNCHANGED scenario)
  /\ WF_vars(ReconnectToNetwork /\ UNCHANGED scenario)
  /\ WF_vars((\E reachable \in BOOLEAN : ConnectToNetwork(reachable)) /\ UNCHANGED scenario)

FairSpec == Spec /\ Fairness

(* Types, and what goes together: closing and Disconnecting.               *)
TypeOK ==
  /\ ClientTypeOK
  /\ frames \in Seq(Frames)
  /\ armed \in BOOLEAN /\ attempt \in 0..MaxAttempts /\ inProgress \in BOOLEAN
  /\ haveLogin \in BOOLEAN
  /\ userReq \in BOOLEAN /\ kicked \in BOOLEAN /\ unexpected \in BOOLEAN
  /\ callsign \in 0..MaxAttempts
  /\ commands \in 0..MaxCommands /\ last \in {"none", "connect", "disconnect", "kick"}
  /\ tries \in Nat

KickPending == \E i \in 1..Len(signals) : signals[i].kind = "kick"

(***************************************************************************)
(* Once onKicked has run, no status change the client reports, in whatever *)
(* order it was queued, starts the reconnect timer.  Only a reconnect that *)
(* is already inside canConnect can still do so, when it fails.            *)
(***************************************************************************)
KickStopsReconnect ==
  [][Simple /\ last = "kick" /\ ~KickPending /\ ~armed /\ armed' => frames' # frames]_vars

(***************************************************************************)
(* The guide: reconnect "does not run after the user manually              *)
(* disconnects".                                                           *)
(***************************************************************************)
NoReconnectAfterUserDisconnect == last = "disconnect" => ~armed

(***************************************************************************)
(* After one command of the user there are at most max_attempts automatic  *)
(* logins between two Connected: late signals, timeouts and failed probes  *)
(* do not count an attempt less than once.  (A token or a rehost that      *)
(* comes late can have two reconnects under way, and then they do.)        *)
(***************************************************************************)
BudgetHolds == Simple /\ commands <= 1 => tries <= MaxAttempts

(* The connection has gone that the client says it has, and nobody wanted  *)
(* that: the user's one command is connect.                                *)
LostInUse ==
  /\ status = "Connected" /\ sock = "down"
  /\ last = "connect" /\ commands = 1 /\ ReconnectEnabled /\ Simple

(* The server closed it: RemoteHostClosedError is on its way.              *)
ClosedByServer == \E i \in 1..Len(inbox) : inbox[i].op = "error" /\ inbox[i].conn = conn

(* Another login or connection, max_attempts used up, or somebody else     *)
(* intervenes (or the bound on logins is reached).                         *)
TriedAgain ==
  \/ status = "Connecting" \/ sock = "connected"
  \/ tries >= MaxAttempts
  \/ last # "connect" \/ commands > 1
  \/ logins >= MaxLogins

(***************************************************************************)
(* A connection that the server closes while the client says Connected     *)
(* leads to another login or connection, or uses up max_attempts, unless   *)
(* the user or a kick intervenes.  (A user who connects while the client   *)
(* is still closing is refused, and takes away the reconnect with it.)  It *)
(* is said of this error only: handleSocketError (1930) does nothing at    *)
(* any other, see EveryLossLeadsToReconnect.                               *)
(***************************************************************************)
DropLeadsToReconnect == (LostInUse /\ ClosedByServer) ~> TriedAgain

(***************************************************************************)
(* The guide: "automatic reconnect after an unexpected FSD socket          *)
(* disconnect", whatever error ended the connection.                       *)
(***************************************************************************)
EveryLossLeadsToReconnect == LostInUse ~> TriedAgain
=============================================================================
