------------------------------ MODULE FsdClient ------------------------------
(***************************************************************************)
(* The connection life cycle of CFSDClient (core/fsd/fsdclient.cpp), which *)
(* lives in a worker thread of its own.                                    *)
(*                                                                         *)
(* Other threads post connectToServer and disconnectFromServer to it       *)
(* (inbox), read its status at any time, and get its signals queued        *)
(* (signals).  The transport's errorOccurred, readyRead/binaryMessage and  *)
(* disconnected signals are queued in the same inbox; `connected', the     *)
(* timers and the replies of the two HTTP services (load balancing, token) *)
(* come when they come.  No reply, timer or queued event remembers which   *)
(* login it belongs to, so every one of them can meet a later login.       *)
(*                                                                         *)
(* disconnectFromServer passes through Disconnecting, which other threads  *)
(* see: it is the only handler in two steps (closing).  Logins are         *)
(* numbered; the number stands for the time stamp in m_loginSince.         *)
(* Messages other than the login, and lines that do not touch the          *)
(* connection, are left out.                                               *)
(***************************************************************************)
EXTENDS Integers, Sequences, FiniteSets

CONSTANT
  Scenarios       \* the servers, networks and settings considered, see below

VARIABLE scenario \* the one the program is started with: it never changes

Transport     == scenario.transport     \* "tcp" or "ws": CServer::usesWebSocket
Protocol      == scenario.protocol      \* "classic", or after $DI: "plain"
                                        \* password or "jwt" token
Challenge     == scenario.challenge     \* fsd.challenge: $DI is handled at all
LoadBalancing == scenario.loadBalancing \* resolveLoadBalancing asks the service
NetErrors     == scenario.netErrors     \* a TCP connection may also end in
                                        \* another error than RemoteHostClosedError
Lines         == scenario.lines         \* the lines the server may send
MaxFaults     == scenario.maxFaults     \* bound: hostile lines, lost connections

ClientScenario(s) ==
  /\ s.transport \in {"tcp", "ws"}
  /\ s.protocol \in {"classic", "plain", "jwt"}
  /\ s.challenge \in BOOLEAN
  /\ s.loadBalancing \in BOOLEAN
  /\ s.netErrors \in BOOLEAN
  /\ s.lines \subseteq {"identify", "kill", "fatal", "rehost"}
  /\ s.maxFaults \in Nat

ASSUME ClientAssumption == \A s \in Scenarios : ClientScenario(s)

VARIABLES
  status,      \* m_connectionStatus
  closing,     \* inside disconnectFromServer
  sock,        \* state of m_socket or m_webSocket
  conn,        \* number of transport connections begun
  greeted,     \* the server has sent $DI on this connection
  session,     \* what the server knows: "none", "asked" (login read), "accepted"
  rehosting,   \* m_rehosting
  rehosts,     \* rehosting sockets on their way
  timers,      \* the position and send timers are running
  queue,       \* m_queuedFsdMessages
  loginSince,  \* m_loginSince, 0 for -1
  logins,      \* logins begun
  checks,      \* logins whose pendingTimeoutCheck is still to come
  lookups,     \* logins whose load balancing reply is still to come
  tokens,      \* connections whose token reply is still to come
  inbox,       \* events posted to this thread, oldest first
  signals,     \* signals queued to the context's thread, oldest first
  faults       \* hostile lines and lost connections so far

transport == <<sock, conn, greeted, session>>
sending   == <<timers, queue>>
awaited   == <<checks, lookups, tokens>>
login     == <<loginSince, logins>>
rehost    == <<rehosting, rehosts>>
fsdVars   == <<status, closing, transport, rehost, sending, login, awaited,
               inbox, signals, faults>>

Statuses == {"Disconnected", "Connecting", "Connected", "Disconnecting"}
Socks    == {"closed", "connecting", "connected", "down", "aborting", "closing"}

Call(op)        == [op |-> op, line |-> "none", conn |-> 0]
FromSocket(op)  == [op |-> op, line |-> "none", conn |-> conn]
Line(l)         == [op |-> "line", line |-> l, conn |-> conn]
Changed(from, to) == [kind |-> "status", from |-> from, to |-> to]
Kick            == [kind |-> "kick", from |-> status, to |-> status]

-----------------------------------------------------------------------------
FsdInit ==
  /\ scenario \in Scenarios
  /\ status = "Disconnected" /\ closing = FALSE
  /\ sock = "closed" /\ conn = 0 /\ greeted = FALSE /\ session = "none"
  /\ rehosting = FALSE /\ rehosts = 0
  /\ timers = FALSE /\ queue = <<>>
  /\ loginSince = 0 /\ logins = 0
  /\ checks = {} /\ lookups = {} /\ tokens = {}
  /\ inbox = <<>> /\ signals = <<>>
  /\ faults = 0

Idle == ~closing
Next1(op) == Idle /\ inbox # <<>> /\ Head(inbox).op = op /\ inbox' = Tail(inbox)

(* A socket Qt has opened stays open after its connection is gone.         *)
IsTransportOpen ==
  IF Transport = "ws" THEN sock # "closed"
                      ELSE sock \in {"connecting", "connected", "down"}

(***************************************************************************)
(* QWebSocket::close waits for the closing handshake.  QTcpSocket::close   *)
(* on a socket that is still connecting is delayed by Qt until the attempt *)
(* ends ("aborting": not open, yet not idle either).                       *)
(***************************************************************************)
MutCloseTransport ==   \* closes a connected transport only
  /\ sock' = IF sock = "connected" THEN "closed" ELSE sock
  /\ session' = "none"
  /\ UNCHANGED <<conn, greeted>>

CloseTransport ==
  /\ sock' = CASE sock = "closed" -> "closed"
               [] sock # "closed" /\ Transport = "ws" -> "closing"
               [] sock \in {"connecting", "aborting"} /\ Transport = "tcp" -> "aborting"
               [] OTHER -> "closed"
  /\ session' = "none"
  /\ UNCHANGED <<conn, greeted>>

(* connectToHost, or open: Qt refuses it on a TCP socket in use.           *)
OpenTransport ==
  IF Transport = "tcp" /\ sock \in {"connecting", "connected", "aborting"}
  THEN UNCHANGED transport
  ELSE sock' = "connecting" /\ conn' = conn + 1 /\ greeted' = FALSE /\ session' = "none"

UpdateConnectionStatus(new) ==
  /\ status' = new
  /\ signals' = IF status = new THEN signals ELSE Append(signals, Changed(status, new))

StartPositionTimers == timers' = TRUE /\ queue' = <<>>

MutClearState == rehosting' = FALSE /\ UNCHANGED queue   \* keeps the queue

ClearState == rehosting' = FALSE /\ queue' = <<>>

(* sendLogin, and the status it is always followed by.                     *)
MutSendLogin ==   \* the message is dropped, the status is not
  /\ UNCHANGED queue
  /\ UpdateConnectionStatus("Connected")

SendLogin ==
  /\ queue' = Append(queue, "login")
  /\ UpdateConnectionStatus("Connected")

-----------------------------------------------------------------------------
(* connectToServer.  It returns silently while the transport is open.      *)
ConnectToServer ==
  /\ Next1("connect")
  /\ IF IsTransportOpen
     THEN UNCHANGED <<status, signals, transport, rehost, sending, login, awaited>>
     ELSE /\ logins' = logins + 1
          /\ loginSince' = logins'
          /\ checks' = checks \cup {logins'}
          /\ UpdateConnectionStatus("Connecting")
          /\ ClearState
          /\ IF LoadBalancing /\ Transport = "tcp"
             THEN /\ lookups' = lookups \cup {logins'}
                  /\ UNCHANGED <<transport, timers>>
             ELSE /\ OpenTransport
                  /\ timers' = TRUE
                  /\ UNCHANGED lookups
          /\ UNCHANGED <<rehosts, tokens>>
  /\ UNCHANGED <<closing, faults>>

(* The load balancing service answers, or fails: both go on to connect.    *)
ResolveLoadBalancing(a) ==
  /\ Idle
  /\ a \in lookups
  /\ lookups' = lookups \ {a}
  /\ OpenTransport
  /\ StartPositionTimers
  /\ UNCHANGED <<status, closing, rehost, login, checks, tokens, inbox, signals, faults>>

(***************************************************************************)
(* disconnectFromServer up to the status Disconnecting; `emitted' is what  *)
(* its caller has signalled just before.                                   *)
(***************************************************************************)
Disconnecting(emitted) ==
  /\ closing' = TRUE
  /\ timers' = FALSE
  /\ status' = "Disconnecting"
  /\ signals' = signals \o emitted \o <<Changed(status, "Disconnecting")>>

DisconnectFromServer(emitted) ==
  /\ Disconnecting(emitted)
  /\ UNCHANGED <<transport, rehost, queue, login, awaited>>

(***************************************************************************)
(* The rest of disconnectFromServer.  The DeletePilot or DeleteAtc message *)
(* it queues is cleared with the queue before any timer could send it.     *)
(***************************************************************************)
Disconnected ==
  /\ closing
  /\ closing' = FALSE
  /\ CloseTransport
  /\ UpdateConnectionStatus("Disconnected")
  /\ ClearState
  /\ loginSince' = 0
  /\ UNCHANGED <<rehosts, timers, logins, awaited, inbox, faults>>

DisconnectCalled ==
  /\ Next1("disconnect")
  /\ DisconnectFromServer(<<>>)
  /\ UNCHANGED faults

Ignored == UNCHANGED <<status, closing, signals, transport, rehost, sending, login, awaited>>

(* The rest of a handler that does nothing else than log in.               *)
OnlyLogin ==
  /\ SendLogin
  /\ UNCHANGED <<closing, timers, rehost, login, awaited>>

-----------------------------------------------------------------------------
(* The transport reports `connected': handleSocketConnected.               *)
SocketConnected ==
  /\ Idle
  /\ sock = "connecting"
  /\ sock' = "connected"
  /\ IF Protocol = "classic"
     THEN OnlyLogin
     ELSE UNCHANGED <<status, closing, signals, rehost, sending, login, awaited>>
  /\ UNCHANGED <<conn, greeted, session, inbox, faults>>

(***************************************************************************)
(* A TCP attempt that was closed while connecting ends: it fails, or Qt    *)
(* reports `connected' and then closes the socket.                         *)
(***************************************************************************)
AbortedAttemptEnds ==
  /\ Idle
  /\ sock = "aborting"
  /\ sock' = "closed"
  /\ \/ UNCHANGED <<status, closing, signals, rehost, sending, login, awaited>>
     \/ /\ Protocol = "classic"
        /\ OnlyLogin
  /\ UNCHANGED <<conn, greeted, session, inbox, faults>>

(* The attempt fails.  handleSocketError leaves these errors to the timer. *)
SocketFails ==
  /\ sock = "connecting"
  /\ IF Transport = "tcp"
     THEN sock' = "down" /\ UNCHANGED inbox
     ELSE sock' = "closed" /\ inbox' = Append(inbox, FromSocket("gone"))
  /\ UNCHANGED <<status, closing, conn, greeted, session, rehost, sending, login,
                 awaited, signals, faults>>

(* The server closes the connection.                                       *)
PeerCloses ==
  /\ sock = "connected"
  /\ faults < MaxFaults
  /\ faults' = faults + 1
  /\ session' = "none"
  /\ IF Transport = "tcp"
     THEN sock' = "down" /\ inbox' = Append(inbox, FromSocket("error"))
     ELSE /\ sock' = "closed"
          /\ \E q \in {<<>>, <<FromSocket("error")>>} :
               inbox' = inbox \o q \o <<FromSocket("gone")>>
  /\ UNCHANGED <<status, closing, conn, greeted, rehost, sending, login, awaited, signals>>

(* A TCP connection breaks with any other error: not "named here".         *)
NetworkError ==
  /\ NetErrors
  /\ Transport = "tcp"
  /\ sock = "connected"
  /\ faults < MaxFaults
  /\ faults' = faults + 1
  /\ sock' = "down"
  /\ session' = "none"
  /\ UNCHANGED <<status, closing, conn, greeted, rehost, sending, login, awaited,
                 inbox, signals>>

(* The closing handshake of the WebSocket ends.                            *)
WebSocketClosed ==
  /\ sock = "closing"
  /\ sock' = "closed"
  /\ inbox' = Append(inbox, FromSocket("gone"))
  /\ UNCHANGED <<status, closing, conn, greeted, session, rehost, sending, login,
                 awaited, signals, faults>>

(***************************************************************************)
(* A line arrives and is queued for readDataFrom(Web)Socket.  A server     *)
(* that identifies itself does so first, and once.                         *)
(***************************************************************************)
ServerSends(l) ==
  /\ sock = "connected"
  /\ IF l = "identify" THEN /\ ~greeted
                            /\ greeted' = TRUE
                            /\ UNCHANGED faults
                       ELSE /\ greeted \/ "identify" \notin Lines
                            /\ faults < MaxFaults
                            /\ faults' = faults + 1
                            /\ UNCHANGED greeted
  /\ inbox' = Append(inbox, Line(l))
  /\ UNCHANGED <<status, closing, sock, conn, session, rehost, sending, login,
                 awaited, signals>>

(* The server reads the login and lets the pilot in.                       *)
ServerAccepts ==
  /\ session = "asked"
  /\ session' = "accepted"
  /\ UNCHANGED <<status, closing, sock, conn, greeted, rehost, sending, login,
                 awaited, inbox, signals, faults>>

-----------------------------------------------------------------------------
(* handleSocketError, for RemoteHostClosedError.                           *)
MutHandleSocketError ==   \* RemoteHostClosedError is not named either
  /\ Next1("error")
  /\ Ignored
  /\ UNCHANGED faults

HandleSocketError ==
  /\ Next1("error")
  /\ IF rehosting THEN Ignored ELSE DisconnectFromServer(<<>>)
  /\ UNCHANGED faults

HandleWebSocketDisconnected ==
  /\ Next1("gone")
  /\ IF rehosting \/ status \in {"Disconnected", "Disconnecting"}
     THEN Ignored
     ELSE DisconnectFromServer(<<>>)
  /\ UNCHANGED faults

(* sendClientIdentification: log in, or ask for a token first.             *)
SendClientIdentification ==
  IF Protocol = "jwt"
  THEN /\ tokens' = tokens \cup {Head(inbox).conn}
       /\ UNCHANGED <<status, closing, signals, transport, rehost, sending, login,
                      checks, lookups>>
  ELSE OnlyLogin /\ UNCHANGED transport

(* The classic protocol does not expect $DI and hangs up.                  *)
HandleFsdIdentification ==
  IF Protocol = "classic" THEN DisconnectFromServer(<<>>) ELSE SendClientIdentification

HandleKillRequest == DisconnectFromServer(<<Kick>>)

(* A $ER for which isFatalError; the others are only logged.               *)
HandleServerError == DisconnectFromServer(<<>>)

HandleRehost ==
  /\ IF Transport = "ws"
     THEN UNCHANGED rehost
     ELSE rehosting' = TRUE /\ rehosts' = rehosts + 1
  /\ UNCHANGED <<status, closing, signals, transport, sending, login, awaited>>

(***************************************************************************)
(* A line is read and parsed.  TCP data is read from m_socket when the     *)
(* event is handled, so it is gone with its connection; a WebSocket        *)
(* message travels in the event.                                           *)
(***************************************************************************)
ParseMessage ==
  /\ Next1("line")
  /\ LET e == Head(inbox) IN
       IF Transport = "tcp" /\ ~(e.conn = conn /\ sock \in {"connected", "down"})
       THEN Ignored
       ELSE CASE e.line = "identify" -> IF Challenge THEN HandleFsdIdentification ELSE Ignored
              [] e.line = "kill"     -> HandleKillRequest
              [] e.line = "fatal"    -> HandleServerError
              [] e.line = "rehost"   -> HandleRehost
  /\ UNCHANGED faults

(***************************************************************************)
(* The rehosting socket connects and replaces m_socket, after what the old *)
(* connection still holds has been read.                                   *)
(***************************************************************************)
RehostConnected ==
  /\ Idle
  /\ \A i \in 1..Len(inbox) : inbox[i].op # "line"
  /\ rehosts > 0
  /\ rehosts' = rehosts - 1
  /\ rehosting' = FALSE
  /\ sock' = "connected"
  /\ conn' = conn + 1
  /\ UNCHANGED <<status, closing, greeted, session, sending, login, awaited,
                 inbox, signals, faults>>

(***************************************************************************)
(* The rehosting socket fails.  When the old connection is gone too, the   *)
(* status goes to Disconnected, which stops the timers and clears the      *)
(* state; the transport is not closed.                                     *)
(***************************************************************************)
RehostFailed ==
  /\ Idle
  /\ rehosts > 0
  /\ rehosts' = rehosts - 1
  /\ rehosting' = FALSE
  /\ IF sock # "connected" /\ status # "Disconnected"
     THEN /\ UpdateConnectionStatus("Disconnected")
          /\ timers' = FALSE
          /\ queue' = <<>>
          /\ loginSince' = 0
     ELSE UNCHANGED <<status, signals, timers, queue, loginSince>>
  /\ UNCHANGED <<closing, transport, logins, awaited, inbox, faults>>

(***************************************************************************)
(* The single shot timer of login a, 9.4 s after it began.  Its own login  *)
(* is over age by then; a later one may or may not be.  Neither thread     *)
(* stalls that long: what was posted meanwhile has been handled.           *)
(***************************************************************************)
MutPendingTimeoutCheck(a) ==   \* the age is compared the wrong way round
  /\ Idle
  /\ inbox = <<>> /\ signals = <<>>
  /\ a \in checks
  /\ checks' = checks \ {a}
  /\ IF status = "Connecting" /\ a # loginSince
     THEN Disconnecting(<<>>)
     ELSE UNCHANGED <<closing, timers, status, signals>>
  /\ UNCHANGED <<transport, rehost, queue, login, lookups, tokens, inbox, faults>>

PendingTimeoutCheck(a) ==
  /\ Idle
  /\ inbox = <<>> /\ signals = <<>>
  /\ a \in checks
  /\ checks' = checks \ {a}
  /\ \E overAge \in (IF a = loginSince THEN {TRUE} ELSE BOOLEAN) :
       IF status = "Connecting" /\ overAge
       THEN Disconnecting(<<>>)
       ELSE UNCHANGED <<closing, timers, status, signals>>
  /\ UNCHANGED <<transport, rehost, queue, login, lookups, tokens, inbox, faults>>

(* getJwtToken's reply: the callback logs in, a failure disconnects.       *)
GetJwtToken(a, success) ==
  /\ Idle
  /\ a \in tokens
  /\ tokens' = tokens \ {a}
  /\ IF success
     THEN SendLogin /\ UNCHANGED <<closing, timers>>
     ELSE Disconnecting(<<>>) /\ UNCHANGED queue
  /\ UNCHANGED <<transport, rehost, login, checks, lookups, inbox, faults>>

(* m_fsdSendMessageTimer: what is written to no connection is lost.        *)
SendQueuedMessage ==
  /\ Idle
  /\ timers
  /\ queue # <<>>
  /\ queue' = Tail(queue)
  /\ session' = IF sock = "connected" /\ session = "none" THEN "asked" ELSE session
  /\ UNCHANGED <<status, closing, sock, conn, greeted, rehost, timers, login,
                 awaited, inbox, signals, faults>>

-----------------------------------------------------------------------------
(* What this thread does.                                                  *)
Handles ==
  \/ ConnectToServer \/ DisconnectCalled \/ Disconnected
  \/ ParseMessage \/ HandleSocketError \/ HandleWebSocketDisconnected
  \/ SendQueuedMessage
  \/ \E a \in checks : PendingTimeoutCheck(a)
  \/ \E a \in lookups : ResolveLoadBalancing(a)
  \/ \E a \in tokens, success \in BOOLEAN : GetJwtToken(a, success)
  \/ SocketConnected \/ AbortedAttemptEnds
  \/ RehostConnected \/ RehostFailed

(* What happens to it.                                                     *)
Happens ==
  \/ SocketFails \/ PeerCloses \/ NetworkError \/ WebSocketClosed
  \/ ServerAccepts
  \/ \E l \in Lines : ServerSends(l)

FsdNext == Handles \/ Happens

-----------------------------------------------------------------------------
(* The client's part of the type invariant (TypeOK in ContextNetwork).     *)
ClientTypeOK ==
  /\ status \in Statuses
  /\ closing \in BOOLEAN /\ (closing <=> status = "Disconnecting")
  /\ sock \in Socks
  /\ conn \in Nat /\ greeted \in BOOLEAN
  /\ session \in {"none", "asked", "accepted"}
  /\ rehosting \in BOOLEAN /\ rehosts \in Nat
  /\ timers \in BOOLEAN
  /\ queue \in Seq({"login"})
  /\ loginSince \in 0..logins /\ logins \in Nat
  /\ checks \cup lookups \subseteq 1..logins /\ tokens \subseteq 1..conn

(***************************************************************************)
(* A server that is found without the load balancing service and does not  *)
(* send its clients elsewhere.                                             *)
(***************************************************************************)
FixedAddress == Transport = "ws" \/ (~LoadBalancing /\ "rehost" \notin Lines)

(* Such a server on TCP, of the classic protocol.                          *)
Simple == Transport = "tcp" /\ Protocol = "classic" /\ FixedAddress

(***************************************************************************)
(* A disconnected client does nothing on its own: whichever of the user,   *)
(* the server, an error, or the timeout ended the login, no timer runs and *)
(* no message of that login is left over for the next one.  (The answer of *)
(* the load balancing service, or a rehost, that comes after the end does  *)
(* start the timers again.)                                                *)
(***************************************************************************)
DisconnectedIsQuiet ==
  FixedAddress /\ status = "Disconnected" => ~timers /\ queue = <<>> /\ ~rehosting

(***************************************************************************)
(* A client that says Disconnected has let go of its connection: the       *)
(* server does not keep a pilot the user believes to be offline.  Over TCP *)
(* isTransportOpen is false then, so that the next connectToServer is not  *)
(* turned away.  A WebSocket may still be in its closing handshake, which  *)
(* isTransportOpen takes for open: connectToServer returns without a word  *)
(* (298) as long as the server has not answered.                           *)
(***************************************************************************)
OffTheNetwork ==
  FixedAddress /\ status = "Disconnected" =>
    \/ ~IsTransportOpen
    \/ Transport = "ws" /\ sock = "closing"

(***************************************************************************)
(* The client says Connected when it has queued the login, not when the    *)
(* server has it.  As long as the server has not, the login is in the      *)
(* queue and the timer that sends it is running.                           *)
(***************************************************************************)
LoginOnItsWay ==
  Simple /\ status = "Connected" /\ sock = "connected" /\ session = "none" =>
    timers /\ queue # <<>>

(***************************************************************************)
(* No login hangs: whatever answers, fails or stays silent (the server,    *)
(* the load balancing and token services), the client does not stay in     *)
(* Connecting.  pendingTimeoutCheck sees to it.                            *)
(***************************************************************************)
AttemptEnds == status = "Connecting" ~> status # "Connecting"
=============================================================================
