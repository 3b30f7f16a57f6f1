------------------------ MODULE ContextNetworkProofs ------------------------
(***************************************************************************)
(* What holds of ContextNetwork, and so of FsdClient, for every set of     *)
(* scenarios, in three parts: type correctness; the safety of the          *)
(* connection (a disconnected client is quiet and off the network, a login *)
(* arrives, a kick stops the automatic reconnect); and the budget of the   *)
(* automatic reconnect.                                                    *)
(***************************************************************************)
EXTENDS ContextNetwork, SequenceTheorems, TLAPS

-----------------------------------------------------------------------------
(***************************************************************************)
(* Type correctness.                                                       *)
(***************************************************************************)

(* What can wait in the client's inbox.                                    *)
Events ==
  [op : {"connect", "disconnect", "error", "gone"}, line : {"none"}, conn : Nat]
    \cup [op : {"line"}, line : Lines, conn : Nat \ {0}]

(* What the client's thread can have queued to the context's.              *)
Signals == [kind : {"status", "kick"}, from : Statuses, to : Statuses]

(* The status, with the signals that report it.                            *)
StatusOK ==
  /\ status \in Statuses
  /\ closing \in BOOLEAN /\ (closing <=> status = "Disconnecting")
  /\ signals \in Seq(Signals)

(* The transport: a socket that is not closed belongs to some connection.  *)
TransportOK ==
  /\ sock \in Socks
  /\ conn \in Nat /\ greeted \in BOOLEAN
  /\ session \in {"none", "asked", "accepted"}
  /\ sock # "closed" => conn > 0

(* The rehosts under way.                                                  *)
RehostOK == rehosting \in BOOLEAN /\ rehosts \in Nat

(* The send timer and its queue.                                           *)
SendingOK == timers \in BOOLEAN /\ queue \in Seq({"login"})

(* The logins, and the timeouts and replies awaited for them.              *)
LoginOK ==
  /\ loginSince \in 0..logins /\ logins \in Nat
  /\ checks \cup lookups \subseteq 1..logins

(* A queue whose events come from connections that have been begun.        *)
InboxFits(q) == q \in Seq(Events) /\ \A i \in 1..Len(q) : q[i].conn <= conn

(* The inbox is such a queue.                                              *)
InboxOK == InboxFits(inbox)

(***************************************************************************)
(* The client's part of the type invariant, with the types of the two      *)
(* queues, in parts that its operators leave alone or set together.        *)
(***************************************************************************)
ClientInv ==
  /\ StatusOK /\ TransportOK /\ RehostOK /\ SendingOK /\ LoginOK /\ InboxOK
  /\ tokens \subseteq 1..conn
  /\ faults \in Nat

(* There are two Booleans: the form in which the provers use it.           *)
LEMMA BoolCases == \A x : x \in BOOLEAN <=> x = TRUE \/ x = FALSE
  BY Zenon

(* A scenario of the given set has the fields that the modules read.       *)
LEMMA ScenarioOK ==
  scenario \in Scenarios => ClientScenario(scenario) /\ ContextScenario(scenario)
  BY ClientAssumption, ContextAssumption

(* updateConnectionStatus, outside of disconnectFromServer.                *)
LEMMA UpdateStatusOK ==
  ASSUME StatusOK, NEW new \in Statuses \ {"Disconnecting"},
         UpdateConnectionStatus(new), closing' = FALSE
  PROVE  StatusOK'
<1>1. Changed(status, new) \in Signals
  BY DEF StatusOK, Changed, Signals
<1>2. signals' \in Seq(Signals)
  BY <1>1 DEF StatusOK, UpdateConnectionStatus
<1>3. status' = new /\ status' \in Statuses /\ status' # "Disconnecting"
  BY DEF UpdateConnectionStatus
<1> QED
  BY <1>2, <1>3, BoolCases DEF StatusOK, Signals, Statuses

(* disconnectFromServer up to the status Disconnecting.                    *)
LEMMA DisconnectingOK ==
  ASSUME StatusOK, SendingOK, NEW emitted \in Seq(Signals), Disconnecting(emitted)
  PROVE  StatusOK' /\ timers' = FALSE
<1>1. <<Changed(status, "Disconnecting")>> \in Seq(Signals)
  BY DEF StatusOK, Changed, Signals, Statuses
<1>2. signals' \in Seq(Signals)
  BY <1>1 DEF StatusOK, Disconnecting
<1>3. status' \in Statuses
  BY DEF Disconnecting, Statuses
<1> QED
  BY <1>2, <1>3, BoolCases DEF StatusOK, Disconnecting, Signals, Statuses

(* sendLogin and the status it sets.                                       *)
LEMMA LoginSentOK ==
  ASSUME StatusOK, SendingOK, SendLogin, closing' = FALSE, UNCHANGED timers
  PROVE  StatusOK' /\ SendingOK'
<1>1. StatusOK'
  BY UpdateStatusOK DEF SendLogin, Statuses
<1>2. SendingOK'
  BY DEF SendingOK, SendLogin
<1> QED
  BY <1>1, <1>2

(* Opening the transport begins at most one connection.                    *)
LEMMA OpenTransportOK ==
  ASSUME TransportOK, OpenTransport
  PROVE  TransportOK' /\ conn' >= conn
  BY BoolCases DEF TransportOK, OpenTransport, transport, Socks

(* Closing it begins none.                                                 *)
LEMMA CloseTransportOK ==
  ASSUME TransportOK, CloseTransport
  PROVE  TransportOK' /\ conn' = conn
  BY DEF TransportOK, CloseTransport, Socks

(* Taking the oldest event leaves a proper inbox.                          *)
LEMMA InboxTail ==
  ASSUME InboxOK, inbox # <<>>, inbox' = Tail(inbox), UNCHANGED scenario,
         conn \in Nat, conn' \in Nat, conn' >= conn
  PROVE  InboxOK'
<1>1. Tail(inbox) \in Seq(Events) /\ Len(Tail(inbox)) = Len(inbox) - 1
      /\ \A i \in 1..(Len(inbox) - 1) : Tail(inbox)[i] = inbox[i + 1]
  BY HeadTailProperties DEF InboxOK, InboxFits
<1>2. Len(inbox) \in Nat
  BY LenProperties DEF InboxOK, InboxFits
<1>3. \A i \in 1..Len(inbox) : inbox[i].conn \in Nat
  BY DEF InboxOK, InboxFits, Events
<1>4. \A i \in 1..Len(inbox') : inbox'[i].conn <= conn'
  BY <1>1, <1>2, <1>3 DEF InboxOK, InboxFits
<1>5. Events' = Events
  BY DEF Events, Lines
<1> QED
  BY <1>1, <1>4, <1>5 DEF InboxOK, InboxFits

(* So does beginning a connection.                                         *)
LEMMA InboxSame ==
  ASSUME InboxOK, UNCHANGED <<inbox, scenario>>,
         conn \in Nat, conn' \in Nat, conn' >= conn
  PROVE  InboxOK'
<1>1. \A i \in 1..Len(inbox) : inbox[i].conn \in Nat
  BY DEF InboxOK, InboxFits, Events
<1>2. Events' = Events
  BY DEF Events, Lines
<1> QED
  BY <1>1, <1>2 DEF InboxOK, InboxFits

(* And so does posting an event of a connection that has been begun.       *)
LEMMA InboxAppend ==
  ASSUME NEW q, InboxFits(q), NEW e \in Events, e.conn <= conn
  PROVE  InboxFits(Append(q, e))
<1>1. /\ Append(q, e) \in Seq(Events) /\ Len(Append(q, e)) = Len(q) + 1
      /\ \A i \in 1..Len(q) : Append(q, e)[i] = q[i]
      /\ Append(q, e)[Len(q) + 1] = e
  BY AppendProperties DEF InboxFits
<1>2. Len(q) \in Nat
  BY LenProperties DEF InboxFits
<1> QED
  BY <1>1, <1>2 DEF InboxFits

(* What fits the connections before a step that begins none fits after it. *)
LEMMA InboxFitsOK ==
  ASSUME InboxFits(inbox'), UNCHANGED <<scenario, conn>>
  PROVE  InboxOK'
<1>1. Events' = Events
  BY DEF Events, Lines
<1> QED
  BY <1>1 DEF InboxOK, InboxFits

(* The event a handler takes is one of the events.                         *)
LEMMA HeadEvent ==
  ASSUME InboxOK, inbox # <<>>
  PROVE  Head(inbox) \in Events /\ Head(inbox).conn <= conn
<1>1. Len(inbox) \in Nat \ {0} /\ Head(inbox) = inbox[1]
  BY LenProperties, HeadTailProperties, EmptySeq DEF InboxOK, InboxFits
<1> QED
  BY <1>1 DEF InboxOK, InboxFits

-----------------------------------------------------------------------------
(* Handlers that return early.                                             *)
LEMMA IgnoredOK ==
  ASSUME ClientInv, Ignored, inbox # <<>>, inbox' = Tail(inbox), UNCHANGED <<scenario, faults>>
  PROVE  ClientInv'
<1>1. UNCHANGED <<status, closing, signals, sock, conn, greeted, session, rehosting,
                  rehosts, timers, queue, loginSince, logins, checks, lookups, tokens>>
  BY DEF Ignored, transport, rehost, sending, login, awaited
<1>2. InboxOK'
  BY <1>1, InboxTail DEF ClientInv, TransportOK
<1> QED
  BY <1>1, <1>2 DEF ClientInv, StatusOK, TransportOK, RehostOK, SendingOK, LoginOK,
                    Signals, Statuses, Socks

(* Handlers that end in disconnectFromServer.                              *)
LEMMA DisconnectFromServerOK ==
  ASSUME ClientInv, NEW emitted \in Seq(Signals), DisconnectFromServer(emitted),
         inbox # <<>>, inbox' = Tail(inbox), UNCHANGED <<scenario, faults>>
  PROVE  ClientInv'
<1>1. UNCHANGED <<sock, conn, greeted, session, rehosting, rehosts, queue,
                  loginSince, logins, checks, lookups, tokens>>
  BY DEF DisconnectFromServer, transport, rehost, login, awaited
<1>2. StatusOK' /\ timers' = FALSE
  BY DisconnectingOK DEF DisconnectFromServer, ClientInv
<1>3. InboxOK'
  BY <1>1, InboxTail DEF ClientInv, TransportOK
<1>4. SendingOK'
  BY <1>1, <1>2, BoolCases DEF ClientInv, SendingOK
<1> QED
  BY <1>1, <1>2, <1>3, <1>4 DEF ClientInv, TransportOK, RehostOK, LoginOK, Socks

(* connectToServer, with and without load balancing.                       *)
LEMMA ConnectToServerOK ==
  ASSUME ClientInv, ConnectToServer, UNCHANGED scenario
  PROVE  ClientInv'
<1> USE DEF ConnectToServer, Next1, Idle
<1>1. CASE IsTransportOpen
  BY <1>1, IgnoredOK DEF Ignored
<1>2. CASE ~IsTransportOpen
  <2>1. StatusOK'
    BY <1>2, UpdateStatusOK, BoolCases DEF ClientInv, StatusOK, Statuses
  <2>2. TransportOK' /\ conn' >= conn
    <3>1. OpenTransport \/ UNCHANGED <<sock, conn, greeted, session>>
      BY <1>2 DEF transport
    <3>2. ASSUME UNCHANGED <<sock, conn, greeted, session>> PROVE TransportOK' /\ conn' >= conn
      BY <3>2 DEF ClientInv, TransportOK, Socks
    <3> QED
      BY <3>1, <3>2, OpenTransportOK DEF ClientInv
  <2>3. RehostOK' /\ SendingOK'
    BY <1>2, BoolCases DEF ClientInv, RehostOK, SendingOK, ClearState
  <2>4. LoginOK'
    BY <1>2 DEF ClientInv, LoginOK
  <2>5. tokens' \subseteq 1..conn'
    <3>1. tokens' = tokens /\ tokens \subseteq 1..conn /\ conn \in Nat /\ conn' \in Nat
      BY <1>2, <2>2 DEF ClientInv, TransportOK
    <3> QED
      BY <2>2, <3>1
  <2>6. InboxOK'
    BY <2>2, InboxTail DEF ClientInv, TransportOK
  <2> QED
    BY <2>1, <2>2, <2>3, <2>4, <2>5, <2>6 DEF ClientInv
<1> QED
  BY <1>1, <1>2

(* The second half of disconnectFromServer.                                *)
LEMMA DisconnectedOK ==
  ASSUME ClientInv, Disconnected, UNCHANGED scenario
  PROVE  ClientInv'
<1> USE DEF Disconnected
<1>1. StatusOK'
  BY UpdateStatusOK DEF ClientInv, Statuses
<1>2. TransportOK' /\ conn' = conn
  BY CloseTransportOK DEF ClientInv
<1>3. RehostOK' /\ SendingOK'
  BY BoolCases DEF ClientInv, RehostOK, SendingOK, ClearState
<1>4. LoginOK' /\ tokens' \subseteq 1..conn'
  BY <1>2 DEF ClientInv, LoginOK, awaited
<1>5. InboxOK'
  BY <1>2, InboxSame DEF ClientInv, TransportOK
<1> QED
  BY <1>1, <1>2, <1>3, <1>4, <1>5 DEF ClientInv

(* What ParseMessage, SocketConnected and AbortedAttemptEnds share.        *)
LEMMA OnlyLoginOK ==
  ASSUME ClientInv, OnlyLogin, Idle
  PROVE  StatusOK' /\ RehostOK' /\ SendingOK' /\ LoginOK' /\ UNCHANGED tokens
<1>1. closing' = FALSE
  BY BoolCases DEF OnlyLogin, Idle, ClientInv, StatusOK
<1>2. StatusOK' /\ SendingOK'
  BY <1>1, LoginSentOK DEF OnlyLogin, ClientInv
<1> QED
  BY <1>2 DEF OnlyLogin, ClientInv, RehostOK, LoginOK, rehost, login, awaited

(* A line of the server, one case per handler.                             *)
LEMMA ParseMessageOK ==
  ASSUME ClientInv, ParseMessage, UNCHANGED scenario, scenario \in Scenarios
  PROVE  ClientInv'
<1> USE DEF Next1
<1>a. inbox # <<>> /\ inbox' = Tail(inbox) /\ UNCHANGED <<scenario, faults>> /\ Idle
  BY DEF ParseMessage
<1>b. Head(inbox) \in Events /\ Head(inbox).op = "line" /\ Head(inbox).conn <= conn
  BY <1>a, HeadEvent DEF ParseMessage, ClientInv
<1>c. Head(inbox).line \in {"identify", "kill", "fatal", "rehost"}
  BY <1>b, ScenarioOK DEF Events, Lines, ClientScenario
<1>d. Head(inbox).conn \in 1..conn
  BY <1>b DEF Events, ClientInv, TransportOK
<1>1. ASSUME Ignored PROVE ClientInv'
  BY <1>a, <1>1, IgnoredOK
<1>2. ASSUME DisconnectFromServer(<<>>) PROVE ClientInv'
  <2>1. <<>> \in Seq(Signals)
    OBVIOUS
  <2> QED
    BY <1>a, <1>2, <2>1, DisconnectFromServerOK
<1>3. ASSUME HandleKillRequest PROVE ClientInv'
  <2>1. <<Kick>> \in Seq(Signals)
    BY DEF Kick, Signals, ClientInv, StatusOK
  <2> QED
    BY <1>a, <1>3, <2>1, DisconnectFromServerOK DEF HandleKillRequest
<1>4. ASSUME HandleRehost PROVE ClientInv'
  <2>1. UNCHANGED <<status, closing, signals, sock, conn, greeted, session, timers, queue,
                    loginSince, logins, checks, lookups, tokens>>
    BY <1>4 DEF HandleRehost, transport, sending, login, awaited
  <2>2. RehostOK'
    BY <1>4, BoolCases DEF HandleRehost, RehostOK, ClientInv, rehost
  <2>3. InboxOK'
    BY <1>a, <2>1, InboxTail DEF ClientInv, TransportOK
  <2> QED
    BY <1>a, <2>1, <2>2, <2>3 DEF ClientInv, StatusOK, TransportOK, SendingOK, LoginOK,
                             Signals, Statuses, Socks
<1>5. ASSUME SendClientIdentification, Protocol = "jwt" PROVE ClientInv'
  <2>1. UNCHANGED <<status, closing, signals, sock, conn, greeted, session, timers, queue,
                    loginSince, logins, checks, lookups, rehosting, rehosts>>
    BY <1>5 DEF SendClientIdentification, transport, sending, login, rehost
  <2>2. tokens' \subseteq 1..conn'
    BY <1>5, <1>d, <2>1 DEF SendClientIdentification, ClientInv
  <2>3. InboxOK'
    BY <1>a, <2>1, InboxTail DEF ClientInv, TransportOK
  <2> QED
    BY <1>a, <2>1, <2>2, <2>3 DEF ClientInv, StatusOK, TransportOK, SendingOK, LoginOK,
                             RehostOK, Signals, Statuses, Socks
<1>6. ASSUME OnlyLogin, UNCHANGED transport PROVE ClientInv'
  <2>1. UNCHANGED <<sock, conn, greeted, session>>
    BY <1>6 DEF transport
  <2>2. StatusOK' /\ RehostOK' /\ SendingOK' /\ LoginOK' /\ UNCHANGED tokens
    BY <1>6, <1>a, OnlyLoginOK
  <2>3. InboxOK'
    BY <1>a, <2>1, InboxTail DEF ClientInv, TransportOK
  <2> QED
    BY <1>a, <2>1, <2>2, <2>3 DEF ClientInv, TransportOK, Socks
<1>7. ASSUME HandleFsdIdentification PROVE ClientInv'
  BY <1>7, <1>2, <1>5, <1>6 DEF HandleFsdIdentification, SendClientIdentification
<1>8. \/ Ignored \/ HandleFsdIdentification \/ HandleKillRequest \/ HandleServerError
      \/ HandleRehost
  BY <1>c DEF ParseMessage
<1> QED
  BY <1>1, <1>2, <1>3, <1>4, <1>7, <1>8 DEF HandleServerError

(* Steps that touch the transport only.                                    *)
LEMMA TransportStepOK ==
  ASSUME ClientInv, TransportOK', conn' = conn, InboxOK', faults' \in Nat,
         UNCHANGED <<status, closing, signals, rehosting, rehosts, timers, queue,
                     loginSince, logins, checks, lookups, tokens>>
  PROVE  ClientInv'
  BY DEF ClientInv, StatusOK, RehostOK, SendingOK, LoginOK, Signals, Statuses

(***************************************************************************)
(* The other events of the inbox: a call, an error, a WebSocket that is    *)
(* gone.                                                                   *)
(***************************************************************************)
LEMMA HandlersOK ==
  ASSUME ClientInv, UNCHANGED scenario,
         DisconnectCalled \/ HandleSocketError \/ HandleWebSocketDisconnected
  PROVE  ClientInv'
<1>1. <<>> \in Seq(Signals)
  OBVIOUS
<1>2. /\ inbox # <<>> /\ inbox' = Tail(inbox) /\ UNCHANGED faults
      /\ Ignored \/ DisconnectFromServer(<<>>)
  BY DEF DisconnectCalled, HandleSocketError, HandleWebSocketDisconnected, Next1
<1> QED
  BY <1>1, <1>2, IgnoredOK, DisconnectFromServerOK

(* The transport reports connected, in time or late.                       *)
LEMMA SocketsOK ==
  ASSUME ClientInv, UNCHANGED scenario, SocketConnected \/ AbortedAttemptEnds
  PROVE  ClientInv'
<1>1. /\ Idle /\ UNCHANGED <<conn, greeted, session, inbox, faults>>
      /\ sock \in {"connecting", "aborting"} /\ sock' \in {"connected", "closed"}
      /\ \/ OnlyLogin
         \/ UNCHANGED <<status, closing, signals, rehosting, rehosts, timers, queue,
                        loginSince, logins, checks, lookups, tokens>>
  BY DEF SocketConnected, AbortedAttemptEnds, rehost, sending, login, awaited
<1>2. TransportOK'
  BY <1>1 DEF ClientInv, TransportOK, Socks
<1>3. InboxOK'
  BY <1>1, InboxSame DEF ClientInv, TransportOK
<1>4. CASE OnlyLogin
  <2>1. StatusOK' /\ RehostOK' /\ SendingOK' /\ LoginOK' /\ UNCHANGED tokens
    BY <1>1, <1>4, OnlyLoginOK
  <2> QED
    BY <1>1, <1>2, <1>3, <2>1 DEF ClientInv
<1>5. CASE UNCHANGED <<status, closing, signals, rehosting, rehosts, timers, queue,
                       loginSince, logins, checks, lookups, tokens>>
  BY <1>1, <1>2, <1>3, <1>5, TransportStepOK DEF ClientInv
<1> QED
  BY <1>1, <1>4, <1>5

(* A rehosting socket connects or fails.                                   *)
LEMMA RehostsOK ==
  ASSUME ClientInv, UNCHANGED scenario, RehostConnected \/ RehostFailed
  PROVE  ClientInv'
<1>1. CASE RehostConnected
  <2> USE <1>1 DEF RehostConnected
  <2>1. TransportOK' /\ RehostOK' /\ conn' = conn + 1
    BY BoolCases DEF ClientInv, TransportOK, RehostOK, Socks
  <2>2. InboxOK'
    BY <2>1, InboxSame DEF ClientInv, TransportOK
  <2>3. tokens' \subseteq 1..conn'
    BY <2>1 DEF awaited, ClientInv, TransportOK
  <2> QED
    BY <2>1, <2>2, <2>3 DEF ClientInv, StatusOK, SendingOK, LoginOK, Signals, Statuses,
                       sending, login, awaited
<1>2. CASE RehostFailed
  <2> USE <1>2 DEF RehostFailed
  <2>1. /\ RehostOK'
        /\ UNCHANGED <<sock, conn, greeted, session, logins, checks, lookups, tokens>>
    BY BoolCases DEF ClientInv, RehostOK, transport, awaited
  <2>2. LoginOK'
    BY <2>1 DEF ClientInv, LoginOK
  <2>3. InboxOK'
    BY <2>1, InboxSame DEF ClientInv, TransportOK
  <2>4. StatusOK' /\ SendingOK'
    <3>1. CASE sock # "connected" /\ status # "Disconnected"
      <4>1. closing' = FALSE
        BY BoolCases DEF Idle, ClientInv, StatusOK
      <4> QED
        <5>1. StatusOK'
          BY <3>1, <4>1, UpdateStatusOK DEF ClientInv, Statuses
        <5>2. SendingOK'
          BY <3>1, BoolCases DEF SendingOK
        <5> QED
          BY <5>1, <5>2
    <3>2. CASE ~(sock # "connected" /\ status # "Disconnected")
      BY <3>2 DEF ClientInv, StatusOK, SendingOK, Signals, Statuses
    <3> QED
      BY <3>1, <3>2
  <2> QED
    BY <2>1, <2>2, <2>3, <2>4 DEF ClientInv, TransportOK, Socks
<1> QED
  BY <1>1, <1>2

(* An event of the current connection fits the inbox.                      *)
LEMMA FromSocketOK ==
  ASSUME TransportOK, NEW o \in {"error", "gone"}
  PROVE  FromSocket(o) \in Events /\ FromSocket(o).conn <= conn
  BY DEF TransportOK, FromSocket, Events

(* What the network and the server do to the connection.                   *)
LEMMA EnvironmentOK ==
  ASSUME ClientInv, UNCHANGED scenario,
         SocketFails \/ PeerCloses \/ NetworkError \/ WebSocketClosed \/ ServerAccepts
  PROVE  ClientInv'
<1> USE DEF SocketFails, PeerCloses, NetworkError, WebSocketClosed, ServerAccepts
<1>1. TransportOK' /\ conn' = conn /\ faults' \in Nat
  BY DEF ClientInv, TransportOK, Socks
<1>2. UNCHANGED <<status, closing, signals, rehosting, rehosts, timers, queue,
                  loginSince, logins, checks, lookups, tokens>>
  BY DEF rehost, sending, login, awaited
<1>3. \/ UNCHANGED inbox
      \/ \E o \in {"error", "gone"} : inbox' = Append(inbox, FromSocket(o))
      \/ inbox' = Append(Append(inbox, FromSocket("error")), FromSocket("gone"))
  <2>1. CASE PeerCloses
    <3>1. ASSUME NEW e, NEW f PROVE inbox \o <<e>> \o <<f>> = Append(Append(inbox, e), f)
      BY DEF ClientInv, InboxOK, InboxFits
    <3>2. ASSUME NEW f PROVE inbox \o <<>> \o <<f>> = Append(inbox, f)
      BY DEF ClientInv, InboxOK, InboxFits
    <3> QED
      BY <2>1, <3>1, <3>2
  <2> QED
    BY <2>1
<1>4. /\ InboxFits(inbox)
      /\ \A o \in {"error", "gone"} : InboxFits(Append(inbox, FromSocket(o)))
      /\ InboxFits(Append(Append(inbox, FromSocket("error")), FromSocket("gone")))
  BY FromSocketOK, InboxAppend DEF ClientInv, InboxOK
<1>5. InboxOK'
  BY <1>1, <1>3, <1>4, InboxFitsOK
<1> QED
  BY <1>1, <1>2, <1>5, TransportStepOK

(* A line arrives.                                                         *)
LEMMA ServerSendsOK ==
  ASSUME ClientInv, UNCHANGED scenario, NEW l \in Lines, ServerSends(l)
  PROVE  ClientInv'
<1> USE DEF ServerSends
<1>1. TransportOK' /\ conn' = conn /\ faults' \in Nat
  BY BoolCases DEF ClientInv, TransportOK, Socks
<1>2. UNCHANGED <<status, closing, signals, rehosting, rehosts, timers, queue,
                  loginSince, logins, checks, lookups, tokens>>
  BY DEF rehost, sending, login, awaited
<1>3. Line(l) \in Events /\ Line(l).conn <= conn
  BY DEF ClientInv, TransportOK, Line, Events
<1>4. InboxOK'
  BY <1>1, <1>3, InboxAppend, InboxFitsOK DEF ClientInv, InboxOK
<1> QED
  BY <1>1, <1>2, <1>4, TransportStepOK

(* The send timer takes a message.                                         *)
LEMMA SendQueuedMessageOK ==
  ASSUME ClientInv, UNCHANGED scenario, SendQueuedMessage
  PROVE  ClientInv'
<1> USE DEF SendQueuedMessage
<1>1. TransportOK' /\ conn' = conn
  BY DEF ClientInv, TransportOK, Socks
<1>2. SendingOK'
  BY DEF ClientInv, SendingOK
<1>3. InboxOK'
  BY <1>1, InboxSame DEF ClientInv, TransportOK
<1> QED
  BY <1>1, <1>2, <1>3 DEF ClientInv, StatusOK, RehostOK, LoginOK, Signals, Statuses,
                          rehost, login, awaited

(* The load balancing service answers.                                     *)
LEMMA ResolveLoadBalancingOK ==
  ASSUME ClientInv, UNCHANGED scenario, NEW a, ResolveLoadBalancing(a)
  PROVE  ClientInv'
<1> USE DEF ResolveLoadBalancing
<1>1. TransportOK' /\ conn' >= conn
  BY OpenTransportOK DEF ClientInv
<1>2. SendingOK'
  BY BoolCases DEF SendingOK, StartPositionTimers
<1>3. InboxOK'
  BY <1>1, InboxSame DEF ClientInv, TransportOK
<1>4. LoginOK'
  BY DEF ClientInv, LoginOK, login
<1>5. tokens' \subseteq 1..conn'
  <2>1. tokens' = tokens /\ tokens \subseteq 1..conn /\ conn \in Nat /\ conn' \in Nat
    BY <1>1 DEF ClientInv, TransportOK
  <2> QED
    BY <1>1, <2>1
<1> QED
  BY <1>1, <1>2, <1>3, <1>4, <1>5 DEF ClientInv, StatusOK, RehostOK, Signals, Statuses,
                          rehost

(* The timeout of a login.                                                 *)
LEMMA PendingTimeoutCheckOK ==
  ASSUME ClientInv, UNCHANGED scenario, NEW a, PendingTimeoutCheck(a)
  PROVE  ClientInv'
<1> USE DEF PendingTimeoutCheck
<1>1. UNCHANGED <<sock, conn, greeted, session, rehosting, rehosts, queue,
                  loginSince, logins, lookups, tokens, inbox, faults>>
  BY DEF transport, rehost, login
<1>2. InboxOK'
  BY <1>1, InboxSame DEF ClientInv, TransportOK
<1>3. LoginOK'
  BY <1>1 DEF ClientInv, LoginOK
<1>4. CASE Disconnecting(<<>>)
  <2>1. <<>> \in Seq(Signals)
    OBVIOUS
  <2>2. StatusOK' /\ timers' = FALSE
    BY <1>4, <2>1, DisconnectingOK DEF ClientInv
  <2>3. SendingOK'
    BY <1>1, <2>2, BoolCases DEF ClientInv, SendingOK
  <2> QED
    BY <1>1, <1>2, <1>3, <2>2, <2>3 DEF ClientInv, TransportOK, RehostOK, Socks
<1>5. CASE UNCHANGED <<closing, timers, status, signals>>
  BY <1>1, <1>2, <1>3, <1>5 DEF ClientInv, StatusOK, TransportOK, RehostOK, SendingOK,
                                Signals, Statuses, Socks
<1> QED
  BY <1>4, <1>5

(* The token service answers.                                              *)
LEMMA GetJwtTokenOK ==
  ASSUME ClientInv, UNCHANGED scenario, NEW a, NEW success \in BOOLEAN,
         GetJwtToken(a, success)
  PROVE  ClientInv'
<1> USE DEF GetJwtToken
<1>1. UNCHANGED <<sock, conn, greeted, session, rehosting, rehosts,
                  loginSince, logins, checks, lookups, inbox, faults>>
  BY DEF transport, rehost, login
<1>2. InboxOK'
  BY <1>1, InboxSame DEF ClientInv, TransportOK
<1>3. tokens' \subseteq 1..conn'
  BY <1>1 DEF ClientInv
<1>4. StatusOK' /\ SendingOK'
  <2>1. CASE success
    <3>1. closing' = FALSE /\ SendLogin /\ UNCHANGED timers
      BY <2>1, BoolCases DEF Idle, ClientInv, StatusOK
    <3> QED
      BY <3>1, LoginSentOK DEF ClientInv
  <2>2. CASE ~success
    <3>1. <<>> \in Seq(Signals) /\ Disconnecting(<<>>) /\ UNCHANGED queue
      BY <2>2
    <3>2. StatusOK' /\ timers' = FALSE
      BY <3>1, DisconnectingOK DEF ClientInv
    <3> QED
      BY <3>1, <3>2, BoolCases DEF ClientInv, SendingOK
  <2> QED
    BY <2>1, <2>2
<1> QED
  BY <1>1, <1>2, <1>3, <1>4 DEF ClientInv, TransportOK, RehostOK, LoginOK, Socks

(* Every step of the client, and of its surroundings, keeps ClientInv.     *)
LEMMA ClientStep ==
  ASSUME ClientInv, scenario \in Scenarios, UNCHANGED scenario, FsdNext
  PROVE  ClientInv'
<1>1. CASE Happens
  BY <1>1, EnvironmentOK, ServerSendsOK DEF Happens
<1>2. CASE Handles
  BY <1>2, ConnectToServerOK, HandlersOK, DisconnectedOK, ParseMessageOK, SendQueuedMessageOK,
     PendingTimeoutCheckOK, ResolveLoadBalancingOK, GetJwtTokenOK, SocketsOK, RehostsOK
     DEF Handles
<1> QED
  BY <1>1, <1>2 DEF FsdNext

-----------------------------------------------------------------------------
(* The reconnect timer and its counter, within the budget.                 *)
ReconnectOK == armed \in BOOLEAN /\ attempt \in 0..MaxAttempts /\ inProgress \in BOOLEAN

(* The three flags of the context.                                         *)
FlagsOK ==
  userReq \in BOOLEAN /\ kicked \in BOOLEAN /\ unexpected \in BOOLEAN

(* The context's part of the type invariant.                               *)
ContextInv ==
  /\ scenario \in Scenarios
  /\ frames \in Seq(Frames)
  /\ ReconnectOK /\ FlagsOK
  /\ haveLogin \in BOOLEAN
  /\ callsign \in 0..MaxAttempts
  /\ commands \in 0..MaxCommands /\ last \in {"none", "connect", "disconnect", "kick"}
  /\ tries \in Nat

(* The inductive type invariant.                                           *)
TypeInv == ClientInv /\ ContextInv

(* It implies the type invariant the runs check.                           *)
LEMMA TypeInvIsType == TypeInv => TypeOK
<1> SUFFICES ASSUME TypeInv PROVE TypeOK
  OBVIOUS
<1>1. ClientTypeOK
  BY DEF TypeInv, ClientInv, ClientTypeOK, StatusOK, TransportOK, RehostOK, SendingOK, LoginOK
<1> QED
  BY <1>1 DEF TypeInv, ContextInv, TypeOK, ReconnectOK, FlagsOK

(* The parameters of the scenario have their types and do not change.      *)
LEMMA ConstantsOK ==
  ASSUME scenario \in Scenarios, UNCHANGED scenario
  PROVE  /\ MaxAttempts \in Nat /\ MaxCommands \in Nat
         /\ MaxAttempts' = MaxAttempts /\ MaxCommands' = MaxCommands
         /\ Frames' = Frames
  BY ScenarioOK DEF MaxAttempts, MaxCommands, ContextScenario, Frames

(* The initial states satisfy it.                                          *)
LEMMA InitTypeInv == Init => TypeInv
<1> SUFFICES ASSUME Init PROVE TypeInv
  OBVIOUS
<1> USE DEF Init, FsdInit
<1>1. StatusOK
  BY BoolCases DEF StatusOK, Statuses
<1>2. TransportOK /\ RehostOK /\ SendingOK
  BY BoolCases DEF TransportOK, RehostOK, SendingOK, Socks
<1>3. LoginOK /\ InboxOK
  BY DEF LoginOK, InboxOK, InboxFits
<1>4. ClientInv
  BY <1>1, <1>2, <1>3 DEF ClientInv
<1>5. MaxAttempts \in Nat /\ MaxCommands \in Nat
  BY ScenarioOK DEF MaxAttempts, MaxCommands, ContextScenario
<1>6. ReconnectOK /\ FlagsOK
  BY <1>5, BoolCases DEF ReconnectOK, FlagsOK
<1>7. ContextInv
  BY <1>5, <1>6, BoolCases DEF ContextInv
<1> QED
  BY <1>4, <1>7 DEF TypeInv

(* scheduleReconnect stays within max_attempts.                            *)
LEMMA ScheduleReconnectOK ==
  ASSUME ReconnectOK, ScheduleReconnect, inProgress' \in BOOLEAN, MaxAttempts \in Nat,
         MaxAttempts' = MaxAttempts
  PROVE  ReconnectOK'
  BY BoolCases DEF ReconnectOK, ScheduleReconnect

(* The context posts a call to the client, or leaves it alone.             *)
LEMMA ClientCalledOK ==
  ASSUME ClientInv, UNCHANGED scenario,
         UNCHANGED <<status, closing, signals, transport, rehost, sending, login,
                     awaited, faults>>,
         \/ UNCHANGED inbox
         \/ \E o \in {"connect", "disconnect"} : inbox' = Append(inbox, Call(o))
  PROVE  ClientInv'
<1>1. UNCHANGED <<status, closing, signals, sock, conn, greeted, session, rehosting,
                  rehosts, timers, queue, loginSince, logins, checks, lookups, tokens, faults>>
  BY DEF transport, rehost, sending, login, awaited
<1>2. TransportOK' /\ faults' \in Nat
  BY <1>1 DEF ClientInv, TransportOK, Socks
<1>3. \A o \in {"connect", "disconnect"} : Call(o) \in Events /\ Call(o).conn <= conn
  BY DEF ClientInv, TransportOK, Call, Events
<1>4. /\ InboxFits(inbox)
      /\ \A o \in {"connect", "disconnect"} : InboxFits(Append(inbox, Call(o)))
  BY <1>3, InboxAppend DEF ClientInv, InboxOK
<1>5. InboxOK'
  BY <1>1, <1>4, InboxFitsOK
<1> QED
  BY <1>1, <1>2, <1>5, TransportStepOK

(* The user connects.                                                      *)
LEMMA UserConnectsOK ==
  ASSUME TypeInv, UNCHANGED scenario, UserConnects
  PROVE  TypeInv'
<1> USE DEF UserConnects, UserCommands
<1>1. ClientInv'
  BY ClientCalledOK DEF TypeInv, fsdVars
<1>2. /\ MaxAttempts \in Nat /\ MaxCommands \in Nat
      /\ MaxAttempts' = MaxAttempts /\ MaxCommands' = MaxCommands
      /\ Frames' = Frames
  BY ConstantsOK DEF TypeInv, ContextInv
<1>3. ReconnectOK' /\ FlagsOK'
  BY <1>2, BoolCases DEF TypeInv, ContextInv, ReconnectOK, FlagsOK, CancelReconnect, ClearFlags,
        reconnect, flags
<1>4. frames' \in Seq(Frames)
  <2>1. [auto |-> inProgress, byTimer |-> FALSE, suffix |-> 0] \in Frames
    BY <1>2, BoolCases DEF TypeInv, ContextInv, ReconnectOK, Frames
  <2> QED
    BY <2>1 DEF TypeInv, ContextInv
<1>5. ContextInv'
  BY <1>2, <1>3, <1>4 DEF TypeInv, ContextInv
<1> QED
  BY <1>1, <1>5 DEF TypeInv

(* The reconnect timer fires.                                              *)
LEMMA ReconnectToNetworkOK ==
  ASSUME TypeInv, UNCHANGED scenario, ReconnectToNetwork
  PROVE  TypeInv'
<1> USE DEF ReconnectToNetwork
<1>1. ClientInv'
  BY ClientCalledOK DEF TypeInv, fsdVars
<1>2. /\ MaxAttempts \in Nat /\ MaxCommands \in Nat
      /\ MaxAttempts' = MaxAttempts /\ MaxCommands' = MaxCommands
      /\ Frames' = Frames
  BY ConstantsOK DEF TypeInv, ContextInv
<1>3. ReconnectOK'
  BY <1>2, BoolCases DEF TypeInv, ContextInv, ReconnectOK
<1>4. FlagsOK' /\ tries' \in Nat
  BY BoolCases DEF TypeInv, ContextInv, FlagsOK, ClearFlags, flags
<1>5. frames' \in Seq(Frames)
  <2>1. [auto |-> TRUE, byTimer |-> TRUE, suffix |-> ReconnectCallsign] \in Frames
    BY <1>2, BoolCases DEF TypeInv, ContextInv, ReconnectOK, Frames, ReconnectCallsign
  <2> QED
    BY <2>1 DEF TypeInv, ContextInv
<1>6. ContextInv'
  BY <1>2, <1>3, <1>4, <1>5 DEF TypeInv, ContextInv
<1> QED
  BY <1>1, <1>6 DEF TypeInv

(* canConnect returns.                                                     *)
LEMMA ConnectToNetworkOK ==
  ASSUME TypeInv, UNCHANGED scenario, NEW reachable \in BOOLEAN,
         ConnectToNetwork(reachable)
  PROVE  TypeInv'
<1> USE DEF ConnectToNetwork
<1>1. ClientInv'
  <2>1. \/ UNCHANGED inbox
        \/ inbox' = Append(inbox, Call("connect"))
    OBVIOUS
  <2> QED
    BY <2>1, ClientCalledOK DEF TypeInv
<1>2. /\ MaxAttempts \in Nat /\ MaxCommands \in Nat
      /\ MaxAttempts' = MaxAttempts /\ MaxCommands' = MaxCommands
      /\ Frames' = Frames
  BY ConstantsOK DEF TypeInv, ContextInv
<1>3. Len(frames) \in Nat \ {0} /\ frames[Len(frames)] \in Frames
  BY EmptySeq, LenProperties DEF TypeInv, ContextInv
<1>4. SubSeq(frames, 1, Len(frames) - 1) \in Seq(Frames)
  BY <1>3, SubSeqProperties DEF TypeInv, ContextInv
<1>5. inProgress' \in BOOLEAN
  BY <1>3, BoolCases DEF TypeInv, ContextInv, ReconnectOK
<1>6. ReconnectOK'
  <2>1. ScheduleReconnect \/ UNCHANGED <<armed, attempt>>
    OBVIOUS
  <2>2. ASSUME UNCHANGED <<armed, attempt>> PROVE ReconnectOK'
    BY <1>2, <1>5, <2>2 DEF TypeInv, ContextInv, ReconnectOK
  <2> QED
    BY <1>2, <1>5, <2>1, <2>2, ScheduleReconnectOK DEF TypeInv, ContextInv
<1>7. FlagsOK'
  BY DEF TypeInv, ContextInv, FlagsOK, flags
<1>8. /\ haveLogin' \in BOOLEAN
      /\ callsign' \in 0..MaxAttempts
      /\ last' \in {"none", "connect", "disconnect", "kick"}
  BY <1>2, BoolCases DEF TypeInv, ContextInv, ClientCallsign, SetPilot
<1>9. ContextInv'
  BY <1>2, <1>4, <1>6, <1>7, <1>8 DEF TypeInv, ContextInv
<1> QED
  BY <1>1, <1>9 DEF TypeInv

(* The user disconnects.                                                   *)
LEMMA UserDisconnectsOK ==
  ASSUME TypeInv, UNCHANGED scenario, UserDisconnects
  PROVE  TypeInv'
<1> USE DEF UserDisconnects, UserCommands
<1>1. ClientInv'
  BY ClientCalledOK DEF TypeInv
<1>2. /\ MaxAttempts \in Nat /\ MaxCommands \in Nat
      /\ MaxAttempts' = MaxAttempts /\ MaxCommands' = MaxCommands
      /\ Frames' = Frames
  BY ConstantsOK DEF TypeInv, ContextInv
<1>3. ReconnectOK' /\ FlagsOK'
  BY <1>2, BoolCases DEF TypeInv, ContextInv, ReconnectOK, FlagsOK, CancelReconnect
<1>4. ContextInv'
  BY <1>2, <1>3 DEF TypeInv, ContextInv
<1> QED
  BY <1>1, <1>4 DEF TypeInv

(* The context handles a signal of the client.                             *)
LEMMA TakeSignalOK ==
  ASSUME TypeInv, UNCHANGED scenario, TakeSignal
  PROVE  TypeInv'
<1> USE DEF TakeSignal
<1>1. ClientInv'
  <2>1. UNCHANGED <<status, closing, sock, conn, greeted, session, rehosting,
                    rehosts, timers, queue, loginSince, logins, checks, lookups, tokens,
                    inbox, faults>>
    BY DEF transport, rehost, sending, login, awaited
  <2>2. StatusOK'
    BY <2>1 DEF TypeInv, ClientInv, StatusOK, Signals, Statuses
  <2>3. InboxOK'
    BY <2>1, InboxSame DEF TypeInv, ClientInv, TransportOK
  <2> QED
    BY <2>1, <2>2, <2>3 DEF TypeInv, ClientInv, TransportOK, RehostOK, SendingOK, LoginOK, Socks
<1>2. /\ MaxAttempts \in Nat /\ MaxCommands \in Nat
      /\ MaxAttempts' = MaxAttempts /\ MaxCommands' = MaxCommands
      /\ Frames' = Frames
  BY ConstantsOK DEF TypeInv, ContextInv
<1>3. ReconnectOK' /\ FlagsOK' /\ tries' \in Nat
  <2> DEFINE m == Head(signals)
  <2>1. OnKicked \/ OnFsdConnectionStatusChanged(m.from, m.to)
    OBVIOUS
  <2>2. CASE OnKicked
    BY <1>2, <2>2, BoolCases DEF TypeInv, ContextInv, ReconnectOK, FlagsOK, CancelReconnect, OnKicked
  <2>3. CASE OnFsdConnectionStatusChanged(m.from, m.to)
    <3> USE <2>3 DEF OnFsdConnectionStatusChanged
    <3>1. CASE m.to = "Disconnecting"
      BY <1>2, <3>1, BoolCases DEF TypeInv, ContextInv, ReconnectOK, FlagsOK, Wanted, reconnect
    <3>2. CASE m.to = "Disconnected"
      <4>1. FlagsOK' /\ tries' \in Nat /\ inProgress' \in BOOLEAN
        BY <3>2, BoolCases DEF TypeInv, ContextInv, ReconnectOK, FlagsOK, ClearFlags
      <4>2. ScheduleReconnect \/ UNCHANGED <<armed, attempt>>
        BY <3>2
      <4>3. ASSUME UNCHANGED <<armed, attempt>> PROVE ReconnectOK'
        BY <1>2, <4>1, <4>3 DEF TypeInv, ContextInv, ReconnectOK
      <4> QED
        BY <1>2, <4>1, <4>2, <4>3, ScheduleReconnectOK DEF TypeInv, ContextInv
    <3>3. CASE m.to = "Connected"
      BY <1>2, <3>3, BoolCases DEF TypeInv, ContextInv, ReconnectOK, FlagsOK, CancelReconnect, ClearFlags
    <3>4. CASE m.to \notin {"Disconnecting", "Disconnected", "Connected"}
      BY <1>2, <3>4 DEF TypeInv, ContextInv, ReconnectOK, FlagsOK, reconnect, flags
    <3> QED
      BY <3>1, <3>2, <3>3, <3>4
  <2> QED
    BY <2>1, <2>2, <2>3
<1>4. ContextInv'
  BY <1>2, <1>3 DEF TypeInv, ContextInv
<1> QED
  BY <1>1, <1>4 DEF TypeInv

(* A step of the client, seen with the context's history.                  *)
LEMMA FsdStepOK ==
  ASSUME TypeInv, UNCHANGED scenario, FsdStep
  PROVE  TypeInv'
<1> USE DEF FsdStep
<1>1. ClientInv'
  BY ClientStep DEF TypeInv, ContextInv
<1>2. /\ MaxAttempts \in Nat /\ MaxCommands \in Nat
      /\ MaxAttempts' = MaxAttempts /\ MaxCommands' = MaxCommands
      /\ Frames' = Frames
  BY ConstantsOK DEF TypeInv, ContextInv
<1>3. UNCHANGED <<frames, armed, attempt, inProgress, haveLogin, userReq, kicked, unexpected,
                  callsign, commands, tries>>
  BY DEF reconnect, flags
<1>4. last' \in {"none", "connect", "disconnect", "kick"}
  BY DEF TypeInv, ContextInv
<1>5. ContextInv'
  BY <1>2, <1>3, <1>4 DEF TypeInv, ContextInv, ReconnectOK, FlagsOK
<1> QED
  BY <1>1, <1>5 DEF TypeInv

(* A step in which nothing happens.                                        *)
LEMMA StutterOK == TypeInv /\ UNCHANGED vars => TypeInv'
<1> SUFFICES ASSUME TypeInv, UNCHANGED vars PROVE TypeInv'
  OBVIOUS
<1>1. ClientInv'
  BY ClientCalledOK DEF TypeInv, vars, fsdVars
<1>2. /\ MaxAttempts' = MaxAttempts /\ MaxCommands' = MaxCommands /\ Frames' = Frames
  BY ConstantsOK DEF TypeInv, ContextInv, vars
<1>3. UNCHANGED <<scenario, frames, armed, attempt, inProgress, haveLogin, userReq, kicked,
                  unexpected, callsign, commands, tries, last>>
  BY DEF vars, ctxVars, reconnect, flags, history
<1>5. ContextInv'
  BY <1>2, <1>3 DEF TypeInv, ContextInv, ReconnectOK, FlagsOK
<1> QED
  BY <1>1, <1>5 DEF TypeInv

(* Every step keeps the type invariant.                                    *)
LEMMA NextTypeInv == TypeInv /\ [Next]_vars => TypeInv'
  BY StutterOK, FsdStepOK, UserConnectsOK, UserDisconnectsOK, ReconnectToNetworkOK,
     TakeSignalOK, ConnectToNetworkOK DEF Next

(* So it always holds.                                                     *)
LEMMA TypeInvAlways == Spec => []TypeInv
  BY InitTypeInv, NextTypeInv, PTL DEF Spec

(***************************************************************************)
(* In every scenario the client and the context keep their types: the      *)
(* counter of scheduleReconnect stays within max_attempts, a login,        *)
(* timeout, reply or token belongs to a login or connection that was       *)
(* begun, and the client says Disconnecting exactly while it is inside     *)
(* disconnectFromServer.                                                   *)
(***************************************************************************)
THEOREM TypeCorrect == Spec => []TypeOK
  BY TypeInvAlways, TypeInvIsType, PTL

-----------------------------------------------------------------------------
(***************************************************************************)
(* The safety of the connection.                                           *)
(***************************************************************************)

(***************************************************************************)
(* A server at a fixed address asks for no load balancing and no rehost,   *)
(* so nothing awaited can open a socket or start a timer. What             *)
(* DisconnectedIsQuiet and OffTheNetwork lack to be inductive is the step  *)
(* before them: disconnectFromServer has stopped the timers by the time    *)
(* other threads see Disconnecting.  Only a TCP socket is ever closed      *)
(* while it is connecting.                                                 *)
(***************************************************************************)
QuietInv ==
  /\ lookups = {} /\ rehosts = 0 /\ ~rehosting
  /\ closing => ~timers
  /\ Transport = "ws" => sock # "aborting"
  /\ status = "Disconnected" =>
       ~timers /\ queue = <<>> /\ sock \notin {"connecting", "connected", "down"}

(* It holds initially.                                                     *)
LEMMA InitQuiet == Init => QuietInv
  BY DEF Init, FsdInit, QuietInv

(* Every step of the client keeps it.                                      *)
LEMMA QuietStep ==
  ASSUME TypeInv, FixedAddress, QuietInv, UNCHANGED scenario, FsdNext
  PROVE  QuietInv'
<1>0. Transport' = Transport
  BY DEF Transport
<1> USE <1>0 DEF QuietInv, Idle, Next1
<1>1. ASSUME DisconnectFromServer(<<>>) \/ DisconnectFromServer(<<Kick>>) PROVE QuietInv'
  BY <1>1 DEF DisconnectFromServer, Disconnecting, transport, rehost, awaited
<1>2. ASSUME Ignored PROVE QuietInv'
  BY <1>2 DEF Ignored, transport, rehost, sending, awaited
<1>3. ASSUME OnlyLogin, Idle, sock' = sock \/ sock' # "aborting" PROVE QuietInv'
  BY <1>3 DEF OnlyLogin, SendLogin, UpdateConnectionStatus, rehost, awaited
<1>4. CASE ConnectToServer
  <2>1. CASE IsTransportOpen
    BY <1>4, <1>2, <2>1 DEF ConnectToServer, Ignored
  <2>2. CASE ~IsTransportOpen
    <3>1. sock' \in {sock, "connecting"}
      BY <1>4, <2>2 DEF ConnectToServer, OpenTransport, transport
    <3> QED
      BY <1>4, <2>2, <3>1 DEF ConnectToServer, UpdateConnectionStatus, ClearState, FixedAddress
  <2> QED
    BY <2>1, <2>2
<1>5. CASE Disconnected
  BY <1>5 DEF Disconnected, CloseTransport, UpdateConnectionStatus, ClearState, awaited
<1>6. CASE ParseMessage
  <2>1. Head(inbox) \in Events /\ Head(inbox).op = "line"
    BY <1>6, HeadEvent DEF ParseMessage, TypeInv, ClientInv
  <2>2. Head(inbox).line \in Lines /\ Lines \subseteq {"identify", "kill", "fatal", "rehost"}
    BY <2>1, ScenarioOK DEF Events, Lines, ClientScenario, TypeInv, ContextInv
  <2>3. ASSUME HandleRehost, "rehost" \in Lines PROVE QuietInv'
    BY <2>3 DEF HandleRehost, FixedAddress, transport, rehost, sending, awaited
  <2>4. ASSUME HandleFsdIdentification PROVE QuietInv'
    <3>1. CASE SendClientIdentification
      <4>1. CASE Protocol = "jwt"
        BY <3>1, <4>1 DEF SendClientIdentification, transport, rehost, sending
      <4>2. CASE Protocol # "jwt"
        BY <3>1, <4>2, <1>3, <1>6 DEF SendClientIdentification, ParseMessage, transport
      <4> QED
        BY <4>1, <4>2
    <3> QED
      BY <2>4, <3>1, <1>1 DEF HandleFsdIdentification
  <2>5. \/ Ignored \/ HandleFsdIdentification \/ HandleKillRequest \/ HandleServerError
        \/ HandleRehost /\ "rehost" \in Lines
    BY <1>6, <2>2 DEF ParseMessage
  <2> QED
    BY <1>1, <1>2, <2>3, <2>4, <2>5 DEF HandleKillRequest, HandleServerError
<1>7. CASE DisconnectCalled \/ HandleSocketError \/ HandleWebSocketDisconnected
  BY <1>7, <1>1, <1>2 DEF DisconnectCalled, HandleSocketError, HandleWebSocketDisconnected
<1>8. CASE SendQueuedMessage
  BY <1>8 DEF SendQueuedMessage, rehost, awaited, TypeInv, ClientInv, SendingOK
<1>9. ASSUME NEW a \in checks, PendingTimeoutCheck(a) PROVE QuietInv'
  BY <1>9 DEF PendingTimeoutCheck, Disconnecting, transport, rehost, awaited
<1>10. ASSUME NEW a \in lookups PROVE FALSE
  BY <1>10
<1>11. ASSUME NEW a \in tokens, NEW success \in BOOLEAN, GetJwtToken(a, success) PROVE QuietInv'
  BY <1>11 DEF GetJwtToken, SendLogin, UpdateConnectionStatus, Disconnecting, transport, rehost
<1>12. CASE SocketConnected \/ AbortedAttemptEnds
  <2>1. sock' \in {"connected", "closed"} /\ Idle
    BY <1>12 DEF SocketConnected, AbortedAttemptEnds
  <2>2. status # "Disconnected" \/ sock' = "closed"
    BY <1>12 DEF SocketConnected, AbortedAttemptEnds
  <2>3. ASSUME UNCHANGED <<status, closing, signals, rehost, sending, login, awaited>>
        PROVE  QuietInv'
    BY <2>1, <2>2, <2>3 DEF rehost, sending, awaited
  <2> QED
    BY <1>12, <1>3, <2>1, <2>3 DEF SocketConnected, AbortedAttemptEnds
<1>13. CASE RehostConnected \/ RehostFailed
  BY <1>13 DEF RehostConnected, RehostFailed
<1>14. CASE Happens
  BY <1>14 DEF Happens, SocketFails, PeerCloses, NetworkError, WebSocketClosed, ServerAccepts,
               ServerSends, rehost, sending, awaited
<1> QED
  BY <1>4, <1>5, <1>6, <1>7, <1>8, <1>9, <1>10, <1>11, <1>12, <1>13, <1>14
     DEF FsdNext, Handles

(***************************************************************************)
(* The context never touches the client's state but its inbox and the      *)
(* signals it takes.                                                       *)
(***************************************************************************)
LEMMA ContextLeavesClient ==
  ASSUME \/ UserConnects \/ UserDisconnects \/ ReconnectToNetwork \/ TakeSignal
         \/ \E reachable \in BOOLEAN : ConnectToNetwork(reachable)
         \/ UNCHANGED vars
  PROVE  UNCHANGED <<status, closing, sock, conn, greeted, session, rehosting, rehosts,
                     timers, queue, loginSince, logins, checks, lookups, tokens, faults>>
<1> USE DEF transport, rehost, sending, login, awaited, fsdVars
<1>1. CASE UserConnects
  BY <1>1 DEF UserConnects
<1>2. CASE UserDisconnects
  BY <1>2 DEF UserDisconnects
<1>3. CASE ReconnectToNetwork
  BY <1>3 DEF ReconnectToNetwork
<1>4. CASE TakeSignal
  BY <1>4 DEF TakeSignal
<1>5. CASE \E reachable \in BOOLEAN : ConnectToNetwork(reachable)
  BY <1>5 DEF ConnectToNetwork
<1>6. CASE UNCHANGED vars
  BY <1>6 DEF vars
<1> QED
  BY <1>1, <1>2, <1>3, <1>4, <1>5, <1>6

(* Every step keeps it.                                                    *)
LEMMA NextQuiet ==
  ASSUME TypeInv, FixedAddress => QuietInv, [Next]_vars
  PROVE  (FixedAddress => QuietInv)'
<1>1. UNCHANGED scenario /\ (FixedAddress' <=> FixedAddress)
  BY DEF Next, vars, FixedAddress, Transport, LoadBalancing, Lines
<1>2. CASE FsdStep
  BY <1>1, <1>2, QuietStep DEF FsdStep
<1>3. CASE ~FsdStep
  <2>1. UNCHANGED <<status, closing, sock, timers, queue, rehosting, rehosts, lookups>>
    BY <1>3, ContextLeavesClient DEF Next
  <2> QED
    BY <1>1, <2>1 DEF QuietInv, Transport
<1> QED
  BY <1>2, <1>3

(* So it always holds.                                                     *)
LEMMA QuietAlways == Spec => [](FixedAddress => QuietInv)
<1>1. TypeInv /\ (FixedAddress => QuietInv) /\ [Next]_vars => (FixedAddress => QuietInv)'
  BY NextQuiet
<1>2. Init => (FixedAddress => QuietInv)
  BY InitQuiet
<1> QED
  BY <1>1, <1>2, TypeInvAlways, PTL DEF Spec

(***************************************************************************)
(* For every server at a fixed address, TCP or WebSocket, classic or with  *)
(* tokens, and whatever order calls, lines, errors and timeouts come in: a *)
(* client that says Disconnected runs no timer, has no message of the old  *)
(* login left, and no rehost pending.                                      *)
(***************************************************************************)
THEOREM Quiet == Spec => []DisconnectedIsQuiet
<1>1. (FixedAddress => QuietInv) => DisconnectedIsQuiet
  BY DEF QuietInv, DisconnectedIsQuiet
<1> QED
  BY <1>1, QuietAlways, PTL

(***************************************************************************)
(* Nor does it hold a connection: disconnectFromServer has closed whatever *)
(* any handler had opened, and no late reply opens another.  What is left  *)
(* at most is the closing handshake of a WebSocket.                        *)
(***************************************************************************)
THEOREM LetsGo == Spec => []OffTheNetwork
<1>1. TypeInv /\ (FixedAddress => QuietInv) => OffTheNetwork
  BY DEF QuietInv, OffTheNetwork, IsTransportOpen, TypeInv, ClientInv, TransportOK, Socks
<1> QED
  BY <1>1, QuietAlways, TypeInvAlways, PTL

-----------------------------------------------------------------------------
(***************************************************************************)
(* A socket that is opening or open has the send timer running:            *)
(* connectToServer starts it with the attempt and only                     *)
(* disconnectFromServer stops it.                                          *)
(***************************************************************************)
LoginInv ==
  /\ sock \in {"connecting", "connected"} /\ ~closing => timers
  /\ LoginOnItsWay

(* Every step of the client keeps that.                                    *)
LEMMA LoginStep ==
  ASSUME TypeInv, Simple, QuietInv, LoginInv, UNCHANGED scenario, FsdNext
  PROVE  LoginInv'
<1>1. Simple' <=> Simple
  BY DEF Simple, FixedAddress, Transport, Protocol, LoadBalancing, Lines
<1> USE <1>1 DEF LoginInv, LoginOnItsWay, Idle, Next1
<1>2. ASSUME DisconnectFromServer(<<>>) \/ DisconnectFromServer(<<Kick>>) PROVE LoginInv'
  BY <1>2 DEF DisconnectFromServer, Disconnecting
<1>3. ASSUME Ignored PROVE LoginInv'
  BY <1>3 DEF Ignored, transport, sending
<1>4. ASSUME SendLogin PROVE queue' # <<>> /\ status' = "Connected"
  BY <1>4 DEF SendLogin, UpdateConnectionStatus, TypeInv, ClientInv, SendingOK
<1>5. CASE ConnectToServer
  BY <1>5, <1>3 DEF ConnectToServer, Ignored, UpdateConnectionStatus, Simple, FixedAddress
<1>6. CASE Disconnected
  BY <1>6 DEF Disconnected, CloseTransport, UpdateConnectionStatus
<1>7. CASE ParseMessage
  <2>1. Head(inbox) \in Events /\ Head(inbox).op = "line"
    BY <1>7, HeadEvent DEF ParseMessage, TypeInv, ClientInv
  <2>2. Head(inbox).line \in Lines /\ Lines \subseteq {"identify", "kill", "fatal", "rehost"}
    BY <2>1, ScenarioOK DEF Events, Lines, ClientScenario, TypeInv, ContextInv
  <2>3. ASSUME HandleRehost PROVE LoginInv'
    BY <2>3 DEF HandleRehost, transport, sending
  <2>4. ASSUME HandleFsdIdentification PROVE LoginInv'
    BY <2>4, <1>2 DEF HandleFsdIdentification, Simple
  <2>5. \/ Ignored \/ HandleFsdIdentification \/ HandleKillRequest \/ HandleServerError
        \/ HandleRehost
    BY <1>7, <2>2 DEF ParseMessage
  <2> QED
    BY <1>2, <1>3, <2>3, <2>4, <2>5 DEF HandleKillRequest, HandleServerError
<1>8. CASE DisconnectCalled \/ HandleSocketError \/ HandleWebSocketDisconnected
  BY <1>8, <1>2, <1>3 DEF DisconnectCalled, HandleSocketError, HandleWebSocketDisconnected
<1>9. CASE SendQueuedMessage
  BY <1>9 DEF SendQueuedMessage
<1>10. ASSUME NEW a \in checks, PendingTimeoutCheck(a) PROVE LoginInv'
  BY <1>10 DEF PendingTimeoutCheck, Disconnecting, transport
<1>11. ASSUME NEW a \in lookups PROVE FALSE
  BY <1>11 DEF QuietInv
<1>12. ASSUME NEW a \in tokens, NEW success \in BOOLEAN, GetJwtToken(a, success) PROVE LoginInv'
  BY <1>12, <1>4 DEF GetJwtToken, Disconnecting, transport
<1>13. CASE SocketConnected
  BY <1>13, <1>4 DEF SocketConnected, OnlyLogin, Simple
<1>14. CASE AbortedAttemptEnds
  BY <1>14 DEF AbortedAttemptEnds
<1>15. CASE RehostConnected \/ RehostFailed
  BY <1>15 DEF RehostConnected, RehostFailed, QuietInv
<1>16. CASE Happens
  BY <1>16 DEF Happens, SocketFails, PeerCloses, NetworkError, WebSocketClosed, ServerAccepts,
               ServerSends, sending
<1> QED
  BY <1>5, <1>6, <1>7, <1>8, <1>9, <1>10, <1>11, <1>12, <1>13, <1>14, <1>15, <1>16
     DEF FsdNext, Handles

(* So does every step.                                                     *)
LEMMA NextLogin ==
  ASSUME TypeInv, FixedAddress => QuietInv, Simple => LoginInv, [Next]_vars
  PROVE  (Simple => LoginInv)'
<1>1. UNCHANGED scenario /\ (FixedAddress' <=> FixedAddress) /\ (Simple' <=> Simple)
  BY DEF Next, vars, FixedAddress, Transport, LoadBalancing, Lines, Simple, Protocol
<1>2. CASE FsdStep
  BY <1>1, <1>2, LoginStep DEF FsdStep, Simple
<1>3. CASE ~FsdStep
  <2>1. UNCHANGED <<status, closing, sock, timers, queue, session>>
    BY <1>3, ContextLeavesClient DEF Next
  <2> QED
    BY <1>1, <2>1 DEF LoginInv, LoginOnItsWay
<1> QED
  BY <1>2, <1>3

(***************************************************************************)
(* A client that says Connected on an open connection whose server has not *)
(* got the login still has it in the queue, and the timer that sends it is *)
(* running: no handler clears the queue or stops the timer without leaving *)
(* Connected.                                                              *)
(***************************************************************************)
THEOREM LoginArrives == Spec => []LoginOnItsWay
<1>1. Init => (Simple => LoginInv)
  BY DEF Init, FsdInit, LoginInv, LoginOnItsWay
<1>2. TypeInv /\ (FixedAddress => QuietInv) /\ (Simple => LoginInv) /\ [Next]_vars
        => (Simple => LoginInv)'
  BY NextLogin
<1>3. (Simple => LoginInv) => LoginOnItsWay
  BY DEF LoginInv, LoginOnItsWay
<1> QED
  BY <1>1, <1>2, <1>3, TypeInvAlways, QuietAlways, PTL DEF Spec

-----------------------------------------------------------------------------
(* No connectToServer is waiting.                                          *)
NoConnect == \A i \in 1..Len(inbox) : inbox[i].op # "connect"

(***************************************************************************)
(* A line that waits in front of a connectToServer is not of a connection  *)
(* that is still open: the context only posts the call when the client     *)
(* says Disconnected, and then it is off the network.                      *)
(***************************************************************************)
LinesAreOld ==
  \A i, j \in 1..Len(inbox) :
    i < j /\ inbox[i].op = "line" /\ inbox[i].conn = conn /\ inbox[j].op = "connect" =>
      sock \notin {"connecting", "connected", "down"}

(***************************************************************************)
(* The login that was kicked is over, or ending, and no other has been     *)
(* asked for.                                                              *)
(***************************************************************************)
Over ==
  /\ status \in {"Disconnecting", "Disconnected"}
  /\ sock \in {"connected", "down", "closed"}
  /\ ~closing => sock = "closed"
  /\ NoConnect

(* Signal i comes after every kick.                                        *)
AfterKick(i) == \A j \in 1..Len(signals) : i <= j => signals[j].kind # "kick"

(***************************************************************************)
(* Such a signal tells of an end, of a login that was ended by the kick or *)
(* had ended before.                                                       *)
(***************************************************************************)
Calm(i) ==
  /\ signals[i].to \in {"Disconnecting", "Disconnected"}
  /\ signals[i].to = "Disconnected" => signals[i].from = "Disconnecting"
  /\ signals[i].from \in {"Connected", "Connecting"} =>
       \/ i = 1 /\ kicked
       \/ i > 1 /\ signals[i - 1].kind = "kick"

(* All signals after the last kick are calm.                               *)
AllCalm == \A i \in 1..Len(signals) : AfterKick(i) => Calm(i)

(***************************************************************************)
(* After a kick the client is over, what it has still to report is calm,   *)
(* and the context expects nothing once the kick has been taken.           *)
(***************************************************************************)
KickInv ==
  /\ LinesAreOld
  /\ last = "kick" =>
       /\ Over
       /\ AllCalm
       /\ ~KickPending => ~unexpected

(* The inbox loses its head.                                               *)
LEMMA InboxShrinks ==
  ASSUME TypeInv, inbox # <<>>, inbox' = Tail(inbox)
  PROVE  /\ NoConnect => NoConnect'
         /\ LinesAreOld /\ (UNCHANGED <<conn, sock>> \/ conn' > conn
               \/ sock' \notin {"connecting", "connected", "down"}) => LinesAreOld'
         /\ (LinesAreOld /\ Head(inbox).op = "line" /\ Head(inbox).conn = conn
              /\ sock \in {"connecting", "connected", "down"}) => NoConnect'
<1>1. /\ Len(inbox) \in Nat \ {0} /\ Head(inbox) = inbox[1]
      /\ Len(inbox') = Len(inbox) - 1
      /\ \A i \in 1..(Len(inbox) - 1) : inbox'[i] = inbox[i + 1]
  BY LenProperties, HeadTailProperties, EmptySeq DEF TypeInv, ClientInv, InboxOK, InboxFits
<1>2. \A i \in 1..Len(inbox) : inbox[i].conn \in Nat /\ inbox[i].conn <= conn
  BY DEF TypeInv, ClientInv, InboxOK, InboxFits, Events
<1>3. NoConnect => NoConnect'
  BY <1>1 DEF NoConnect
<1>4. \A i \in 1..Len(inbox') : i + 1 \in 1..Len(inbox) /\ inbox'[i] = inbox[i + 1]
  BY <1>1
<1>5. ASSUME LinesAreOld, UNCHANGED <<conn, sock>> \/ sock' \notin {"connecting", "connected", "down"}
      PROVE  LinesAreOld'
  BY <1>1, <1>4, <1>5 DEF LinesAreOld
<1>6. ASSUME conn' > conn PROVE LinesAreOld'
  <2>1. \A i \in 1..Len(inbox') : inbox'[i].conn # conn'
    BY <1>2, <1>4, <1>6 DEF TypeInv, ClientInv, TransportOK
  <2> QED
    BY <2>1 DEF LinesAreOld
<1>7. ASSUME LinesAreOld, Head(inbox).op = "line", Head(inbox).conn = conn,
             sock \in {"connecting", "connected", "down"}
      PROVE  NoConnect'
  BY <1>1, <1>4, <1>7 DEF NoConnect, LinesAreOld
<1> QED
  BY <1>3, <1>5, <1>6, <1>7

(* The inbox gains an event.                                               *)
LEMMA InboxGrows ==
  ASSUME TypeInv, NEW e \in Events, inbox' = Append(inbox, e)
  PROVE  /\ e.op # "connect" /\ NoConnect => NoConnect'
         /\ LinesAreOld /\ UNCHANGED conn /\ e.op # "connect"
            /\ (sock' = sock \/ sock \in {"connecting", "connected", "down"}
                  \/ sock' \notin {"connecting", "connected", "down"}) => LinesAreOld'
         /\ LinesAreOld /\ sock' \notin {"connecting", "connected", "down"} => LinesAreOld'
<1>1. /\ Len(inbox) \in Nat
      /\ Len(inbox') = Len(inbox) + 1
      /\ \A i \in 1..Len(inbox) : inbox'[i] = inbox[i]
      /\ inbox'[Len(inbox) + 1] = e
  BY LenProperties, AppendProperties DEF TypeInv, ClientInv, InboxOK, InboxFits
<1>2. \A i \in 1..Len(inbox') : i \in 1..Len(inbox) \/ (i = Len(inbox) + 1 /\ inbox'[i] = e)
  BY <1>1
<1>3. ASSUME e.op # "connect", NoConnect PROVE NoConnect'
  BY <1>1, <1>2, <1>3 DEF NoConnect
<1>4. ASSUME LinesAreOld, UNCHANGED conn, e.op # "connect",
             sock' = sock \/ sock \in {"connecting", "connected", "down"}
                  \/ sock' \notin {"connecting", "connected", "down"}
      PROVE LinesAreOld'
  BY <1>1, <1>2, <1>4 DEF LinesAreOld
<1>5. ASSUME sock' \notin {"connecting", "connected", "down"} PROVE LinesAreOld'
  BY <1>5 DEF LinesAreOld
<1> QED
  BY <1>3, <1>4, <1>5

(* The inbox stays as it is.                                               *)
LEMMA InboxKept ==
  ASSUME UNCHANGED <<inbox, conn>>, 
         sock' = sock \/ sock \in {"connecting", "connected", "down"}
                  \/ sock' \notin {"connecting", "connected", "down"}
  PROVE  (LinesAreOld => LinesAreOld') /\ (NoConnect => NoConnect')
  BY DEF LinesAreOld, NoConnect

(* What FsdStep looks for in the signals that a step has appended.         *)
NewKick == \E i \in (Len(signals) + 1)..Len(signals') : signals'[i].kind = "kick"

(* The signals stay as they are.                                           *)
LEMMA SignalsKept ==
  ASSUME TypeInv, UNCHANGED <<signals, kicked, unexpected>>
  PROVE  ~NewKick /\ (AllCalm => AllCalm') /\ (KickPending' <=> KickPending)
<1>1. Len(signals) \in Nat
  BY LenProperties DEF TypeInv, ClientInv, StatusOK
<1> QED
  BY <1>1 DEF NewKick, AllCalm, AfterKick, Calm, KickPending

(* A status change is appended.                                            *)
LEMMA SignalsAppended ==
  ASSUME TypeInv, UNCHANGED <<kicked, unexpected>>, NEW m \in Signals,
         signals' = Append(signals, m), m.kind = "status"
  PROVE  /\ ~NewKick /\ (KickPending' <=> KickPending)
         /\ AllCalm /\ m.to \in {"Disconnecting", "Disconnected"}
              /\ (m.to = "Disconnected" => m.from = "Disconnecting")
              /\ m.from \notin {"Connected", "Connecting"} => AllCalm'
<1>1. /\ Len(signals) \in Nat
      /\ Len(signals') = Len(signals) + 1
      /\ \A i \in 1..Len(signals) : signals'[i] = signals[i]
      /\ signals'[Len(signals) + 1] = m
  BY LenProperties, AppendProperties DEF TypeInv, ClientInv, StatusOK
<1>2. \A i \in 1..Len(signals') : i \in 1..Len(signals) \/ (i = Len(signals) + 1 /\ signals'[i] = m)
  BY <1>1
<1>3. ~NewKick
  BY <1>1 DEF NewKick
<1>4. KickPending' <=> KickPending
  BY <1>1, <1>2 DEF KickPending
<1>5. ASSUME AllCalm, m.to \in {"Disconnecting", "Disconnected"},
             m.to = "Disconnected" => m.from = "Disconnecting",
             m.from \notin {"Connected", "Connecting"},
             NEW i \in 1..Len(signals'), AfterKick(i)'
      PROVE  Calm(i)'
  <2>1. CASE i = Len(signals) + 1
    BY <1>1, <1>5, <2>1 DEF Calm
  <2>2. CASE i \in 1..Len(signals)
    <3>1. AfterKick(i)
      BY <1>1, <1>5, <2>2 DEF AfterKick
    <3>2. Calm(i)
      BY <3>1, <2>2, <1>5 DEF AllCalm
    <3>3. i > 1 => i - 1 \in 1..Len(signals)
      BY <1>1, <2>2
    <3> QED
      BY <1>1, <3>2, <3>3, <2>2 DEF Calm
  <2> QED
    BY <1>2, <2>1, <2>2
<1> QED
  BY <1>3, <1>4, <1>5 DEF AllCalm

(* handleKillRequest: the kick, then Disconnecting.                        *)
LEMMA SignalsKicked ==
  ASSUME TypeInv, signals' = signals \o <<Kick>> \o <<Changed(status, "Disconnecting")>>
  PROVE  NewKick /\ AllCalm' /\ KickPending'
<1> DEFINE n == Len(signals)
<1>0. Kick \in Signals /\ Changed(status, "Disconnecting") \in Signals
  BY DEF TypeInv, ClientInv, StatusOK, Kick, Changed, Signals, Statuses
<1>1. signals' = Append(Append(signals, Kick), Changed(status, "Disconnecting"))
  BY <1>0 DEF TypeInv, ClientInv, StatusOK
<1>2. /\ n \in Nat
      /\ Append(signals, Kick) \in Seq(Signals)
      /\ Len(Append(signals, Kick)) = n + 1
      /\ \A i \in 1..n : Append(signals, Kick)[i] = signals[i]
      /\ Append(signals, Kick)[n + 1] = Kick
  BY <1>0, LenProperties, AppendProperties DEF TypeInv, ClientInv, StatusOK
<1>3. /\ Len(signals') = n + 2
      /\ signals'[n + 1] = Kick
      /\ signals'[n + 2] = Changed(status, "Disconnecting")
  BY <1>0, <1>1, <1>2, AppendProperties
<1>4. Kick.kind = "kick"
  BY DEF Kick
<1>5. NewKick /\ KickPending'
  <2>1. n + 1 \in (n + 1)..Len(signals') /\ n + 1 \in 1..Len(signals')
    BY <1>0, <1>2, <1>3
  <2>2. signals'[n + 1].kind = "kick"
    BY <1>3, <1>4
  <2>3. NewKick
    BY <2>1, <2>2 DEF NewKick
  <2>4. KickPending'
    BY <2>1, <2>2 DEF KickPending
  <2> QED
    BY <2>3, <2>4
<1>6. ASSUME NEW i \in 1..Len(signals'), AfterKick(i)' PROVE Calm(i)'
  <2>1. i = n + 2
    BY <1>2, <1>3, <1>4, <1>6 DEF AfterKick
  <2> QED
    BY <1>2, <1>3, <1>4, <2>1 DEF Calm, Changed
<1> QED
  BY <1>5, <1>6 DEF AllCalm

(***************************************************************************)
(* The context takes a signal: onKicked clears the flag, and a calm status *)
(* change does not set it.                                                 *)
(***************************************************************************)
LEMMA SignalsTaken ==
  ASSUME TypeInv, TakeSignal, AllCalm, ~KickPending => ~unexpected
  PROVE  AllCalm' /\ (~KickPending' => ~unexpected')
<1>1. /\ Len(signals) \in Nat \ {0} /\ Head(signals) = signals[1]
      /\ Len(signals') = Len(signals) - 1
      /\ \A i \in 1..(Len(signals) - 1) : signals'[i] = signals[i + 1]
  BY LenProperties, HeadTailProperties, EmptySeq DEF TypeInv, ClientInv, StatusOK, TakeSignal
<1>2. Head(signals).kind = "kick" => kicked' /\ ~unexpected'
  BY DEF TakeSignal, OnKicked
<1>3. ASSUME NEW i \in 1..Len(signals'), AfterKick(i)' PROVE Calm(i)'
  <2>1. i + 1 \in 1..Len(signals) /\ AfterKick(i + 1)
    <3>1. i + 1 \in 1..Len(signals)
      BY <1>1
    <3>2. ASSUME NEW j \in 1..Len(signals), i + 1 <= j PROVE signals[j].kind # "kick"
      <4>1. j - 1 \in 1..Len(signals') /\ signals'[j - 1] = signals[j] /\ i <= j - 1
        BY <1>1, <3>2
      <4> QED
        BY <1>3, <4>1 DEF AfterKick
    <3> QED
      BY <3>1, <3>2 DEF AfterKick
  <2>2. Calm(i + 1) /\ signals'[i] = signals[i + 1]
    BY <2>1, <1>1 DEF AllCalm
  <2>3. CASE i = 1
    BY <1>1, <1>2, <2>2, <2>3 DEF Calm
  <2>4. CASE i > 1
    <3>1. signals'[i - 1] = signals[i] /\ (i + 1) - 1 = i
      BY <1>1, <2>4
    <3> QED
      BY <2>2, <2>4, <3>1 DEF Calm
  <2> QED
    BY <1>1, <2>3, <2>4
<1>4. ASSUME ~KickPending' PROVE ~unexpected'
  <2>1. CASE Head(signals).kind = "kick"
    BY <1>2, <2>1
  <2>2. CASE Head(signals).kind # "kick"
    <3>1. \A j \in 1..Len(signals) : signals[j].kind # "kick"
      <4>1. \A j \in 1..Len(signals) : j = 1 \/ (j - 1 \in 1..Len(signals') /\ signals'[j - 1] = signals[j])
        BY <1>1
      <4> QED
        BY <1>1, <1>4, <2>2, <4>1 DEF KickPending
    <3>2. ~unexpected /\ AfterKick(1)
      BY <3>1 DEF KickPending, AfterKick
    <3>3. Calm(1)
      BY <1>1, <3>2 DEF AllCalm
    <3>4. OnFsdConnectionStatusChanged(Head(signals).from, Head(signals).to)
      BY <2>2 DEF TakeSignal
    <3>5. CASE Head(signals).to = "Disconnecting"
      <4>1. unexpected' = Wanted(Head(signals).from)
        BY <3>4, <3>5 DEF OnFsdConnectionStatusChanged
      <4>2. ~Wanted(Head(signals).from)
        BY <1>1, <3>3 DEF Calm, Wanted
      <4> QED
        BY <4>1, <4>2
    <3>6. CASE Head(signals).to = "Disconnected"
      BY <3>4, <3>6 DEF OnFsdConnectionStatusChanged, ClearFlags
    <3> QED
      BY <1>1, <3>3, <3>5, <3>6 DEF Calm
  <2> QED
    BY <2>1, <2>2
<1> QED
  BY <1>3, <1>4 DEF AllCalm

-----------------------------------------------------------------------------
(* The classic protocol asks for no token.                                 *)
NoTokens == Protocol = "classic" => tokens = {}

(* Every step of the client keeps that.                                    *)
LEMMA TokensStep ==
  ASSUME TypeInv, NoTokens, UNCHANGED scenario, FsdNext
  PROVE  NoTokens'
<1>1. Protocol' = Protocol
  BY DEF Protocol
<1>2. ASSUME Protocol = "classic" PROVE tokens' = tokens
  <2> USE DEF awaited
  <2>1. tokens = {}
    BY <1>2 DEF NoTokens
  <2>2. CASE ConnectToServer \/ Disconnected
    BY <2>2 DEF ConnectToServer, Disconnected
  <2>3. CASE ParseMessage
    <3>1. Head(inbox) \in Events /\ Head(inbox).op = "line"
      BY <2>3, HeadEvent DEF ParseMessage, Next1, TypeInv, ClientInv
    <3>2. Head(inbox).line \in {"identify", "kill", "fatal", "rehost"}
      BY <3>1, ScenarioOK DEF Events, Lines, ClientScenario, TypeInv, ContextInv
    <3> QED
      BY <1>2, <2>3, <3>2 DEF ParseMessage, Ignored, HandleFsdIdentification,
                  HandleKillRequest, HandleServerError, HandleRehost, DisconnectFromServer
  <2>4. CASE DisconnectCalled \/ HandleSocketError \/ HandleWebSocketDisconnected
    BY <2>4 DEF DisconnectCalled, HandleSocketError, HandleWebSocketDisconnected, Ignored,
                DisconnectFromServer
  <2>5. CASE SendQueuedMessage \/ RehostConnected \/ RehostFailed \/ Happens
    BY <2>5 DEF SendQueuedMessage, RehostConnected, RehostFailed, Happens, SocketFails,
                PeerCloses, NetworkError, WebSocketClosed, ServerAccepts, ServerSends
  <2>6. CASE SocketConnected \/ AbortedAttemptEnds
    BY <2>6 DEF SocketConnected, AbortedAttemptEnds, OnlyLogin
  <2>7. CASE \/ \E a \in checks : PendingTimeoutCheck(a)
             \/ \E a \in lookups : ResolveLoadBalancing(a)
    BY <2>7 DEF PendingTimeoutCheck, ResolveLoadBalancing
  <2> QED
    BY <2>1, <2>2, <2>3, <2>4, <2>5, <2>6, <2>7 DEF FsdNext, Handles
<1> QED
  BY <1>1, <1>2 DEF NoTokens

(* Every step of the client keeps KickInv.                                 *)
LEMMA KickStep ==
  ASSUME TypeInv, Simple, QuietInv, NoTokens, KickInv,
         UNCHANGED <<scenario, kicked, unexpected>>, FsdNext, last' = IF NewKick THEN "kick" ELSE last
  PROVE  KickInv'
<1> USE DEF Idle, Next1
<1>s. \A x, y \in Statuses : Changed(x, y) \in Signals /\ Changed(x, y).kind = "status"
                               /\ Changed(x, y).from = x /\ Changed(x, y).to = y
  BY DEF Changed, Signals
<1>t. status \in Statuses
  BY DEF TypeInv, ClientInv, StatusOK
<1>b. ASSUME UNCHANGED signals, LinesAreOld', last = "kick" => Over' PROVE KickInv'
  BY <1>b, SignalsKept DEF KickInv
<1>c. ASSUME NEW x \in Statuses, signals' = Append(signals, Changed(status, x)),
             LinesAreOld', last # "kick"
      PROVE  KickInv'
  BY <1>c, <1>s, <1>t, SignalsAppended DEF KickInv
<1>1. ASSUME DisconnectFromServer(<<>>), inbox # <<>>, inbox' = Tail(inbox), Idle PROVE KickInv'
  <2>1. UNCHANGED <<sock, conn>>
    BY <1>1 DEF DisconnectFromServer, transport
  <2>2. LinesAreOld' /\ (NoConnect => NoConnect')
    BY <1>1, <2>1, InboxShrinks DEF KickInv
  <2>3. signals' = Append(signals, Changed(status, "Disconnecting")) /\ status' = "Disconnecting"
        /\ closing'
    BY <1>1 DEF DisconnectFromServer, Disconnecting, TypeInv, ClientInv, StatusOK
  <2>4. CASE last # "kick"
    BY <1>c, <2>2, <2>3, <2>4 DEF Statuses
  <2>5. CASE last = "kick"
    <3>1. Over /\ status = "Disconnected"
      BY <1>1, <2>5 DEF KickInv, Over, TypeInv, ClientInv, StatusOK
    <3>2. Over'
      BY <3>1, <2>1, <2>2, <2>3 DEF Over
    <3> QED
      BY <2>2, <2>3, <2>5, <3>1, <3>2, <1>s, SignalsAppended DEF KickInv, Statuses
  <2> QED
    BY <2>4, <2>5
<1>2. ASSUME Ignored, inbox # <<>>, inbox' = Tail(inbox) PROVE KickInv'
  <2>1. UNCHANGED <<sock, conn, status, closing, signals>>
    BY <1>2 DEF Ignored, transport
  <2>2. LinesAreOld' /\ (NoConnect => NoConnect')
    BY <1>2, <2>1, InboxShrinks DEF KickInv
  <2> QED
    BY <1>b, <2>1, <2>2 DEF KickInv, Over
<1>3. ASSUME HandleKillRequest, inbox # <<>>, inbox' = Tail(inbox), Head(inbox).op = "line",
             Head(inbox).conn = conn, sock \in {"connected", "down"}
      PROVE  KickInv'
  <2>1. /\ UNCHANGED <<sock, conn>>
        /\ signals' = signals \o <<Kick>> \o <<Changed(status, "Disconnecting")>>
        /\ status' = "Disconnecting" /\ closing'
    BY <1>3 DEF HandleKillRequest, DisconnectFromServer, Disconnecting, transport
  <2>2. LinesAreOld' /\ NoConnect'
    BY <1>3, <2>1, InboxShrinks DEF KickInv
  <2> QED
    BY <1>3, <2>1, <2>2, SignalsKicked DEF KickInv, Over
<1>4. CASE ConnectToServer
  <2>1. CASE IsTransportOpen
    BY <1>4, <2>1, <1>2 DEF ConnectToServer, Ignored
  <2>2. CASE ~IsTransportOpen
    <3>1. last # "kick"
      <4>1. Head(inbox) = inbox[1] /\ 1 \in 1..Len(inbox)
        BY <1>4, LenProperties, HeadTailProperties, EmptySeq
           DEF ConnectToServer, TypeInv, ClientInv, InboxOK, InboxFits
      <4> QED
        BY <1>4, <4>1 DEF ConnectToServer, KickInv, Over, NoConnect
    <3>2. (UNCHANGED <<sock, conn>> \/ conn' = conn + 1) /\ conn \in Nat
      BY <1>4, <2>2 DEF ConnectToServer, OpenTransport, transport, TypeInv, ClientInv, TransportOK
    <3>3. LinesAreOld'
      BY <1>4, <3>2, InboxShrinks DEF ConnectToServer, KickInv
    <3>4. signals' = signals \/ signals' = Append(signals, Changed(status, "Connecting"))
      BY <1>4, <2>2 DEF ConnectToServer, UpdateConnectionStatus
    <3> QED
      BY <1>b, <1>c, <3>1, <3>3, <3>4 DEF Statuses
  <2> QED
    BY <2>1, <2>2
<1>5. CASE Disconnected
  <2>1. /\ sock' \notin {"connecting", "connected", "down"}
        /\ sock \in {"connected", "down", "closed"} => sock' = "closed"
        /\ UNCHANGED <<inbox, conn>> /\ closing /\ ~closing'
    BY <1>5 DEF Disconnected, CloseTransport, Simple
  <2>2. LinesAreOld' /\ (NoConnect => NoConnect')
    BY <2>1, InboxKept DEF KickInv
  <2>3. status = "Disconnecting" /\ status' = "Disconnected"
        /\ signals' = Append(signals, Changed("Disconnecting", "Disconnected"))
    BY <1>5 DEF Disconnected, UpdateConnectionStatus, TypeInv, ClientInv, StatusOK
  <2>4. CASE last # "kick"
    BY <1>c, <2>2, <2>3, <2>4 DEF Statuses
  <2>5. CASE last = "kick"
    <3>1. Over'
      BY <2>1, <2>2, <2>3, <2>5 DEF KickInv, Over
    <3> QED
      BY <2>2, <2>3, <2>5, <3>1, <1>s, SignalsAppended DEF KickInv, Statuses
  <2> QED
    BY <2>4, <2>5
<1>6. CASE ParseMessage
  <2>0. inbox # <<>> /\ inbox' = Tail(inbox) /\ Idle
    BY <1>6 DEF ParseMessage
  <2>1. Head(inbox) \in Events /\ Head(inbox).op = "line"
    BY <1>6, HeadEvent DEF ParseMessage, TypeInv, ClientInv
  <2>2. Head(inbox).line \in Lines /\ Lines \subseteq {"identify", "kill", "fatal", "rehost"}
    BY <2>1, ScenarioOK DEF Events, Lines, ClientScenario, TypeInv, ContextInv
  <2>3. ASSUME HandleRehost PROVE KickInv'
    <3>1. UNCHANGED <<sock, conn, status, closing, signals>>
      BY <2>3 DEF HandleRehost, transport
    <3>2. LinesAreOld' /\ (NoConnect => NoConnect')
      BY <2>0, <3>1, InboxShrinks DEF KickInv
    <3> QED
      BY <1>b, <3>1, <3>2 DEF KickInv, Over
  <2>4. ASSUME HandleFsdIdentification PROVE KickInv'
    BY <2>0, <2>4, <1>1 DEF HandleFsdIdentification, Simple
  <2>5. \/ Ignored \/ HandleFsdIdentification \/ HandleServerError \/ HandleRehost
        \/ HandleKillRequest /\ Head(inbox).conn = conn /\ sock \in {"connected", "down"}
    BY <1>6, <2>2 DEF ParseMessage, Simple
  <2> QED
    BY <1>1, <1>2, <1>3, <2>0, <2>1, <2>3, <2>4, <2>5 DEF HandleServerError
<1>7. CASE DisconnectCalled \/ HandleSocketError \/ HandleWebSocketDisconnected
  BY <1>7, <1>1, <1>2 DEF DisconnectCalled, HandleSocketError, HandleWebSocketDisconnected
<1>8. CASE SendQueuedMessage
  <2>1. UNCHANGED <<sock, conn, status, closing, signals, inbox>>
    BY <1>8 DEF SendQueuedMessage
  <2> QED
    BY <2>1, <1>b, InboxKept DEF KickInv, Over
<1>9. ASSUME NEW a \in checks, PendingTimeoutCheck(a) PROVE KickInv'
  <2>1. UNCHANGED <<sock, conn, inbox>>
    BY <1>9 DEF PendingTimeoutCheck, transport
  <2>2. CASE UNCHANGED <<closing, timers, status, signals>>
    BY <2>1, <2>2, <1>b, InboxKept DEF KickInv, Over
  <2>3. CASE Disconnecting(<<>>) /\ status = "Connecting"
    <3>1. last # "kick"
      BY <2>3 DEF KickInv, Over
    <3>2. signals' = Append(signals, Changed(status, "Disconnecting"))
      BY <2>3 DEF Disconnecting, TypeInv, ClientInv, StatusOK
    <3> QED
      BY <2>1, <3>1, <3>2, <1>c, InboxKept DEF KickInv, Statuses
  <2> QED
    BY <1>9, <2>2, <2>3 DEF PendingTimeoutCheck
<1>10. ASSUME NEW a \in lookups PROVE FALSE
  BY <1>10 DEF QuietInv
<1>11. ASSUME NEW a \in tokens PROVE FALSE
  BY <1>11 DEF NoTokens, Simple
<1>12. CASE SocketConnected \/ AbortedAttemptEnds
  <2>1. last # "kick"
    BY <1>12 DEF SocketConnected, AbortedAttemptEnds, KickInv, Over
  <2>2. signals' = signals \/ signals' = Append(signals, Changed(status, "Connected"))
    BY <1>12 DEF SocketConnected, AbortedAttemptEnds, OnlyLogin, SendLogin, UpdateConnectionStatus
  <2>3. LinesAreOld'
    BY <1>12, InboxKept DEF SocketConnected, AbortedAttemptEnds, KickInv
  <2> QED
    BY <2>1, <2>2, <2>3, <1>b, <1>c DEF Statuses
<1>13. CASE RehostConnected \/ RehostFailed
  BY <1>13 DEF RehostConnected, RehostFailed, QuietInv
<1>14. CASE Happens
  <2>1. UNCHANGED <<conn, status, closing, signals>>
    BY <1>14 DEF Happens, SocketFails, PeerCloses, NetworkError, WebSocketClosed, ServerAccepts,
               ServerSends
  <2>2. /\ sock' = sock \/ sock \in {"connecting", "connected", "down"} \/ sock' = "closed"
        /\ sock \in {"connected", "down", "closed"} => sock' \in {"connected", "down", "closed"}
        /\ sock = "closed" => sock' = "closed"
    BY <1>14 DEF Happens, SocketFails, PeerCloses, NetworkError, WebSocketClosed, ServerAccepts,
               ServerSends
  <2>3. \/ UNCHANGED inbox
        \/ \E e \in Events : inbox' = Append(inbox, e) /\ e.op # "connect"
    <3>1. /\ FromSocket("gone") \in Events /\ FromSocket("gone").op # "connect"
          /\ FromSocket("error") \in Events /\ FromSocket("error").op # "connect"
      BY DEF FromSocket, Events, TypeInv, ClientInv, TransportOK
    <3>2. \A l \in Lines : sock = "connected" => Line(l) \in Events /\ Line(l).op # "connect"
      BY DEF Line, Events, TypeInv, ClientInv, TransportOK
    <3> QED
      BY <1>14, <3>1, <3>2 DEF Happens, SocketFails, PeerCloses, NetworkError, WebSocketClosed,
                 ServerAccepts, ServerSends, Simple
  <2>4. LinesAreOld' /\ (NoConnect => NoConnect')
    BY <2>1, <2>2, <2>3, InboxKept, InboxGrows DEF KickInv
  <2> QED
    BY <2>1, <2>2, <2>4, <1>b DEF KickInv, Over
<1> QED
  BY <1>4, <1>5, <1>6, <1>7, <1>8, <1>9, <1>10, <1>11, <1>12, <1>13, <1>14
     DEF FsdNext, Handles

(***************************************************************************)
(* So does every step of the context, which can only disturb the signals   *)
(* and the inbox.                                                          *)
(***************************************************************************)
LEMMA NextKick ==
  ASSUME TypeInv, Simple, QuietInv, NoTokens, KickInv, [Next]_vars
  PROVE  KickInv'
<1>1. UNCHANGED scenario
  BY DEF Next, vars
<1>2. CASE FsdStep
  BY <1>1, <1>2, KickStep DEF FsdStep, NewKick, flags
<1>3. ASSUME ~FsdStep PROVE UNCHANGED <<status, closing, sock, conn>>
  BY <1>3, ContextLeavesClient DEF Next
<1>4. CASE ~FsdStep /\ UserConnects
  <2>1. last' = "connect" /\ inbox' = inbox
    BY <1>4 DEF UserConnects, UserCommands, fsdVars
  <2> QED
    BY <1>3, <1>4, <2>1, InboxKept DEF KickInv
<1>5. CASE ~FsdStep /\ UserDisconnects
  <2>1. last' = "disconnect"
    BY <1>5 DEF UserDisconnects, UserCommands
  <2>2. Call("disconnect") \in Events /\ Call("disconnect").op = "disconnect"
    BY DEF Call, Events
  <2>3. inbox' = inbox \/ inbox' = Append(inbox, Call("disconnect"))
    BY <1>5 DEF UserDisconnects
  <2>4. LinesAreOld'
    BY <1>3, <1>5, <2>2, <2>3, InboxKept, InboxGrows DEF KickInv
  <2> QED
    BY <2>1, <2>4 DEF KickInv
<1>6. CASE ~FsdStep /\ ReconnectToNetwork
  <2>1. UNCHANGED <<inbox, signals, last>> /\ signals = <<>>
    BY <1>6 DEF ReconnectToNetwork, fsdVars
  <2>2. LinesAreOld' /\ (Over => Over')
    BY <1>3, <1>6, <2>1, InboxKept DEF KickInv, Over
  <2>3. unexpected' = unexpected \/ ~unexpected'
    BY <1>6 DEF ReconnectToNetwork, flags, ClearFlags
  <2>4. Len(signals) = 0 /\ Len(signals') = 0
    BY <2>1
  <2> QED
    BY <2>1, <2>2, <2>3, <2>4 DEF KickInv, AllCalm, KickPending
<1>7. CASE ~FsdStep /\ TakeSignal
  <2>1. UNCHANGED <<inbox, last>>
    BY <1>7 DEF TakeSignal
  <2>2. LinesAreOld' /\ (Over => Over')
    BY <1>3, <1>7, <2>1, InboxKept DEF KickInv, Over
  <2> QED
    BY <1>7, <2>1, <2>2, SignalsTaken DEF KickInv
<1>8. ASSUME ~FsdStep, NEW reachable \in BOOLEAN, ConnectToNetwork(reachable) PROVE KickInv'
  <2>1. CASE reachable /\ status = "Disconnected"
    <3>1. last' = "connect" /\ inbox' = Append(inbox, Call("connect"))
      BY <1>8, <2>1 DEF ConnectToNetwork
    <3>2. Call("connect") \in Events
      BY DEF Call, Events
    <3>3. sock \notin {"connecting", "connected", "down"}
      BY <2>1 DEF QuietInv
    <3> QED
      BY <1>3, <1>8, <3>1, <3>2, <3>3, InboxGrows DEF KickInv
  <2>2. CASE ~(reachable /\ status = "Disconnected")
    <3>1. UNCHANGED <<inbox, last, signals, kicked, unexpected>>
      BY <1>8, <2>2 DEF ConnectToNetwork, flags
    <3> QED
      BY <1>3, <1>8, <3>1, InboxKept, SignalsKept DEF KickInv, Over
  <2> QED
    BY <2>1, <2>2
<1>9. CASE ~FsdStep /\ UNCHANGED vars
  <2>1. UNCHANGED <<inbox, last, signals, kicked, unexpected>>
    BY <1>9 DEF vars, fsdVars, ctxVars, flags, history
  <2> QED
    BY <1>3, <1>9, <2>1, InboxKept, SignalsKept DEF KickInv, Over
<1> QED
  BY <1>2, <1>4, <1>5, <1>6, <1>7, <1>8, <1>9 DEF Next

(* A sequence without its last element is another sequence.                *)
LEMMA OneShorter ==
  ASSUME NEW S, NEW s \in Seq(S), s # <<>>
  PROVE  SubSeq(s, 1, Len(s) - 1) # s
<1> DEFINE n == Len(s) - 1
<1>1. Len(s) \in Nat \ {0}
  BY LenProperties, EmptySeq
<1>2. n \in Int /\ \A i \in 1..n : s[i] \in S
  BY <1>1
<1> HIDE DEF n
<1>3. Len(SubSeq(s, 1, n)) = IF 1 <= n THEN n - 1 + 1 ELSE 0
  BY <1>2, SubSeqProperties
<1> QED
  BY <1>1, <1>3 DEF n

(***************************************************************************)
(* A status change that is taken when the kick has been handled does not   *)
(* start the timer; only the end of a canConnect can, and it leaves its    *)
(* frame.                                                                  *)
(***************************************************************************)
LEMMA KickDisarms ==
  ASSUME TypeInv, KickInv, [Next]_vars, last = "kick", ~KickPending, ~armed, armed'
  PROVE  frames' # frames
<1>1. CASE FsdStep \/ UserConnects \/ UserDisconnects \/ ReconnectToNetwork \/ UNCHANGED vars
  BY <1>1 DEF FsdStep, UserConnects, UserDisconnects, ReconnectToNetwork, CancelReconnect,
              reconnect, vars, ctxVars
<1>2. ASSUME TakeSignal PROVE FALSE
  <2>1. Head(signals) = signals[1] /\ 1 \in 1..Len(signals)
    BY <1>2, LenProperties, HeadTailProperties, EmptySeq
       DEF TypeInv, ClientInv, StatusOK, TakeSignal
  <2>2. AfterKick(1) /\ signals[1].kind # "kick"
    BY <2>1 DEF AfterKick, KickPending
  <2>3. Calm(1) /\ ~unexpected
    BY <2>1, <2>2 DEF KickInv, AllCalm
  <2>4. OnFsdConnectionStatusChanged(signals[1].from, signals[1].to)
    BY <1>2, <2>1, <2>2 DEF TakeSignal
  <2>5. CASE signals[1].to = "Disconnecting"
    BY <2>4, <2>5 DEF OnFsdConnectionStatusChanged, reconnect
  <2>6. CASE signals[1].to = "Disconnected"
    BY <2>3, <2>4, <2>6 DEF OnFsdConnectionStatusChanged, Wanted, Calm
  <2> QED
    BY <2>3, <2>5, <2>6 DEF Calm
<1>3. ASSUME NEW reachable \in BOOLEAN, ConnectToNetwork(reachable) PROVE frames' # frames
  <2>0. frames \in Seq(Frames) /\ frames # <<>>
        /\ frames' = SubSeq(frames, 1, Len(frames) - 1)
    BY <1>3 DEF ConnectToNetwork, TypeInv, ContextInv
  <2> QED
    BY <2>0, OneShorter
<1> QED
  BY <1>1, <1>2, <1>3 DEF Next

(* The invariant always holds.                                             *)
LEMMA KickAlways == Spec => [](Simple => NoTokens /\ KickInv)
<1>1. Init => (Simple => NoTokens /\ KickInv)
  BY DEF Init, FsdInit, NoTokens, KickInv, LinesAreOld
<1>2. ASSUME TypeInv, FixedAddress => QuietInv, Simple => NoTokens /\ KickInv,
             [Next]_vars
      PROVE  (Simple => NoTokens /\ KickInv)'
  <2>1. UNCHANGED scenario /\ (FixedAddress' <=> FixedAddress) /\ (Simple' <=> Simple)
    BY <1>2 DEF Next, vars, FixedAddress, Transport, LoadBalancing, Lines, Simple, Protocol
  <2>2. NoTokens => NoTokens'
    <3>1. CASE FsdStep
      BY <1>2, <2>1, <3>1, TokensStep DEF FsdStep
    <3>2. CASE ~FsdStep
      <4>1. tokens' = tokens
        BY <1>2, <3>2, ContextLeavesClient DEF Next
      <4> QED
        BY <2>1, <4>1 DEF NoTokens, Protocol
    <3> QED
      BY <3>1, <3>2
  <2> QED
    BY <1>2, <2>1, <2>2, NextKick DEF Simple
<1> QED
  BY <1>1, <1>2, TypeInvAlways, QuietAlways, PTL DEF Spec

(***************************************************************************)
(* Once onKicked has run, no status change of the client, however it was   *)
(* queued, starts the reconnect timer: for any lines, faults, commands and *)
(* budget, with a server of the classic protocol.                          *)
(***************************************************************************)
THEOREM KickObeyed == Spec => KickStopsReconnect
<1>1. ASSUME TypeInv, Simple => NoTokens /\ KickInv, [Next]_vars
      PROVE  [Simple /\ last = "kick" /\ ~KickPending /\ ~armed /\ armed'
                => frames' # frames]_vars
  BY <1>1, KickDisarms
<1> QED
  BY <1>1, TypeInvAlways, KickAlways, PTL DEF Spec, KickStopsReconnect

-----------------------------------------------------------------------------
(***************************************************************************)
(* The budget of the automatic reconnect. The argument: there is never     *)
(* more than one reconnect under way, so the step that finds the budget    *)
(* used up, and sets m_reconnectAttempt back to zero, leaves none behind   *)
(* that would be counted anew.                                             *)
(***************************************************************************)

(* An event of this kind is waiting.                                       *)
Inbox(op) == \E i \in 1..Len(inbox) : inbox[i].op = op

(***************************************************************************)
(* A login that can still be lost. (Connected on a closed socket, left by  *)
(* an aborted attempt that reports connected, cannot: nothing reports its  *)
(* end.)                                                                   *)
(***************************************************************************)
Login == status = "Connecting" \/ (status = "Connected" /\ sock # "closed")

(* The signal that tells the context of a loss.                            *)
IsLoss(m) ==
  m.kind = "status" /\ m.to = "Disconnecting" /\ m.from \in {"Connected", "Connecting"}

(* Such a signal is on its way.                                            *)
Lost == \E i \in 1..Len(signals) : IsLoss(signals[i])

(***************************************************************************)
(* Where a reconnect can be: in the timer, in canConnect, in a call posted *)
(* to the client, in a login, in the loss that it reports, in the flag     *)
(* that notes it.                                                          *)
(***************************************************************************)
InFlight == armed \/ frames # <<>> \/ Inbox("connect") \/ Login \/ Lost \/ unexpected

(* It is in one of these places only.                                      *)
Alone ==
  /\ armed => frames = <<>> /\ ~Inbox("connect") /\ ~Login /\ ~Lost /\ ~unexpected
  /\ frames # <<>> => ~Inbox("connect") /\ ~Login /\ ~Lost /\ ~unexpected
  /\ Inbox("connect") => ~Login /\ ~Lost /\ ~unexpected
  /\ Login => ~Lost /\ ~unexpected
  /\ Lost => ~unexpected

(* One call at most is posted.                                             *)
OneConnect ==
  \A i, j \in 1..Len(inbox) : inbox[i].op = "connect" /\ inbox[j].op = "connect" => i = j

(* One loss at most is on its way.                                         *)
OneLoss == \A i, j \in 1..Len(signals) : IsLoss(signals[i]) /\ IsLoss(signals[j]) => i = j

(***************************************************************************)
(* Disconnected is reported from Disconnecting only, so it is no loss of   *)
(* its own.                                                                *)
(***************************************************************************)
EndsInOrder ==
  \A i \in 1..Len(signals) :
    signals[i].kind = "status" /\ signals[i].to = "Disconnected" =>
      signals[i].from = "Disconnecting"

(* No place holds two reconnects.                                          *)
Unique == Len(frames) <= 1 /\ OneConnect /\ OneLoss /\ EndsInOrder

(***************************************************************************)
(* What the socket has to do with it: while a call is prepared or posted   *)
(* no connection is open and no error of an old one is waiting, and an     *)
(* error that is waiting belongs to the connection that the client still   *)
(* has, or has given up.                                                   *)
(***************************************************************************)
SockInv ==
  /\ frames # <<>> \/ Inbox("connect") => sock \in {"closed", "aborting"} /\ ~Inbox("error")
  /\ Inbox("error") =>
       /\ sock \in {"down", "closed"}
       /\ \/ status \in {"Disconnecting", "Disconnected"}
          \/ status = "Connected" /\ sock = "down"
  /\ sock = "connecting" => status \in {"Connecting", "Disconnecting"}
  /\ sock = "connected" => status \in {"Connected", "Disconnecting"}
  /\ sock # "closing" /\ ~Inbox("gone") /\ ~Inbox("disconnect")

(* Nothing is under way before the first command.                          *)
Fresh ==
  commands = 0 =>
    /\ status = "Disconnected" /\ sock = "closed" /\ inbox = <<>> /\ signals = <<>>
    /\ ~armed /\ frames = <<>> /\ ~unexpected

(***************************************************************************)
(* As long as a reconnect is under way, m_reconnectAttempt has counted     *)
(* every automatic login since the last Connected, and the one the timer   *)
(* is about to begin.                                                      *)
(***************************************************************************)
Count ==
  /\ tries <= MaxAttempts
  /\ InFlight => tries + (IF armed THEN 1 ELSE 0) <= attempt

(* After at most one command all of this holds.                            *)
BudgetInv == commands <= 1 => Alone /\ Unique /\ SockInv /\ Fresh /\ Count

-----------------------------------------------------------------------------
(* An event is taken from the inbox.                                       *)
LEMMA TakenFromInbox ==
  ASSUME TypeInv, inbox # <<>>, inbox' = Tail(inbox)
  PROVE  /\ \A op : Inbox(op)' => Inbox(op)
         /\ Inbox(Head(inbox).op)
         /\ OneConnect => OneConnect' /\ (Head(inbox).op = "connect" => ~Inbox("connect")')
<1>1. /\ Len(inbox) \in Nat \ {0} /\ Head(inbox) = inbox[1]
      /\ Len(inbox') = Len(inbox) - 1
      /\ \A i \in 1..(Len(inbox) - 1) : inbox'[i] = inbox[i + 1]
  BY LenProperties, HeadTailProperties, EmptySeq DEF TypeInv, ClientInv, InboxOK, InboxFits
<1>2. \A i \in 1..Len(inbox') : i + 1 \in 1..Len(inbox) /\ i + 1 # 1 /\ inbox'[i] = inbox[i + 1]
  BY <1>1
<1>3. \A op : Inbox(op)' => Inbox(op)
  BY <1>2 DEF Inbox
<1>4. Inbox(Head(inbox).op)
  BY <1>1 DEF Inbox
<1>5. ASSUME OneConnect PROVE OneConnect'
  <2>1. ASSUME NEW i \in 1..Len(inbox'), NEW j \in 1..Len(inbox'),
               inbox'[i].op = "connect", inbox'[j].op = "connect"
        PROVE  i = j
    <3>1. i + 1 = j + 1
      BY <1>2, <1>5, <2>1 DEF OneConnect
    <3> QED
      BY <1>1, <3>1
  <2> QED
    BY <2>1 DEF OneConnect
<1>6. ASSUME OneConnect, Head(inbox).op = "connect" PROVE ~Inbox("connect")'
  <2>1. 1 \in 1..Len(inbox)
    BY <1>1
  <2> QED
    BY <1>1, <1>2, <1>6, <2>1 DEF OneConnect, Inbox
<1> QED
  BY <1>3, <1>4, <1>5, <1>6

(* An event is posted to it.                                               *)
LEMMA PostedToInbox ==
  ASSUME TypeInv, NEW e \in Events, inbox' = Append(inbox, e)
  PROVE  /\ \A op : Inbox(op)' <=> Inbox(op) \/ e.op = op
         /\ OneConnect /\ (e.op = "connect" => ~Inbox("connect")) => OneConnect'
<1>1. /\ Len(inbox) \in Nat
      /\ Len(inbox') = Len(inbox) + 1
      /\ \A i \in 1..Len(inbox) : inbox'[i] = inbox[i]
      /\ inbox'[Len(inbox) + 1] = e
  BY LenProperties, AppendProperties DEF TypeInv, ClientInv, InboxOK, InboxFits
<1>2. \A i \in 1..Len(inbox') : i \in 1..Len(inbox) \/ i = Len(inbox) + 1
  BY <1>1
<1>3. (\A i \in 1..Len(inbox) : i \in 1..Len(inbox')) /\ Len(inbox) + 1 \in 1..Len(inbox')
  BY <1>1
<1>4. ASSUME NEW op PROVE Inbox(op)' <=> Inbox(op) \/ e.op = op
  BY <1>1, <1>2, <1>3 DEF Inbox
<1>5. ASSUME OneConnect, e.op = "connect" => ~Inbox("connect") PROVE OneConnect'
  BY <1>1, <1>2, <1>5 DEF OneConnect, Inbox
<1> QED
  BY <1>4, <1>5

(* A signal is added.                                                      *)
LEMMA SignalAdded ==
  ASSUME TypeInv, NEW m \in Signals, signals' = Append(signals, m),
         m.kind = "status" /\ m.to = "Disconnected" => m.from = "Disconnecting"
  PROVE  /\ Lost' <=> Lost \/ IsLoss(m)
         /\ OneLoss /\ (IsLoss(m) => ~Lost) => OneLoss'
         /\ EndsInOrder => EndsInOrder'
<1>1. /\ Len(signals) \in Nat
      /\ Len(signals') = Len(signals) + 1
      /\ \A i \in 1..Len(signals) : signals'[i] = signals[i]
      /\ signals'[Len(signals) + 1] = m
  BY LenProperties, AppendProperties DEF TypeInv, ClientInv, StatusOK
<1>2. \A i \in 1..Len(signals') : i \in 1..Len(signals) \/ i = Len(signals) + 1
  BY <1>1
<1>3. (\A i \in 1..Len(signals) : i \in 1..Len(signals')) /\ Len(signals) + 1 \in 1..Len(signals')
  BY <1>1
<1>4. Lost' <=> Lost \/ IsLoss(m)
  BY <1>1, <1>2, <1>3 DEF Lost
<1>5. ASSUME OneLoss, IsLoss(m) => ~Lost PROVE OneLoss'
  BY <1>1, <1>2, <1>5 DEF OneLoss, Lost
<1>6. ASSUME EndsInOrder PROVE EndsInOrder'
  BY <1>1, <1>2, <1>6 DEF EndsInOrder
<1> QED
  BY <1>4, <1>5, <1>6

(***************************************************************************)
(* A kick is added, and the change that follows it; only that may be a     *)
(* loss.                                                                   *)
(***************************************************************************)
LEMMA LossAfterKick ==
  ASSUME TypeInv, NEW m \in Signals, m.to = "Disconnecting",
         signals' = signals \o <<Kick>> \o <<m>>
  PROVE  /\ Lost' <=> Lost \/ IsLoss(m)
         /\ OneLoss /\ (IsLoss(m) => ~Lost) => OneLoss'
         /\ EndsInOrder => EndsInOrder'
<1> DEFINE n == Len(signals)
<1>0. Kick \in Signals /\ Kick.kind = "kick" /\ signals \in Seq(Signals)
  BY DEF TypeInv, ClientInv, StatusOK, Kick, Signals, Statuses
<1>1. signals' = Append(Append(signals, Kick), m)
  BY <1>0
<1>2. /\ n \in Nat
      /\ Append(signals, Kick) \in Seq(Signals)
      /\ Len(Append(signals, Kick)) = n + 1
      /\ \A i \in 1..n : Append(signals, Kick)[i] = signals[i]
      /\ Append(signals, Kick)[n + 1] = Kick
  BY <1>0, LenProperties, AppendProperties
<1>3. /\ Len(signals') = n + 2
      /\ \A i \in 1..n : signals'[i] = signals[i]
      /\ signals'[n + 1] = Kick
      /\ signals'[n + 2] = m
  <2>1. /\ Len(signals') = (n + 1) + 1
        /\ \A i \in 1..(n + 1) : signals'[i] = Append(signals, Kick)[i]
        /\ signals'[(n + 1) + 1] = m
    BY <1>1, <1>2, AppendProperties
  <2> QED
    BY <1>2, <2>1
<1>4. \A i \in 1..Len(signals') : i \in 1..n \/ i = n + 1 \/ i = n + 2
  BY <1>2, <1>3
<1>5. (\A i \in 1..n : i \in 1..Len(signals')) /\ n + 2 \in 1..Len(signals')
  BY <1>2, <1>3
<1> HIDE DEF n
<1>6. ~IsLoss(Kick)
  BY <1>0 DEF IsLoss
<1>7. n = Len(signals)
  BY DEF n
<1>8. Lost' <=> Lost \/ IsLoss(m)
  BY <1>3, <1>4, <1>5, <1>6, <1>7 DEF Lost
<1>9. ASSUME OneLoss, IsLoss(m) => ~Lost PROVE OneLoss'
  BY <1>3, <1>4, <1>6, <1>7, <1>9 DEF OneLoss, Lost
<1>10. ASSUME EndsInOrder PROVE EndsInOrder'
  BY <1>0, <1>3, <1>4, <1>7, <1>10 DEF EndsInOrder
<1> QED
  BY <1>8, <1>9, <1>10

(* A signal is taken.                                                      *)
LEMMA SignalRemoved ==
  ASSUME TypeInv, signals # <<>>, signals' = Tail(signals)
  PROVE  /\ Lost' => Lost
         /\ IsLoss(Head(signals)) => Lost
         /\ OneLoss => OneLoss' /\ (IsLoss(Head(signals)) => ~Lost')
         /\ EndsInOrder => EndsInOrder'
              /\ (Head(signals).kind = "status" /\ Head(signals).to = "Disconnected" =>
                    Head(signals).from = "Disconnecting")
<1>1. /\ Len(signals) \in Nat \ {0} /\ Head(signals) = signals[1]
      /\ Len(signals') = Len(signals) - 1
      /\ \A i \in 1..(Len(signals) - 1) : signals'[i] = signals[i + 1]
  BY LenProperties, HeadTailProperties, EmptySeq DEF TypeInv, ClientInv, StatusOK
<1>2. \A i \in 1..Len(signals') :
        i + 1 \in 1..Len(signals) /\ i + 1 # 1 /\ signals'[i] = signals[i + 1]
  BY <1>1
<1>a. 1 \in 1..Len(signals)
  BY <1>1
<1>3. Lost' => Lost
  BY <1>2 DEF Lost
<1>4. IsLoss(Head(signals)) => Lost
  BY <1>1, <1>a DEF Lost
<1>5. ASSUME OneLoss PROVE OneLoss'
  <2>1. ASSUME NEW i \in 1..Len(signals'), NEW j \in 1..Len(signals'),
               IsLoss(signals'[i]), IsLoss(signals'[j])
        PROVE  i = j
    <3>1. i + 1 = j + 1
      BY <1>2, <1>5, <2>1 DEF OneLoss
    <3> QED
      BY <1>1, <3>1
  <2> QED
    BY <2>1 DEF OneLoss
<1>6. ASSUME OneLoss, IsLoss(Head(signals)) PROVE ~Lost'
  BY <1>1, <1>2, <1>6, <1>a DEF OneLoss, Lost
<1>7. ASSUME EndsInOrder PROVE EndsInOrder'
  BY <1>2, <1>7 DEF EndsInOrder
<1>8. ASSUME EndsInOrder, Head(signals).kind = "status", Head(signals).to = "Disconnected"
      PROVE  Head(signals).from = "Disconnecting"
  BY <1>1, <1>8, <1>a DEF EndsInOrder
<1> QED
  BY <1>3, <1>4, <1>5, <1>6, <1>7, <1>8

-----------------------------------------------------------------------------
(***************************************************************************)
(* A step of the client passes the reconnect on or lets it drop: a posted  *)
(* call becomes a login, a login becomes a loss.                           *)
(***************************************************************************)
PassesOn ==
  /\ Inbox("connect")' => Inbox("connect")
  /\ Login' => Login \/ (Inbox("connect") /\ ~Inbox("connect")')
  /\ Lost' => Lost \/ (Login /\ ~Login')
  /\ OneConnect' /\ OneLoss' /\ EndsInOrder'
  /\ SockInv'

(* The signals stay as they are.                                           *)
LEMMA SignalsUnchanged ==
  ASSUME UNCHANGED signals
  PROVE  (Lost' <=> Lost) /\ (OneLoss' <=> OneLoss) /\ (EndsInOrder' <=> EndsInOrder)
  BY DEF Lost, OneLoss, EndsInOrder

(* The inbox stays as it is.                                               *)
LEMMA InboxUnchanged ==
  ASSUME UNCHANGED inbox
  PROVE  (\A op : Inbox(op)' <=> Inbox(op)) /\ (OneConnect' <=> OneConnect)
  BY DEF Inbox, OneConnect

(* Every step of the client does.                                          *)
LEMMA PassesOnStep ==
  ASSUME TypeInv, Simple, QuietInv, NoTokens, Alone, OneConnect, OneLoss, EndsInOrder, SockInv,
         UNCHANGED <<scenario, frames>>, FsdNext
  PROVE  PassesOn
<1> USE DEF Idle, Next1
<1>s. \A x, y \in Statuses : Changed(x, y) \in Signals /\ Changed(x, y).kind = "status"
                               /\ Changed(x, y).from = x /\ Changed(x, y).to = y
  BY DEF Changed, Signals
<1>t. status \in Statuses /\ (closing <=> status = "Disconnecting") /\ sock \in Socks
      /\ signals \in Seq(Signals)
  BY DEF TypeInv, ClientInv, StatusOK, TransportOK
<1>1. ASSUME DisconnectFromServer(<<>>) \/ DisconnectFromServer(<<Kick>>), Idle,
             inbox # <<>>, inbox' = Tail(inbox), status = "Connected" => sock # "closed"
      PROVE  PassesOn
  <2>1. status' = "Disconnecting" /\ UNCHANGED sock
    BY <1>1 DEF DisconnectFromServer, Disconnecting, transport
  <2>2. (\A op : Inbox(op)' => Inbox(op)) /\ OneConnect'
    BY <1>1, TakenFromInbox
  <2>3. /\ Lost' => Lost \/ status \in {"Connected", "Connecting"}
        /\ OneLoss' /\ EndsInOrder'
    <3> DEFINE m == Changed(status, "Disconnecting")
    <3>1. m \in Signals /\ m.kind = "status" /\ m.from = status /\ m.to = "Disconnecting"
      BY <1>s, <1>t DEF Statuses
    <3>2. IsLoss(m) => status \in {"Connected", "Connecting"} /\ ~Lost
      BY <3>1, <1>1 DEF IsLoss, Alone, Login
    <3>3. CASE DisconnectFromServer(<<>>)
      <4>1. signals' = Append(signals, m)
        BY <3>3, <1>t, <3>1 DEF DisconnectFromServer, Disconnecting
      <4> QED
        BY <4>1, <3>1, <3>2, SignalAdded
    <3>4. CASE DisconnectFromServer(<<Kick>>)
      BY <3>1, <3>2, <3>4, <1>t, LossAfterKick DEF DisconnectFromServer, Disconnecting
    <3> QED
      BY <1>1, <3>3, <3>4
  <2>4. SockInv'
    BY <2>1, <2>2 DEF SockInv
  <2> QED
    BY <1>1, <2>1, <2>2, <2>3, <2>4 DEF PassesOn, Login
<1>2. ASSUME UNCHANGED <<status, sock, signals>>,
             UNCHANGED inbox \/ (inbox # <<>> /\ inbox' = Tail(inbox))
      PROVE  PassesOn
  <2>1. (\A op : Inbox(op)' => Inbox(op)) /\ OneConnect'
    BY <1>2, TakenFromInbox, InboxUnchanged
  <2>2. (Lost' <=> Lost) /\ OneLoss' /\ EndsInOrder'
    BY <1>2, SignalsUnchanged
  <2>3. SockInv'
    BY <1>2, <2>1 DEF SockInv
  <2> QED
    BY <1>2, <2>1, <2>2, <2>3 DEF PassesOn, Login
<1>3. ASSUME Ignored PROVE UNCHANGED <<status, sock, signals>>
  BY <1>3 DEF Ignored, transport
<1>4. CASE ConnectToServer
  <2>0. inbox # <<>> /\ inbox' = Tail(inbox) /\ Head(inbox).op = "connect"
    BY <1>4 DEF ConnectToServer
  <2>1. CASE IsTransportOpen
    <3>1. UNCHANGED <<status, sock, signals>>
      BY <1>4, <2>1 DEF ConnectToServer, transport
    <3> QED
      BY <1>2, <2>0, <3>1
  <2>2. CASE ~IsTransportOpen
    <3>1. /\ (\A op : Inbox(op)' => Inbox(op)) /\ OneConnect'
          /\ Inbox("connect") /\ ~Inbox("connect")'
      BY <2>0, TakenFromInbox
    <3>2. sock \in {"closed", "aborting"} /\ ~Inbox("error")
      BY <3>1 DEF SockInv
    <3>3. status' = "Connecting" /\ sock' \in {"connecting", "aborting"}
      BY <1>4, <2>2, <3>2 DEF ConnectToServer, OpenTransport, transport, UpdateConnectionStatus,
                         Simple, FixedAddress
    <3>4. (Lost' <=> Lost) /\ OneLoss' /\ EndsInOrder'
      <4>1. CASE UNCHANGED signals
        BY <4>1, SignalsUnchanged
      <4>2. CASE signals' = Append(signals, Changed(status, "Connecting"))
        <5>1. Changed(status, "Connecting") \in Signals /\ Changed(status, "Connecting").to = "Connecting"
          BY <1>s, <1>t DEF Statuses
        <5> QED
          BY <4>2, <5>1, SignalAdded DEF IsLoss
      <4> QED
        BY <1>4, <2>2, <4>1, <4>2 DEF ConnectToServer, UpdateConnectionStatus
    <3>5. SockInv'
      <4>1. frames = <<>>
        BY <3>1 DEF Alone
      <4> QED
        BY <3>1, <3>2, <3>3, <4>1 DEF SockInv
    <3> QED
      BY <3>1, <3>3, <3>4, <3>5 DEF PassesOn
  <2> QED
    BY <2>1, <2>2
<1>5. CASE Disconnected
  <2>1. /\ status = "Disconnecting" /\ status' = "Disconnected" /\ UNCHANGED inbox
        /\ sock' = IF sock \in {"connecting", "aborting"} THEN "aborting" ELSE "closed"
    BY <1>5, <1>t DEF Disconnected, CloseTransport, UpdateConnectionStatus, Simple
  <2>2. (\A op : Inbox(op)' <=> Inbox(op)) /\ OneConnect'
    BY <2>1, InboxUnchanged
  <2>3. (Lost' <=> Lost) /\ OneLoss' /\ EndsInOrder'
    <3>1. signals' = Append(signals, Changed("Disconnecting", "Disconnected"))
      BY <1>5, <2>1 DEF Disconnected, UpdateConnectionStatus
    <3>2. /\ Changed("Disconnecting", "Disconnected") \in Signals
          /\ Changed("Disconnecting", "Disconnected").from = "Disconnecting"
          /\ Changed("Disconnecting", "Disconnected").to = "Disconnected"
      BY <1>s DEF Statuses
    <3> QED
      BY <3>1, <3>2, SignalAdded DEF IsLoss
  <2>4. SockInv'
    BY <2>1, <2>2 DEF SockInv
  <2> QED
    BY <2>1, <2>2, <2>3, <2>4 DEF PassesOn, Login
<1>6. CASE ParseMessage
  <2>0. inbox # <<>> /\ inbox' = Tail(inbox) /\ Idle
    BY <1>6 DEF ParseMessage
  <2>1. Head(inbox) \in Events /\ Head(inbox).op = "line"
    BY <1>6, HeadEvent DEF ParseMessage, TypeInv, ClientInv
  <2>2. Head(inbox).line \in {"identify", "kill", "fatal"}
    BY <2>1, ScenarioOK DEF Events, Lines, ClientScenario, TypeInv, ContextInv, Simple, FixedAddress
  <2>3. \/ Ignored
        \/ sock # "closed" /\ (DisconnectFromServer(<<>>) \/ DisconnectFromServer(<<Kick>>))
    BY <1>6, <2>2 DEF ParseMessage, HandleFsdIdentification, HandleKillRequest,
                      HandleServerError, Simple
  <2> QED
    BY <1>1, <1>2, <1>3, <2>0, <2>3
<1>7. CASE DisconnectCalled \/ HandleWebSocketDisconnected
  <2>1. inbox # <<>> /\ inbox' = Tail(inbox) /\ Head(inbox).op \in {"disconnect", "gone"}
    BY <1>7 DEF DisconnectCalled, HandleWebSocketDisconnected
  <2> QED
    BY <2>1, TakenFromInbox DEF SockInv
<1>8. CASE HandleSocketError
  <2>1. inbox # <<>> /\ inbox' = Tail(inbox) /\ Head(inbox).op = "error" /\ Idle
        /\ (Ignored \/ DisconnectFromServer(<<>>))
    BY <1>8 DEF HandleSocketError
  <2>2. Inbox("error")
    BY <2>1, TakenFromInbox
  <2>3. status = "Connected" => sock # "closed"
    BY <2>2 DEF SockInv
  <2> QED
    BY <1>1, <1>2, <1>3, <2>1, <2>3
<1>9. CASE SendQueuedMessage
  BY <1>9, <1>2 DEF SendQueuedMessage
<1>10. ASSUME NEW a \in checks, PendingTimeoutCheck(a) PROVE PassesOn
  <2>1. UNCHANGED <<sock, inbox>>
    BY <1>10 DEF PendingTimeoutCheck, transport
  <2>2. CASE UNCHANGED <<closing, timers, status, signals>>
    BY <2>1, <2>2, <1>2
  <2>3. CASE Disconnecting(<<>>) /\ status = "Connecting"
    <3>1. status' = "Disconnecting" /\ signals' = Append(signals, Changed("Connecting", "Disconnecting"))
      BY <2>3, <1>t, <1>s DEF Disconnecting, Statuses
    <3>2. /\ Changed("Connecting", "Disconnecting") \in Signals
          /\ Changed("Connecting", "Disconnecting").to = "Disconnecting"
      BY <1>s DEF Statuses
    <3>3. Login /\ ~Login' /\ ~Lost
      BY <2>3, <3>1 DEF Login, Alone
    <3>4. OneLoss' /\ EndsInOrder'
      BY <3>1, <3>2, <3>3, SignalAdded
    <3>5. (\A op : Inbox(op)' <=> Inbox(op)) /\ OneConnect'
      BY <2>1, InboxUnchanged
    <3>6. SockInv'
      BY <2>1, <2>3, <3>1, <3>5 DEF SockInv
    <3> QED
      BY <3>3, <3>4, <3>5, <3>6 DEF PassesOn
  <2> QED
    BY <1>10, <2>2, <2>3 DEF PendingTimeoutCheck
<1>11. ASSUME NEW a \in lookups PROVE FALSE
  BY <1>11 DEF QuietInv
<1>12. ASSUME NEW a \in tokens PROVE FALSE
  BY <1>12 DEF NoTokens, Simple
<1>13. CASE SocketConnected \/ AbortedAttemptEnds
  <2>1. /\ UNCHANGED inbox
        /\ \/ status' = "Connected"
           \/ UNCHANGED status /\ sock' = "closed"
        /\ \/ sock = "connecting" /\ sock' = "connected"
           \/ sock = "aborting" /\ sock' = "closed"
        /\ status # "Disconnecting"
    BY <1>13, <1>t DEF SocketConnected, AbortedAttemptEnds, OnlyLogin, SendLogin,
                  UpdateConnectionStatus, Simple
  <2>2. (\A op : Inbox(op)' <=> Inbox(op)) /\ OneConnect'
    BY <2>1, InboxUnchanged
  <2>3. (Lost' <=> Lost) /\ OneLoss' /\ EndsInOrder'
    <3>1. CASE UNCHANGED signals
      BY <3>1, SignalsUnchanged
    <3>2. CASE signals' = Append(signals, Changed(status, "Connected"))
      <4>1. Changed(status, "Connected") \in Signals /\ Changed(status, "Connected").to = "Connected"
        BY <1>s, <1>t DEF Statuses
      <4> QED
        BY <3>2, <4>1, SignalAdded DEF IsLoss
    <3> QED
      BY <1>13, <3>1, <3>2 DEF SocketConnected, AbortedAttemptEnds, OnlyLogin, SendLogin,
                               UpdateConnectionStatus
  <2>4. SockInv'
    BY <2>1, <2>2 DEF SockInv
  <2>5. Login' => Login
    BY <2>1 DEF SockInv, Login
  <2> QED
    BY <2>2, <2>3, <2>4, <2>5 DEF PassesOn
<1>14. CASE RehostConnected \/ RehostFailed
  BY <1>14 DEF RehostConnected, RehostFailed, QuietInv
<1>15. CASE Happens
  <2>1. UNCHANGED <<status, signals, conn>>
    BY <1>15 DEF Happens, SocketFails, PeerCloses, NetworkError, WebSocketClosed, ServerAccepts,
               ServerSends
  <2>2. \/ UNCHANGED <<inbox, sock>>
        \/ UNCHANGED inbox /\ sock \in {"connecting", "connected"} /\ sock' = "down"
        \/ /\ sock = "connected" /\ sock' = "down"
           /\ inbox' = Append(inbox, FromSocket("error"))
        \/ /\ sock = "connected" /\ sock' = "connected"
           /\ \E l \in Lines : inbox' = Append(inbox, Line(l))
    BY <1>15 DEF Happens, SocketFails, PeerCloses, NetworkError, WebSocketClosed, ServerAccepts,
               ServerSends, Simple, SockInv
  <2>3. /\ FromSocket("error") \in Events /\ FromSocket("error").op = "error"
        /\ \A l \in Lines : sock = "connected" => Line(l) \in Events /\ Line(l).op = "line"
    BY DEF FromSocket, Line, Events, TypeInv, ClientInv, TransportOK
  <2>4. (Lost' <=> Lost) /\ OneLoss' /\ EndsInOrder'
    BY <2>1, SignalsUnchanged
  <2>5. CASE UNCHANGED <<inbox, sock>>
    BY <1>2, <2>1, <2>5
  <2>6. CASE UNCHANGED inbox /\ sock \in {"connecting", "connected"} /\ sock' = "down"
    <3>1. (\A op : Inbox(op)' <=> Inbox(op)) /\ OneConnect'
      BY <2>6, InboxUnchanged
    <3>2. SockInv'
      BY <2>1, <2>6, <3>1 DEF SockInv
    <3> QED
      BY <2>1, <2>4, <2>6, <3>1, <3>2 DEF PassesOn, Login
  <2>7. CASE sock = "connected" /\ sock' = "down" /\ inbox' = Append(inbox, FromSocket("error"))
    <3>1. (\A op : Inbox(op)' <=> Inbox(op) \/ op = "error") /\ OneConnect'
      BY <2>3, <2>7, PostedToInbox
    <3>2. SockInv'
      BY <2>1, <2>7, <3>1 DEF SockInv
    <3> QED
      BY <2>1, <2>4, <2>7, <3>1, <3>2 DEF PassesOn, Login
  <2>8. ASSUME sock = "connected", sock' = "connected", NEW l \in Lines,
               inbox' = Append(inbox, Line(l))
        PROVE  PassesOn
    <3>1. (\A op : Inbox(op)' <=> Inbox(op) \/ op = "line") /\ OneConnect'
      BY <2>3, <2>8, PostedToInbox
    <3>2. SockInv'
      BY <2>1, <2>8, <3>1 DEF SockInv
    <3> QED
      BY <2>1, <2>4, <2>8, <3>1, <3>2 DEF PassesOn, Login
  <2> QED
    BY <2>2, <2>5, <2>6, <2>7, <2>8
<1> QED
  BY <1>4, <1>5, <1>6, <1>7, <1>8, <1>9, <1>10, <1>11, <1>12, <1>13, <1>14, <1>15
     DEF FsdNext, Handles

(* Before the first command nothing happens.                               *)
LEMMA NothingHappens ==
  ASSUME TypeInv, Simple, QuietInv, NoTokens, FsdNext,
         status = "Disconnected", sock = "closed", inbox = <<>>
  PROVE  UNCHANGED <<status, sock, inbox, signals>>
<1>0. ~closing /\ ~timers /\ lookups = {} /\ tokens = {} /\ rehosts = 0
  BY DEF TypeInv, ClientInv, StatusOK, QuietInv, NoTokens, Simple
<1>1. CASE Handles
  <2>1. \E a \in checks : PendingTimeoutCheck(a)
    BY <1>0, <1>1 DEF Handles, ConnectToServer, DisconnectCalled, Disconnected, ParseMessage,
         HandleSocketError, HandleWebSocketDisconnected, SendQueuedMessage, SocketConnected,
         AbortedAttemptEnds, RehostConnected, RehostFailed, Next1
  <2> QED
    BY <2>1 DEF PendingTimeoutCheck, transport
<1>2. CASE Happens
  BY <1>2 DEF Happens, SocketFails, PeerCloses, NetworkError, WebSocketClosed, ServerAccepts,
              ServerSends
<1> QED
  BY <1>1, <1>2 DEF FsdNext

(* A step that counts nothing and starts nothing keeps the count.          *)
LEMMA CountKept ==
  ASSUME Count, InFlight' => InFlight, UNCHANGED <<scenario, tries, attempt, armed>>
  PROVE  Count'
  BY DEF Count, MaxAttempts

(* A step of the client keeps the invariant.                               *)
LEMMA FsdBudget ==
  ASSUME TypeInv, Simple, QuietInv, NoTokens, BudgetInv, FsdStep, UNCHANGED scenario
  PROVE  BudgetInv'
<1>0. UNCHANGED <<frames, armed, attempt, unexpected, commands, tries>>
  BY DEF FsdStep, reconnect, flags
<1>1. SUFFICES ASSUME commands <= 1 PROVE Alone' /\ Unique' /\ SockInv' /\ Fresh' /\ Count'
  BY <1>0 DEF BudgetInv
<1>2. Alone /\ Unique /\ SockInv /\ Fresh /\ Count
  BY <1>1 DEF BudgetInv
<1>3. PassesOn
  BY <1>0, <1>2, PassesOnStep DEF FsdStep, Unique
<1>4. Alone' /\ (InFlight' => InFlight)
  BY <1>0, <1>2, <1>3 DEF PassesOn, Alone, InFlight
<1>5. Unique' /\ SockInv'
  BY <1>0, <1>2, <1>3 DEF PassesOn, Unique
<1>6. Fresh'
  BY <1>0, <1>2, NothingHappens DEF Fresh, FsdStep
<1> QED
  BY <1>0, <1>2, <1>4, <1>5, <1>6, CountKept

-----------------------------------------------------------------------------
(***************************************************************************)
(* The first command begins with nothing under way and the counters at     *)
(* zero.                                                                   *)
(***************************************************************************)
LEMMA UserBudget ==
  ASSUME TypeInv, BudgetInv, UNCHANGED scenario, UserConnects \/ UserDisconnects
  PROVE  BudgetInv'
<1>1. commands \in Nat /\ commands' = commands + 1 /\ tries' = 0
      /\ attempt \in Nat /\ attempt' \in Nat /\ MaxAttempts \in Nat /\ MaxAttempts' = MaxAttempts
      /\ frames \in Seq(Frames)
  BY ConstantsOK DEF TypeInv, ContextInv, ReconnectOK, UserConnects, UserDisconnects, UserCommands, reconnect
<1>2. SUFFICES ASSUME commands = 0 PROVE Alone' /\ Unique' /\ SockInv' /\ Fresh' /\ Count'
  BY <1>1 DEF BudgetInv
<1>3. /\ status = "Disconnected" /\ sock = "closed" /\ inbox = <<>> /\ signals = <<>>
      /\ ~armed /\ frames = <<>> /\ ~unexpected
  BY <1>1, <1>2 DEF BudgetInv, Fresh
<1>4. /\ UNCHANGED <<status, sock, inbox, signals>> /\ ~armed' /\ ~unexpected'
      /\ (frames' = <<>> \/ \E f : frames' = Append(frames, f))
  BY <1>3 DEF UserConnects, UserDisconnects, fsdVars, transport, CancelReconnect, ClearFlags,
              reconnect, flags
<1>5. Len(frames') <= 1
  <2>1. CASE frames' = <<>>
    BY <2>1
  <2>2. ASSUME NEW f, frames' = Append(frames, f) PROVE Len(frames') <= 1
    BY <1>3, <2>2
  <2> QED
    BY <1>4, <2>1, <2>2
<1>6. (\A op : ~Inbox(op)') /\ ~Login' /\ ~Lost' /\ OneConnect' /\ OneLoss' /\ EndsInOrder'
  BY <1>3, <1>4 DEF Inbox, Login, Lost, OneConnect, OneLoss, EndsInOrder
<1>7. Alone' /\ Unique' /\ SockInv'
  BY <1>3, <1>4, <1>5, <1>6 DEF Alone, Unique, SockInv
<1>8. Fresh' /\ Count'
  BY <1>1, <1>2, <1>4 DEF Fresh, Count
<1> QED
  BY <1>7, <1>8

(***************************************************************************)
(* scheduleReconnect, called by the only one that had the reconnect in its *)
(* hands, counts it or gives it up.                                        *)
(***************************************************************************)
LEMMA ScheduleBudget ==
  ASSUME TypeInv, UNCHANGED <<scenario, tries>>, ScheduleReconnect, ~armed,
         tries <= attempt, frames' = <<>>, ~Inbox("connect")', ~Login', ~Lost', ~unexpected'
  PROVE  Alone' /\ Count'
<1>1. attempt \in 0..MaxAttempts /\ tries \in Nat /\ MaxAttempts \in Nat /\ MaxAttempts' = MaxAttempts
  BY ConstantsOK DEF TypeInv, ContextInv, ReconnectOK
<1>2. Alone'
  BY DEF Alone
<1>3. CASE armed'
  <2>1. attempt' = attempt + 1 /\ tries' = tries
    BY <1>3 DEF ScheduleReconnect
  <2> QED
    BY <1>1, <1>2, <1>3, <2>1 DEF Count
<1>4. CASE ~armed'
  <2>1. ~InFlight' /\ tries' = tries
    BY <1>4 DEF InFlight
  <2>2. tries' <= MaxAttempts'
    BY <1>1, <2>1
  <2> QED
    BY <1>2, <2>1, <2>2 DEF Count
<1> QED
  BY <1>3, <1>4

(* The timer fires: the login that was counted begins.                     *)
LEMMA TimerBudget ==
  ASSUME TypeInv, Simple, QuietInv, BudgetInv, UNCHANGED scenario, ReconnectToNetwork
  PROVE  BudgetInv'
<1>0. UNCHANGED <<status, sock, inbox, signals, commands>> /\ armed /\ ~armed'
      /\ commands \in Nat /\ frames \in Seq(Frames) /\ attempt \in Nat /\ tries \in Nat
      /\ MaxAttempts \in Nat /\ MaxAttempts' = MaxAttempts /\ attempt \in 0..MaxAttempts
  BY ConstantsOK DEF ReconnectToNetwork, fsdVars, transport, TypeInv, ContextInv, ReconnectOK
<1>1. SUFFICES ASSUME commands <= 1 PROVE Alone' /\ Unique' /\ SockInv' /\ Fresh' /\ Count'
  BY <1>0 DEF BudgetInv
<1>2. Alone /\ Unique /\ SockInv /\ Fresh /\ Count
  BY <1>1 DEF BudgetInv
<1>3. frames = <<>> /\ ~Inbox("connect") /\ ~Login /\ ~Lost /\ ~unexpected /\ commands # 0
      /\ tries + 1 <= attempt
  BY <1>0, <1>2 DEF Alone, Fresh, Count, InFlight
<1>4. /\ ~Inbox("connect")' /\ ~Login' /\ ~Lost' /\ (\A op : Inbox(op)' <=> Inbox(op))
      /\ OneConnect' /\ OneLoss' /\ EndsInOrder'
  BY <1>0, <1>2, <1>3, InboxUnchanged, SignalsUnchanged DEF Unique, Login
<1>5. CASE UNCHANGED <<frames, flags, tries>>
  <2>1. UNCHANGED frames /\ ~unexpected' /\ tries' = tries
    BY <1>3, <1>5 DEF flags
  <2> QED
    BY <1>0, <1>2, <1>3, <1>4, <2>1 DEF Alone, Unique, SockInv, Fresh, Count, InFlight
<1>6. CASE /\ status = "Disconnected" /\ ClearFlags /\ tries' = tries + 1 /\ UNCHANGED attempt
           /\ frames' = Append(frames, [auto |-> TRUE, byTimer |-> TRUE, suffix |-> ReconnectCallsign])
  <2>1. Len(frames') <= 1 /\ ~unexpected'
    BY <1>3, <1>6 DEF ClearFlags
  <2>2. sock \in {"closed", "aborting"} /\ ~Inbox("error")
    <3>1. sock \in {"closed", "aborting"}
      BY <1>2, <1>6 DEF QuietInv, SockInv, TypeInv, ClientInv, TransportOK, Socks
    <3>2. ~Inbox("error")
      BY DEF ReconnectToNetwork, Inbox
    <3> QED
      BY <3>1, <3>2
  <2>3. Alone' /\ Unique' /\ Fresh'
    BY <1>0, <1>3, <1>4, <2>1 DEF Alone, Unique, Fresh
  <2>4. SockInv'
    BY <1>0, <1>2, <1>4, <2>2 DEF SockInv
  <2>5. Count'
    BY <1>0, <1>2, <1>3, <1>6 DEF Count
  <2> QED
    BY <2>3, <2>4, <2>5
<1> QED
  BY <1>5, <1>6 DEF ReconnectToNetwork, flags

(***************************************************************************)
(* canConnect returns: the call is posted, or the attempt is scheduled     *)
(* again.                                                                  *)
(***************************************************************************)
LEMMA ProbeBudget ==
  ASSUME TypeInv, Simple, BudgetInv, UNCHANGED scenario, NEW reachable \in BOOLEAN,
         ConnectToNetwork(reachable)
  PROVE  BudgetInv'
<1>0. UNCHANGED <<status, sock, signals, commands, unexpected, tries>>
      /\ commands \in Nat /\ frames \in Seq(Frames) /\ frames # <<>>
      /\ frames' = SubSeq(frames, 1, Len(frames) - 1)
  BY DEF ConnectToNetwork, flags, transport, TypeInv, ContextInv
<1>1. SUFFICES ASSUME commands <= 1 PROVE Alone' /\ Unique' /\ SockInv' /\ Fresh' /\ Count'
  BY <1>0 DEF BudgetInv
<1>2. Alone /\ Unique /\ SockInv /\ Fresh /\ Count
  BY <1>1 DEF BudgetInv
<1>3. ~armed /\ ~Inbox("connect") /\ ~Login /\ ~Lost /\ ~unexpected /\ commands # 0
      /\ sock \in {"closed", "aborting"} /\ ~Inbox("error")
  BY <1>0, <1>2 DEF Alone, Fresh, SockInv
<1>4. tries <= attempt /\ tries \in Nat
  BY <1>0, <1>2, <1>3 DEF Count, InFlight, TypeInv, ContextInv
<1>5. frames' = <<>>
  <2>1. Len(frames) \in Nat \ {0} /\ Len(frames) <= 1
    BY <1>0, <1>2, LenProperties, EmptySeq DEF Unique
  <2>2. Len(frames) - 1 = 0
    BY <2>1
  <2> QED
    BY <1>0, <2>2, SubSeqEmpty
<1>6. (Lost' <=> Lost) /\ OneLoss' /\ EndsInOrder' /\ ~Login' /\ Len(frames') = 0
  BY <1>0, <1>2, <1>3, <1>5, SignalsUnchanged DEF Unique, Login
<1>7. CASE reachable /\ status = "Disconnected"
  <2>1. inbox' = Append(inbox, Call("connect")) /\ UNCHANGED <<armed, attempt>>
    BY <1>7 DEF ConnectToNetwork
  <2>2. Call("connect") \in Events /\ Call("connect").op = "connect"
    BY DEF Call, Events
  <2>3. (\A op : Inbox(op)' <=> Inbox(op) \/ op = "connect") /\ OneConnect'
    BY <1>2, <1>3, <2>1, <2>2, PostedToInbox DEF Unique
  <2>4. Alone' /\ Unique' /\ Fresh'
    BY <1>0, <1>2, <1>3, <1>5, <1>6, <2>1, <2>3 DEF Alone, Unique, Fresh
  <2>5. SockInv'
    BY <1>0, <1>2, <1>3, <2>3 DEF SockInv
  <2>6. Count'
    <3>1. InFlight
      BY <1>0 DEF InFlight
    <3> QED
      BY <1>0, <1>2, <2>1, <3>1, CountKept
  <2> QED
    BY <2>4, <2>5, <2>6
<1>8. CASE ~(reachable /\ status = "Disconnected")
  <2>1. UNCHANGED inbox /\ (ScheduleReconnect \/ UNCHANGED <<armed, attempt>>)
    BY <1>8 DEF ConnectToNetwork
  <2>2. (\A op : Inbox(op)' <=> Inbox(op)) /\ OneConnect'
    BY <1>2, <2>1, InboxUnchanged DEF Unique
  <2>3. Unique' /\ Fresh'
    BY <1>0, <1>3, <1>6, <2>2 DEF Unique, Fresh
  <2>4. SockInv'
    BY <1>0, <1>2, <1>5, <2>2 DEF SockInv
  <2>5. CASE ScheduleReconnect
    BY <1>0, <1>3, <1>4, <1>5, <1>6, <2>2, <2>3, <2>4, <2>5, ScheduleBudget
  <2>6. CASE UNCHANGED <<armed, attempt>>
    <3>1. ~InFlight'
      BY <1>0, <1>3, <1>5, <1>6, <2>2, <2>6 DEF InFlight
    <3>2. Alone'
      BY <3>1 DEF InFlight, Alone
    <3> QED
      BY <1>0, <1>2, <2>3, <2>4, <2>6, <3>1, <3>2, CountKept
  <2> QED
    BY <2>1, <2>5, <2>6
<1> QED
  BY <1>7, <1>8

(***************************************************************************)
(* A signal is taken: a loss is noted, a noted loss is scheduled,          *)
(* Connected resets both counters.                                         *)
(***************************************************************************)
LEMMA SignalBudget ==
  ASSUME TypeInv, BudgetInv, UNCHANGED scenario, TakeSignal
  PROVE  BudgetInv'
<1> DEFINE m == Head(signals)
<1>0. UNCHANGED <<status, sock, inbox, frames, commands>> /\ commands \in Nat
      /\ signals # <<>> /\ signals' = Tail(signals) /\ MaxAttempts \in Nat
      /\ MaxAttempts' = MaxAttempts
      /\ tries \in Nat /\ attempt \in 0..MaxAttempts
  BY ConstantsOK DEF TakeSignal, transport, TypeInv, ContextInv, ReconnectOK
<1>1. SUFFICES ASSUME commands <= 1 PROVE Alone' /\ Unique' /\ SockInv' /\ Fresh' /\ Count'
  BY <1>0 DEF BudgetInv
<1>2. Alone /\ Unique /\ SockInv /\ Fresh /\ Count
  BY <1>1 DEF BudgetInv
<1>3. /\ Lost' => Lost
      /\ IsLoss(m) => Lost /\ ~Lost'
      /\ OneLoss' /\ EndsInOrder'
      /\ m.kind = "status" /\ m.to = "Disconnected" => m.from = "Disconnecting"
  BY <1>0, <1>2, SignalRemoved DEF Unique
<1>4. (\A op : Inbox(op)' <=> Inbox(op)) /\ OneConnect' /\ (Login' <=> Login)
  BY <1>0, <1>2, InboxUnchanged DEF Unique, Login
<1>5. Unique' /\ SockInv' /\ Fresh'
  BY <1>0, <1>2, <1>3, <1>4 DEF Unique, SockInv, Fresh
<1>6. m \in Signals
  BY <1>0, HeadTailProperties DEF TypeInv, ClientInv, StatusOK
<1>a. ASSUME UNCHANGED <<armed, attempt, tries>>, unexpected' => unexpected \/ IsLoss(m)
      PROVE  Alone' /\ Count'
  <2>1. Alone' /\ (InFlight' => InFlight)
    BY <1>0, <1>2, <1>3, <1>4, <1>a DEF Alone, InFlight
  <2> QED
    BY <1>0, <1>2, <1>a, <2>1, CountKept
<1>b. ASSUME ~armed', UNCHANGED <<attempt, tries>>, ~unexpected' PROVE Alone' /\ Count'
  <2>1. Alone' /\ (InFlight' => InFlight)
    BY <1>0, <1>2, <1>3, <1>4, <1>b DEF Alone, InFlight
  <2> QED
    BY <1>0, <1>2, <1>b, <2>1 DEF Count
<1>7. CASE m.kind = "kick"
  <2>1. ~armed' /\ UNCHANGED <<attempt, tries>> /\ ~unexpected'
    BY <1>7 DEF TakeSignal, OnKicked, CancelReconnect
  <2> QED
    BY <1>5, <1>b, <2>1
<1>8. CASE m.kind = "status"
  <2>0. OnFsdConnectionStatusChanged(m.from, m.to)
    BY <1>8 DEF TakeSignal
  <2>1. CASE m.to = "Disconnecting"
    <3>1. UNCHANGED <<armed, attempt, tries>> /\ unexpected' = Wanted(m.from)
      BY <2>0, <2>1 DEF OnFsdConnectionStatusChanged, reconnect
    <3>2. unexpected' => IsLoss(m)
      BY <1>8, <2>1, <3>1 DEF Wanted, IsLoss
    <3> QED
      BY <1>5, <1>a, <3>1, <3>2
  <2>2. CASE m.to = "Disconnected"
    <3>1. ~Wanted(m.from)
      BY <1>3, <1>8, <2>2 DEF Wanted
    <3>2. /\ ~unexpected' /\ UNCHANGED tries
          /\ \/ unexpected /\ ScheduleReconnect
             \/ UNCHANGED <<armed, attempt>>
      BY <2>0, <2>2, <3>1 DEF OnFsdConnectionStatusChanged, ClearFlags
    <3>3. CASE UNCHANGED <<armed, attempt>>
      BY <1>5, <1>a, <3>2, <3>3
    <3>4. CASE unexpected /\ ScheduleReconnect
      <4>1. ~armed /\ frames = <<>> /\ ~Inbox("connect") /\ ~Login /\ ~Lost
        BY <1>2, <3>4 DEF Alone
      <4>2. tries <= attempt
        BY <1>0, <1>2, <3>4, <4>1 DEF Count, InFlight
      <4> QED
        BY <1>0, <1>3, <1>4, <1>5, <3>2, <3>4, <4>1, <4>2, ScheduleBudget
    <3> QED
      BY <3>2, <3>3, <3>4
  <2>3. CASE m.to = "Connected"
    <3>1. attempt' = 0 /\ tries' = 0 /\ ~armed' /\ ~unexpected'
      BY <2>0, <2>3 DEF OnFsdConnectionStatusChanged, ClearFlags, CancelReconnect
    <3>2. Alone'
      BY <1>0, <1>2, <1>3, <1>4, <3>1 DEF Alone
    <3>3. Count'
      BY <1>0, <3>1 DEF Count
    <3> QED
      BY <1>5, <3>2, <3>3
  <2>4. CASE m.to = "Connecting"
    <3>1. UNCHANGED <<armed, attempt, tries, unexpected>>
      BY <2>0, <2>4 DEF OnFsdConnectionStatusChanged, reconnect, flags
    <3> QED
      BY <1>5, <1>a, <3>1
  <2> QED
    BY <1>6, <2>1, <2>2, <2>3, <2>4 DEF Signals, Statuses
<1> QED
  BY <1>6, <1>7, <1>8 DEF Signals

(* Every step keeps the invariant.                                         *)
LEMMA NextBudget ==
  ASSUME TypeInv, Simple, QuietInv, NoTokens, BudgetInv, [Next]_vars
  PROVE  BudgetInv'
<1>1. UNCHANGED scenario
  BY DEF Next, vars
<1>2. CASE UNCHANGED vars
  <2>1. UNCHANGED <<status, sock, inbox, signals, frames, armed, attempt, unexpected, commands,
                    tries>>
    BY <1>2 DEF vars, fsdVars, ctxVars, transport, reconnect, flags, history
  <2>2. (\A op : Inbox(op)' <=> Inbox(op)) /\ (OneConnect' <=> OneConnect) /\ (Login' <=> Login)
        /\ (Lost' <=> Lost) /\ (OneLoss' <=> OneLoss) /\ (EndsInOrder' <=> EndsInOrder)
    BY <2>1, InboxUnchanged, SignalsUnchanged DEF Login
  <2>3. (Alone' <=> Alone) /\ (Unique' <=> Unique) /\ (SockInv' <=> SockInv) /\ (Fresh' <=> Fresh)
        /\ (InFlight' <=> InFlight)
    BY <2>1, <2>2 DEF Alone, Unique, SockInv, Fresh, InFlight
  <2>4. Count => Count'
    BY <1>1, <2>1, <2>3, CountKept
  <2> QED
    BY <2>1, <2>3, <2>4 DEF BudgetInv
<1> QED
  BY <1>1, <1>2, FsdBudget, UserBudget, TimerBudget, ProbeBudget, SignalBudget DEF Next

(* It holds initially.                                                     *)
LEMMA InitBudget == Init => BudgetInv
<1> SUFFICES ASSUME Init PROVE BudgetInv
  OBVIOUS
<1>1. /\ status = "Disconnected" /\ sock = "closed" /\ inbox = <<>> /\ signals = <<>>
      /\ ~armed /\ frames = <<>> /\ ~unexpected /\ tries = 0 /\ commands = 0
      /\ MaxAttempts \in Nat
  BY ScenarioOK DEF Init, FsdInit, MaxAttempts, ContextScenario
<1>2. (\A op : ~Inbox(op)) /\ ~Login /\ ~Lost /\ OneConnect /\ OneLoss /\ EndsInOrder
  BY <1>1 DEF Inbox, Login, Lost, OneConnect, OneLoss, EndsInOrder
<1>3. Len(frames) <= 1
  BY <1>1
<1>4. ~InFlight
  BY <1>1, <1>2 DEF InFlight
<1> QED
  BY <1>1, <1>2, <1>3, <1>4 DEF BudgetInv, Alone, Unique, SockInv, Fresh, Count

(***************************************************************************)
(* After one command of the user there are at most max_attempts automatic  *)
(* logins between two Connected, for every budget and any number of        *)
(* faults, with a server of the classic protocol.                          *)
(***************************************************************************)
THEOREM BudgetKept == Spec => []BudgetHolds
<1>1. Init => (Simple => BudgetInv)
  BY InitBudget
<1>2. ASSUME TypeInv, FixedAddress => QuietInv, Simple => NoTokens /\ KickInv,
             Simple => BudgetInv, [Next]_vars
      PROVE  (Simple => BudgetInv)'
  <2>1. Simple' <=> Simple
    BY <1>2 DEF Next, vars, FixedAddress, Transport, LoadBalancing, Lines, Simple, Protocol
  <2> QED
    BY <1>2, <2>1, NextBudget DEF Simple
<1>3. (Simple => BudgetInv) => BudgetHolds
  BY DEF BudgetInv, BudgetHolds, Count
<1> QED
  BY <1>1, <1>2, <1>3, TypeInvAlways, QuietAlways, KickAlways, PTL DEF Spec
=============================================================================
