------------------------------ MODULE SutClient ------------------------------
(***************************************************************************)
(* The application's side of testability: TestabilityClientQt keeps a       *)
(* connection to the autotest server, starting again whenever it is lost,   *)
(* and TestabilityAppSutBaseQt answers the server's AutotestServerReady     *)
(* with SutReady once the application is ready.  The server is the autotest *)
(* that waits in WaitProcessingSutReady, one after the other.               *)
(***************************************************************************)
EXTENDS Integers, Sequences

CONSTANTS MaxTimers,        \* bound on the connection timers that run at a time
          MaxAsked          \* bound on the requests of a connection, and on those queued or being answered

ASSUME SutClientConstants == MaxTimers \in Nat \ {0} /\ MaxAsked \in Nat

VARIABLES
    socket,         \* m_connection: none, connecting, connected
    timers,         \* single shots of OnConnectionTimeout under way
    restarts,       \* queued calls of Internals::OnDisconnected
    m_is_connected,
    m_application,  \* whether an application object is registered
    m_sut_ready, m_server_ready_request_pending,
    posted,         \* AutotestServerReady calls queued for the application's thread
    sending,        \* writes of SutReady queued for the background thread
    to_app, to_server,      \* calls under way on the connection
    waiting,        \* the autotest waits for SutReady
    asked, answered,        \* on this connection: only for the properties
    inherited       \* requests of earlier connections it began with: for the properties

link == <<socket, timers, restarts, m_is_connected>>
app == <<m_application, m_sut_ready, m_server_ready_request_pending, posted, sending>>
session == <<to_app, to_server, waiting, asked, answered, inherited>>
client_vars == <<link, app, session>>

\* Background_Main: StartConnection is called before the event loop runs.
ClientInit ==
    /\ socket = "connecting" /\ timers = 1 /\ restarts = 0 /\ m_is_connected = FALSE
    /\ m_application = FALSE /\ m_sut_ready = FALSE /\ m_server_ready_request_pending = FALSE
    /\ posted = 0 /\ sending = 0 /\ to_app = 0 /\ to_server = 0 /\ waiting = FALSE
    /\ asked = 0 /\ answered = 0 /\ inherited = 0

-----------------------------------------------------------------------------
(* The connection                                                          *)

Transport == [socket |-> socket, restarts |-> restarts, connected |-> m_is_connected]

\* Variant: the signal is passed on once for each of the socket's signals.
OnDisconnected_Again(t) == [t EXCEPT !.socket = "none", !.connected = FALSE, !.restarts = @ + 1]

\* OnDisconnected of the transport: m_is_connected at once, the restart queued.
OnDisconnected(t) ==
    IF t.socket = "none" THEN t ELSE [t EXCEPT !.socket = "none", !.connected = FALSE, !.restarts = @ + 1]

\* The calls under way are lost, and the autotest of the connection ends; what
\* is queued for the two threads stays.
Lose(t) ==
    /\ socket' = t.socket /\ restarts' = t.restarts /\ m_is_connected' = t.connected
    /\ to_app' = 0 /\ to_server' = 0 /\ waiting' = FALSE /\ asked' = 0 /\ answered' = 0
    /\ inherited' = 0

\* Variant: only the first connection has a timer.
Timer_Not == 0

\* QTimer::singleShot in AssignConnection.
Timer == 1

\* StartConnection: a new socket takes the place of the old one.
StartConnection ==
    /\ restarts > 0 /\ restarts' = restarts - 1
    /\ socket' = "connecting" /\ timers' = timers + Timer
    /\ UNCHANGED <<m_is_connected, app, session>>

\* OnConnected.
Connected ==
    /\ socket = "connecting"
    /\ socket' = "connected" /\ m_is_connected' = TRUE
    /\ inherited' = posted + sending + (IF m_server_ready_request_pending THEN 1 ELSE 0)
    /\ UNCHANGED <<timers, restarts, app, to_app, to_server, waiting, asked, answered>>

\* errorOccurred, which is followed by disconnected if there was a connection.
SocketError ==
    /\ socket # "none" /\ timers < MaxTimers
    /\ Lose(IF socket = "connected" THEN OnDisconnected(OnDisconnected(Transport)) ELSE OnDisconnected(Transport))
    /\ UNCHANGED <<timers, app>>

\* OnConnectionTimeout, of this attempt or of an earlier one.
OnConnectionTimeout ==
    /\ timers > 0 /\ timers' = timers - 1
    /\ IF socket = "connecting" THEN Lose(OnDisconnected(Transport))
       ELSE UNCHANGED <<socket, restarts, m_is_connected, session>>
    /\ UNCHANGED app

-----------------------------------------------------------------------------
(* The application                                                         *)

\* Variant: the request stays pending.
Answers_Always(ready, pending) == ready

Answers(ready, pending) == ready /\ pending

\* AutotestServerReady, with what was just set.  AsyncInvoke posts its write to
\* the background thread and waits there.
AutotestServerReady(ready, pending) ==
    LET n == IF Answers(ready, pending) THEN 1 ELSE 0
    IN  /\ m_sut_ready' = ready
        /\ m_server_ready_request_pending' = (pending /\ n = 0)
        /\ sending' = sending + n

\* The write, on whichever connection there is when it runs; without one it is lost.
Write ==
    /\ sending > 0 /\ sending' = sending - 1
    /\ IF socket = "connected" THEN to_server' = to_server + 1 /\ answered' = answered + 1
       ELSE UNCHANGED <<to_server, answered>>
    /\ UNCHANGED <<link, m_application, m_sut_ready, m_server_ready_request_pending, posted,
                   to_app, waiting, asked, inherited>>

\* The background thread reads the call and posts it to the handler's thread.
ServerReadyReceived ==
    /\ to_app > 0 /\ to_app' = to_app - 1
    /\ posted + sending < MaxAsked /\ posted' = posted + 1
    /\ UNCHANGED <<link, m_application, m_sut_ready, m_server_ready_request_pending, sending,
                   to_server, waiting, asked, answered, inherited>>

\* The handler of AutotestServerReady, on whichever connection there is now, also
\* while the application's thread waits in an earlier one or in Register.
ServerReadyCalled ==
    /\ posted > 0 /\ posted' = posted - 1
    /\ AutotestServerReady(m_sut_ready, TRUE)
    /\ UNCHANGED <<link, m_application, session>>

\* Variant: the request is not looked at.
SetApplicationReady_Only(ready) ==
    m_sut_ready' = ready /\ UNCHANGED <<m_server_ready_request_pending, sending>>

SetApplicationReady(ready) == AutotestServerReady(ready, m_server_ready_request_pending)

\* Application_Sut::Register, of the first object or in the place of another,
\* which it unregisters before.  The application's thread waits for no write.
Register ==
    /\ sending = 0 /\ m_application' = TRUE
    /\ SetApplicationReady(TRUE)
    /\ UNCHANGED <<link, posted, session>>

\* Application_Sut::Unregister.
Unregister ==
    /\ sending = 0 /\ m_application /\ m_application' = FALSE
    /\ SetApplicationReady(FALSE)
    /\ UNCHANGED <<link, posted, session>>

-----------------------------------------------------------------------------
(* The autotest                                                            *)

\* WaitProcessingSutReady: the handler is there before the call is sent.
WaitProcessingSutReady ==
    /\ socket = "connected" /\ ~waiting /\ asked < MaxAsked
    /\ waiting' = TRUE /\ asked' = asked + 1 /\ to_app' = to_app + 1
    /\ UNCHANGED <<link, app, to_server, answered, inherited>>

\* SutReady: the autotest goes on; one that nobody waits for is an error.
SutReadyCalled ==
    /\ to_server > 0 /\ to_server' = to_server - 1
    /\ waiting' = FALSE
    /\ UNCHANGED <<link, app, to_app, asked, answered, inherited>>

ClientNext ==
    \/ StartConnection \/ Connected \/ SocketError \/ OnConnectionTimeout
    \/ ServerReadyReceived \/ ServerReadyCalled \/ Write \/ Register \/ Unregister
    \/ WaitProcessingSutReady \/ SutReadyCalled

ClientSpec == ClientInit /\ [][ClientNext]_client_vars

\* The event loops run, timers fire and what is sent arrives; connections and
\* applications come when they like.
ClientFairSpec ==
    /\ ClientSpec /\ WF_client_vars(StartConnection) /\ WF_client_vars(OnConnectionTimeout)
    /\ WF_client_vars(ServerReadyReceived) /\ WF_client_vars(ServerReadyCalled)
    /\ WF_client_vars(Write) /\ WF_client_vars(SutReadyCalled)

-----------------------------------------------------------------------------
\* Every variable has its type; no more answers are under way than were
\* given.
ClientTypeOK ==
    /\ socket \in {"none", "connecting", "connected"} /\ timers \in 0 .. MaxTimers
    /\ restarts \in Nat /\ m_is_connected \in BOOLEAN
    /\ m_application \in BOOLEAN /\ m_sut_ready \in BOOLEAN /\ m_server_ready_request_pending \in BOOLEAN
    /\ posted \in 0 .. MaxAsked /\ sending \in 0 .. MaxAsked + 1 /\ to_app \in 0 .. MaxAsked
    /\ asked \in 0 .. MaxAsked /\ inherited \in 0 .. MaxAsked + 1
    /\ answered \in Nat /\ to_server \in 0 .. answered /\ waiting \in BOOLEAN

\* There is a socket or one restart that is queued, never both: a socket is
\* not replaced while it is in use, and the client does not give up, though
\* the socket reports an error and a disconnection and timers of earlier
\* attempts still fire.
OneAttempt == restarts = (IF socket = "none" THEN 1 ELSE 0)

\* IsConnected, which other threads ask, says what the socket is.
FlagIsTrue == m_is_connected <=> socket = "connected"

\* A request is answered once: an autotest that waits for the application gets
\* no SutReady but its own, and none is left for the time after it, except for
\* the requests of earlier connections this one began with: queued, pending, or
\* with their SutReady not yet written, each of which is answered once as well.
AnsweredOnce == answered =< asked + inherited

\* Every attempt to connect ends and after it is lost there is another.
KeepsTrying == (socket = "connecting" ~> socket # "connecting") /\ (socket = "none" ~> socket = "connecting")

\* An autotest that waits goes on while the application is ready, whichever of
\* the two comes first, or its connection ends.
ReadyIsTold == waiting ~> (~waiting \/ ~m_sut_ready)

\* Through every loss and time-out the client has one attempt or connection, and
\* says truly which (OnDisconnected, StartConnection, IsConnected).
ConnectionKept == ClientTypeOK /\ OneAttempt /\ FlagIsTrue
=============================================================================
