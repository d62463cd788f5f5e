--------------------------- MODULE AutotestServer ---------------------------
(***************************************************************************)
(* AutotestServer: the thread that accepts the connections of applications  *)
(* under test, the clients that use these connections from other threads,   *)
(* and the thread that runs the autotests of a connection.                  *)
(*                                                                         *)
(* The server thread takes one event after the other: socket notifications  *)
(* in any order, queued slots in the order they were queued.  Applications  *)
(* connect, send and disconnect when they like.  A transport stands for its *)
(* connection too: each has at most one.                                    *)
(***************************************************************************)
EXTENDS Integers, Sequences, FiniteSets, SequencesExt

CONSTANTS Transports, Clients,
          Indexes,          \* of SutIndexId, besides on_connected_sut
          WithAutotests,    \* whether Params::autotest_container is set
          MaxTests,         \* autotests the container creates at most for a connection
          MaxPackets,       \* packets an application sends
          None

OnConnectedSut == 0
Slots == Indexes \cup {OnConnectedSut}

ASSUME AutotestServerConstants ==
    /\ Indexes \subseteq Nat \ {OnConnectedSut} /\ MaxTests \in Nat /\ MaxPackets \in Nat
    /\ WithAutotests \in BOOLEAN /\ None \notin Transports

VARIABLES
    peer,           \* an application: away, connecting, open or closed
    packets, sent,  \* packets received and not read, and all that were sent
    notified,       \* transports whose socket has news for the event loop
    m_connection,   \* transports whose socket is not cleared
    m_connection_transports,
    posted,         \* queued slots
    pc, current,    \* what the server thread is doing, and for which transport
    todo,           \* clients it has to tell of the connection
    usage,          \* m_connections: the usage of a connection, or None
    m_on_connected_sut,
    m_clients,      \* registered clients
    client,         \* none, adding, used, gone
    m_client_connections,
    m_sut_handler, stopping,    \* the autotest thread, and the one that is being stopped
    handler, tests, \* what the autotest thread of a connection does, and how many are left
    exited, disabled,           \* QThread::exit and CancelDisableWaitingCall of it
    ending,         \* Stop: no, asked, closing
    late, marked    \* for the properties: clients that were being added while a connection was
                    \* told of, and connections whose usage a client has set itself

net == <<peer, packets, sent, notified, m_connection, m_connection_transports>>
server == <<pc, current, todo, posted, ending>>
users == <<m_clients, client, m_client_connections, late, marked>>
threads == <<m_sut_handler, stopping, handler, tests, exited, disabled>>
vars == <<net, server, usage, m_on_connected_sut, users, threads>>

Usages == {"newly_connected", "not_used", "use_ipc_call"}

\* A usage is a value: "no connection" is another one.
ASSUME AutotestServerNames == None \notin Usages

\* A SutConnection has an owner: m_connections or the thread of its autotests.
Alive(tr) == tr # None /\ (usage[tr] # None \/ tr \in {m_sut_handler, stopping, current})

\* std::weak_ptr<SutConnection>::lock.
Lock(tr) == IF Alive(tr) THEN tr ELSE None

Post(events) == posted' = posted \o events

Init ==
    /\ peer = [tr \in Transports |-> "away"] /\ packets = [tr \in Transports |-> 0] /\ sent = packets
    /\ notified = {} /\ m_connection = {} /\ m_connection_transports = {}
    /\ posted = <<>> /\ pc = "idle" /\ current = None /\ todo = {}
    /\ usage = [tr \in Transports |-> None] /\ m_on_connected_sut = None
    /\ m_clients = {} /\ client = [c \in Clients |-> "none"]
    /\ m_client_connections = [c \in Clients |-> [i \in Slots |-> None]] /\ late = {} /\ marked = {}
    /\ m_sut_handler = None /\ stopping = None
    /\ handler = [tr \in Transports |-> "none"] /\ tests \in {[tr \in Transports |-> n] : n \in 0 .. MaxTests}
    /\ exited = {} /\ disabled = {} /\ ending = "no"

-----------------------------------------------------------------------------
(* Applications                                                            *)

PeerConnects(tr) ==
    /\ peer[tr] = "away" /\ pc # "ended"
    /\ peer' = [peer EXCEPT ![tr] = "connecting"]
    /\ UNCHANGED <<packets, sent, notified, m_connection, m_connection_transports, server, usage, m_on_connected_sut, users, threads>>

PeerSends(tr) ==
    /\ peer[tr] = "open" /\ sent[tr] < MaxPackets
    /\ sent' = [sent EXCEPT ![tr] = @ + 1]
    /\ packets' = [packets EXCEPT ![tr] = @ + 1] /\ notified' = notified \cup {tr}
    /\ UNCHANGED <<peer, m_connection, m_connection_transports, server, usage, m_on_connected_sut, users, threads>>

PeerCloses(tr) ==
    /\ peer[tr] = "open"
    /\ peer' = [peer EXCEPT ![tr] = "closed"]
    /\ UNCHANGED <<packets, sent, notified, m_connection, m_connection_transports, server, usage, m_on_connected_sut, users, threads>>

-----------------------------------------------------------------------------
(* Sockets                                                                 *)

\* The event loop is free for the next event.
Idle == pc = "idle" /\ ending # "closing"

KeepTransport(tr) == m_connection_transports \cup {tr}

\* NewConnection: the socket is connected, so AssignConnection has OnConnected queued.
NewConnection(tr) ==
    /\ Idle /\ peer[tr] = "connecting"
    /\ peer' = [peer EXCEPT ![tr] = "open"]
    /\ m_connection' = m_connection \cup {tr} /\ m_connection_transports' = KeepTransport(tr)
    /\ Post(<<<<"connected", tr>>>>)
    /\ UNCHANGED <<packets, sent, notified, pc, current, todo, ending, usage, m_on_connected_sut, users, threads>>

\* The transport must alarm until no data is available.
Alarm(tr) == IF tr \in m_connection /\ packets'[tr] > 0 THEN <<<<"ready", tr>>>> ELSE <<>>

\* ProcessTransport of the connection, if there is one, handles a packet.
ReadPacket(tr) ==
    packets' = [packets EXCEPT ![tr] = IF Alive(tr) /\ @ > 0 /\ tr \in m_connection THEN @ - 1 ELSE @]

\* OnReadyRead, by the socket.
OnReadyRead(tr) ==
    /\ Idle /\ tr \in notified \cap m_connection
    /\ ReadPacket(tr) /\ notified' = notified \ {tr}
    /\ Post(Alarm(tr))
    /\ UNCHANGED <<peer, sent, m_connection, m_connection_transports, pc, current, todo, ending, usage, m_on_connected_sut, users, threads>>

\* Variant: HandlerOnDisconnected only clears the transport.
DisconnectSlots_Clear(tr) == <<<<"clear", tr>>>>

\* The slots of HandlerOnDisconnected, in the order they were connected.
DisconnectSlots(tr) == <<<<"disconnected", tr>>, <<"clear", tr>>>>

\* OnError and OnDisconnected: both signals come, the second finds no socket.
OnSocketClosed(tr) ==
    /\ Idle /\ peer[tr] = "closed" /\ tr \in m_connection
    /\ m_connection' = m_connection \ {tr}
    /\ Post(DisconnectSlots(tr))
    /\ UNCHANGED <<peer, packets, sent, notified, m_connection_transports, pc, current, todo, ending, usage, m_on_connected_sut, users, threads>>

-----------------------------------------------------------------------------
(* Queued slots                                                            *)

\* The event loop takes the first queued slot.
Take(kind) == Idle /\ posted # <<>> /\ Head(posted)[1] = kind
Taken == Head(posted)[2]

\* OnReadyRead, by its own alarm.
OnAlarm ==
    /\ Take("ready")
    /\ ReadPacket(Taken)
    /\ posted' = Tail(posted) \o Alarm(Taken)
    /\ UNCHANGED <<peer, sent, notified, m_connection, m_connection_transports, pc, current, todo, ending, usage, m_on_connected_sut, users, threads>>

\* OnConnected: the connection is made, with a thread for its autotests, which
\* takes the place of the one before.
OnConnected ==
    /\ Take("connected") /\ posted' = Tail(posted)
    /\ current' = Taken
    /\ IF WithAutotests
       THEN /\ m_sut_handler' = Taken /\ handler' = [handler EXCEPT ![Taken] = "create"]
            /\ stopping' = m_sut_handler /\ pc' = IF m_sut_handler = None THEN "insert" ELSE "exit"
       ELSE pc' = "insert" /\ UNCHANGED <<m_sut_handler, handler, stopping>>
    /\ UNCHANGED <<net, todo, ending, usage, m_on_connected_sut, users, tests, exited, disabled>>

\* AddNewConnection: m_connections and m_on_connected_sut, under the lock.
AddNewConnection ==
    /\ pc = "insert" /\ pc' = "clients"
    /\ usage' = [usage EXCEPT ![current] = "newly_connected"]
    /\ m_on_connected_sut' = current
    /\ UNCHANGED <<net, current, todo, posted, ending, users, threads>>

\* RemoveExpiredClients: the clients to tell.
Told == {c \in m_clients : client[c] # "gone"}

RemoveExpiredClients ==
    /\ pc = "clients" /\ pc' = "tell"
    /\ m_clients' = {c \in m_clients : client[c] # "gone"}
    /\ todo' = Told
    /\ late' = late \cup {c \in Clients : client[c] = "adding"}
    /\ UNCHANGED <<net, current, posted, ending, usage, m_on_connected_sut, client, m_client_connections, marked, threads>>

\* SetOnConnectedSut of each client that is still there.
SetOnConnectedSut ==
    /\ pc = "tell"
    /\ \E c \in todo :
          /\ todo' = todo \ {c} /\ late' = late \ {c}
          /\ m_client_connections' = IF client[c] = "gone" THEN m_client_connections
                                     ELSE [m_client_connections EXCEPT ![c][OnConnectedSut] = current]
    /\ UNCHANGED <<net, pc, current, posted, ending, usage, m_on_connected_sut, m_clients, client, marked, threads>>

\* SignalChangeState(on_connected), at last.
SignalConnected ==
    /\ pc = "tell" /\ todo = {}
    /\ pc' = "idle" /\ current' = None
    /\ UNCHANGED <<net, todo, posted, ending, usage, m_on_connected_sut, users, threads>>

\* OnDisconnected: on_disconnected is signalled first.
OnDisconnected ==
    /\ Take("disconnected") /\ posted' = Tail(posted)
    /\ pc' = "remove" /\ current' = Taken
    /\ UNCHANGED <<net, todo, ending, usage, m_on_connected_sut, users, threads>>

\* Variant: the thread of the autotests is forgotten.
StopHandler_Not == None

\* m_sut_handler.reset().
StopHandler == m_sut_handler

RemoveConnection ==
    /\ pc = "remove"
    /\ usage' = [usage EXCEPT ![current] = None]
    /\ stopping' = StopHandler /\ m_sut_handler' = IF StopHandler = None THEN m_sut_handler ELSE None
    /\ current' = None /\ pc' = IF StopHandler = None THEN "idle" ELSE "exit"
    /\ UNCHANGED <<net, todo, posted, ending, m_on_connected_sut, users, handler, tests, exited, disabled>>

ClearConnection ==
    /\ Take("clear") /\ posted' = Tail(posted)
    /\ m_connection_transports' = m_connection_transports \ {Taken}
    /\ UNCHANGED <<peer, packets, sent, notified, m_connection, pc, current, todo, ending, usage, m_on_connected_sut, users, threads>>

-----------------------------------------------------------------------------
(* The thread of the autotests                                             *)

\* ~SutHandlerThread: requestInterruption and exit,
HandlerExit ==
    /\ pc = "exit" /\ pc' = "cancel"
    /\ exited' = exited \cup {stopping}
    /\ UNCHANGED <<net, current, todo, posted, ending, usage, m_on_connected_sut, users, m_sut_handler, stopping, handler, tests, disabled>>

\* Variant: calls that wait are left waiting.
CancelDisable_Not(tr) == UNCHANGED <<disabled, handler>>

\* CancelDisableWaitingCall: a call that waits returns, and later ones at once.
CancelDisable(tr) ==
    /\ disabled' = disabled \cup {tr}
    /\ handler' = IF handler[tr] = "call" THEN [handler EXCEPT ![tr] = "test"] ELSE handler

HandlerCancel ==
    /\ pc = "cancel" /\ pc' = "wait"
    /\ CancelDisable(stopping)
    /\ UNCHANGED <<net, current, todo, posted, ending, usage, m_on_connected_sut, users, m_sut_handler, stopping, tests, exited>>

\* wait(), after which OnConnected goes on, or Background_Main ends.
HandlerJoin ==
    /\ pc = "wait" /\ handler[stopping] = "finished"
    /\ stopping' = None
    /\ pc' = IF current # None THEN "insert" ELSE "idle"
    /\ UNCHANGED <<net, current, todo, posted, ending, usage, m_on_connected_sut, users, m_sut_handler, handler, tests, exited, disabled>>

\* The container creates the next autotest, or there is none.
HandlerCreate(tr) ==
    /\ handler[tr] = "create"
    /\ IF tests[tr] = 0 THEN handler' = [handler EXCEPT ![tr] = "finished"] /\ UNCHANGED tests
       ELSE handler' = [handler EXCEPT ![tr] = "test"] /\ tests' = [tests EXCEPT ![tr] = @ - 1]
    /\ UNCHANGED <<net, server, usage, m_on_connected_sut, users, m_sut_handler, stopping, exited, disabled>>

\* The autotest runs an event loop, calls the application through the thread of
\* the server, or returns.
HandlerRuns(tr) ==
    /\ handler[tr] = "test"
    /\ \/ handler' = [handler EXCEPT ![tr] = "create"] /\ UNCHANGED posted
       \/ tr \notin exited /\ handler' = [handler EXCEPT ![tr] = "loop"] /\ UNCHANGED posted
       \/ /\ tr \notin disabled /\ ~\E i \in DOMAIN posted : posted[i] = <<"call", tr>>
          /\ handler' = [handler EXCEPT ![tr] = "call"] /\ Post(<<<<"call", tr>>>>)
    /\ UNCHANGED <<net, pc, current, todo, ending, usage, m_on_connected_sut, users, m_sut_handler, stopping, tests, exited, disabled>>

\* The event loop ends, by QThread::exit or by a call of the application.
HandlerLoopExits(tr) ==
    /\ handler[tr] = "loop" /\ tr \in exited
    /\ handler' = [handler EXCEPT ![tr] = "test"]
    /\ UNCHANGED <<net, server, usage, m_on_connected_sut, users, m_sut_handler, stopping, tests, exited, disabled>>

HandlerIsCalled(tr) ==
    /\ handler[tr] = "loop" /\ Idle /\ tr \in m_connection
    /\ handler' = [handler EXCEPT ![tr] = "test"]
    /\ UNCHANGED <<net, server, usage, m_on_connected_sut, users, m_sut_handler, stopping, tests, exited, disabled>>

\* The server thread runs the call, unless it was cancelled.
RunHandlerCall ==
    /\ Take("call") /\ posted' = Tail(posted)
    /\ handler' = IF handler[Taken] = "call" THEN [handler EXCEPT ![Taken] = "test"] ELSE handler
    /\ UNCHANGED <<net, pc, current, todo, ending, usage, m_on_connected_sut, users, m_sut_handler, stopping, tests, exited, disabled>>

-----------------------------------------------------------------------------
(* Clients                                                                 *)

\* CreateClient: AddClient takes the connection there is...
CreateClient(c) ==
    /\ client[c] = "none" /\ pc # "ended"
    /\ client' = [client EXCEPT ![c] = "adding"]
    /\ m_client_connections' = [m_client_connections EXCEPT ![c][OnConnectedSut] = Lock(m_on_connected_sut)]
    /\ UNCHANGED <<net, server, usage, m_on_connected_sut, m_clients, late, marked, threads>>

\* ...and registers the client under another lock.
AddClient(c) ==
    /\ client[c] = "adding"
    /\ client' = [client EXCEPT ![c] = "used"] /\ m_clients' = m_clients \cup {c}
    /\ UNCHANGED <<net, server, usage, m_on_connected_sut, m_client_connections, late, marked, threads>>

DestroyClient(c) ==
    /\ client[c] = "used"
    /\ client' = [client EXCEPT ![c] = "gone"]
    /\ UNCHANGED <<net, server, usage, m_on_connected_sut, m_clients, m_client_connections, late, marked, threads>>

\* Variant: what the other indexes refer to is not looked at.
StillUsed_Not(slots, tr) == FALSE

\* The connection is in use by another index of the client.
StillUsed(slots, tr) == \E i \in Indexes : slots[i] = tr

\* ClearIpcUseLocked: the slots, and the connection that is no longer used.
ClearIpcUse(slots, i) ==
    LET tr == IF i \in Indexes THEN Lock(slots[i]) ELSE None
        cleared == [slots EXCEPT ![i] = None]
    IN  IF tr = None THEN [slots |-> slots, unused |-> {}]
        ELSE [slots |-> cleared, unused |-> IF StillUsed(cleared, tr) THEN {} ELSE {tr}]

SetUsage(trs, u) == [tr \in Transports |-> IF tr \in trs /\ usage[tr] # None THEN u ELSE usage[tr]]

\* Connections_SetIpcUse; for on_connected_sut SetConnectionLocked refuses.
ConnectionsSetIpcUse(c, tr, i) ==
    LET clear == ClearIpcUse(m_client_connections[c], i)
        found == usage[tr] # None
        set == found /\ i \in Indexes
    IN  /\ client[c] = "used"
        /\ m_client_connections' = [m_client_connections EXCEPT ![c] = IF set THEN [clear.slots EXCEPT ![i] = tr] ELSE clear.slots]
        /\ usage' = IF set THEN [SetUsage(clear.unused, "not_used") EXCEPT ![tr] = "use_ipc_call"]
                    ELSE SetUsage(clear.unused, "not_used")
        /\ UNCHANGED <<net, server, m_on_connected_sut, m_clients, client, late, marked, threads>>

ConnectionsClearIpcUse(c, i) ==
    LET clear == ClearIpcUse(m_client_connections[c], i)
    IN  /\ client[c] = "used"
        /\ m_client_connections' = [m_client_connections EXCEPT ![c] = clear.slots]
        /\ usage' = SetUsage(clear.unused, "not_used")
        /\ UNCHANGED <<net, server, m_on_connected_sut, m_clients, client, late, marked, threads>>

\* Connections_SetUsed and Connections_SetNotUsed.
ConnectionsSetUsage(c, tr, u) ==
    /\ client[c] = "used" /\ usage[tr] # None
    /\ usage' = [usage EXCEPT ![tr] = u] /\ marked' = marked \cup {tr}
    /\ UNCHANGED <<net, server, m_on_connected_sut, m_clients, client, m_client_connections, late, threads>>

-----------------------------------------------------------------------------
(* The end                                                                 *)

\* Stop: the thread is asked to leave its event loop.
Stop ==
    /\ ending = "no" /\ ending' = "asked"
    /\ UNCHANGED <<net, pc, current, todo, posted, usage, m_on_connected_sut, users, threads>>

\* The event loop of Background_Main returns, and ~ServerInternals stops the
\* thread of the autotests.
BackgroundLoopEnds ==
    /\ pc = "idle" /\ ending = "asked" /\ ending' = "closing"
    /\ stopping' = m_sut_handler /\ m_sut_handler' = None
    /\ pc' = IF m_sut_handler = None THEN "idle" ELSE "exit"
    /\ UNCHANGED <<net, current, todo, posted, usage, m_on_connected_sut, users, handler, tests, exited, disabled>>

BackgroundReturns ==
    /\ pc = "idle" /\ ending = "closing" /\ pc' = "ended"
    /\ posted' = <<>> /\ m_connection' = {} /\ m_connection_transports' = {}
    /\ UNCHANGED <<peer, packets, sent, notified, current, todo, ending, usage, m_on_connected_sut, users, threads>>

-----------------------------------------------------------------------------
Sockets ==
    \E tr \in Transports : NewConnection(tr) \/ OnReadyRead(tr) \/ OnSocketClosed(tr)

Slot ==
    \/ OnAlarm \/ OnConnected \/ AddNewConnection \/ RemoveExpiredClients \/ SetOnConnectedSut \/ SignalConnected
    \/ OnDisconnected \/ RemoveConnection \/ ClearConnection \/ RunHandlerCall
    \/ HandlerExit \/ HandlerCancel \/ HandlerJoin \/ BackgroundLoopEnds \/ BackgroundReturns

Handler(tr) == HandlerCreate(tr) \/ HandlerRuns(tr) \/ HandlerLoopExits(tr)

Applications == \E tr \in Transports : PeerConnects(tr) \/ PeerSends(tr) \/ PeerCloses(tr) \/ HandlerIsCalled(tr)

Use(c) ==
    \/ CreateClient(c) \/ AddClient(c) \/ DestroyClient(c)
    \/ \E i \in Slots : ConnectionsClearIpcUse(c, i) \/ \E tr \in Transports : ConnectionsSetIpcUse(c, tr, i)
    \/ \E tr \in Transports, u \in {"use_ipc_call", "not_used"} : ConnectionsSetUsage(c, tr, u)

Next == Sockets \/ Slot \/ (\E tr \in Transports : Handler(tr)) \/ Applications \/ (\E c \in Clients : Use(c)) \/ Stop

Spec == Init /\ [][Next]_vars

\* The two threads are scheduled, an autotest returns when its waits do, and
\* an event loop that was told to exit takes no events for ever.
Fairness ==
    /\ WF_vars(Sockets) /\ WF_vars(Slot) /\ WF_vars(BackgroundLoopEnds)
    /\ \A tr \in Transports : WF_vars(Handler(tr))

FairSpec == Spec /\ Fairness

-----------------------------------------------------------------------------
\* The server's tables refer to transports, and only a transport it has can
\* have a socket.
TypeOK ==
    /\ \A tr \in Transports : usage[tr] \in Usages \cup {None}
    /\ m_connection \subseteq m_connection_transports
    /\ m_sut_handler \in Transports \cup {None} /\ stopping \in Transports \cup {None}
    /\ \A c \in Clients : m_client_connections[c] \in [Slots -> Transports \cup {None}]

Queued(kind, tr) == \E i \in DOMAIN posted : posted[i] = <<kind, tr>>

\* m_connections has the connections whose sockets are open and those whose
\* end is still in the queue: none is forgotten, however soon a disconnection
\* follows the connection (OnConnected and OnDisconnected are queued slots).
NoGhostConnections ==
    ending = "no" => \A tr \in Transports :
        /\ usage[tr] # None => tr \in m_connection \/ Queued("disconnected", tr) \/ current = tr
        /\ tr \in m_connection => usage[tr] # None \/ Queued("connected", tr) \/ current = tr
        /\ tr \in m_connection_transports => tr \in m_connection \/ Queued("clear", tr)

\* When a connection has been announced every client has it as its
\* on_connected_sut, whether it came before or after, except one that was
\* being added at that very moment (AddClient takes two locks in turn).
NewestKnown ==
    \A c \in m_clients \ late :
        pc = "idle" /\ client[c] = "used" /\ Alive(m_on_connected_sut) =>
            m_client_connections[c][OnConnectedSut] = m_on_connected_sut

\* The thread that runs autotests belongs to a connection that is still there,
\* and no other one runs, once the server thread is done with an event.
AutotestsOfConnection ==
    /\ pc = "idle" /\ m_sut_handler # None => usage[m_sut_handler] # None
    /\ \A tr \in Transports : handler[tr] \notin {"none", "finished"} => tr \in {m_sut_handler, stopping}

\* While there is one client, a connection is in use if and only if one of its
\* indexes refers to it, unless the client has set the usage itself
\* (Connections_SetIpcUse and ClearIpcUseLocked keep both in step).
UsageMatches ==
    \A tr \in Transports \ marked : usage[tr] # None =>
        (usage[tr] = "use_ipc_call" <=> \E c \in Clients, i \in Indexes : m_client_connections[c][i] = tr)

\* The server thread is never stuck in a connection or a disconnection: the
\* autotests it waits for end, though they may wait for calls that only this
\* thread could run.
ServerGoesOn == pc # "idle" ~> pc \in {"idle", "ended"}

\* What an application has sent is read, also what came before its connection
\* was made, unless the connection or the server ends (OnReadyRead alarms
\* itself until no data is available).
PacketsRead == \A tr \in Transports : packets[tr] > 0 ~> (packets[tr] = 0 \/ peer[tr] = "closed" \/ ending # "no")

\* Stop returns.
StopReturns == ending = "asked" ~> pc = "ended"

\* The server and its clients know the connections that exist and only those,
\* though they come and go while slots are queued.
ConnectionsKnown == TypeOK /\ NoGhostConnections /\ NewestKnown

\* The server thread always comes back to its event loop, reads what applications
\* send, and ends when it is stopped.
ServerServes == ServerGoesOn /\ StopReturns /\ PacketsRead
=============================================================================
