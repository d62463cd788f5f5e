------------------------ MODULE AutotestServer_proofs ------------------------
(***************************************************************************)
(* ConnectionsKnown, AutotestsOfConnection and UsageMatches of              *)
(* AutotestServer, for any number of connections and clients.               *)
(***************************************************************************)
EXTENDS AutotestServer, TLAPS

Event == {"ready", "connected", "disconnected", "clear", "call"} \X Transports

Types ==
    /\ peer \in [Transports -> {"away", "connecting", "open", "closed"}]
    /\ posted \in Seq(Event)
    /\ m_connection \subseteq m_connection_transports /\ m_connection_transports \subseteq Transports
    /\ usage \in [Transports -> Usages \cup {None}]
    /\ {current, m_on_connected_sut, m_sut_handler, stopping} \subseteq Transports \cup {None}
    /\ client \in [Clients -> {"none", "adding", "used", "gone"}]
    /\ m_client_connections \in [Clients -> [Slots -> Transports \cup {None}]]
    /\ handler \in [Transports -> {"none", "create", "test", "loop", "call", "finished"}]
    /\ m_clients \subseteq Clients /\ todo \subseteq Clients

Within(q, kind, tr) == \E i \in DOMAIN q : q[i] = <<kind, tr>>

\* A connection is queued once, and a disconnection once and after it.
InOrder(q) ==
    \A i, j \in DOMAIN q :
        (i < j /\ q[i][2] = q[j][2] /\ {q[i][1], q[j][1]} \subseteq {"connected", "disconnected"})
            => q[i][1] = "connected" /\ q[j][1] = "disconnected"

-----------------------------------------------------------------------------
\* The way of a connection: nothing is known of it, it is accepted and on its
\* way to m_connections, it is there, and its end is queued and carried out.
Early(tr) == peer[tr] \in {"away", "connecting"}
Bringing(tr) == current = tr /\ pc \in {"exit", "cancel", "wait", "insert"}
Coming(tr) == Within(posted, "connected", tr) \/ Bringing(tr)
Known(tr) == usage[tr] # None
Going(tr) == tr \in m_connection \/ Within(posted, "disconnected", tr)
Leaving(tr) == current = tr /\ pc = "remove"

ConnectionRight(tr) ==
    /\ Early(tr) => /\ ~Coming(tr) /\ ~Known(tr) /\ ~Going(tr) /\ ~Leaving(tr) /\ m_on_connected_sut # tr
                    /\ tr \notin m_connection_transports /\ ~Within(posted, "clear", tr)
    /\ Within(posted, "disconnected", tr) \/ Within(posted, "clear", tr) => tr \notin m_connection
    /\ tr \in m_connection_transports => tr \in m_connection \/ Within(posted, "clear", tr)
    /\ Coming(tr) => Going(tr) /\ ~Known(tr) /\ m_on_connected_sut # tr
    /\ Going(tr) => Coming(tr) \/ Known(tr)
    /\ Known(tr) /\ pc # "ended" => Going(tr) \/ Leaving(tr)
    /\ Leaving(tr) => Known(tr) /\ ~Going(tr)
    /\ Bringing(tr) => ~Within(posted, "connected", tr)

ConnInv == InOrder(posted) /\ \A tr \in Transports : ConnectionRight(tr)

\* What the server thread does, for which connection, and whose autotests run.
ThreadInv ==
    /\ pc \in {"idle", "exit", "cancel", "wait", "insert", "clients", "tell", "remove", "ended"}
    /\ pc = "ended" => ending = "closing"
    /\ pc \in {"idle", "ended"} => current = None
    /\ pc \in {"insert", "clients", "tell", "remove"} => current # None
    /\ pc \in {"exit", "cancel", "wait"} <=> stopping # None
    /\ pc \in {"clients", "tell"} => current = m_on_connected_sut
    /\ m_sut_handler # None => Known(m_sut_handler) \/ Bringing(m_sut_handler)
    /\ \A tr \in Transports : handler[tr] \notin {"none", "finished"} => tr \in {m_sut_handler, stopping}

\* Client c has been told of the connection, or will be.
ToldOf(c) == pc # "clients" /\ ~(pc = "tell" /\ c \in todo)

NewestOf(c) ==
    client[c] \in {"adding", "used"} /\ c \notin late /\ ToldOf(c) /\ Alive(m_on_connected_sut) =>
        m_client_connections[c][OnConnectedSut] = m_on_connected_sut

NewestInv ==
    /\ \A c \in Clients : /\ client[c] = "used" => c \in m_clients
                          /\ c \in m_clients => client[c] \in {"used", "gone"}
    /\ \A c \in Clients : NewestOf(c)

\* An index refers to a connection that has come.
SlotInv ==
    \A c \in Clients, i \in Indexes, tr \in Transports :
        m_client_connections[c][i] = tr => ~Early(tr) /\ ~Coming(tr)

ServerInv == Types /\ ConnInv /\ ThreadInv /\ NewestInv /\ SlotInv

-----------------------------------------------------------------------------
(* The queue                                                               *)

\* What is in a queue that was added to.
LEMMA Joined ==
  ASSUME NEW q \in Seq(Event), NEW s \in Seq(Event)
  PROVE  /\ q \o s \in Seq(Event)
         /\ \A k, tr : Within(q \o s, k, tr) <=> Within(q, k, tr) \/ Within(s, k, tr)
<1>1. q \o s \in Seq(Event) /\ Len(q \o s) = Len(q) + Len(s) /\ Len(q) \in Nat /\ Len(s) \in Nat
  OBVIOUS
<1>2. \A i \in 1 .. Len(q) + Len(s) : (q \o s)[i] = IF i =< Len(q) THEN q[i] ELSE s[i - Len(q)]
  OBVIOUS
<1>3. DOMAIN q = 1 .. Len(q) /\ DOMAIN s = 1 .. Len(s) /\ DOMAIN (q \o s) = 1 .. Len(q) + Len(s)
  BY <1>1
<1>4. ASSUME NEW k, NEW tr, Within(q \o s, k, tr) PROVE Within(q, k, tr) \/ Within(s, k, tr)
  <2>1. PICK i \in DOMAIN (q \o s) : (q \o s)[i] = <<k, tr>>
    BY <1>4 DEF Within
  <2>2. CASE i =< Len(q)
    BY <1>1, <1>2, <1>3, <2>1, <2>2 DEF Within
  <2>3. CASE ~(i =< Len(q))
    <3>1. i - Len(q) \in DOMAIN s /\ s[i - Len(q)] = <<k, tr>>
      BY <1>1, <1>2, <1>3, <2>1, <2>3
    <3>2. QED
      BY <3>1 DEF Within
  <2>4. QED
    BY <2>2, <2>3
<1>5. ASSUME NEW k, NEW tr, Within(q, k, tr) PROVE Within(q \o s, k, tr)
  <2>1. PICK i \in DOMAIN q : q[i] = <<k, tr>>
    BY <1>5 DEF Within
  <2>2. i \in DOMAIN (q \o s) /\ (q \o s)[i] = <<k, tr>>
    BY <1>1, <1>2, <1>3, <2>1
  <2>3. QED
    BY <2>2 DEF Within
<1>6. ASSUME NEW k, NEW tr, Within(s, k, tr) PROVE Within(q \o s, k, tr)
  <2>1. PICK i \in DOMAIN s : s[i] = <<k, tr>>
    BY <1>6 DEF Within
  <2>2. Len(q) + i \in DOMAIN (q \o s) /\ (q \o s)[Len(q) + i] = <<k, tr>>
    BY <1>1, <1>2, <1>3, <2>1
  <2>3. QED
    BY <2>2 DEF Within
<1>7. QED
  BY <1>1, <1>4, <1>5, <1>6

\* What is in a queue whose first event was taken.
LEMMA Shifted ==
  ASSUME NEW q \in Seq(Event), q # <<>>
  PROVE  /\ Tail(q) \in Seq(Event) /\ Head(q) \in Event
         /\ \A k, tr : Within(q, k, tr) <=> Head(q) = <<k, tr>> \/ Within(Tail(q), k, tr)
<1>1. Tail(q) \in Seq(Event) /\ Head(q) \in Event /\ Len(q) \in Nat /\ Len(q) > 0 /\ Len(Tail(q)) = Len(q) - 1
  OBVIOUS
<1>2. \A i \in 1 .. Len(q) - 1 : Tail(q)[i] = q[i + 1]
  OBVIOUS
<1>3. DOMAIN q = 1 .. Len(q) /\ DOMAIN Tail(q) = 1 .. Len(q) - 1 /\ Head(q) = q[1]
  BY <1>1
<1>4. ASSUME NEW k, NEW tr, Within(q, k, tr) PROVE Head(q) = <<k, tr>> \/ Within(Tail(q), k, tr)
  <2>1. PICK i \in DOMAIN q : q[i] = <<k, tr>>
    BY <1>4 DEF Within
  <2>2. CASE i = 1
    BY <1>3, <2>1, <2>2
  <2>3. CASE i # 1
    <3>1. i - 1 \in DOMAIN Tail(q) /\ Tail(q)[i - 1] = <<k, tr>>
      BY <1>1, <1>2, <1>3, <2>1, <2>3
    <3>2. QED
      BY <3>1 DEF Within
  <2>4. QED
    BY <2>2, <2>3
<1>5. ASSUME NEW k, NEW tr, Within(Tail(q), k, tr) PROVE Within(q, k, tr)
  <2>1. PICK i \in DOMAIN Tail(q) : Tail(q)[i] = <<k, tr>>
    BY <1>5 DEF Within
  <2>2. i + 1 \in DOMAIN q /\ q[i + 1] = <<k, tr>>
    BY <1>1, <1>2, <1>3, <2>1
  <2>3. QED
    BY <2>2 DEF Within
<1>6. ASSUME NEW k, NEW tr, Head(q) = <<k, tr>> PROVE Within(q, k, tr)
  <2>1. 1 \in DOMAIN q /\ q[1] = <<k, tr>>
    BY <1>1, <1>3, <1>6
  <2>2. QED
    BY <2>1 DEF Within
<1>7. QED
  BY <1>1, <1>4, <1>5, <1>6

\* The order of a queue whose first event was taken.
LEMMA ShiftedOrder ==
  ASSUME NEW q \in Seq(Event), q # <<>>, InOrder(q)
  PROVE  /\ InOrder(Tail(q))
         /\ \A tr : Head(q) = <<"connected", tr>> => ~Within(Tail(q), "connected", tr)
         /\ \A tr : Head(q) = <<"disconnected", tr>> =>
                        ~Within(Tail(q), "connected", tr) /\ ~Within(Tail(q), "disconnected", tr)
<1>1. Tail(q) \in Seq(Event) /\ Len(q) \in Nat /\ Len(q) > 0 /\ Len(Tail(q)) = Len(q) - 1
  OBVIOUS
<1>2. \A i \in 1 .. Len(q) - 1 : Tail(q)[i] = q[i + 1]
  OBVIOUS
<1>3. DOMAIN q = 1 .. Len(q) /\ DOMAIN Tail(q) = 1 .. Len(q) - 1 /\ Head(q) = q[1]
  BY <1>1
<1>4. InOrder(Tail(q))
  <2>1. ASSUME NEW i \in DOMAIN Tail(q), NEW j \in DOMAIN Tail(q), i < j
        PROVE  i + 1 \in DOMAIN q /\ j + 1 \in DOMAIN q /\ i + 1 < j + 1 /\ Tail(q)[i] = q[i + 1] /\ Tail(q)[j] = q[j + 1]
    BY <1>1, <1>2, <1>3, <2>1
  <2>2. QED
    BY <2>1 DEF InOrder
<1>5. ASSUME NEW k \in {"connected", "disconnected"}, NEW l \in {"connected", "disconnected"}, NEW tr,
             Head(q) = <<k, tr>>, Within(Tail(q), l, tr)
      PROVE  k = "connected" /\ l = "disconnected"
  <2>1. PICK i \in DOMAIN Tail(q) : Tail(q)[i] = <<l, tr>>
    BY <1>5 DEF Within
  <2>2. 1 \in DOMAIN q /\ i + 1 \in DOMAIN q /\ 1 < i + 1 /\ q[1] = <<k, tr>> /\ q[i + 1] = <<l, tr>>
    BY <1>1, <1>2, <1>3, <1>5, <2>1
  <2>3. q[1][2] = q[i + 1][2] /\ {q[1][1], q[i + 1][1]} \subseteq {"connected", "disconnected"}
    BY <2>2
  <2>4. q[1][1] = "connected" /\ q[i + 1][1] = "disconnected"
    BY <2>2, <2>3 DEF InOrder
  <2>5. QED
    BY <2>2, <2>4
<1>6. QED
  BY <1>4, <1>5

\* The order of a queue that was added to.
LEMMA JoinedOrder ==
  ASSUME NEW q \in Seq(Event), NEW s \in Seq(Event), InOrder(q), InOrder(s),
         \A tr : Within(s, "connected", tr) => ~Within(q, "connected", tr) /\ ~Within(q, "disconnected", tr),
         \A tr : Within(s, "disconnected", tr) => ~Within(q, "disconnected", tr)
  PROVE  InOrder(q \o s)
<1>1. q \o s \in Seq(Event) /\ Len(q \o s) = Len(q) + Len(s) /\ Len(q) \in Nat /\ Len(s) \in Nat
  OBVIOUS
<1>2. \A i \in 1 .. Len(q) + Len(s) : (q \o s)[i] = IF i =< Len(q) THEN q[i] ELSE s[i - Len(q)]
  OBVIOUS
<1>3. DOMAIN q = 1 .. Len(q) /\ DOMAIN s = 1 .. Len(s) /\ DOMAIN (q \o s) = 1 .. Len(q) + Len(s)
  BY <1>1
<1>4. ASSUME NEW i \in DOMAIN (q \o s), NEW j \in DOMAIN (q \o s), NEW x, x = (q \o s)[i], NEW y, y = (q \o s)[j],
             i < j, x[2] = y[2], {x[1], y[1]} \subseteq {"connected", "disconnected"}
      PROVE  x[1] = "connected" /\ y[1] = "disconnected"
  <2>1. CASE j =< Len(q)
    <3>1. i \in DOMAIN q /\ j \in DOMAIN q /\ x = q[i] /\ y = q[j]
      BY <1>1, <1>2, <1>3, <1>4, <2>1
    <3>2. QED
      BY <1>4, <3>1 DEF InOrder
  <2>2. CASE ~(i =< Len(q))
    <3>1. /\ i - Len(q) \in DOMAIN s /\ j - Len(q) \in DOMAIN s /\ i - Len(q) < j - Len(q)
          /\ x = s[i - Len(q)] /\ y = s[j - Len(q)]
      BY <1>1, <1>2, <1>3, <1>4, <2>2
    <3>2. QED
      BY <1>4, <3>1 DEF InOrder
  <2>3. CASE i =< Len(q) /\ ~(j =< Len(q))
    <3>1. i \in DOMAIN q /\ j - Len(q) \in DOMAIN s /\ x = q[i] /\ y = s[j - Len(q)]
      BY <1>1, <1>2, <1>3, <1>4, <2>3
    <3>2. x \in Event /\ y \in Event
      BY <3>1
    <3>3. x = <<x[1], x[2]>> /\ y = <<y[1], y[2]>>
      BY <3>2 DEF Event
    <3>4. Within(q, x[1], x[2]) /\ Within(s, y[1], x[2])
      BY <1>4, <3>1, <3>3 DEF Within
    <3>5. QED
      BY <1>4, <3>4
  <2>4. QED
    BY <1>1, <1>3, <2>1, <2>2, <2>3
<1>5. QED
  BY <1>4 DEF InOrder

\* A queue of one or two events.
LEMMA Queue1 ==
  ASSUME NEW e \in Event
  PROVE  /\ <<e>> \in Seq(Event) /\ InOrder(<<e>>)
         /\ \A k, tr : Within(<<e>>, k, tr) <=> e = <<k, tr>>
BY DEF InOrder, Within

\* What OnSocketClosed posts: the disconnection, then the clearing.
LEMMA Queue2 ==
  ASSUME NEW x \in Transports
  PROVE  LET s == <<<<"disconnected", x>>, <<"clear", x>>>>
         IN  /\ s \in Seq(Event) /\ InOrder(s)
             /\ \A k, tr : Within(s, k, tr) <=> tr = x /\ k \in {"disconnected", "clear"}
<1> DEFINE s == <<<<"disconnected", x>>, <<"clear", x>>>>
<1>1. <<"disconnected", x>> \in Event /\ <<"clear", x>> \in Event
  BY DEF Event
<1>2. s \in Seq(Event) /\ DOMAIN s = {1, 2} /\ s[1] = <<"disconnected", x>> /\ s[2] = <<"clear", x>>
  BY <1>1
<1>3. InOrder(s)
  BY <1>2 DEF InOrder
<1>4. \A k, tr : Within(s, k, tr) <=> <<k, tr>> = <<"disconnected", x>> \/ <<k, tr>> = <<"clear", x>>
  BY <1>2 DEF Within
<1>5. QED
  BY <1>2, <1>3, <1>4

-----------------------------------------------------------------------------
(* Types                                                                   *)

\* The initial state is well formed.
LEMMA TypesInit == Init => Types
<1> SUFFICES ASSUME Init PROVE Types
  OBVIOUS
<1>1. posted \in Seq(Event)
  BY DEF Init
<1>2. m_client_connections \in [Clients -> [Slots -> Transports \cup {None}]]
  BY DEF Init
<1>3. QED
  BY <1>1, <1>2 DEF Init, Types

\* The alarm, and what an event of the queue is about.
LEMMA Alarmed ==
  ASSUME NEW tr \in Transports, NEW s, s = Alarm(tr)
  PROVE  s \in Seq(Event) /\ InOrder(s) /\ \A k, x : Within(s, k, x) => k = "ready"
<1>1. CASE s = <<>>
  BY <1>1 DEF InOrder, Within
<1>2. CASE s = <<<<"ready", tr>>>>
  <2>1. <<"ready", tr>> \in Event
    BY DEF Event
  <2>2. \A k, x : <<"ready", tr>> = <<k, x>> => k = "ready"
    OBVIOUS
  <2>3. QED
    BY <1>2, <2>1, <2>2, Queue1
<1>3. QED
  BY <1>1, <1>2 DEF Alarm

\* A slot that is taken is the first of the queue; the others stay.
LEMMA Taking ==
  ASSUME Types, NEW kind, Take(kind)
  PROVE  /\ Taken \in Transports /\ Head(posted) = <<kind, Taken>> /\ Tail(posted) \in Seq(Event)
         /\ \A k, tr : Within(posted, k, tr) <=> <<kind, Taken>> = <<k, tr>> \/ Within(Tail(posted), k, tr)
<1>1. posted \in Seq(Event) /\ posted # <<>> /\ Head(posted)[1] = kind
  BY DEF Types, Take
<1>2. Head(posted) \in Event
  BY <1>1, Shifted
<1>3. Head(posted)[2] \in Transports /\ Head(posted) = <<kind, Head(posted)[2]>>
  BY <1>1, <1>2 DEF Event
<1>4. QED
  BY <1>1, <1>3, Shifted DEF Taken

\* What a client's own steps do to the slots and to the usage.
LEMMA Clearing ==
  ASSUME NEW slots \in [Slots -> Transports \cup {None}], NEW i \in Slots, NEW r, r = ClearIpcUse(slots, i)
  PROVE  /\ r.slots \in [Slots -> Transports \cup {None}] /\ r.unused \subseteq Transports
         /\ \A j \in Slots : r.slots[j] = slots[j] \/ (j = i /\ i \in Indexes /\ r.slots[j] = None)
BY DEF ClearIpcUse, Lock

\* Setting the usage of connections keeps which of them have one.
LEMMA UsageSet ==
  ASSUME Types, NEW trs, NEW u \in Usages, NEW r, r = SetUsage(trs, u)
  PROVE  r \in [Transports -> Usages \cup {None}] /\ \A tr \in Transports : r[tr] = None <=> usage[tr] = None
BY AutotestServerNames DEF SetUsage, Types

-----------------------------------------------------------------------------
(* What the steps do to the queue                                          *)

\* The events of connections in the queue stay as they are.
QueueKept ==
    /\ posted' \in Seq(Event) /\ InOrder(posted')
    /\ \A tr \in Transports, k \in {"connected", "disconnected", "clear"} :
           Within(posted', k, tr) <=> Within(posted, k, tr)

\* Data is read, and autotests run and call the application.
Reading == OnAlarm \/ RunHandlerCall \/ \E tr \in Transports : OnReadyRead(tr) \/ Handler(tr)

\* A queue that did not change is still in order.
LEMMA Unposted == ASSUME Types, ConnInv, posted' = posted PROVE QueueKept
BY DEF Types, ConnInv, QueueKept

\* New slots behind a queue in order, none of them about a connection, keep it
\* in order.
LEMMA Added ==
  ASSUME Types, ConnInv, NEW q \in Seq(Event), InOrder(q), NEW s \in Seq(Event), InOrder(s),
         \A k, x : Within(s, k, x) => k \notin {"connected", "disconnected", "clear"},
         posted' = q \o s,
         \A tr \in Transports, k \in {"connected", "disconnected", "clear"} : Within(posted, k, tr) <=> Within(q, k, tr)
  PROVE  QueueKept
<1>1. InOrder(q \o s)
  BY JoinedOrder
<1>2. q \o s \in Seq(Event) /\ \A k, tr : Within(q \o s, k, tr) <=> Within(q, k, tr) \/ Within(s, k, tr)
  BY Joined
<1>3. QED
  BY <1>1, <1>2 DEF QueueKept

\* Steps that receive packets and run their handlers keep the order of the queue.
LEMMA ReadingQueue == ASSUME Types, ConnInv, Reading PROVE QueueKept
<1> posted \in Seq(Event) /\ InOrder(posted)
  BY DEF Types, ConnInv
<1>1. ASSUME NEW tr \in Transports, OnReadyRead(tr) PROVE QueueKept
  <2>1. PICK s : s = Alarm(tr)
    OBVIOUS
  <2>2. s \in Seq(Event) /\ InOrder(s) /\ \A k, x : Within(s, k, x) => k = "ready"
    BY <2>1, Alarmed
  <2>3. posted' = posted \o s
    BY <1>1, <2>1 DEF OnReadyRead, Post
  <2>4. QED
    BY <2>2, <2>3, Added
<1>2. CASE OnAlarm
  <2>1. PICK x, s, q : x = Taken /\ s = Alarm(Taken) /\ q = Tail(posted)
    OBVIOUS
  <2>2. x \in Transports /\ q \in Seq(Event) /\ \A k, y : Within(posted, k, y) <=> <<"ready", x>> = <<k, y>> \/ Within(q, k, y)
    BY <1>2, <2>1, Taking DEF OnAlarm
  <2>3. s \in Seq(Event) /\ InOrder(s) /\ \A k, y : Within(s, k, y) => k = "ready"
    BY <2>1, <2>2, Alarmed
  <2>4. posted' = q \o s
    BY <1>2, <2>1 DEF OnAlarm
  <2>5. InOrder(q)
    BY <1>2, <2>1, ShiftedOrder DEF OnAlarm, Take
  <2>6. QED
    BY <2>2, <2>3, <2>4, <2>5, Added
<1>3. CASE RunHandlerCall
  <2>1. PICK x, q : x = Taken /\ q = Tail(posted)
    OBVIOUS
  <2>2. x \in Transports /\ q \in Seq(Event) /\ \A k, y : Within(posted, k, y) <=> <<"call", x>> = <<k, y>> \/ Within(q, k, y)
    BY <1>3, <2>1, Taking DEF RunHandlerCall
  <2>3. InOrder(q)
    BY <1>3, <2>1, ShiftedOrder DEF RunHandlerCall, Take
  <2>4. posted' = q
    BY <1>3, <2>1 DEF RunHandlerCall
  <2>5. QED
    BY <2>2, <2>3, <2>4 DEF QueueKept
<1>4. ASSUME NEW tr \in Transports, Handler(tr) PROVE QueueKept
  <2>1. CASE posted' = posted
    BY <2>1, Unposted
  <2>2. CASE posted' = posted \o <<<<"call", tr>>>>
    <3>1. <<"call", tr>> \in Event /\ \A k, x : <<"call", tr>> = <<k, x>> => k = "call"
      BY DEF Event
    <3>2. PICK e : e = <<"call", tr>>
      OBVIOUS
    <3>3. <<e>> \in Seq(Event) /\ InOrder(<<e>>) /\ \A k, x : Within(<<e>>, k, x) => k = "call"
      BY <3>1, <3>2, Queue1
    <3>4. QED
      BY <2>2, <3>2, <3>3, Added
  <2>3. QED
    BY <1>4, <2>1, <2>2 DEF Handler, HandlerCreate, HandlerRuns, HandlerLoopExits, server, Post
<1>5. QED
  BY <1>1, <1>2, <1>3, <1>4 DEF Reading

\* The server thread goes on with what it does; and what is done elsewhere.
GoesOn ==
    \/ RemoveExpiredClients \/ SetOnConnectedSut \/ SignalConnected
    \/ HandlerExit \/ HandlerCancel \/ HandlerJoin \/ BackgroundLoopEnds

Elsewhere == Applications \/ Stop \/ \E c \in Clients : Use(c)

\* So do the steps inside a slot and those of clients.
LEMMA QuietQueue == ASSUME Types, ConnInv, GoesOn \/ Elsewhere PROVE posted' = posted /\ QueueKept
<1>1. CASE GoesOn
  BY <1>1, Unposted DEF GoesOn, RemoveExpiredClients, SetOnConnectedSut, SignalConnected, HandlerExit, HandlerCancel,
                        HandlerJoin, BackgroundLoopEnds
<1>2. CASE Elsewhere
  <2>1. CASE Applications \/ Stop
    BY <2>1, Unposted DEF Applications, Stop, PeerConnects, PeerSends, PeerCloses, HandlerIsCalled, server
  <2>2. ASSUME NEW c \in Clients, Use(c) PROVE posted' = posted
    BY <2>2 DEF Use, CreateClient, AddClient, DestroyClient, ConnectionsSetIpcUse, ConnectionsClearIpcUse,
                ConnectionsSetUsage, server
  <2>3. QED
    BY <1>2, <2>1, <2>2, Unposted DEF Elsewhere
<1>3. QED
  BY <1>1, <1>2

\* A step is one of these.
LEMMA NextCases ==
  ASSUME Next
  PROVE  \/ \E tr \in Transports : NewConnection(tr) \/ OnSocketClosed(tr)
         \/ ClearConnection \/ OnConnected \/ AddNewConnection \/ OnDisconnected \/ RemoveConnection \/ BackgroundReturns
         \/ Reading \/ GoesOn \/ Elsewhere
<1>1. CASE Sockets
  BY <1>1 DEF Sockets, Reading
<1>2. CASE Slot
  BY <1>2 DEF Slot, Reading, GoesOn
<1>3. CASE Applications \/ Stop \/ \E c \in Clients : Use(c)
  BY <1>3 DEF Elsewhere
<1>4. CASE \E tr \in Transports : Handler(tr)
  BY <1>4 DEF Reading
<1>5. QED
  BY <1>1, <1>2, <1>3, <1>4 DEF Next

\* What the steps of a client do to the slots and to the usage.
LEMMA Using ==
  ASSUME Types, NEW c \in Clients, Use(c)
  PROVE  /\ usage' \in [Transports -> Usages \cup {None}]
         /\ m_client_connections' \in [Clients -> [Slots -> Transports \cup {None}]]
         /\ \A tr \in Transports : Known(tr)' <=> Known(tr)
<1> m_client_connections[c] \in [Slots -> Transports \cup {None}] /\ Indexes \subseteq Slots /\ OnConnectedSut \in Slots
  BY DEF Types, Slots
<1>1. CASE CreateClient(c)
  BY <1>1 DEF CreateClient, Types, Known, Lock
<1>2. CASE AddClient(c) \/ DestroyClient(c)
  BY <1>2 DEF AddClient, DestroyClient, Types, Known
<1>3. ASSUME NEW i \in Slots, ConnectionsClearIpcUse(c, i)
      PROVE  /\ usage' \in [Transports -> Usages \cup {None}]
             /\ m_client_connections' \in [Clients -> [Slots -> Transports \cup {None}]]
             /\ \A tr \in Transports : Known(tr)' <=> Known(tr)
  <2>1. PICK r : r = ClearIpcUse(m_client_connections[c], i)
    OBVIOUS
  <2>2. r.slots \in [Slots -> Transports \cup {None}]
    BY <2>1, Clearing
  <2>3. m_client_connections' = [m_client_connections EXCEPT ![c] = r.slots] /\ usage' = SetUsage(r.unused, "not_used")
    BY <1>3, <2>1 DEF ConnectionsClearIpcUse
  <2>4. "not_used" \in Usages
    BY DEF Usages
  <2>5. usage' \in [Transports -> Usages \cup {None}] /\ \A tr \in Transports : usage'[tr] = None <=> usage[tr] = None
    BY <2>3, <2>4, UsageSet
  <2>6. QED
    BY <2>2, <2>3, <2>5 DEF Types, Known
<1>4. ASSUME NEW i \in Slots, NEW tr \in Transports, ConnectionsSetIpcUse(c, tr, i)
      PROVE  /\ usage' \in [Transports -> Usages \cup {None}]
             /\ m_client_connections' \in [Clients -> [Slots -> Transports \cup {None}]]
             /\ \A x \in Transports : Known(x)' <=> Known(x)
  <2>1. PICK r : r = ClearIpcUse(m_client_connections[c], i)
    OBVIOUS
  <2>2. r.slots \in [Slots -> Transports \cup {None}]
    BY <2>1, Clearing
  <2>3. PICK u : u = SetUsage(r.unused, "not_used")
    OBVIOUS
  <2>4. "not_used" \in Usages /\ "use_ipc_call" \in Usages
    BY DEF Usages
  <2>5. u \in [Transports -> Usages \cup {None}] /\ \A x \in Transports : u[x] = None <=> usage[x] = None
    BY <2>3, <2>4, UsageSet
  <2>6. CASE usage[tr] # None /\ i \in Indexes
    <3>1. /\ m_client_connections' = [m_client_connections EXCEPT ![c] = [r.slots EXCEPT ![i] = tr]]
          /\ usage' = [u EXCEPT ![tr] = "use_ipc_call"]
      BY <1>4, <2>1, <2>3, <2>6 DEF ConnectionsSetIpcUse
    <3>2. QED
      BY <2>2, <2>4, <2>5, <2>6, <3>1, AutotestServerNames DEF Types, Known
  <2>7. CASE ~(usage[tr] # None /\ i \in Indexes)
    <3>1. m_client_connections' = [m_client_connections EXCEPT ![c] = r.slots] /\ usage' = u
      BY <1>4, <2>1, <2>3, <2>7 DEF ConnectionsSetIpcUse
    <3>2. QED
      BY <2>2, <2>5, <3>1 DEF Types, Known
  <2>8. QED
    BY <2>6, <2>7
<1>5. ASSUME NEW tr \in Transports, NEW u \in {"use_ipc_call", "not_used"}, ConnectionsSetUsage(c, tr, u)
      PROVE  /\ usage' \in [Transports -> Usages \cup {None}]
             /\ m_client_connections' \in [Clients -> [Slots -> Transports \cup {None}]]
             /\ \A x \in Transports : Known(x)' <=> Known(x)
  <2>1. u \in Usages
    BY DEF Usages
  <2>2. usage' = [usage EXCEPT ![tr] = u] /\ usage[tr] # None /\ UNCHANGED m_client_connections
    BY <1>5 DEF ConnectionsSetUsage
  <2>3. QED
    BY <2>1, <2>2, AutotestServerNames DEF Types, Known
<1>6. QED
  BY <1>1, <1>2, <1>3, <1>4, <1>5 DEF Use

-----------------------------------------------------------------------------
(* Types, in a step                                                        *)

\* Every step keeps the state well formed.
LEMMA TypesStep == ASSUME Types, ConnInv, ThreadInv, Next PROVE Types'
<1> posted \in Seq(Event)
  BY DEF Types
<1>1. ASSUME NEW tr \in Transports, NewConnection(tr) PROVE Types'
  <2>1. <<"connected", tr>> \in Event
    BY DEF Event
  <2>2. posted' \in Seq(Event)
    BY <1>1, <2>1, Queue1, Joined DEF NewConnection, Post
  <2>3. QED
    BY <1>1, <2>2 DEF NewConnection, KeepTransport, Types, users, threads
<1>2. ASSUME NEW tr \in Transports, OnSocketClosed(tr) PROVE Types'
  <2>1. posted' \in Seq(Event)
    BY <1>2, Queue2, Joined DEF OnSocketClosed, DisconnectSlots, Post
  <2>2. QED
    BY <1>2, <2>1 DEF OnSocketClosed, Types, users, threads
<1>3. ASSUME ClearConnection PROVE Types'
  <2>1. /\ Tail(posted) \in Seq(Event) /\ Taken \in Transports /\ Within(posted, "clear", Taken)
        /\ posted' = Tail(posted)
    BY <1>3, Taking DEF ClearConnection
  <2>2. Taken \notin m_connection
    BY <2>1 DEF ConnInv, ConnectionRight
  <2>3. QED
    BY <1>3, <2>1, <2>2 DEF ClearConnection, Types, users, threads
<1>4. ASSUME OnConnected PROVE Types'
  <2>1. Tail(posted) \in Seq(Event) /\ Taken \in Transports
    BY <1>4, Taking DEF OnConnected
  <2>2. posted' = Tail(posted) /\ current' = Taken
    BY <1>4 DEF OnConnected
  <2>3. /\ {m_sut_handler', stopping'} \subseteq Transports \cup {None}
        /\ handler' \in [Transports -> {"none", "create", "test", "loop", "call", "finished"}]
    BY <1>4, <2>1 DEF OnConnected, Types
  <2>4. QED
    BY <1>4, <2>1, <2>2, <2>3 DEF OnConnected, Types, net, users
<1>5. ASSUME AddNewConnection PROVE Types'
  <2>1. current \in Transports
    BY <1>5 DEF AddNewConnection, ThreadInv, Types
  <2>2. usage' \in [Transports -> Usages \cup {None}]
    BY <1>5, <2>1 DEF AddNewConnection, Types, Usages
  <2>3. QED
    BY <1>5, <2>1, <2>2 DEF AddNewConnection, Types, net, users, threads
<1>6. ASSUME OnDisconnected PROVE Types'
  <2>1. Tail(posted) \in Seq(Event) /\ Taken \in Transports
    BY <1>6, Taking DEF OnDisconnected
  <2>2. QED
    BY <1>6, <2>1 DEF OnDisconnected, Types, net, users, threads
<1>7. ASSUME RemoveConnection PROVE Types'
  BY <1>7 DEF RemoveConnection, StopHandler, Types, net, users
<1>8. ASSUME BackgroundReturns PROVE Types'
  BY <1>8 DEF BackgroundReturns, Types, users, threads
<1>9. ASSUME Reading PROVE Types'
  <2>1. posted' \in Seq(Event)
    BY <1>9, ReadingQueue DEF QueueKept
  <2>2. CASE OnAlarm \/ \E tr \in Transports : OnReadyRead(tr)
    BY <2>1, <2>2 DEF OnReadyRead, OnAlarm, Types, users, threads
  <2>3. CASE RunHandlerCall
    BY <2>1, <2>3 DEF RunHandlerCall, Types, net, users
  <2>4. ASSUME NEW tr \in Transports, Handler(tr) PROVE Types'
    <3>1. handler' \in [Transports -> {"none", "create", "test", "loop", "call", "finished"}]
      BY <2>4 DEF Handler, HandlerCreate, HandlerRuns, HandlerLoopExits, Types
    <3>2. QED
      BY <2>1, <2>4, <3>1 DEF Handler, HandlerCreate, HandlerRuns, HandlerLoopExits, Types, net, users, server
  <2>5. QED
    BY <1>9, <2>2, <2>3, <2>4 DEF Reading
<1>10. ASSUME GoesOn PROVE Types'
  <2>1. CASE RemoveExpiredClients
    BY <2>1 DEF RemoveExpiredClients, Told, Types, net, threads
  <2>2. CASE SetOnConnectedSut
    <3>1. PICK c \in todo :
             m_client_connections' = IF client[c] = "gone" THEN m_client_connections
                                     ELSE [m_client_connections EXCEPT ![c][OnConnectedSut] = current]
      BY <2>2 DEF SetOnConnectedSut
    <3>2. m_client_connections' \in [Clients -> [Slots -> Transports \cup {None}]]
      BY <3>1 DEF Types
    <3>3. QED
      BY <2>2, <3>2 DEF SetOnConnectedSut, Types, net, threads
  <2>3. CASE SignalConnected \/ HandlerExit \/ HandlerJoin \/ BackgroundLoopEnds
    BY <2>3 DEF SignalConnected, HandlerExit, HandlerJoin, BackgroundLoopEnds, Types, net, users, threads
  <2>4. CASE HandlerCancel
    BY <2>4 DEF HandlerCancel, CancelDisable, Types, net, users
  <2>5. QED
    BY <1>10, <2>1, <2>2, <2>3, <2>4 DEF GoesOn
<1>11. ASSUME Elsewhere PROVE Types'
  <2>1. CASE Applications \/ Stop
    BY <2>1 DEF Applications, Stop, PeerConnects, PeerSends, PeerCloses, HandlerIsCalled, Types, net, server, users, threads
  <2>2. ASSUME NEW c \in Clients, Use(c) PROVE Types'
    <3>1. /\ usage' \in [Transports -> Usages \cup {None}]
          /\ m_client_connections' \in [Clients -> [Slots -> Transports \cup {None}]]
      BY <2>2, Using
    <3>2. QED
      BY <2>2, <3>1 DEF Use, CreateClient, AddClient, DestroyClient, ConnectionsSetIpcUse, ConnectionsClearIpcUse,
                        ConnectionsSetUsage, Types, net, server, threads
  <2>3. QED
    BY <1>11, <2>1, <2>2 DEF Elsewhere
<1>12. QED
  BY <1>1, <1>2, <1>3, <1>4, <1>5, <1>6, <1>7, <1>8, <1>9, <1>10, <1>11, NextCases

-----------------------------------------------------------------------------
(* Connections                                                             *)

\* A step that leaves connections as they are.
LEMMA ConnKeeps ==
  ASSUME ConnInv, QueueKept, UNCHANGED <<m_connection, m_connection_transports, m_on_connected_sut>>,
         \A tr \in Transports : /\ Early(tr)' <=> Early(tr)
                                /\ Known(tr)' <=> Known(tr)
                                /\ Bringing(tr)' <=> Bringing(tr)
                                /\ Leaving(tr)' <=> Leaving(tr),
         pc' = "ended" <=> pc = "ended"
  PROVE  ConnInv'
<1>1. ASSUME NEW tr \in Transports PROVE ConnectionRight(tr)'
  <2>1. /\ Within(posted, "connected", tr)' <=> Within(posted, "connected", tr)
        /\ Within(posted, "disconnected", tr)' <=> Within(posted, "disconnected", tr)
        /\ Within(posted, "clear", tr)' <=> Within(posted, "clear", tr)
    BY DEF QueueKept, Within
  <2>2. (Coming(tr)' <=> Coming(tr)) /\ (Going(tr)' <=> Going(tr))
    BY <2>1 DEF Coming, Going
  <2>3. ConnectionRight(tr)
    BY DEF ConnInv
  <2>4. QED
    BY <2>1, <2>2, <2>3 DEF ConnectionRight
<1>2. QED
  BY <1>1 DEF ConnInv, QueueKept

\* At the start no connection is known.
LEMMA ConnInit == Init => ConnInv
<1> SUFFICES ASSUME Init PROVE ConnInv
  OBVIOUS
<1>1. DOMAIN posted = {}
  BY DEF Init
<1>2. InOrder(posted) /\ \A k, tr : ~Within(posted, k, tr)
  BY <1>1 DEF InOrder, Within
<1>3. QED
  BY <1>2, AutotestServerConstants
     DEF Init, ConnInv, ConnectionRight, Coming, Bringing, Known, Going, Leaving

\* Steps that do not touch the connections keep what is known of them.
LEMMA ConnQuiet == ASSUME Types, ConnInv, ThreadInv, Reading \/ GoesOn \/ Elsewhere PROVE ConnInv'
<1> None \notin Transports
  BY AutotestServerConstants
<1>1. CASE Reading
  <2>1. UNCHANGED <<peer, usage, m_connection, m_connection_transports, m_on_connected_sut, pc, current>>
    BY <1>1 DEF Reading, OnReadyRead, OnAlarm, RunHandlerCall, Handler, HandlerCreate, HandlerRuns, HandlerLoopExits,
                net, server
  <2>2. QueueKept
    BY <1>1, ReadingQueue
  <2>3. QED
    BY <2>1, <2>2, ConnKeeps DEF Early, Known, Bringing, Leaving
<1>2. CASE GoesOn
  <2>1. QueueKept
    BY <1>2, QuietQueue
  <2>2. UNCHANGED <<peer, usage, m_connection, m_connection_transports, m_on_connected_sut>>
    BY <1>2 DEF GoesOn, RemoveExpiredClients, SetOnConnectedSut, SignalConnected, HandlerExit, HandlerCancel,
                HandlerJoin, BackgroundLoopEnds, net
  <2>3. /\ \A tr \in Transports : (Bringing(tr)' <=> Bringing(tr)) /\ (Leaving(tr)' <=> Leaving(tr))
        /\ pc' = "ended" <=> pc = "ended"
    BY <1>2 DEF GoesOn, RemoveExpiredClients, SetOnConnectedSut, SignalConnected, HandlerExit, HandlerCancel,
                HandlerJoin, BackgroundLoopEnds, Bringing, Leaving, ThreadInv
  <2>4. QED
    BY <2>1, <2>2, <2>3, ConnKeeps DEF Early, Known
<1>3. CASE Elsewhere
  <2>1. QueueKept
    BY <1>3, QuietQueue
  <2>2. CASE Applications \/ Stop
    <3>1. UNCHANGED <<usage, m_connection, m_connection_transports, m_on_connected_sut, pc, current>>
      BY <2>2 DEF Applications, Stop, PeerConnects, PeerSends, PeerCloses, HandlerIsCalled, net, server
    <3>2. \A tr \in Transports : Early(tr)' <=> Early(tr)
      BY <2>2 DEF Applications, Stop, PeerConnects, PeerSends, PeerCloses, HandlerIsCalled, net, Early, Types
    <3>3. QED
      BY <2>1, <3>1, <3>2, ConnKeeps DEF Known, Bringing, Leaving
  <2>3. ASSUME NEW c \in Clients, Use(c) PROVE ConnInv'
    <3>1. UNCHANGED <<peer, m_connection, m_connection_transports, m_on_connected_sut, pc, current>>
      BY <2>3 DEF Use, CreateClient, AddClient, DestroyClient, ConnectionsSetIpcUse, ConnectionsClearIpcUse,
                  ConnectionsSetUsage, net, server
    <3>2. \A tr \in Transports : Known(tr)' <=> Known(tr)
      BY <2>3, Using
    <3>3. QED
      BY <2>1, <3>1, <3>2, ConnKeeps DEF Early, Bringing, Leaving
  <2>4. QED
    BY <1>3, <2>2, <2>3 DEF Elsewhere
<1>4. QED
  BY <1>1, <1>2, <1>3

\* A connection that is accepted is queued once.
LEMMA ConnAccepted ==
  ASSUME Types, ConnInv, ThreadInv, NEW x \in Transports, NewConnection(x)
  PROVE  ConnInv'
<1> None \notin Transports
  BY AutotestServerConstants
<1>1. PICK e : e = <<"connected", x>>
  OBVIOUS
<1>2. e \in Event /\ \A k, y : e = <<k, y>> <=> k = "connected" /\ y = x
  BY <1>1 DEF Event
<1>3. <<e>> \in Seq(Event) /\ InOrder(<<e>>) /\ \A k, y : Within(<<e>>, k, y) <=> k = "connected" /\ y = x
  BY <1>2, Queue1
<1>4. posted' = posted \o <<e>> /\ posted \in Seq(Event) /\ InOrder(posted)
  BY <1>1 DEF NewConnection, Post, Types, ConnInv
<1>5. Early(x) /\ ConnectionRight(x)
  BY DEF NewConnection, Early, ConnInv
<1>6. ~Within(posted, "connected", x) /\ ~Within(posted, "disconnected", x) /\ ~Within(posted, "clear", x)
  BY <1>5 DEF ConnectionRight, Coming, Going
<1>7. InOrder(posted')
  <2>1. PICK s : s = <<e>>
    OBVIOUS
  <2>2. /\ s \in Seq(Event) /\ InOrder(s) /\ posted' = posted \o s
        /\ \A y : Within(s, "connected", y) => y = x
        /\ \A y : ~Within(s, "disconnected", y)
    BY <1>3, <1>4, <2>1
  <2>3. QED
    BY <1>4, <1>6, <2>2, JoinedOrder
<1>8. \A k, y : Within(posted', k, y) <=> Within(posted, k, y) \/ (k = "connected" /\ y = x)
  BY <1>3, <1>4, Joined
<1>9. /\ m_connection' = m_connection \cup {x} /\ m_connection_transports' = m_connection_transports \cup {x}
      /\ UNCHANGED <<pc, current, usage, m_on_connected_sut>> /\ pc = "idle" /\ current = None
      /\ peer' = [peer EXCEPT ![x] = "open"]
  BY DEF NewConnection, KeepTransport, Idle, ThreadInv
<1>10. ConnectionRight(x)'
  BY <1>5, <1>6, <1>8, <1>9 DEF ConnectionRight, Early, Coming, Bringing, Known, Going, Leaving, Types
<1>11. ASSUME NEW tr \in Transports, tr # x PROVE ConnectionRight(tr)'
  <2>1. ConnectionRight(tr)
    BY DEF ConnInv
  <2>2. peer'[tr] = peer[tr]
    BY <1>9, <1>11 DEF Types
  <2>3. QED
    BY <1>8, <1>9, <1>11, <2>1, <2>2 DEF ConnectionRight, Early, Coming, Bringing, Known, Going, Leaving
<1>12. QED
  BY <1>7, <1>10, <1>11 DEF ConnInv

\* A connection that closes is queued to go, behind its coming.
LEMMA ConnClosed ==
  ASSUME Types, ConnInv, ThreadInv, NEW x \in Transports, OnSocketClosed(x)
  PROVE  ConnInv'
<1> None \notin Transports
  BY AutotestServerConstants
<1>1. PICK s : s = DisconnectSlots(x)
  OBVIOUS
<1>2. s \in Seq(Event) /\ InOrder(s) /\ \A k, y : Within(s, k, y) <=> y = x /\ k \in {"disconnected", "clear"}
  BY <1>1, Queue2 DEF DisconnectSlots
<1>3. posted' = posted \o s /\ posted \in Seq(Event) /\ InOrder(posted)
  BY <1>1 DEF OnSocketClosed, Post, Types, ConnInv
<1>4. /\ m_connection' = m_connection \ {x} /\ x \in m_connection /\ peer[x] = "closed"
      /\ UNCHANGED <<peer, m_connection_transports, pc, current, usage, m_on_connected_sut>> /\ pc = "idle" /\ current = None
  BY DEF OnSocketClosed, Idle, ThreadInv
<1>5. ~Within(posted, "disconnected", x) /\ ConnectionRight(x)
  BY <1>4 DEF ConnInv, ConnectionRight
<1>6. InOrder(posted')
  BY <1>2, <1>3, <1>5, JoinedOrder
<1>7. \A k, y : Within(posted', k, y) <=> Within(posted, k, y) \/ (y = x /\ k \in {"disconnected", "clear"})
  BY <1>2, <1>3, Joined
<1>8. ConnectionRight(x)'
  BY <1>4, <1>5, <1>7 DEF ConnectionRight, Early, Coming, Bringing, Known, Going, Leaving
<1>9. ASSUME NEW tr \in Transports, tr # x PROVE ConnectionRight(tr)'
  <2>1. ConnectionRight(tr)
    BY DEF ConnInv
  <2>2. QED
    BY <1>4, <1>7, <1>9, <2>1 DEF ConnectionRight, Early, Coming, Bringing, Known, Going, Leaving
<1>10. QED
  BY <1>6, <1>8, <1>9 DEF ConnInv

\* A queued slot is taken.
LEMMA SlotTaken ==
  ASSUME Types, ConnInv, ThreadInv, NEW kind, Take(kind), posted' = Tail(posted), NEW x, x = Taken
  PROVE  /\ x \in Transports /\ ConnectionRight(x) /\ InOrder(posted') /\ Within(posted, kind, x)
         /\ pc = "idle" /\ current = None
         /\ \A k, y : Within(posted, k, y) <=> (k = kind /\ y = x) \/ Within(posted', k, y)
         /\ kind = "connected" => ~Within(posted', "connected", x)
         /\ kind = "disconnected" => ~Within(posted', "connected", x) /\ ~Within(posted', "disconnected", x)
<1>1. /\ x \in Transports /\ Head(posted) = <<kind, x>> /\ Tail(posted) \in Seq(Event)
      /\ \A k, tr : Within(posted, k, tr) <=> <<kind, x>> = <<k, tr>> \/ Within(Tail(posted), k, tr)
  BY Taking
<1>2. posted \in Seq(Event) /\ posted # <<>> /\ InOrder(posted)
  BY DEF Types, ConnInv, Take
<1>3. /\ InOrder(posted')
      /\ kind = "connected" => ~Within(posted', "connected", x)
      /\ kind = "disconnected" => ~Within(posted', "connected", x) /\ ~Within(posted', "disconnected", x)
  BY <1>1, <1>2, ShiftedOrder
<1>4. pc = "idle" /\ current = None
  BY DEF Take, Idle, ThreadInv
<1>5. QED
  BY <1>1, <1>3, <1>4 DEF ConnInv

\* Clearing a connection keeps what is known of the others.
LEMMA ConnCleared == ASSUME Types, ConnInv, ThreadInv, ClearConnection PROVE ConnInv'
<1> None \notin Transports
  BY AutotestServerConstants
<1>1. PICK x : x = Taken
  OBVIOUS
<1>2. Take("clear") /\ posted' = Tail(posted)
  BY DEF ClearConnection
<1>3. /\ x \in Transports /\ ConnectionRight(x) /\ InOrder(posted') /\ Within(posted, "clear", x)
      /\ \A k, y : Within(posted, k, y) <=> (k = "clear" /\ y = x) \/ Within(posted', k, y)
  BY <1>1, <1>2, SlotTaken
<1>4. /\ m_connection_transports' = m_connection_transports \ {x}
      /\ UNCHANGED <<peer, m_connection, pc, current, usage, m_on_connected_sut>>
  BY <1>1 DEF ClearConnection
<1>5. ASSUME NEW tr \in Transports PROVE ConnectionRight(tr)'
  <2>1. ConnectionRight(tr)
    BY DEF ConnInv
  <2>2. QED
    BY <1>3, <1>4, <2>1 DEF ConnectionRight, Early, Coming, Bringing, Known, Going, Leaving
<1>6. QED
  BY <1>3, <1>5 DEF ConnInv

\* OnConnected takes a connection from the queue.
LEMMA ConnBrought == ASSUME Types, ConnInv, ThreadInv, OnConnected PROVE ConnInv'
<1> None \notin Transports
  BY AutotestServerConstants
<1>1. PICK x : x = Taken
  OBVIOUS
<1>2. Take("connected") /\ posted' = Tail(posted)
  BY DEF OnConnected
<1>3. /\ x \in Transports /\ ConnectionRight(x) /\ InOrder(posted') /\ Within(posted, "connected", x)
      /\ \A k, y : Within(posted, k, y) <=> (k = "connected" /\ y = x) \/ Within(posted', k, y)
      /\ ~Within(posted', "connected", x) /\ pc = "idle" /\ current = None
  BY <1>1, <1>2, SlotTaken
<1>4. /\ current' = x /\ pc' \in {"insert", "exit"}
      /\ UNCHANGED <<peer, m_connection, m_connection_transports, usage, m_on_connected_sut>>
  BY <1>1 DEF OnConnected, net
<1>5. ASSUME NEW tr \in Transports PROVE ConnectionRight(tr)'
  <2>1. ConnectionRight(tr)
    BY DEF ConnInv
  <2>2. CASE tr = x
    BY <1>3, <1>4, <2>1, <2>2 DEF ConnectionRight, Early, Coming, Bringing, Known, Going, Leaving
  <2>3. CASE tr # x
    BY <1>3, <1>4, <2>1, <2>3 DEF ConnectionRight, Early, Coming, Bringing, Known, Going, Leaving
  <2>4. QED
    BY <2>2, <2>3
<1>6. QED
  BY <1>3, <1>5 DEF ConnInv

\* AddNewConnection puts it into m_connections.
LEMMA ConnAdded == ASSUME Types, ConnInv, ThreadInv, AddNewConnection PROVE ConnInv'
<1> None \notin Transports
  BY AutotestServerConstants
<1>1. /\ current \in Transports /\ UNCHANGED <<current, posted, peer, m_connection, m_connection_transports>>
      /\ pc = "insert" /\ pc' = "clients" /\ m_on_connected_sut' = current
      /\ usage' = [usage EXCEPT ![current] = "newly_connected"]
  BY DEF AddNewConnection, ThreadInv, Types, net
<1>2. "newly_connected" # None
  BY AutotestServerNames DEF Usages
<1>3. ASSUME NEW tr \in Transports PROVE ConnectionRight(tr)'
  <2>1. ConnectionRight(tr)
    BY DEF ConnInv
  <2>2. CASE tr = current
    <3>1. /\ Known(tr)' /\ ~Coming(tr)' /\ ~Leaving(tr)' /\ Bringing(tr)
          /\ (Going(tr)' <=> Going(tr)) /\ ~Within(posted, "connected", tr)
      BY <1>1, <1>2, <2>1, <2>2 DEF Types, ConnectionRight, Coming, Bringing, Known, Going, Leaving
    <3>2. QED
      BY <1>1, <2>1, <2>2, <3>1 DEF ConnectionRight, Early, Coming
  <2>3. CASE tr # current
    <3>1. Known(tr)' <=> Known(tr)
      BY <1>1, <2>3 DEF Types, Known
    <3>2. QED
      BY <1>1, <2>1, <2>3, <3>1 DEF ConnectionRight, Early, Coming, Bringing, Going, Leaving
  <2>4. QED
    BY <2>2, <2>3
<1>4. QED
  BY <1>1, <1>3 DEF ConnInv

\* OnDisconnected takes a disconnection from the queue.
LEMMA ConnLeaves == ASSUME Types, ConnInv, ThreadInv, OnDisconnected PROVE ConnInv'
<1> None \notin Transports
  BY AutotestServerConstants
<1>1. PICK x : x = Taken
  OBVIOUS
<1>2. Take("disconnected") /\ posted' = Tail(posted)
  BY DEF OnDisconnected
<1>3. /\ x \in Transports /\ ConnectionRight(x) /\ InOrder(posted') /\ Within(posted, "disconnected", x)
      /\ \A k, y : Within(posted, k, y) <=> (k = "disconnected" /\ y = x) \/ Within(posted', k, y)
      /\ ~Within(posted', "connected", x) /\ ~Within(posted', "disconnected", x) /\ pc = "idle" /\ current = None
  BY <1>1, <1>2, SlotTaken
<1>4. /\ current' = x /\ pc' = "remove"
      /\ UNCHANGED <<peer, m_connection, m_connection_transports, usage, m_on_connected_sut>>
  BY <1>1 DEF OnDisconnected, net
<1>5. ASSUME NEW tr \in Transports PROVE ConnectionRight(tr)'
  <2>1. ConnectionRight(tr)
    BY DEF ConnInv
  <2>2. CASE tr = x
    BY <1>3, <1>4, <2>1, <2>2 DEF ConnectionRight, Early, Coming, Bringing, Known, Going, Leaving
  <2>3. CASE tr # x
    BY <1>3, <1>4, <2>1, <2>3 DEF ConnectionRight, Early, Coming, Bringing, Known, Going, Leaving
  <2>4. QED
    BY <2>2, <2>3
<1>6. QED
  BY <1>3, <1>5 DEF ConnInv

\* RemoveConnection takes the connection out of m_connections.
LEMMA ConnRemoved == ASSUME Types, ConnInv, ThreadInv, RemoveConnection PROVE ConnInv'
<1> None \notin Transports
  BY AutotestServerConstants
<1>1. /\ current \in Transports /\ UNCHANGED <<posted, peer, m_connection, m_connection_transports, m_on_connected_sut>>
      /\ pc = "remove" /\ pc' \in {"idle", "exit"} /\ current' = None
      /\ usage' = [usage EXCEPT ![current] = None]
  BY DEF RemoveConnection, ThreadInv, Types, net
<1>2. ASSUME NEW tr \in Transports PROVE ConnectionRight(tr)'
  <2>1. ConnectionRight(tr) /\ ~Bringing(tr) /\ ~Bringing(tr)' /\ ~Leaving(tr)'
    BY <1>1 DEF ConnInv, Bringing, Leaving
  <2>2. CASE tr = current
    <3>1. ~Known(tr)' /\ Leaving(tr)
      BY <1>1, <2>2 DEF Types, Known, Leaving
    <3>2. QED
      BY <1>1, <2>1, <3>1 DEF ConnectionRight, Early, Coming, Going
  <2>3. CASE tr # current
    <3>1. (Known(tr)' <=> Known(tr)) /\ ~Leaving(tr)
      BY <1>1, <2>3 DEF Types, Known, Leaving
    <3>2. QED
      BY <1>1, <2>1, <3>1 DEF ConnectionRight, Early, Coming, Going
  <2>4. QED
    BY <2>2, <2>3
<1>3. QED
  BY <1>1, <1>2 DEF ConnInv

\* The end of the background thread keeps what is known.
LEMMA ConnEnded == ASSUME Types, ConnInv, ThreadInv, BackgroundReturns PROVE ConnInv'
<1> None \notin Transports
  BY AutotestServerConstants
<1>1. /\ posted' = <<>> /\ m_connection' = {} /\ m_connection_transports' = {} /\ pc' = "ended"
      /\ UNCHANGED <<peer, usage, m_on_connected_sut, current>> /\ current = None
  BY DEF BackgroundReturns, ThreadInv
<1>2. InOrder(posted') /\ \A k, tr : ~Within(posted', k, tr)
  BY <1>1 DEF InOrder, Within
<1>3. ASSUME NEW tr \in Transports PROVE ConnectionRight(tr)'
  <2>1. ConnectionRight(tr)
    BY DEF ConnInv
  <2>2. QED
    BY <1>1, <1>2, <2>1 DEF ConnectionRight, Early, Coming, Bringing, Known, Going, Leaving
<1>4. QED
  BY <1>2, <1>3 DEF ConnInv

\* Every step keeps where the connections are.
LEMMA ConnStep == ASSUME Types, ConnInv, ThreadInv, Next PROVE ConnInv'
BY NextCases, ConnQuiet, ConnAccepted, ConnClosed, ConnCleared, ConnBrought, ConnAdded, ConnLeaves, ConnRemoved, ConnEnded

-----------------------------------------------------------------------------
(* The server thread and the thread of the autotests                       *)

\* At the start no autotest runs.
LEMMA ThreadInit == Init => ThreadInv
BY AutotestServerConstants DEF Init, ThreadInv

\* A step in which the server thread takes no part.
LEMMA ThreadKeeps ==
  ASSUME Types, ThreadInv, UNCHANGED <<pc, current, m_on_connected_sut, m_sut_handler, stopping>>,
         ending = "closing" => ending' = "closing",
         \A tr \in Transports : Known(tr)' <=> Known(tr),
         \A tr \in Transports : handler'[tr] \notin {"none", "finished"} => handler[tr] \notin {"none", "finished"}
  PROVE  ThreadInv'
<1>1. m_sut_handler # None => m_sut_handler \in Transports
  BY DEF Types
<1>2. m_sut_handler # None => Known(m_sut_handler)' \/ Bringing(m_sut_handler)'
  BY <1>1 DEF ThreadInv, Bringing
<1>3. QED
  BY <1>2 DEF ThreadInv, Bringing, Known

\* Steps outside the slots keep what the server thread is at.
LEMMA ThreadQuiet ==
  ASSUME Types, ConnInv, ThreadInv,
         \/ \E tr \in Transports : NewConnection(tr) \/ OnSocketClosed(tr)
         \/ ClearConnection \/ Reading \/ Elsewhere
  PROVE  ThreadInv'
<1>1. CASE ClearConnection \/ \E tr \in Transports : NewConnection(tr) \/ OnSocketClosed(tr)
  BY <1>1, ThreadKeeps DEF ClearConnection, NewConnection, OnSocketClosed, threads, Known
<1>2. CASE Reading
  <2>1. UNCHANGED <<pc, current, m_on_connected_sut, m_sut_handler, stopping, usage, ending>>
    BY <1>2 DEF Reading, OnReadyRead, OnAlarm, RunHandlerCall, Handler, HandlerCreate, HandlerRuns, HandlerLoopExits,
                threads, server
  <2>2. CASE OnAlarm \/ \E tr \in Transports : OnReadyRead(tr)
    BY <2>1, <2>2, ThreadKeeps DEF OnAlarm, OnReadyRead, threads, Known
  <2>3. CASE RunHandlerCall
    <3>1. \A tr \in Transports : handler'[tr] \notin {"none", "finished"} => handler[tr] \notin {"none", "finished"}
      BY <2>3 DEF RunHandlerCall, Types
    <3>2. QED
      BY <2>1, <3>1, ThreadKeeps DEF Known
  <2>4. ASSUME NEW x \in Transports, Handler(x) PROVE ThreadInv'
    <3>1. \A tr \in Transports : handler'[tr] \notin {"none", "finished"} => handler[tr] \notin {"none", "finished"}
      BY <2>4 DEF Handler, HandlerCreate, HandlerRuns, HandlerLoopExits, Types
    <3>2. QED
      BY <2>1, <3>1, ThreadKeeps DEF Known
  <2>5. QED
    BY <1>2, <2>2, <2>3, <2>4 DEF Reading
<1>3. CASE Applications \/ Stop
  <2>1. /\ UNCHANGED <<pc, current, m_on_connected_sut, m_sut_handler, stopping, usage>>
        /\ ending = "closing" => ending' = "closing"
    BY <1>3 DEF Applications, Stop, PeerConnects, PeerSends, PeerCloses, HandlerIsCalled, threads, server
  <2>2. \A tr \in Transports : handler'[tr] \notin {"none", "finished"} => handler[tr] \notin {"none", "finished"}
    BY <1>3 DEF Applications, Stop, PeerConnects, PeerSends, PeerCloses, HandlerIsCalled, threads, Types
  <2>3. QED
    BY <2>1, <2>2, ThreadKeeps DEF Known
<1>4. ASSUME NEW c \in Clients, Use(c) PROVE ThreadInv'
  <2>1. UNCHANGED <<pc, current, m_on_connected_sut, m_sut_handler, stopping, handler, ending>>
    BY <1>4 DEF Use, CreateClient, AddClient, DestroyClient, ConnectionsSetIpcUse, ConnectionsClearIpcUse,
                ConnectionsSetUsage, threads, server
  <2>2. QED
    BY <1>4, <2>1, Using, ThreadKeeps
<1>5. QED
  BY <1>1, <1>2, <1>3, <1>4 DEF Elsewhere

\* So does each step inside a slot.
LEMMA ThreadGoesOn == ASSUME Types, ConnInv, ThreadInv, GoesOn PROVE ThreadInv'
<1>1. CASE RemoveExpiredClients \/ SetOnConnectedSut \/ SignalConnected
  BY <1>1 DEF RemoveExpiredClients, SetOnConnectedSut, SignalConnected, ThreadInv, Bringing, Known, threads
<1>2. CASE HandlerExit
  BY <1>2 DEF HandlerExit, ThreadInv, Bringing, Known
<1>3. CASE HandlerCancel
  <2>1. \A tr \in Transports : handler'[tr] \notin {"none", "finished"} => handler[tr] \notin {"none", "finished"}
    BY <1>3 DEF HandlerCancel, CancelDisable, Types
  <2>2. QED
    BY <1>3, <2>1 DEF HandlerCancel, ThreadInv, Bringing, Known
<1>4. CASE HandlerJoin
  <2>1. \A tr \in Transports : handler[tr] \notin {"none", "finished"} => tr = m_sut_handler
    BY <1>4 DEF HandlerJoin, ThreadInv
  <2>2. QED
    BY <1>4, <2>1 DEF HandlerJoin, ThreadInv, Bringing, Known
<1>5. CASE BackgroundLoopEnds
  BY <1>5 DEF BackgroundLoopEnds, ThreadInv, Bringing, Known
<1>6. QED
  BY <1>1, <1>2, <1>3, <1>4, <1>5 DEF GoesOn

\* Every step keeps what the server thread is at and whose autotests run.
LEMMA ThreadStep == ASSUME Types, ConnInv, ThreadInv, Next PROVE ThreadInv'
<1> None \notin Transports
  BY AutotestServerConstants
<1>1. CASE OnConnected
  <2>1. Taken \in Transports /\ pc = "idle" /\ stopping = None /\ current' = Taken /\ m_on_connected_sut' = m_on_connected_sut
    BY <1>1, Taking DEF OnConnected, Take, Idle, ThreadInv
  <2>2. CASE WithAutotests
    <3>1. /\ m_sut_handler' = Taken /\ handler' = [handler EXCEPT ![Taken] = "create"]
          /\ stopping' = m_sut_handler /\ pc' = IF m_sut_handler = None THEN "insert" ELSE "exit"
      BY <1>1, <2>2 DEF OnConnected
    <3>2. QED
      BY <2>1, <3>1 DEF ThreadInv, Types, Bringing
  <2>3. CASE ~WithAutotests
    <3>1. pc' = "insert" /\ UNCHANGED <<m_sut_handler, handler, stopping, usage>>
      BY <1>1, <2>3 DEF OnConnected
    <3>2. m_sut_handler # None => Known(m_sut_handler)
      BY <2>1 DEF ThreadInv, Bringing
    <3>3. QED
      BY <2>1, <3>1, <3>2 DEF ThreadInv, Known
  <2>4. QED
    BY <2>2, <2>3
<1>2. CASE AddNewConnection
  <2>1. /\ current \in Transports /\ current' = current /\ pc = "insert" /\ pc' = "clients"
        /\ usage' = [usage EXCEPT ![current] = "newly_connected"] /\ m_on_connected_sut' = current
        /\ UNCHANGED threads
    BY <1>2 DEF AddNewConnection, ThreadInv, Types
  <2>2. "newly_connected" # None
    BY AutotestServerNames DEF Usages
  <2>3. m_sut_handler # None => usage'[m_sut_handler] # None
    BY <2>1, <2>2 DEF ThreadInv, Types, Known, Bringing
  <2>4. QED
    BY <2>1, <2>3 DEF ThreadInv, Known, threads
<1>3. CASE OnDisconnected
  <2>1. Taken \in Transports /\ pc = "idle" /\ stopping = None
    BY <1>3, Taking DEF OnDisconnected, Take, Idle, ThreadInv
  <2>2. QED
    BY <1>3, <2>1 DEF OnDisconnected, ThreadInv, Known, Bringing, threads
<1>4. CASE RemoveConnection
  <2>1. stopping = None
    BY <1>4 DEF RemoveConnection, ThreadInv
  <2>2. QED
    BY <1>4, <2>1 DEF RemoveConnection, StopHandler, ThreadInv
<1>5. CASE BackgroundReturns
  BY <1>5 DEF BackgroundReturns, ThreadInv, Known, Bringing, threads
<1>6. QED
  BY <1>1, <1>2, <1>3, <1>4, <1>5, NextCases, ThreadQuiet, ThreadGoesOn

-----------------------------------------------------------------------------
(* The newest connection, as clients know it                               *)

\* A connection that has been announced and is gone does not come back.
LEMMA AliveStays ==
  ASSUME Types, ConnInv, ThreadInv, Next, m_on_connected_sut' = m_on_connected_sut, Alive(m_on_connected_sut)'
  PROVE  Alive(m_on_connected_sut)
<1> DEFINE x == m_on_connected_sut
<1>1. x \in Transports /\ x # None /\ x' = x
  BY DEF Alive, Types
<1>2. ConnectionRight(x)
  BY <1>1 DEF ConnInv
<1>3. CASE OnConnected
  <2>1. Taken \in Transports /\ Within(posted, "connected", Taken)
    BY <1>3, Taking DEF OnConnected
  <2>2. ConnectionRight(Taken)
    BY <2>1 DEF ConnInv
  <2>3. Taken # x
    BY <2>1, <2>2 DEF ConnectionRight, Coming
  <2>4. current' = Taken /\ usage' = usage /\ m_sut_handler' \in {Taken, m_sut_handler} /\ stopping' \in {stopping, m_sut_handler}
    BY <1>3 DEF OnConnected
  <2>5. QED
    BY <1>1, <2>3, <2>4 DEF Alive
<1>4. CASE OnDisconnected
  <2>1. Taken \in Transports /\ Within(posted, "disconnected", Taken)
    BY <1>4, Taking DEF OnDisconnected
  <2>2. ConnectionRight(Taken)
    BY <2>1 DEF ConnInv
  <2>3. Taken = x => Known(x)
    BY <2>1, <2>2 DEF ConnectionRight, Going
  <2>4. current' = Taken /\ UNCHANGED <<usage, m_sut_handler, stopping>>
    BY <1>4 DEF OnDisconnected, threads
  <2>5. QED
    BY <1>1, <2>3, <2>4 DEF Alive, Known
<1>5. CASE AddNewConnection
  BY <1>1, <1>5 DEF AddNewConnection, Alive
<1>6. CASE RemoveConnection
  <2>1. stopping' = m_sut_handler /\ m_sut_handler' \in {m_sut_handler, None} /\ current' = None
        /\ usage' = [usage EXCEPT ![current] = None]
    BY <1>6 DEF RemoveConnection, StopHandler
  <2>2. usage'[x] # None => usage[x] # None
    BY <1>1, <2>1 DEF Types
  <2>3. QED
    BY <1>1, <2>1, <2>2 DEF Alive
<1>7. CASE ClearConnection \/ BackgroundReturns \/ \E tr \in Transports : NewConnection(tr) \/ OnSocketClosed(tr)
  BY <1>1, <1>7 DEF ClearConnection, BackgroundReturns, NewConnection, OnSocketClosed, threads, Alive
<1>8. CASE Reading
  <2>1. UNCHANGED <<current, m_sut_handler, stopping, usage>>
    BY <1>8 DEF Reading, OnReadyRead, OnAlarm, RunHandlerCall, Handler, HandlerCreate, HandlerRuns, HandlerLoopExits,
                threads, server
  <2>2. QED
    BY <1>1, <2>1 DEF Alive
<1>9. CASE GoesOn
  <2>1. /\ current' \in {current, None} /\ m_sut_handler' \in {m_sut_handler, None}
        /\ stopping' \in {stopping, m_sut_handler, None} /\ usage' = usage
    BY <1>9 DEF GoesOn, RemoveExpiredClients, SetOnConnectedSut, SignalConnected, HandlerExit, HandlerCancel,
                HandlerJoin, BackgroundLoopEnds, threads
  <2>2. QED
    BY <1>1, <2>1 DEF Alive
<1>10. CASE Elsewhere
  <2>1. UNCHANGED <<current, m_sut_handler, stopping>>
    BY <1>10 DEF Elsewhere, Applications, Stop, PeerConnects, PeerSends, PeerCloses, HandlerIsCalled, Use, CreateClient,
                 AddClient, DestroyClient, ConnectionsSetIpcUse, ConnectionsClearIpcUse, ConnectionsSetUsage, threads, server
  <2>2. Known(x)' <=> Known(x)
    <3>1. CASE Applications \/ Stop
      BY <1>1, <3>1 DEF Applications, Stop, PeerConnects, PeerSends, PeerCloses, HandlerIsCalled, Known
    <3>2. ASSUME NEW c \in Clients, Use(c) PROVE Known(x)' <=> Known(x)
      <4>1. \A tr \in Transports : usage'[tr] = None <=> usage[tr] = None
        BY <3>2, Using DEF Known
      <4>2. QED
        BY <1>1, <4>1 DEF Known
    <3>3. QED
      BY <1>10, <3>1, <3>2 DEF Elsewhere
  <2>3. QED
    BY <1>1, <2>1, <2>2 DEF Alive, Known
<1>11. QED
  BY <1>3, <1>4, <1>5, <1>6, <1>7, <1>8, <1>9, <1>10, NextCases

\* At the start nobody was told of a connection.
LEMMA NewestInit == Init => NewestInv
BY DEF Init, NewestInv, NewestOf

\* A step that leaves clients as they are.
LEMMA NewestKeeps ==
  ASSUME Types, ConnInv, ThreadInv, NewestInv, Next, UNCHANGED <<m_clients, client, m_on_connected_sut>>,
         \A c \in Clients : m_client_connections'[c][OnConnectedSut] = m_client_connections[c][OnConnectedSut],
         late \subseteq late', \A c \in Clients : ToldOf(c)' => ToldOf(c)
  PROVE  NewestInv'
<1>1. ASSUME Alive(m_on_connected_sut)' PROVE Alive(m_on_connected_sut)
  BY <1>1, AliveStays
<1>2. ASSUME NEW c \in Clients PROVE NewestOf(c)'
  BY <1>1, <1>2 DEF NewestInv, NewestOf
<1>3. QED
  BY <1>2 DEF NewestInv

\* Every step keeps that clients have the newest connection.
LEMMA NewestStep == ASSUME Types, ConnInv, ThreadInv, NewestInv, Next PROVE NewestInv'
<1>1. ASSUME users' = users, todo' = todo, pc \in {"clients", "tell"} => pc' = pc, m_on_connected_sut' = m_on_connected_sut
      PROVE  NewestInv'
  <2>1. UNCHANGED <<m_clients, client, m_on_connected_sut, m_client_connections, late>>
    BY <1>1 DEF users
  <2>2. \A c \in Clients : ToldOf(c)' => ToldOf(c)
    BY <1>1 DEF ToldOf
  <2>3. QED
    BY <2>1, <2>2, NewestKeeps
<1>2. CASE \/ Reading \/ ClearConnection \/ OnDisconnected \/ BackgroundReturns \/ RemoveConnection \/ OnConnected
           \/ Applications \/ Stop \/ \E tr \in Transports : NewConnection(tr) \/ OnSocketClosed(tr)
  <2>1. /\ users' = users /\ todo' = todo /\ (pc \in {"clients", "tell"} => pc' = pc)
        /\ m_on_connected_sut' = m_on_connected_sut
    <3>1. CASE Reading
      BY <3>1 DEF Reading, OnReadyRead, OnAlarm, RunHandlerCall, Handler, HandlerCreate, HandlerRuns, HandlerLoopExits,
                  server
    <3>2. CASE ClearConnection \/ OnDisconnected \/ BackgroundReturns \/ RemoveConnection \/ OnConnected
      BY <3>2 DEF ClearConnection, OnDisconnected, BackgroundReturns, RemoveConnection, OnConnected, Take, Idle
    <3>3. CASE Applications \/ Stop \/ \E tr \in Transports : NewConnection(tr) \/ OnSocketClosed(tr)
      BY <3>3 DEF Applications, Stop, PeerConnects, PeerSends, PeerCloses, HandlerIsCalled, NewConnection,
                  OnSocketClosed, server
    <3>4. QED
      BY <1>2, <3>1, <3>2, <3>3
  <2>2. QED
    BY <1>1, <2>1
<1>3. CASE SignalConnected
  BY <1>3, NewestKeeps DEF SignalConnected, users, ToldOf
<1>4. CASE HandlerExit \/ HandlerCancel \/ HandlerJoin \/ BackgroundLoopEnds
  BY <1>1, <1>4 DEF HandlerExit, HandlerCancel, HandlerJoin, BackgroundLoopEnds
<1>5. CASE AddNewConnection
  BY <1>5 DEF AddNewConnection, NewestInv, NewestOf, ToldOf, users
<1>6. CASE RemoveExpiredClients
  <2>1. /\ pc' = "tell" /\ UNCHANGED client /\ todo' = m_clients' /\ m_clients' = {c \in m_clients : client[c] # "gone"}
        /\ late' = late \cup {c \in Clients : client[c] = "adding"}
    BY <1>6 DEF RemoveExpiredClients, Told
  <2>2. ASSUME NEW c \in Clients
        PROVE  /\ client[c] = "used" => c \in m_clients'
               /\ c \in m_clients' => client[c] \in {"used", "gone"}
    BY <2>1 DEF NewestInv
  <2>3. ASSUME NEW c \in Clients PROVE NewestOf(c)'
    BY <2>1, <2>2 DEF NewestOf, ToldOf
  <2>4. QED
    BY <2>1, <2>2, <2>3 DEF NewestInv
<1>7. CASE SetOnConnectedSut
  <2>1. PICK c \in todo :
           /\ todo' = todo \ {c} /\ late' = late \ {c}
           /\ m_client_connections' = IF client[c] = "gone" THEN m_client_connections
                                     ELSE [m_client_connections EXCEPT ![c][OnConnectedSut] = current]
    BY <1>7 DEF SetOnConnectedSut
  <2>2. /\ UNCHANGED <<m_clients, client, m_on_connected_sut, pc>> /\ pc = "tell" /\ current = m_on_connected_sut
    BY <1>7 DEF SetOnConnectedSut, ThreadInv
  <2>3. ASSUME Alive(m_on_connected_sut)' PROVE Alive(m_on_connected_sut)
    BY <2>2, <2>3, AliveStays
  <2>4. c \in Clients /\ OnConnectedSut \in Slots
    BY DEF Types, Slots
  <2>5. ASSUME NEW d \in Clients PROVE NewestOf(d)'
    <3>1. CASE d = c
      <4>1. client[c] # "gone" => m_client_connections'[c][OnConnectedSut] = m_on_connected_sut
        BY <2>1, <2>2, <2>4 DEF Types
      <4>2. QED
        BY <2>2, <3>1, <4>1 DEF NewestOf
    <3>2. CASE d # c
      <4>1. m_client_connections'[d] = m_client_connections[d]
        BY <2>1, <3>2 DEF Types
      <4>2. NewestOf(d)
        BY DEF NewestInv
      <4>3. QED
        BY <2>1, <2>2, <2>3, <3>2, <4>1, <4>2 DEF NewestOf, ToldOf
    <3>3. QED
      BY <3>1, <3>2
  <2>6. QED
    BY <2>2, <2>5 DEF NewestInv
<1>8. ASSUME NEW c \in Clients, Use(c) PROVE NewestInv'
  <2> OnConnectedSut \in Slots /\ OnConnectedSut \notin Indexes
    BY AutotestServerConstants DEF Slots
  <2>1. UNCHANGED <<m_on_connected_sut, late, pc, todo>>
    BY <1>8 DEF Use, CreateClient, AddClient, DestroyClient, ConnectionsSetIpcUse, ConnectionsClearIpcUse,
                ConnectionsSetUsage, server
  <2>2. ASSUME Alive(m_on_connected_sut)' PROVE Alive(m_on_connected_sut)
    BY <2>1, <2>2, AliveStays
  <2>3. CASE CreateClient(c)
    <3>1. /\ m_clients' = m_clients /\ client' = [client EXCEPT ![c] = "adding"] /\ client[c] = "none"
          /\ m_client_connections' = [m_client_connections EXCEPT ![c][OnConnectedSut] = Lock(m_on_connected_sut)]
      BY <2>3 DEF CreateClient
    <3>2. m_client_connections'[c][OnConnectedSut] = Lock(m_on_connected_sut)
      BY <3>1 DEF Types
    <3>3. NewestOf(c)'
      BY <2>1, <2>2, <3>2 DEF NewestOf, Lock
    <3>4. ASSUME NEW d \in Clients, d # c PROVE NewestOf(d)'
      <4>1. m_client_connections'[d] = m_client_connections[d] /\ client'[d] = client[d]
        BY <3>1, <3>4 DEF Types
      <4>2. QED
        BY <2>1, <2>2, <4>1 DEF NewestInv, NewestOf, ToldOf
    <3>5. QED
      BY <3>1, <3>3, <3>4 DEF NewestInv, Types
  <2>4. CASE AddClient(c) \/ DestroyClient(c)
    <3>1. /\ m_client_connections' = m_client_connections
          /\ \/ client[c] = "adding" /\ client' = [client EXCEPT ![c] = "used"] /\ m_clients' = m_clients \cup {c}
             \/ client[c] = "used" /\ client' = [client EXCEPT ![c] = "gone"] /\ m_clients' = m_clients
      BY <2>4 DEF AddClient, DestroyClient
    <3>2. ASSUME NEW d \in Clients PROVE NewestOf(d)'
      <4>1. client'[d] \in {"adding", "used"} => client[d] \in {"adding", "used"}
        BY <3>1 DEF Types
      <4>2. QED
        BY <2>1, <2>2, <3>1, <4>1 DEF NewestInv, NewestOf, ToldOf
    <3>3. QED
      BY <3>1, <3>2 DEF NewestInv, Types
  <2>5. CASE \E i \in Slots : ConnectionsClearIpcUse(c, i) \/ \E tr \in Transports : ConnectionsSetIpcUse(c, tr, i)
    <3>1. PICK i \in Slots : ConnectionsClearIpcUse(c, i) \/ \E tr \in Transports : ConnectionsSetIpcUse(c, tr, i)
      BY <2>5
    <3>2. PICK r : r = ClearIpcUse(m_client_connections[c], i)
      OBVIOUS
    <3>3. r.slots \in [Slots -> Transports \cup {None}] /\ r.slots[OnConnectedSut] = m_client_connections[c][OnConnectedSut]
      <4>1. m_client_connections[c] \in [Slots -> Transports \cup {None}]
        BY DEF Types
      <4>2. QED
        BY <3>2, <4>1, Clearing
    <3>4. /\ m_clients' = m_clients /\ client' = client
          /\ \/ m_client_connections' = [m_client_connections EXCEPT ![c] = r.slots]
             \/ \E tr \in Transports :
                   i \in Indexes /\ m_client_connections' = [m_client_connections EXCEPT ![c] = [r.slots EXCEPT ![i] = tr]]
      BY <3>1, <3>2 DEF ConnectionsClearIpcUse, ConnectionsSetIpcUse
    <3>5. \A d \in Clients : m_client_connections'[d][OnConnectedSut] = m_client_connections[d][OnConnectedSut]
      BY <3>3, <3>4 DEF Types
    <3>6. QED
      BY <2>1, <3>4, <3>5, NewestKeeps DEF ToldOf
  <2>6. CASE \E tr \in Transports, u \in {"use_ipc_call", "not_used"} : ConnectionsSetUsage(c, tr, u)
    <3>1. UNCHANGED <<m_clients, client, m_client_connections>>
      BY <2>6 DEF ConnectionsSetUsage
    <3>2. QED
      BY <2>1, <3>1, NewestKeeps DEF ToldOf
  <2>7. QED
    BY <1>8, <2>3, <2>4, <2>5, <2>6 DEF Use
<1>9. QED
  BY <1>2, <1>3, <1>4, <1>5, <1>6, <1>7, <1>8, NextCases DEF GoesOn, Elsewhere

-----------------------------------------------------------------------------
(* What indexes refer to                                                   *)

\* A connection that has come stays come.
LEMMA ArrivedStays ==
  ASSUME Types, ConnInv, ThreadInv, Next, NEW x \in Transports, ~Early(x), ~Coming(x)
  PROVE  ~Early(x)' /\ ~Coming(x)'
<1> None \notin Transports
  BY AutotestServerConstants
<1>1. CASE Reading
  <2>1. UNCHANGED <<peer, pc, current>>
    BY <1>1 DEF Reading, OnReadyRead, OnAlarm, RunHandlerCall, Handler, HandlerCreate, HandlerRuns, HandlerLoopExits,
                net, server
  <2>2. Within(posted', "connected", x) <=> Within(posted, "connected", x)
    BY <1>1, ReadingQueue DEF QueueKept
  <2>3. QED
    BY <2>1, <2>2 DEF Early, Coming, Bringing
<1>2. CASE GoesOn
  <2>1. UNCHANGED <<peer, posted>> /\ (Bringing(x)' => Bringing(x))
    BY <1>2, QuietQueue DEF GoesOn, RemoveExpiredClients, SetOnConnectedSut, SignalConnected, HandlerExit, HandlerCancel,
                HandlerJoin, BackgroundLoopEnds, net, Bringing, ThreadInv
  <2>2. QED
    BY <2>1 DEF Early, Coming
<1>3. CASE Elsewhere
  <2>1. posted' = posted /\ pc' = pc /\ current' = current /\ (Early(x)' => Early(x))
    BY <1>3, QuietQueue DEF Elsewhere, Applications, Stop, PeerConnects, PeerSends, PeerCloses, HandlerIsCalled, Use,
        CreateClient, AddClient, DestroyClient, ConnectionsSetIpcUse, ConnectionsClearIpcUse, ConnectionsSetUsage, net,
        server, Early, Types
  <2>2. QED
    BY <2>1 DEF Coming, Bringing
<1>4. ASSUME NEW tr \in Transports, NewConnection(tr) PROVE ~Early(x)' /\ ~Coming(x)'
  <2>1. tr # x
    BY <1>4 DEF NewConnection, Early
  <2>2. peer' = [peer EXCEPT ![tr] = "open"] /\ UNCHANGED <<pc, current>>
    BY <1>4 DEF NewConnection
  <2>3. PICK e : e = <<"connected", tr>>
    OBVIOUS
  <2>4. e \in Event /\ e # <<"connected", x>>
    BY <2>1, <2>3 DEF Event
  <2>5. posted' = posted \o <<e>> /\ posted \in Seq(Event)
    BY <1>4, <2>3 DEF NewConnection, Post, Types
  <2>6. Within(posted', "connected", x) <=> Within(posted, "connected", x)
    BY <2>4, <2>5, Queue1, Joined
  <2>7. QED
    BY <2>1, <2>2, <2>6 DEF Early, Coming, Bringing, Types
<1>5. ASSUME NEW tr \in Transports, OnSocketClosed(tr) PROVE ~Early(x)' /\ ~Coming(x)'
  <2>1. PICK s : s = DisconnectSlots(tr)
    OBVIOUS
  <2>2. s \in Seq(Event) /\ ~Within(s, "connected", x)
    BY <2>1, Queue2 DEF DisconnectSlots
  <2>3. posted' = posted \o s /\ posted \in Seq(Event) /\ UNCHANGED <<peer, pc, current>>
    BY <1>5, <2>1 DEF OnSocketClosed, Post, Types
  <2>4. Within(posted', "connected", x) <=> Within(posted, "connected", x)
    BY <2>2, <2>3, Joined
  <2>5. QED
    BY <2>3, <2>4 DEF Early, Coming, Bringing
<1>6. ASSUME NEW kind, Take(kind), posted' = Tail(posted), peer' = peer
      PROVE  /\ ~Within(posted', "connected", x) /\ ~Bringing(x) /\ ~Early(x)'
             /\ kind = "connected" => Taken # x
  BY <1>6, SlotTaken DEF Coming, Early
<1>7. CASE OnConnected
  <2>1. Take("connected") /\ posted' = Tail(posted) /\ peer' = peer /\ current' = Taken
    BY <1>7 DEF OnConnected, net
  <2>2. QED
    BY <1>6, <2>1 DEF Coming, Bringing
<1>8. CASE OnDisconnected
  <2>1. Take("disconnected") /\ posted' = Tail(posted) /\ peer' = peer /\ pc' = "remove"
    BY <1>8 DEF OnDisconnected, net
  <2>2. QED
    BY <1>6, <2>1 DEF Coming, Bringing
<1>9. CASE ClearConnection
  <2>1. Take("clear") /\ posted' = Tail(posted) /\ UNCHANGED <<peer, pc, current>>
    BY <1>9 DEF ClearConnection
  <2>2. QED
    BY <1>6, <2>1 DEF Coming, Bringing
<1>10. CASE AddNewConnection \/ RemoveConnection
  BY <1>10 DEF AddNewConnection, RemoveConnection, net, Early, Coming, Bringing
<1>11. CASE BackgroundReturns
  BY <1>11 DEF BackgroundReturns, Early, Coming, Bringing, Within
<1>12. QED
  BY <1>1, <1>2, <1>3, <1>4, <1>5, <1>7, <1>8, <1>9, <1>10, <1>11, NextCases

\* At the start no index refers to a connection.
LEMMA SlotInit == Init => SlotInv
BY AutotestServerConstants DEF Init, SlotInv, Slots

\* Only a client's own steps change what its indexes refer to.
LEMMA IndexesKept ==
  ASSUME Types, Next, ~\E c \in Clients : Use(c),
         NEW d \in Clients, NEW i \in Indexes
  PROVE  m_client_connections'[d][i] = m_client_connections[d][i]
<1> i \in Slots /\ i # OnConnectedSut
  BY AutotestServerConstants DEF Slots
<1>1. CASE SetOnConnectedSut
  BY <1>1 DEF SetOnConnectedSut, Types
<1>2. CASE m_client_connections' = m_client_connections
  BY <1>2
<1>3. CASE Reading
  BY <1>2, <1>3 DEF Reading, OnReadyRead, OnAlarm, RunHandlerCall, Handler, HandlerCreate, HandlerRuns,
                    HandlerLoopExits, users
<1>4. CASE GoesOn
  BY <1>1, <1>2, <1>4 DEF GoesOn, RemoveExpiredClients, SignalConnected, HandlerExit, HandlerCancel,
                          HandlerJoin, BackgroundLoopEnds, users
<1>5. CASE Applications \/ Stop
  BY <1>2, <1>5 DEF Applications, Stop, PeerConnects, PeerSends, PeerCloses, HandlerIsCalled, users
<1>6. CASE \/ ClearConnection \/ OnConnected \/ AddNewConnection \/ OnDisconnected \/ RemoveConnection \/ BackgroundReturns
           \/ \E tr \in Transports : NewConnection(tr) \/ OnSocketClosed(tr)
  BY <1>2, <1>6 DEF ClearConnection, OnConnected, AddNewConnection, OnDisconnected, RemoveConnection, BackgroundReturns,
                    NewConnection, OnSocketClosed, users
<1>7. QED
  BY <1>3, <1>4, <1>5, <1>6, NextCases DEF Elsewhere

\* What a client's own steps make an index refer to.
LEMMA IndexesSet ==
  ASSUME Types, NEW c \in Clients, Use(c), NEW d \in Clients, NEW i \in Indexes, NEW tr \in Transports,
         m_client_connections'[d][i] = tr
  PROVE  m_client_connections[d][i] = tr \/ Known(tr)
<1> /\ i \in Slots /\ i # OnConnectedSut /\ None \notin Transports
    /\ m_client_connections[c] \in [Slots -> Transports \cup {None}]
  BY AutotestServerConstants DEF Slots, Types
<1>1. CASE CreateClient(c)
  BY <1>1 DEF CreateClient, Types
<1>2. CASE \/ AddClient(c) \/ DestroyClient(c)
           \/ \E x \in Transports, u \in {"use_ipc_call", "not_used"} : ConnectionsSetUsage(c, x, u)
  BY <1>2 DEF AddClient, DestroyClient, ConnectionsSetUsage
<1>3. ASSUME NEW j \in Slots, ConnectionsClearIpcUse(c, j) \/ \E x \in Transports : ConnectionsSetIpcUse(c, x, j)
      PROVE  m_client_connections[d][i] = tr \/ Known(tr)
  <2>1. PICK r : r = ClearIpcUse(m_client_connections[c], j)
    OBVIOUS
  <2>2. /\ r.slots \in [Slots -> Transports \cup {None}]
        /\ r.slots[i] = m_client_connections[c][i] \/ r.slots[i] = None
    BY <2>1, Clearing
  <2>3. \/ m_client_connections' = [m_client_connections EXCEPT ![c] = r.slots]
        \/ \E x \in Transports :
              Known(x) /\ m_client_connections' = [m_client_connections EXCEPT ![c] = [r.slots EXCEPT ![j] = x]]
    BY <1>3, <2>1 DEF ConnectionsClearIpcUse, ConnectionsSetIpcUse, Known
  <2>4. CASE d = c
    BY <2>2, <2>3, <2>4 DEF Types
  <2>5. CASE d # c
    BY <2>3, <2>5 DEF Types
  <2>6. QED
    BY <2>4, <2>5
<1>4. QED
  BY <1>1, <1>2, <1>3 DEF Use

\* Every step keeps that indexes refer to connections that came.
LEMMA SlotStep == ASSUME Types, ConnInv, ThreadInv, SlotInv, Next PROVE SlotInv'
<1>1. ASSUME NEW c \in Clients, NEW i \in Indexes, NEW tr \in Transports, m_client_connections'[c][i] = tr
      PROVE  ~Early(tr)' /\ ~Coming(tr)'
  <2>1. m_client_connections[c][i] = tr \/ Known(tr)
    BY <1>1, IndexesKept, IndexesSet
  <2>2. ConnectionRight(tr)
    BY DEF ConnInv
  <2>3. ~Early(tr) /\ ~Coming(tr)
    BY <2>1, <2>2 DEF SlotInv, ConnectionRight
  <2>4. QED
    BY <2>3, ArrivedStays
<1>2. QED
  BY <1>1 DEF SlotInv

-----------------------------------------------------------------------------
(* The theorems                                                            *)

\* The invariant holds in every state.
LEMMA ServerInvariant == Spec => []ServerInv
<1>1. Init => ServerInv
  BY TypesInit, ConnInit, ThreadInit, NewestInit, SlotInit DEF ServerInv
<1>2. ServerInv /\ [Next]_vars => ServerInv'
  <2>1. CASE Next
    BY <2>1, TypesStep, ConnStep, ThreadStep, NewestStep, SlotStep DEF ServerInv
  <2>2. CASE UNCHANGED vars
    <3>1. /\ UNCHANGED <<peer, posted, m_connection, m_connection_transports, pc, current, todo, ending, usage>>
          /\ UNCHANGED <<m_on_connected_sut, m_clients, client, m_client_connections, late, m_sut_handler, stopping, handler>>
      BY <2>2 DEF vars, net, server, users, threads
    <3>2. (Types => Types') /\ (ThreadInv => ThreadInv')
      BY <3>1 DEF Types, ThreadInv, Known, Bringing
    <3>3. ConnInv => ConnInv'
      BY <3>1 DEF ConnInv, InOrder, ConnectionRight, Within, Early, Coming, Bringing, Known, Going, Leaving
    <3>4. NewestInv => NewestInv'
      BY <3>1 DEF NewestInv, NewestOf, ToldOf, Alive
    <3>5. SlotInv => SlotInv'
      BY <3>1 DEF SlotInv, Early, Coming, Bringing, Within
    <3>6. QED
      BY <3>2, <3>3, <3>4, <3>5 DEF ServerInv
  <2>3. QED
    BY <2>1, <2>2
<1>3. QED
  BY <1>1, <1>2, PTL DEF Spec

\* The server has the connections that are open and those whose end is queued,
\* and no others; and a client that was not being added just then knows the
\* newest one (OnConnected, OnDisconnected, AddNewConnection, AddClient).
THEOREM ServerKnows == Spec => []ConnectionsKnown
<1>1. ServerInv => ConnectionsKnown
  <2> SUFFICES ASSUME ServerInv PROVE ConnectionsKnown
    OBVIOUS
  <2> Types /\ ConnInv /\ ThreadInv /\ NewestInv
    BY DEF ServerInv
  <2>1. TypeOK
    BY DEF Types, TypeOK
  <2>2. \A k, tr : Queued(k, tr) <=> Within(posted, k, tr)
    BY DEF Queued, Within
  <2>3. NoGhostConnections
    <3> SUFFICES ASSUME ending = "no", NEW tr \in Transports
                 PROVE  /\ usage[tr] # None => tr \in m_connection \/ Queued("disconnected", tr) \/ current = tr
                        /\ tr \in m_connection => usage[tr] # None \/ Queued("connected", tr) \/ current = tr
                        /\ tr \in m_connection_transports => tr \in m_connection \/ Queued("clear", tr)
      BY DEF NoGhostConnections
    <3>1. ConnectionRight(tr)
      BY DEF ConnInv
    <3>2. QED
      BY <2>2, <3>1 DEF ConnectionRight, ThreadInv, Known, Going, Leaving, Coming, Bringing
  <2>4. NewestKnown
    BY DEF NewestInv, NewestOf, ToldOf, NewestKnown, Types
  <2>5. QED
    BY <2>1, <2>3, <2>4 DEF ConnectionsKnown
<1>2. QED
  BY <1>1, ServerInvariant, PTL

\* The thread of the autotests belongs to a connection that the server has, and
\* no other thread runs autotests (OnConnected, RemoveConnection, ~SutHandlerThread).
THEOREM AutotestsRight == Spec => []AutotestsOfConnection
<1>1. ServerInv => AutotestsOfConnection
  BY DEF ServerInv, ThreadInv, AutotestsOfConnection, Known, Bringing
<1>2. QED
  BY <1>1, ServerInvariant, PTL

-----------------------------------------------------------------------------
(* The usage of connections, with one client                               *)

\* There is one client.
OneClient == \A c, d \in Clients : c = d

\* What ClearIpcUseLocked leaves matches.
LEMMA ClearedMatches ==
  ASSUME Types, UsageMatches, NEW c \in Clients, \A d \in Clients : d = c, NEW i \in Slots,
         NEW r, r = ClearIpcUse(m_client_connections[c], i), NEW u, u = SetUsage(r.unused, "not_used"),
         NEW y \in Transports \ marked, Known(y)
  PROVE  /\ u[y] = "use_ipc_call" <=> \E j \in Indexes : r.slots[j] = y
         /\ i \in Indexes => r.slots[i] # y
<1> DEFINE s == m_client_connections[c]
<1> s \in [Slots -> Transports \cup {None}] /\ None \notin Transports /\ Indexes \subseteq Slots
  BY AutotestServerConstants DEF Types, Slots
<1>1. usage[y] = "use_ipc_call" <=> \E j \in Indexes : s[j] = y
  BY DEF UsageMatches, Known
<1>2. u[y] = IF y \in r.unused THEN "not_used" ELSE usage[y]
  BY DEF SetUsage, Known
<1>3. CASE i \notin Indexes \/ Lock(s[i]) = None
  <2>1. r = [slots |-> s, unused |-> {}]
    BY <1>3 DEF ClearIpcUse
  <2>2. r.slots = s /\ r.unused = {}
    BY <2>1
  <2>3. i \in Indexes => s[i] # y
    BY <1>3 DEF Lock, Alive, Known
  <2>4. QED
    BY <1>1, <1>2, <2>2, <2>3
<1>4. CASE i \in Indexes /\ Lock(s[i]) # None
  <2>1. PICK x, cleared : x = s[i] /\ cleared = [s EXCEPT ![i] = None]
    OBVIOUS
  <2>2. Lock(s[i]) = x /\ x \in Transports
    BY <1>4, <2>1 DEF Lock
  <2>3. r = [slots |-> cleared, unused |-> IF StillUsed(cleared, x) THEN {} ELSE {x}]
    BY <1>4, <2>1, <2>2 DEF ClearIpcUse
  <2>4. r.slots = cleared /\ r.unused = IF StillUsed(cleared, x) THEN {} ELSE {x}
    BY <2>3
  <2>5. cleared[i] = None /\ \A j \in Slots : j # i => cleared[j] = s[j]
    BY <2>1
  <2>6. CASE y = x
    <3>1. usage[y] = "use_ipc_call"
      BY <1>1, <1>4, <2>1, <2>6
    <3>2. u[y] = "use_ipc_call" <=> StillUsed(cleared, x)
      BY <1>2, <2>4, <2>6, <3>1
    <3>3. QED
      BY <2>4, <2>5, <2>6, <3>2 DEF StillUsed
  <2>7. CASE y # x
    <3>1. u[y] = usage[y]
      BY <1>2, <2>4, <2>7
    <3>2. \A j \in Indexes : cleared[j] = y <=> s[j] = y
      BY <2>1, <2>5, <2>7
    <3>3. QED
      BY <1>1, <2>4, <2>5, <3>1, <3>2
  <2>8. QED
    BY <2>6, <2>7
<1>5. QED
  BY <1>3, <1>4

\* The only client keeps the usage of a connection right.
LEMMA UseMatches ==
  ASSUME Types, ServerInv, UsageMatches, NEW c \in Clients, \A d \in Clients : d = c, Use(c)
  PROVE  UsageMatches'
<1> Indexes \subseteq Slots /\ OnConnectedSut \in Slots /\ OnConnectedSut \notin Indexes
  BY AutotestServerConstants DEF Slots
<1>1. CASE CreateClient(c)
  <2>1. UNCHANGED <<usage, marked>> /\ \E x : m_client_connections' = [m_client_connections EXCEPT ![c][OnConnectedSut] = x]
    BY <1>1 DEF CreateClient
  <2>2. \A d \in Clients, j \in Indexes : m_client_connections'[d][j] = m_client_connections[d][j]
    BY <2>1 DEF Types
  <2>3. QED
    BY <2>1, <2>2 DEF UsageMatches
<1>2. CASE AddClient(c) \/ DestroyClient(c)
  BY <1>2 DEF AddClient, DestroyClient, UsageMatches
<1>3. ASSUME NEW x \in Transports, NEW v \in {"use_ipc_call", "not_used"}, ConnectionsSetUsage(c, x, v) PROVE UsageMatches'
  <2>1. usage' = [usage EXCEPT ![x] = v] /\ marked' = marked \cup {x} /\ UNCHANGED m_client_connections
    BY <1>3 DEF ConnectionsSetUsage
  <2>2. \A y \in Transports \ marked' : usage'[y] = usage[y]
    BY <2>1 DEF Types
  <2>3. QED
    BY <2>1, <2>2 DEF UsageMatches
<1>4. ASSUME NEW i \in Slots, ConnectionsClearIpcUse(c, i) \/ \E x \in Transports : ConnectionsSetIpcUse(c, x, i)
      PROVE  UsageMatches'
  <2>1. PICK r, u : r = ClearIpcUse(m_client_connections[c], i) /\ u = SetUsage(r.unused, "not_used")
    OBVIOUS
  <2>2. r.slots \in [Slots -> Transports \cup {None}]
    <3>1. m_client_connections[c] \in [Slots -> Transports \cup {None}]
      BY DEF Types
    <3>2. QED
      BY <2>1, <3>1, Clearing
  <2>3. marked' = marked /\ \A y \in Transports : Known(y)' <=> Known(y)
    BY <1>4, Using DEF ConnectionsClearIpcUse, ConnectionsSetIpcUse, Use
  <2>4. u \in [Transports -> Usages \cup {None}]
    BY <2>1, UsageSet DEF Usages
  <2>5. ASSUME NEW y \in Transports \ marked, Known(y)
        PROVE  /\ u[y] = "use_ipc_call" <=> \E j \in Indexes : r.slots[j] = y
               /\ i \in Indexes => r.slots[i] # y
    BY <2>1, <2>5, ClearedMatches
  <2>6. CASE m_client_connections' = [m_client_connections EXCEPT ![c] = r.slots] /\ usage' = u
    <3>1. m_client_connections'[c] = r.slots
      BY <2>6 DEF Types
    <3>2. ASSUME NEW y \in Transports \ marked', usage'[y] # None
          PROVE  usage'[y] = "use_ipc_call" <=> \E d \in Clients, j \in Indexes : m_client_connections'[d][j] = y
      <4>1. y \notin marked /\ Known(y)
        BY <2>3, <3>2 DEF Known
      <4>2. u[y] = "use_ipc_call" <=> \E j \in Indexes : r.slots[j] = y
        BY <2>5, <4>1
      <4>3. QED
        BY <2>6, <3>1, <4>2
    <3>3. QED
      BY <3>2 DEF UsageMatches
  <2>7. ASSUME NEW x \in Transports, i \in Indexes, usage' = [u EXCEPT ![x] = "use_ipc_call"],
               m_client_connections' = [m_client_connections EXCEPT ![c] = [r.slots EXCEPT ![i] = x]]
        PROVE  UsageMatches'
    <3>1. m_client_connections'[c] = [r.slots EXCEPT ![i] = x]
      BY <2>7 DEF Types
    <3>2. m_client_connections'[c][i] = x /\ \A j \in Indexes : j # i => m_client_connections'[c][j] = r.slots[j]
      BY <2>2, <2>7, <3>1
    <3>3. ASSUME NEW y \in Transports \ marked', usage'[y] # None
          PROVE  usage'[y] = "use_ipc_call" <=> \E d \in Clients, j \in Indexes : m_client_connections'[d][j] = y
      <4>1. y \notin marked /\ Known(y)
        BY <2>3, <3>3 DEF Known
      <4>2. CASE y = x
        BY <2>4, <2>7, <3>2, <4>2
      <4>3. CASE y # x
        <5>1. usage'[y] = u[y]
          BY <2>4, <2>7, <4>3
        <5>2. u[y] = "use_ipc_call" <=> \E j \in Indexes : r.slots[j] = y
          BY <2>5, <4>1
        <5>3. r.slots[i] # y
          BY <2>5, <2>7, <4>1
        <5>4. \A j \in Indexes : m_client_connections'[c][j] = y <=> r.slots[j] = y
          BY <3>2, <4>3, <5>3
        <5>5. QED
          BY <5>1, <5>2, <5>4
      <4>4. QED
        BY <4>2, <4>3
    <3>4. QED
      BY <3>3 DEF UsageMatches
  <2>8. QED
    BY <1>4, <2>1, <2>6, <2>7 DEF ConnectionsClearIpcUse, ConnectionsSetIpcUse
<1>5. QED
  BY <1>1, <1>2, <1>3, <1>4 DEF Use

\* With one client a connection is in use if and only if an index refers to it,
\* unless the client has set its usage (ClearIpcUseLocked, Connections_SetIpcUse).
THEOREM UsageRight ==
    ASSUME OneClient
    PROVE  Spec => []UsageMatches
<1> None \notin Transports /\ Indexes \subseteq Slots
  BY AutotestServerConstants DEF Slots
<1>1. Init => UsageMatches
  BY DEF Init, UsageMatches
<1>2. ASSUME ServerInv, UsageMatches, [Next]_vars PROVE UsageMatches'
  <2> Types /\ ThreadInv /\ SlotInv /\ ConnInv
    BY <1>2 DEF ServerInv
  <2>1. ASSUME NEW c \in Clients, Use(c) PROVE UsageMatches'
    BY <1>2, <2>1, UseMatches DEF OneClient
  <2>2. ASSUME Next, ~\E c \in Clients : Use(c) PROVE UsageMatches'
    <3>1. \A d \in Clients, j \in Indexes : m_client_connections'[d][j] = m_client_connections[d][j]
      BY <2>2, IndexesKept
    <3>2. CASE AddNewConnection
      <4>1. current \in Transports /\ usage' = [usage EXCEPT ![current] = "newly_connected"] /\ marked' = marked /\ pc = "insert"
        BY <3>2 DEF AddNewConnection, ThreadInv, Types, users
      <4>2. \A d \in Clients, j \in Indexes : m_client_connections[d][j] # current
        BY <4>1 DEF SlotInv, Coming, Bringing
      <4>3. usage'[current] = "newly_connected" /\ \A y \in Transports : y # current => usage'[y] = usage[y]
        BY <4>1 DEF Types
      <4>4. QED
        BY <1>2, <3>1, <4>1, <4>2, <4>3 DEF UsageMatches
    <3>3. CASE marked' = marked /\ \A y \in Transports : usage'[y] \in {usage[y], None}
      BY <1>2, <3>1, <3>3 DEF UsageMatches
    <3>4. CASE ~AddNewConnection
      <4>1. CASE RemoveConnection
        BY <3>3, <4>1 DEF RemoveConnection, users, Types
      <4>2. CASE usage' = usage /\ marked' = marked
        BY <3>3, <4>2
      <4>3. CASE Reading
        BY <4>2, <4>3 DEF Reading, OnReadyRead, OnAlarm, RunHandlerCall, Handler, HandlerCreate, HandlerRuns,
                          HandlerLoopExits, users
      <4>4. CASE GoesOn
        BY <4>2, <4>4 DEF GoesOn, RemoveExpiredClients, SetOnConnectedSut, SignalConnected, HandlerExit, HandlerCancel,
                          HandlerJoin, BackgroundLoopEnds, users
      <4>5. CASE Applications \/ Stop
        BY <4>2, <4>5 DEF Applications, Stop, PeerConnects, PeerSends, PeerCloses, HandlerIsCalled, users
      <4>6. CASE \/ ClearConnection \/ OnConnected \/ OnDisconnected \/ BackgroundReturns
                 \/ \E tr \in Transports : NewConnection(tr) \/ OnSocketClosed(tr)
        BY <4>2, <4>6 DEF ClearConnection, OnConnected, OnDisconnected, BackgroundReturns, NewConnection, OnSocketClosed, users
      <4>7. QED
        BY <2>2, <3>4, <4>1, <4>3, <4>4, <4>5, <4>6, NextCases DEF Elsewhere
    <3>5. QED
      BY <3>2, <3>4
  <2>3. CASE UNCHANGED vars
    BY <1>2, <2>3 DEF vars, users, UsageMatches
  <2>4. QED
    BY <1>2, <2>1, <2>2, <2>3
<1>3. QED
  BY <1>1, <1>2, ServerInvariant, PTL DEF Spec
=============================================================================
