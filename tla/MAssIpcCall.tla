---------------------------- MODULE MAssIpcCall ----------------------------
(***************************************************************************)
(* One MAssIpcCall endpoint used by many threads: the consumer-producer    *)
(* queue of Ipc/MAssIpcCall.cpp (ProcessTransportResponse) in which one    *)
(* waiting thread at a time reads the transport for all of them.           *)
(*                                                                         *)
(* An Activation is one run of InvokeUnified, EnumerateRemote or           *)
(* ProcessTransport on some thread.  Every critical section under          *)
(* PendingResponces::m_lock is one atomic action; what happens outside the *)
(* lock (transport Write and Read, the handlers) is one action per call.   *)
(* Handlers run on the thread that took the packet (no                     *)
(* MAssIpc_Transthread is installed).  The transport is a FIFO of packets; *)
(* the peer answers in any order and may call back.                        *)
(***************************************************************************)
EXTENDS Integers, Sequences, FiniteSets

CONSTANTS Thread,        \* the threads that use the endpoint
          Activation,    \* the calls they may make, each used once
          NoThread,      \* MAssIpc_ThreadSafe::id()
          NoPacket,      \* an empty CallDataBuffer (pt_undefined)
          CallIdCount,   \* number of values of CallId (2^32 in the code)
          MaxIncoming,   \* bound: calls the peer makes
          CallKind,      \* the kinds of calls the application makes
          PeerSends,     \* the types of packets the peer sends
          Reenter,       \* where foreign code run by the library may call it
          Failures       \* what may happen to the transport

ASSUME ConstantsAssumption ==
    /\ NoThread \notin Thread
    /\ CallIdCount \in Nat /\ CallIdCount > 1
    /\ MaxIncoming \in Nat /\ MaxIncoming < CallIdCount
    /\ CallKind \subseteq {"wait", "async", "enumerate", "process"}
    /\ PeerSends \subseteq {"pt_enumerate", "pt_call", "pt_return",
                         "pt_return_fail_call", "pt_return_enumerate"}
    /\ Reenter \subseteq {"handler", "read", "write"}
    /\ Failures \subseteq {"cancel", "expire"}

CallId == 0 .. CallIdCount - 1
c_invalid_id == 0

\* PacketType: "pt_call" and before are incoming calls, "pt_return" and after
\* are responses.
IncomingType == {"pt_enumerate", "pt_call"}
ResponseType == {"pt_return", "pt_return_fail_call", "pt_return_enumerate"}

\* A packet's header.  "of" is the call a response answers: it is not on the
\* wire and no guard reads it, only properties and collided do.
IncomingPacket == [type : IncomingType, id : CallId, send_return : BOOLEAN]
ResponsePacket == [type : ResponseType, id : CallId, of : Activation]
Packet == IncomingPacket \cup ResponsePacket

ASSUME NoPacketAssumption == NoPacket \notin Packet

IsIncoming(p) == p # NoPacket /\ p.type \in IncomingType
IsResponse(p) == p # NoPacket /\ p.type \in ResponseType

\* A request the peer has to answer.
Request == [type : IncomingType, id : CallId, of : Activation]

Kind == {"wait", "async", "enumerate", "process"}
WaitingKind == {"wait", "enumerate"}

ReaderPc == {"get_transport", "read", "write_buffer"}
Pc == {"free", "write", "read_buffer", "cond_wait", "woken", "process",
       "handler", "done"} \cup ReaderPc

\* How an activation returned, one value per return statement.
Result == {"none", "data", "error", "reentrance", "busy", "idle",
           "cancelled", "unsent", "sent"}

VARIABLES
    \* PendingResponces
    m_thread_waiting_transport, m_incremental_id,
    m_id_data_return, m_data_incoming_call,
    \* the activations and the stack of each thread
    stack, thread, pc, kind, wait_response_id,
    process_incoming_calls, buffer, transport_ok, result,
    \* the transport and the peer
    inbox, peer, peer_calls, cancel_wait_respond, expired,
    \* history: ids handed out while in use; calls made inside Read of the
    \* same thread; incoming calls processed, and answered
    collided, under_read, handled, replied

pending_vars == <<m_thread_waiting_transport, m_incremental_id,
                  m_id_data_return, m_data_incoming_call>>
frame_vars == <<stack, thread, wait_response_id,
                process_incoming_calls, result>>
call_vars == <<kind, under_read>>
run_vars == <<frame_vars, call_vars, pc, buffer, transport_ok>>
peer_vars == <<inbox, peer, peer_calls>>
failure_vars == <<cancel_wait_respond, expired>>
vars == <<pending_vars, run_vars, peer_vars, failure_vars,
          collided, handled, replied>>

Init ==
    /\ m_thread_waiting_transport = NoThread
    /\ m_incremental_id = 0
    /\ m_id_data_return = [n \in CallId |-> NoPacket]
    /\ m_data_incoming_call = <<>>
    /\ stack = [t \in Thread |-> <<>>]
    /\ thread = [a \in Activation |-> NoThread]
    /\ pc = [a \in Activation |-> "free"]
    /\ kind = [a \in Activation |-> "process"]
    /\ wait_response_id = [a \in Activation |-> c_invalid_id]
    /\ process_incoming_calls = [a \in Activation |-> FALSE]
    /\ buffer = [a \in Activation |-> NoPacket]
    /\ transport_ok = [a \in Activation |-> FALSE]
    /\ result = [a \in Activation |-> "none"]
    /\ inbox = <<>>
    /\ peer = {}
    /\ peer_calls = 0
    /\ cancel_wait_respond = FALSE
    /\ expired = FALSE
    /\ collided = FALSE
    /\ under_read = [a \in Activation |-> FALSE]
    /\ handled = {}
    /\ replied = {}

-----------------------------------------------------------------------------
(* Starting a call.                                                        *)

\* The call a thread is executing.
Top(t) == stack[t][Len(stack[t])]

\* A thread calls the endpoint from application code, from a handler, or from
\* a callback of its own transport's Read or Write.
CanCall(t) ==
    \/ stack[t] = <<>>
    \/ stack[t] # <<>> /\ pc[Top(t)] \in Reenter

\* wait_incoming_packet
WaitIncoming(a) == wait_response_id[a] # c_invalid_id

Successor(n) == IF n + 1 = CallIdCount THEN 0 ELSE n + 1

\* Increments of m_incremental_id before id n is tried.
Distance(n) == IF n >= m_incremental_id
               THEN n - m_incremental_id
               ELSE n - m_incremental_id + CallIdCount

AvailableIds_KeepStored == CallId \ {c_invalid_id}

AvailableIds == {n \in CallId \ {c_invalid_id} : m_id_data_return[n] = NoPacket}

\* The id the do-while loop of NewCallId stops at.
IsNewCallId(n) ==
    /\ n \in AvailableIds
    /\ \A k \in AvailableIds : Distance(n) <= Distance(k)

\* Ids of calls that still run or whose answer is on its way.  The code does
\* not keep this set: NewCallId looks at m_id_data_return only.
InUse(n) ==
    \/ \E a \in Activation : /\ pc[a] \notin {"free", "done"}
                             /\ WaitIncoming(a)
                             /\ wait_response_id[a] = n
    \/ \E q \in peer : q.id = n
    \/ \E i \in 1 .. Len(inbox) : IsResponse(inbox[i]) /\ inbox[i].id = n
    \/ \E a \in Activation : /\ pc[a] = "write_buffer"
                             /\ IsResponse(buffer[a])
                             /\ buffer[a].id = n

\* Activations are alike: the next call takes one that was not used yet.
NextActivation == CHOOSE a \in Activation : pc[a] = "free"

Push(t, a, k, n, proc_in, first) ==
    /\ k \in CallKind
    /\ pc[a] = "free" /\ a = NextActivation
    /\ CanCall(t)
    /\ stack' = [stack EXCEPT ![t] = Append(@, a)]
    /\ thread' = [thread EXCEPT ![a] = t]
    /\ kind' = [kind EXCEPT ![a] = k]
    /\ wait_response_id' = [wait_response_id EXCEPT ![a] = n]
    /\ process_incoming_calls' = [process_incoming_calls EXCEPT ![a] = proc_in]
    /\ under_read' = [under_read EXCEPT ![a] = (m_thread_waiting_transport = t)]
    /\ pc' = [pc EXCEPT ![a] = first]
    /\ UNCHANGED <<buffer, transport_ok, result, peer_vars, failure_vars, handled, replied>>

ProcessTransport(t, a) ==
    /\ Push(t, a, "process", c_invalid_id, TRUE, "read_buffer")
    /\ UNCHANGED <<pending_vars, collided>>

\* InvokeUnified and EnumerateRemote up to the NewCallId critical section.
InvokeUnified(t, a, k, proc_in) ==
    \E n \in CallId :
        /\ IsNewCallId(n)
        /\ Push(t, a, k, n, proc_in, "write")
        /\ m_incremental_id' = Successor(n)
        /\ collided' = (collided \/ InUse(n))
        /\ UNCHANGED <<m_thread_waiting_transport, m_id_data_return,
                       m_data_incoming_call>>

-----------------------------------------------------------------------------
(* Steps of a running activation.                                          *)

Running(a) ==
    /\ thread[a] \in Thread
    /\ stack[thread[a]] # <<>>
    /\ Top(thread[a]) = a

\* The frame of a stays; or it is popped and its locals are gone.
Stay == UNCHANGED frame_vars

Pop(a, r) ==
    /\ result' = [result EXCEPT ![a] = r]
    /\ stack' = [stack EXCEPT ![thread[a]] = SubSeq(@, 1, Len(@) - 1)]
    /\ thread' = [thread EXCEPT ![a] = NoThread]
    /\ wait_response_id' = [wait_response_id EXCEPT ![a] = c_invalid_id]
    /\ process_incoming_calls' = [process_incoming_calls EXCEPT ![a] = FALSE]

Continue(a, next) == pc' = [pc EXCEPT ![a] = next] /\ Stay
Return(a, r) == pc' = [pc EXCEPT ![a] = "done"] /\ Pop(a, r)

\* InvokeRemote: without a transport nothing is sent and nothing waited for.
InvokeRemote(a) ==
    /\ Running(a) /\ pc[a] = "write"
    /\ \/ /\ expired
          /\ Return(a, "unsent")
          /\ UNCHANGED peer
       \/ /\ ~expired /\ kind[a] = "async"
          /\ Return(a, "sent")
          /\ UNCHANGED peer
       \/ /\ ~expired /\ kind[a] \in WaitingKind
          /\ peer' = peer \cup
                {[type |-> IF kind[a] = "enumerate" THEN "pt_enumerate" ELSE "pt_call",
                  id |-> wait_response_id[a], of |-> a]}
          /\ Continue(a, "read_buffer")
    /\ UNCHANGED <<pending_vars, call_vars, buffer, transport_ok, inbox,
                   peer_calls, failure_vars, collided, handled, replied>>

IsLocked == m_thread_waiting_transport # NoThread
IsCurrent_AnyThread(a) == m_thread_waiting_transport # NoThread
IsCurrent(a) == m_thread_waiting_transport = thread[a]

\* At the head of ReadBuffer's inner loop, m_lock held.
Searching(a) ==
    /\ Running(a)
    /\ \/ pc[a] = "read_buffer" /\ ~IsCurrent(a)
       \/ pc[a] = "woken"

\* The thread is already inside this endpoint's transport read.
ReadBuffer_Reentrance(a) ==
    /\ Running(a) /\ pc[a] = "read_buffer"
    /\ IsCurrent(a)
    /\ Return(a, "reentrance")
    /\ UNCHANGED <<pending_vars, call_vars, buffer, transport_ok, peer_vars,
                   failure_vars, collided, handled, replied>>

ResponseStored(a) == m_id_data_return[wait_response_id[a]] # NoPacket

ReadBuffer_TakeResponse(a) ==
    /\ Searching(a)
    /\ ResponseStored(a)
    /\ buffer' = [buffer EXCEPT ![a] = m_id_data_return[wait_response_id[a]]]
    /\ m_id_data_return' = [m_id_data_return EXCEPT ![wait_response_id[a]] = NoPacket]
    /\ Continue(a, "process")
    /\ UNCHANGED <<m_thread_waiting_transport, m_incremental_id,
                   m_data_incoming_call, call_vars, transport_ok, peer_vars,
                   failure_vars, collided, handled, replied>>

CallQueued(a) == process_incoming_calls[a] /\ m_data_incoming_call # <<>>

RemainingCalls == Tail(m_data_incoming_call)

ReadBuffer_TakeIncoming(a) ==
    /\ Searching(a)
    /\ ~ResponseStored(a)
    /\ CallQueued(a)
    /\ buffer' = [buffer EXCEPT ![a] = Head(m_data_incoming_call)]
    /\ m_data_incoming_call' = RemainingCalls
    /\ Continue(a, "process")
    /\ UNCHANGED <<m_thread_waiting_transport, m_incremental_id,
                   m_id_data_return, call_vars, transport_ok, peer_vars,
                   failure_vars, collided, handled, replied>>

\* Another thread reads the transport: wait for it, or return.
ReadBuffer_ReaderBusy(a) ==
    /\ Searching(a)
    /\ ~ResponseStored(a) /\ ~CallQueued(a)
    /\ IsLocked
    /\ \/ WaitIncoming(a) /\ Continue(a, "cond_wait")
       \/ ~WaitIncoming(a) /\ Return(a, "busy")
    /\ UNCHANGED <<pending_vars, call_vars, buffer, transport_ok, peer_vars,
                   failure_vars, collided, handled, replied>>

MayRead(a) == ~ResponseStored(a) /\ ~CallQueued(a) /\ ~IsLocked

ReadBuffer_BecomeReader(a) ==
    /\ Searching(a)
    /\ MayRead(a)
    /\ m_thread_waiting_transport' = thread[a]
    /\ Continue(a, "get_transport")
    /\ UNCHANGED <<m_incremental_id, m_id_data_return, m_data_incoming_call,
                   call_vars, buffer, transport_ok, peer_vars, failure_vars,
                   collided, handled, replied>>

\* The condition variable may wake without a notification.
SpuriousWakeup(a) ==
    /\ Running(a) /\ pc[a] = "cond_wait"
    /\ Continue(a, "woken")
    /\ UNCHANGED <<pending_vars, call_vars, buffer, transport_ok, peer_vars,
                   failure_vars, collided, handled, replied>>

\* m_transport.lock()
GetTransport(a) ==
    /\ Running(a) /\ pc[a] = "get_transport"
    /\ IF expired
       THEN /\ buffer' = [buffer EXCEPT ![a] = NoPacket]
            /\ transport_ok' = [transport_ok EXCEPT ![a] = FALSE]
            /\ Continue(a, "write_buffer")
       ELSE /\ Continue(a, "read")
            /\ UNCHANGED <<buffer, transport_ok>>
    /\ UNCHANGED <<pending_vars, call_vars, peer_vars, failure_vars,
                   collided, handled, replied>>

Read(a, packet, ok) ==
    /\ Running(a) /\ pc[a] = "read"
    /\ buffer' = [buffer EXCEPT ![a] = packet]
    /\ transport_ok' = [transport_ok EXCEPT ![a] = ok]
    /\ Continue(a, "write_buffer")
    /\ UNCHANGED <<pending_vars, call_vars, peer, peer_calls, failure_vars,
                   collided, handled, replied>>

\* A transport may still deliver what had arrived before it was cancelled.
ReadPacket(a) ==
    /\ inbox # <<>>
    /\ Read(a, Head(inbox), TRUE)
    /\ inbox' = Tail(inbox)

\* Nothing complete to read: a non-waiting read returns at once, a waiting one
\* may return without a packet (TransportProxy::Read after a partial packet).
ReadNothing(a) ==
    /\ inbox = <<>>
    /\ WaitIncoming(a) => ~cancel_wait_respond
    /\ Read(a, NoPacket, TRUE)
    /\ UNCHANGED inbox

ReadCancelled(a) ==
    /\ cancel_wait_respond
    /\ Read(a, NoPacket, FALSE)
    /\ UNCHANGED inbox

\* std::map::insert keeps an entry that is already there.
StoreResponse(p) ==
    IF IsResponse(p) /\ m_id_data_return[p.id] = NoPacket
    THEN [m_id_data_return EXCEPT ![p.id] = p]
    ELSE m_id_data_return

QueueCall_Front(p) == IF IsIncoming(p) THEN <<p>> \o m_data_incoming_call
                      ELSE m_data_incoming_call

\* The queue after a packet of either sort was received.
QueueCall(p) == IF IsIncoming(p) THEN Append(m_data_incoming_call, p)
                ELSE m_data_incoming_call

NotifyAll_One(at) ==
    IF \E b \in Activation : at[b] = "cond_wait"
    THEN [at EXCEPT ![CHOOSE b \in Activation : at[b] = "cond_wait"] = "woken"]
    ELSE at
NotifyAll_None(at) == at
NotifyAll_UnlessCancelled(at) ==
    [b \in Activation |-> IF at[b] = "cond_wait" /\ ~cancel_wait_respond
                          THEN "woken" ELSE at[b]]

\* m_write_cond.notify_all()
NotifyAll(at) ==
    [b \in Activation |-> IF at[b] = "cond_wait" THEN "woken" ELSE at[b]]

\* unlock of the reader role, the packet stored, notify_all, and the two
\* returns that follow the critical section.
WriteBuffer(a) ==
    LET p == buffer[a]
        more == process_incoming_calls[a] /\ QueueCall(p) # <<>>
        stop == ~transport_ok[a]
                \/ (~WaitIncoming(a) /\ ~more /\ ~IsResponse(p))
    IN  /\ Running(a) /\ pc[a] = "write_buffer"
        /\ m_thread_waiting_transport' = NoThread
        /\ m_data_incoming_call' = QueueCall(p)
        /\ m_id_data_return' = StoreResponse(p)
        /\ buffer' = [buffer EXCEPT ![a] = NoPacket]
        /\ pc' = NotifyAll([pc EXCEPT ![a] = IF stop THEN "done"
                                             ELSE "read_buffer"])
        /\ IF stop THEN Pop(a, IF transport_ok[a] THEN "idle" ELSE "cancelled")
                   ELSE Stay
        /\ transport_ok' = [transport_ok EXCEPT ![a] = FALSE]
        /\ UNCHANGED <<m_incremental_id, call_vars, peer_vars, failure_vars,
                       collided, handled, replied>>

OwnResponse_IdOnly(a) == buffer[a].id = wait_response_id[a]

\* response_precessed
OwnResponse(a) ==
    buffer[a].id = wait_response_id[a] /\ buffer[a].type \in ResponseType

\* ProcessBuffer: the handler of a call or of an error runs; an enumeration is
\* answered at once; InvokeLocal does nothing without a transport; any other
\* response is the result.
ProcessBuffer_Invoke(a) ==
    /\ Running(a) /\ pc[a] = "process"
    /\ \/ buffer[a].type = "pt_call" /\ ~expired
       \/ buffer[a].type = "pt_return_fail_call"
    /\ Continue(a, "handler")
    /\ UNCHANGED <<pending_vars, call_vars, buffer, transport_ok, peer_vars,
                   failure_vars, collided, handled, replied>>

ProcessBuffer_NoHandler(a) ==
    LET p == buffer[a]
    IN  /\ Running(a) /\ pc[a] = "process"
        /\ IsIncoming(p)
        /\ p.type = "pt_enumerate" \/ expired
        /\ buffer' = [buffer EXCEPT ![a] = NoPacket]
        /\ handled' = handled \cup {p.id}
        /\ replied' = IF expired THEN replied ELSE replied \cup {p.id}
        /\ Continue(a, "read_buffer")
        /\ UNCHANGED <<pending_vars, call_vars, transport_ok, peer_vars,
                       failure_vars, collided>>

ProcessBuffer_Result(a) ==
    /\ Running(a) /\ pc[a] = "process"
    /\ buffer[a].type \in {"pt_return", "pt_return_enumerate"}
    /\ buffer' = [buffer EXCEPT ![a] = NoPacket]
    /\ IF OwnResponse(a) THEN Return(a, "data")
                         ELSE Continue(a, "read_buffer")
    /\ UNCHANGED <<pending_vars, call_vars, transport_ok, peer_vars,
                   failure_vars, collided, handled, replied>>

\* The handler returns; a call that wants it is answered (CallJob::Invoke,
\* ResultJob::Invoke); the error handler of an own response ends the wait.
HandlerReturns(a) ==
    LET p == buffer[a]
    IN  /\ Running(a) /\ pc[a] = "handler"
        /\ buffer' = [buffer EXCEPT ![a] = NoPacket]
        /\ handled' = IF IsIncoming(p) THEN handled \cup {p.id} ELSE handled
        /\ replied' = IF IsIncoming(p) /\ p.send_return
                      THEN replied \cup {p.id} ELSE replied
        /\ IF OwnResponse(a) THEN Return(a, "error")
                             ELSE Continue(a, "read_buffer")
        /\ UNCHANGED <<pending_vars, call_vars, transport_ok, peer_vars,
                       failure_vars, collided>>

-----------------------------------------------------------------------------
(* The peer and the transport's owner.                                     *)

PeerCalls(type, send_return) ==
    /\ type \in PeerSends
    /\ peer_calls < MaxIncoming
    /\ peer_calls' = peer_calls + 1
    /\ inbox' = Append(inbox, [type |-> type, id |-> peer_calls + 1,
                               send_return |-> send_return])
    /\ UNCHANGED <<pending_vars, run_vars, peer, failure_vars,
                   collided, handled, replied>>

PeerAnswers(q, type) ==
    /\ type \in PeerSends
    /\ type \in IF q.type = "pt_enumerate" THEN {"pt_return_enumerate"}
                ELSE {"pt_return", "pt_return_fail_call"}
    /\ peer' = peer \ {q}
    /\ inbox' = Append(inbox, [type |-> type, id |-> q.id, of |-> q.of])
    /\ UNCHANGED <<pending_vars, run_vars, peer_calls,
                   failure_vars, collided, handled, replied>>

CancelWaitRespond ==
    /\ "cancel" \in Failures /\ ~cancel_wait_respond
    /\ cancel_wait_respond' = TRUE
    /\ UNCHANGED <<pending_vars, run_vars, peer_vars, expired,
                   collided, handled, replied>>

\* Read, Write and InvokeLocal run with a shared_ptr of their own.
HoldsTransport(a) ==
    \/ pc[a] = "read"
    \/ pc[a] = "write" /\ ~Running(a)
    \/ pc[a] = "handler" /\ IsIncoming(buffer[a])

\* The last shared_ptr to the transport is gone; the endpoint keeps a weak_ptr.
Expire ==
    /\ "expire" \in Failures /\ ~expired
    /\ \A a \in Activation : ~HoldsTransport(a)
    /\ expired' = TRUE
    /\ UNCHANGED <<pending_vars, run_vars, peer_vars,
                   cancel_wait_respond, collided, handled, replied>>

-----------------------------------------------------------------------------
StartCall(t, a) ==
    \/ ProcessTransport(t, a)
    \/ \E proc_in \in BOOLEAN : InvokeUnified(t, a, "wait", proc_in)
    \/ InvokeUnified(t, a, "async", FALSE)
    \/ InvokeUnified(t, a, "enumerate", FALSE)

\* What the scheduler must let an activation do.
Step(a) ==
    \/ InvokeRemote(a)
    \/ ReadBuffer_Reentrance(a)
    \/ ReadBuffer_TakeResponse(a)
    \/ ReadBuffer_TakeIncoming(a)
    \/ ReadBuffer_ReaderBusy(a)
    \/ ReadBuffer_BecomeReader(a)
    \/ GetTransport(a)
    \/ ReadPacket(a)
    \/ ~WaitIncoming(a) /\ ReadNothing(a)
    \/ ReadCancelled(a)
    \/ WriteBuffer(a)
    \/ ProcessBuffer_Invoke(a)
    \/ ProcessBuffer_NoHandler(a)
    \/ ProcessBuffer_Result(a)
    \/ HandlerReturns(a)

Answer == \E q \in peer, type \in ResponseType : PeerAnswers(q, type)

Peer ==
    \/ Answer
    \/ \E send_return \in BOOLEAN : PeerCalls("pt_call", send_return)
    \/ PeerCalls("pt_enumerate", TRUE)

Next ==
    \/ \E t \in Thread, a \in Activation : StartCall(t, a)
    \/ \E a \in Activation : Step(a)
    \/ \E a \in Activation : WaitIncoming(a) /\ ReadNothing(a)
    \/ \E a \in Activation : SpuriousWakeup(a)
    \/ Peer
    \/ CancelWaitRespond
    \/ Expire

Spec == Init /\ [][Next]_vars

\* The threads are scheduled; the peer may fall silent.
Fairness == \A a \in Activation : WF_vars(Step(a))

FairSpec == Spec /\ Fairness

-----------------------------------------------------------------------------
(* Properties.                                                             *)

\* Every variable has its type.
TypeOK ==
    /\ m_thread_waiting_transport \in Thread \cup {NoThread}
    /\ m_incremental_id \in CallId
    /\ m_id_data_return \in [CallId -> ResponsePacket \cup {NoPacket}]
    /\ m_data_incoming_call \in Seq(IncomingPacket)
    /\ stack \in [Thread -> Seq(Activation)]
    /\ thread \in [Activation -> Thread \cup {NoThread}]
    /\ pc \in [Activation -> Pc]
    /\ kind \in [Activation -> Kind]
    /\ wait_response_id \in [Activation -> CallId]
    /\ process_incoming_calls \in [Activation -> BOOLEAN]
    /\ buffer \in [Activation -> Packet \cup {NoPacket}]
    /\ transport_ok \in [Activation -> BOOLEAN]
    /\ result \in [Activation -> Result]
    /\ inbox \in Seq(Packet)
    /\ peer \subseteq Request
    /\ peer_calls \in 0 .. MaxIncoming
    /\ cancel_wait_respond \in BOOLEAN
    /\ expired \in BOOLEAN
    /\ collided \in BOOLEAN
    /\ under_read \in [Activation -> BOOLEAN]
    /\ handled \subseteq CallId
    /\ replied \subseteq CallId

Reader(a) == pc[a] \in ReaderPc
Handling(a) == pc[a] \in {"process", "handler"}

\* The transport is read by at most one activation at a time, and
\* m_thread_waiting_transport names that activation's thread from the moment it
\* takes the role (ReadBuffer) to the moment it gives it back (WriteBuffer).
SingleReader ==
    /\ \A a, b \in Activation : Reader(a) /\ Reader(b) => a = b
    /\ \A a \in Activation : Reader(a) => IsLocked /\ IsCurrent(a)
    /\ IsLocked => \E a \in Activation : Reader(a)

\* A thread is blocked on m_write_cond only while there is a reader that will
\* notify it, its response is not stored, and (when it may run incoming calls)
\* none is queued: no notification is lost when the reader role changes hands.
NoLostWakeup ==
    \A a \in Activation :
        pc[a] = "cond_wait" =>
            /\ IsLocked
            /\ ~ResponseStored(a)
            /\ ~CallQueued(a)

\* As long as no id was handed out twice at once, the response a waiting call
\* takes is the answer to that very call, also when ids wrap around while
\* responses of abandoned calls are still stored.
OwnAnswer ==
    ~collided =>
        \A a \in Activation :
            Handling(a) /\ IsResponse(buffer[a]) => buffer[a].of = a

\* Where the answer to the sent request of a is, or will come from.
AnswerLocated(a) ==
    \/ \E q \in peer : q.of = a
    \/ \E i \in 1 .. Len(inbox) : IsResponse(inbox[i]) /\ inbox[i].of = a
    \/ \E b \in Activation : /\ pc[b] = "write_buffer" \/ (b = a /\ Handling(b))
                             /\ IsResponse(buffer[b]) /\ buffer[b].of = a
    \/ /\ ResponseStored(a)
       /\ m_id_data_return[wait_response_id[a]].of = a

Sent(a) == pc[a] \notin {"free", "write", "done"} /\ kind[a] \in WaitingKind

\* While a call waits, its answer is never dropped: it is with the peer, in the
\* transport, in the hands of the reader (any thread) or stored under its id.
NoAnswerLost ==
    ~collided => \A a \in Activation : Sent(a) => AnswerLocated(a)

\* The ways a waiting call may end.
MayEnd(a) ==
    \/ result[a] \in {"data", "error"}
    \/ result[a] = "reentrance" /\ under_read[a]
    \/ result[a] = "cancelled" /\ (cancel_wait_respond \/ expired)
    \/ result[a] = "unsent" /\ expired

\* A waiting call ends without an answer only when the transport failed, or when
\* its thread made the call from inside its own transport read; otherwise it
\* ends with data or with a reported error, never with a default value.
EmptyOnlyOnFailure ==
    \A a \in Activation :
        pc[a] = "done" /\ kind[a] \in WaitingKind => MayEnd(a)

\* Ids of incoming calls, by where they are.
InboxIds == {inbox[i].id : i \in {j \in 1 .. Len(inbox) : IsIncoming(inbox[j])}}
ReaderIds == {buffer[a].id : a \in {b \in Activation : pc[b] = "write_buffer"
                                                    /\ IsIncoming(buffer[b])}}
QueueIds == {m_data_incoming_call[i].id : i \in 1 .. Len(m_data_incoming_call)}
HandlingIds == {buffer[a].id : a \in {b \in Activation : Handling(b)
                                                    /\ IsIncoming(buffer[b])}}

Before(S, T) == \A m \in S, n \in T : m < n

\* Incoming calls are dispatched in the order the peer made them, whichever
\* threads read them and whichever run them: everything taken for handling is
\* older than the queue, the queue is sorted, the reader's packet is newer, and
\* what is still in the transport is newer still.
IncomingInOrder ==
    /\ \A i, j \in 1 .. Len(m_data_incoming_call) :
            i < j => m_data_incoming_call[i].id < m_data_incoming_call[j].id
    /\ Before(handled \cup HandlingIds, QueueIds \cup ReaderIds \cup InboxIds)
    /\ Before(QueueIds, ReaderIds \cup InboxIds)
    /\ Before(ReaderIds, InboxIds)

\* Every incoming call is handled exactly once: two activations never handle the
\* same one, none is handled again, none disappears, and it is answered only
\* after it was handled.
IncomingOnce ==
    /\ \A a, b \in Activation :
            /\ Handling(a) /\ IsIncoming(buffer[a])
            /\ Handling(b) /\ IsIncoming(buffer[b])
            /\ buffer[a].id = buffer[b].id
            => a = b
    /\ handled \cap HandlingIds = {}
    /\ 1 .. peer_calls = InboxIds \cup ReaderIds \cup QueueIds \cup HandlingIds
                         \cup handled
    /\ replied \subseteq handled

\* Each activation is one call and there are finitely many.
AllReturned == \A a \in Activation : pc[a] \in {"free", "done"}

\* Every call returns if the peer answers every request, also when the ids have
\* wrapped around; the threads are scheduled and handlers return.  The exception
\* the code has: an id handed out twice at once, of whose answers one is dropped.
EveryCallReturns == WF_vars(Answer) => <>[](AllReturned \/ collided)

\* Cancelling the transport releases every thread, the reader and all those
\* blocked behind it, even when the peer never answers.
CancelReleasesAll == cancel_wait_respond ~> AllReturned

\* The reader role of ProcessTransportResponse passes from thread to thread so
\* that there is one reader at most and nobody sleeps without one.
ReaderHandover == TypeOK /\ SingleReader /\ NoLostWakeup

\* An answer is neither lost on the way to its call (WriteBuffer, ReadBuffer) nor
\* taken by another one (NewCallId).
AnswersKept == NoAnswerLost /\ OwnAnswer

\* Incoming calls go through m_data_incoming_call to exactly one thread each, in
\* the order the peer made them.
IncomingHandled == IncomingInOrder /\ IncomingOnce
=============================================================================
