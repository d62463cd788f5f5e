---------------------------- MODULE EndpointPair ----------------------------
(***************************************************************************)
(* Two MAssIpcCall endpoints connected by a IpcTransport_MemoryShare and    *)
(* its CreateComplementar, one thread at each: both call, both run calls    *)
(* while they wait (ProcIn::now) or leave them for later, and handlers call *)
(* back, as TestThreads_HandlerWithCallBack does.  A thread that has        *)
(* nothing else to do runs the loop of ProcessTransport.                    *)
(*                                                                         *)
(* One thread takes every role of MAssIpcCall's queue, so the steps of      *)
(* ProcessTransportResponse between two calls of the transport are one      *)
(* action.                                                                  *)
(***************************************************************************)
EXTENDS Integers, Sequences, FiniteSets

CONSTANTS Endpoint,
          Polls,         \* endpoints whose loop does not wait for data
          CallKind,      \* what the applications call: "now", "later", "async", "enumerate"
          MaxCalls,      \* bound on the calls of an endpoint
          MaxDepth,      \* bound on call-backs inside call-backs
          Failures       \* "cancel" or nothing

ASSUME PairConstants ==
    /\ \E a, b \in Endpoint : a # b /\ Endpoint = {a, b}
    /\ Polls \subseteq Endpoint
    /\ CallKind \subseteq {"now", "later", "async", "enumerate"}
    /\ MaxCalls \in Nat /\ MaxDepth \in Nat /\ Failures \subseteq {"cancel"}

VARIABLES
    stack,          \* of every thread: the runs of ProcessTransportResponse
    inbox,          \* SyncData::data an endpoint reads
    m_data_incoming_call, m_id_data_return, m_incremental_id,
    cancel_wait_respond,
    left            \* a call was read by a wait that does not run calls: for the properties

queues == <<m_data_incoming_call, m_id_data_return>>
vars == <<stack, inbox, queues, m_incremental_id, cancel_wait_respond, left>>

c_invalid_id == 0
Ids == 1 .. MaxCalls

IncomingType == {"pt_call", "pt_enumerate"}
ResponseType == {"pt_return", "pt_return_enumerate"}

\* depth: the call-backs inside its handler.
Packet == [type : IncomingType \cup ResponseType, id : Ids, send_return : BOOLEAN, depth : 0 .. MaxDepth]

NoCall == [type |-> "pt_undefined", id |-> 0, send_return |-> FALSE, depth |-> 0]

\* A run of ProcessTransportResponse, or with it the handler it is in.
Frame == [wait_response_id : Ids \cup {c_invalid_id}, process_incoming_calls : BOOLEAN, call : Packet \cup {NoCall}]

Init ==
    /\ stack = [e \in Endpoint |-> <<>>] /\ inbox = [e \in Endpoint |-> <<>>]
    /\ m_data_incoming_call = [e \in Endpoint |-> <<>>]
    /\ m_id_data_return = [e \in Endpoint |-> {}]
    /\ m_incremental_id = [e \in Endpoint |-> 0]
    /\ cancel_wait_respond = [e \in Endpoint |-> FALSE]
    /\ left = [e \in Endpoint |-> FALSE]

-----------------------------------------------------------------------------
\* CreateComplementar: what one writes the other reads.
Peer(e) == CHOOSE p \in Endpoint : p # e

Write(e, packet) == inbox' = [inbox EXCEPT ![Peer(e)] = Append(@, packet)]

Idle(e) == stack[e] = <<>>
Top(e) == stack[e][Len(stack[e])]
InHandler(e) == ~Idle(e) /\ Top(e).call # NoCall
InWait(e) == ~Idle(e) /\ Top(e).call = NoCall

Push(e, frame) == stack' = [stack EXCEPT ![e] = Append(@, frame)]
Return(e) == stack' = [stack EXCEPT ![e] = SubSeq(@, 1, Len(@) - 1)]
SetCall(e, call) == stack' = [stack EXCEPT ![e][Len(stack[e])].call = call]

Waits(id, process_incoming_calls) ==
    [wait_response_id |-> id, process_incoming_calls |-> process_incoming_calls, call |-> NoCall]

\* EnumerateRemote does not run calls.
IsProcessIncomingCalls(kind) == kind = "now"

\* WaitInvoke, AsyncInvoke and EnumerateRemote of an application or a handler:
\* the packet is sent and the answer waited for.
InvokeRemote(e, kind) ==
    LET n == m_incremental_id[e] + 1
    IN  /\ Idle(e) \/ (InHandler(e) /\ Top(e).call.depth > 0)
        /\ n \in Ids /\ m_incremental_id' = [m_incremental_id EXCEPT ![e] = n]
        /\ Write(e, [type |-> IF kind = "enumerate" THEN "pt_enumerate" ELSE "pt_call", id |-> n,
                     send_return |-> kind # "async",
                     depth |-> IF Idle(e) THEN MaxDepth ELSE Top(e).call.depth - 1])
        /\ IF kind = "async" THEN UNCHANGED stack ELSE Push(e, Waits(n, IsProcessIncomingCalls(kind)))
        /\ UNCHANGED <<queues, cancel_wait_respond, left>>

\* The loop of TestThreads_Handler, or the one that waits with
\* WaitIncomingData for something to process.
ProcessTransport(e) ==
    /\ Idle(e) /\ ~cancel_wait_respond[e]
    /\ e \in Polls \/ inbox[e] # <<>>
    /\ Push(e, Waits(c_invalid_id, TRUE))
    /\ UNCHANGED <<inbox, queues, m_incremental_id, cancel_wait_respond, left>>

-----------------------------------------------------------------------------
(* ProcessTransportResponse                                                *)

Stored(e) == Top(e).wait_response_id \in m_id_data_return[e]

\* Variant: only a wait looks at the calls that were read before.
CallQueued_Wait(e) ==
    Top(e).wait_response_id # c_invalid_id /\ Top(e).process_incoming_calls /\ m_data_incoming_call[e] # <<>>

CallQueued(e) == Top(e).process_incoming_calls /\ m_data_incoming_call[e] # <<>>

Erase(responses, id) == responses \ {id}

\* The answer is there.
TakeResponse(e) ==
    /\ InWait(e) /\ Stored(e)
    /\ m_id_data_return' = [m_id_data_return EXCEPT ![e] = Erase(@, Top(e).wait_response_id)]
    /\ Return(e)
    /\ UNCHANGED <<inbox, m_data_incoming_call, m_incremental_id, cancel_wait_respond, left>>

\* A call that was read, by this wait or before, is run; an enumeration is
\* answered at once.
TakeIncoming(e) ==
    LET call == Head(m_data_incoming_call[e])
    IN  /\ InWait(e) /\ ~Stored(e) /\ CallQueued(e)
        /\ m_data_incoming_call' = [m_data_incoming_call EXCEPT ![e] = Tail(@)]
        /\ IF call.type = "pt_enumerate"
           THEN /\ Write(e, [type |-> "pt_return_enumerate", id |-> call.id, send_return |-> FALSE, depth |-> 0])
                /\ UNCHANGED stack
           ELSE SetCall(e, call) /\ UNCHANGED inbox
        /\ UNCHANGED <<m_id_data_return, m_incremental_id, cancel_wait_respond, left>>

\* A thread with nothing to take reads the transport.
Reads(e) == InWait(e) /\ ~Stored(e) /\ ~CallQueued(e)

\* Variant: a run that does not wait ends with the call it read.
ProcessMore_Response(e, packet) == Top(e).wait_response_id # c_invalid_id \/ packet.type \in ResponseType

\* Whether it goes on with the packet it read: it waits, it runs calls and has
\* read one, or it has read an answer (new_return_buffer).
ProcessMore(e, packet) ==
    \/ Top(e).wait_response_id # c_invalid_id
    \/ Top(e).process_incoming_calls /\ packet.type \in IncomingType
    \/ packet.type \in ResponseType

\* Variant: an answer that another wait of the thread needs is dropped.
StoreResponse_Own(e, id) == m_id_data_return[e] \cup ({id} \cap {Top(e).wait_response_id})

StoreResponse(e, id) == m_id_data_return[e] \cup {id}

\* type <= pt_call
IsIncoming(packet) == packet.type \in IncomingType

ReadPacket(e) ==
    LET packet == Head(inbox[e])
    IN  /\ Reads(e) /\ ~cancel_wait_respond[e] /\ inbox[e] # <<>>
        /\ inbox' = [inbox EXCEPT ![e] = Tail(@)]
        /\ IF IsIncoming(packet)
           THEN /\ m_data_incoming_call' = [m_data_incoming_call EXCEPT ![e] = Append(@, packet)]
                /\ left' = [left EXCEPT ![e] = @ \/ ~Top(e).process_incoming_calls]
                /\ UNCHANGED m_id_data_return
           ELSE /\ m_id_data_return' = [m_id_data_return EXCEPT ![e] = StoreResponse(e, packet.id)]
                /\ UNCHANGED <<m_data_incoming_call, left>>
        /\ IF ProcessMore(e, packet) THEN UNCHANGED stack ELSE Return(e)
        /\ UNCHANGED <<m_incremental_id, cancel_wait_respond>>

\* ProcessTransport ends when there is nothing to read.
ReadNothing(e) ==
    /\ Reads(e) /\ Top(e).wait_response_id = c_invalid_id /\ inbox[e] = <<>>
    /\ Return(e)
    /\ UNCHANGED <<inbox, queues, m_incremental_id, cancel_wait_respond, left>>

\* Variant: a wait for an answer is not ended.
Cancelled_ProcessOnly(e) == cancel_wait_respond[e] /\ Top(e).wait_response_id = c_invalid_id

Cancelled(e) == cancel_wait_respond[e]

\* Read fails, and with it the wait.
ReadCancelled(e) ==
    /\ Reads(e) /\ Cancelled(e)
    /\ Return(e)
    /\ UNCHANGED <<inbox, queues, m_incremental_id, cancel_wait_respond, left>>

SendsReturn(call) == call.send_return

\* The handler returns and the call is answered.
HandlerReturns(e) ==
    LET call == Top(e).call
    IN  /\ InHandler(e)
        /\ IF SendsReturn(call)
           THEN Write(e, [type |-> "pt_return", id |-> call.id, send_return |-> FALSE, depth |-> 0])
           ELSE UNCHANGED inbox
        /\ SetCall(e, NoCall)
        /\ UNCHANGED <<queues, m_incremental_id, cancel_wait_respond, left>>

CancelWaitRespond(e) ==
    /\ "cancel" \in Failures /\ ~cancel_wait_respond[e]
    /\ cancel_wait_respond' = [cancel_wait_respond EXCEPT ![e] = TRUE]
    /\ UNCHANGED <<stack, inbox, queues, m_incremental_id, left>>

-----------------------------------------------------------------------------
Run(e) ==
    \/ TakeResponse(e) \/ TakeIncoming(e) \/ ReadPacket(e) \/ ReadNothing(e) \/ ReadCancelled(e)
    \/ HandlerReturns(e)

Next ==
    \E e \in Endpoint :
        \/ \E kind \in CallKind : InvokeRemote(e, kind)
        \/ ProcessTransport(e) \/ Run(e) \/ CancelWaitRespond(e)

Spec == Init /\ [][Next]_vars

\* Threads are scheduled, handlers return, and the loops go on.
Fairness == \A e \in Endpoint : WF_vars(Run(e)) /\ WF_vars(ProcessTransport(e))

FairSpec == Spec /\ Fairness

-----------------------------------------------------------------------------
\* Every variable has its type; only calls and enumerations are queued as
\* incoming.
TypeOK ==
    /\ \A e \in Endpoint : \A i \in DOMAIN stack[e] : stack[e][i] \in Frame
    /\ \A e \in Endpoint : \A i \in DOMAIN inbox[e] : inbox[e][i] \in Packet
    /\ \A e \in Endpoint : \A i \in DOMAIN m_data_incoming_call[e] :
          m_data_incoming_call[e][i] \in {p \in Packet : p.type \in IncomingType}
    /\ m_id_data_return \in [Endpoint -> SUBSET Ids]
    /\ m_incremental_id \in [Endpoint -> 0 .. MaxCalls]
    /\ cancel_wait_respond \in [Endpoint -> BOOLEAN] /\ left \in [Endpoint -> BOOLEAN]

\* How often packets of these types with this id are in a sequence.
Times(packets, types, id) == Cardinality({i \in DOMAIN packets : packets[i].type \in types /\ packets[i].id = id})

\* The handlers that run at e, innermost last.
Handlers(e) == [i \in DOMAIN stack[e] |-> stack[e][i].call]

\* A call that is waited for is at exactly one place: sent, read and not run,
\* with its handler, or as an answer sent or stored.  So it is run once and
\* answered once, however the two ends call back into each other.
InOnePlace ==
    \A e \in Endpoint : \A i \in DOMAIN stack[e] :
        LET id == stack[e][i].wait_response_id
            p == Peer(e)
        IN  id # c_invalid_id =>
              Times(inbox[p], IncomingType, id) + Times(m_data_incoming_call[p], IncomingType, id)
              + Times(Handlers(p), IncomingType, id) + Times(inbox[e], ResponseType, id)
              + (IF id \in m_id_data_return[e] THEN 1 ELSE 0) = 1

\* An answer is stored only for a wait that will take it: nothing piles up.
StoredIsAwaited ==
    \A e \in Endpoint : \A id \in m_id_data_return[e] : \E i \in DOMAIN stack[e] : stack[e][i].wait_response_id = id

\* A thread leaves a call it has read for later only when a wait that does not
\* run calls (ProcIn::later, EnumerateRemote) read it.
LeftOnlyByLater == \A e \in Endpoint : Idle(e) /\ m_data_incoming_call[e] # <<>> => left[e]

\* The thread cannot go on by itself.
Blocked(e) == Reads(e) /\ Top(e).wait_response_id # c_invalid_id /\ inbox[e] = <<>> /\ ~cancel_wait_respond[e]

AtRest(e) == Idle(e) /\ (inbox[e] = <<>> \/ cancel_wait_respond[e])

\* A call was read and left by an end that waits without running calls, or by
\* such a wait that is over, or an end was cancelled.
Jammed ==
    \E e \in Endpoint :
        \/ Blocked(e) /\ m_data_incoming_call[e] # <<>> /\ ~Top(e).process_incoming_calls
        \/ Idle(e) /\ m_data_incoming_call[e] # <<>> /\ left[e]
        \/ cancel_wait_respond[e]

\* The call-backs of ProcIn::now never leave two threads waiting for each other:
\* nobody can go on only where a call was left for later (ProcIn::later,
\* EnumerateRemote) or an end was cancelled.
StuckOnlyByLater ==
    (\A e \in Endpoint : Blocked(e) \/ AtRest(e)) /\ (\E e \in Endpoint : Blocked(e)) => Jammed

\* Every call returns, with all the call-backs inside it, unless the two ends
\* are stuck for good in the way StuckOnlyByLater allows.
EveryCallReturns == (\A e \in Endpoint : ~Idle(e) ~> Idle(e)) \/ <>[]Jammed

\* Where the loop polls, a call that was left is run, unless the thread waits
\* for ever without running calls or is cancelled.
LeftIsRun == \A e \in Polls : <>[](m_data_incoming_call[e] # <<>>) => <>[](Blocked(e) \/ cancel_wait_respond[e])

\* When both ends are cancelled every wait ends, also that of two ends that wait
\* for each other.
CancelFreesBoth == (\A e \in Endpoint : cancel_wait_respond[e]) ~> (\A e \in Endpoint : Idle(e))

\* Calls and answers are neither lost, doubled nor left over between two ends
\* that call back into each other.
PacketsKept == TypeOK /\ InOnePlace /\ StoredIsAwaited

\* A call is left unrun, and both ends stop, only through waits that postpone
\* incoming calls.
OnlyLaterLeaves == LeftOnlyByLater /\ StuckOnlyByLater

\* Calls return and calls that were left are run, but for the jam described.
CallsComplete == EveryCallReturns /\ LeftIsRun
=============================================================================
