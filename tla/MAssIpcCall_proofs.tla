------------------------ MODULE MAssIpcCall_proofs ------------------------
(***************************************************************************)
(* Proofs about MAssIpcCall, for any number of threads, calls, ids and     *)
(* incoming packets, and of its refinement of CallContract.                *)
(***************************************************************************)
EXTENDS MAssIpcCallContract, TLAPS

\* Every action of Next, split once for all the step proofs.
LEMMA NextCases ==
    ASSUME Next
    PROVE  \/ \E t \in Thread, a \in Activation : ProcessTransport(t, a)
           \/ \E t \in Thread, a \in Activation,
                 k \in Kind \ {"process"}, p \in BOOLEAN : InvokeUnified(t, a, k, p)
           \/ \E a \in Activation :
                  \/ InvokeRemote(a)
                  \/ ReadBuffer_Reentrance(a)
                  \/ ReadBuffer_TakeResponse(a)
                  \/ ReadBuffer_TakeIncoming(a)
                  \/ ReadBuffer_ReaderBusy(a)
                  \/ ReadBuffer_BecomeReader(a)
                  \/ SpuriousWakeup(a)
                  \/ GetTransport(a)
                  \/ ReadPacket(a)
                  \/ ReadNothing(a)
                  \/ ReadCancelled(a)
                  \/ WriteBuffer(a)
                  \/ ProcessBuffer_Invoke(a)
                  \/ ProcessBuffer_NoHandler(a)
                  \/ ProcessBuffer_Result(a)
                  \/ HandlerReturns(a)
           \/ \E q \in peer, type \in ResponseType : PeerAnswers(q, type)
           \/ \E type \in IncomingType, s \in BOOLEAN : PeerCalls(type, s)
           \/ CancelWaitRespond
           \/ Expire
<1> USE DEF Kind, IncomingType
<1>1. CASE \E t \in Thread, a \in Activation : StartCall(t, a)
  BY <1>1 DEF StartCall
<1>2. CASE \E a \in Activation : Step(a)
  BY <1>2 DEF Step
<1>3. CASE Peer
  BY <1>3 DEF Peer, Answer
<1>4. QED
  BY <1>1, <1>2, <1>3 DEF Next

-----------------------------------------------------------------------------
(* Types.                                                                  *)

\* A received packet is stored by its type: the two sorts are disjoint.
LEMMA PacketSorts ==
    ASSUME NEW p \in Packet \cup {NoPacket}
    PROVE  /\ IsIncoming(p) => p \in IncomingPacket /\ ~IsResponse(p)
           /\ IsResponse(p) => p \in ResponsePacket /\ ~IsIncoming(p)
           /\ p = NoPacket \/ IsIncoming(p) \/ IsResponse(p)
BY NoPacketAssumption DEF Packet, IncomingPacket, ResponsePacket, IsIncoming,
   IsResponse, IncomingType, ResponseType

\* The ids NewCallId hands out are ids, are not c_invalid_id and have no
\* stored response.
LEMMA IdTypes ==
    ASSUME TypeOK
    PROVE  /\ c_invalid_id \in CallId
           /\ \A n \in CallId : Successor(n) \in CallId
           /\ \A n \in CallId : IsNewCallId(n) =>
                    n # c_invalid_id /\ m_id_data_return[n] = NoPacket
BY ConstantsAssumption DEF CallId, c_invalid_id, Successor, IsNewCallId,
   AvailableIds

\* Popping a frame keeps the types of what it changes.
LEMMA PopTypes ==
    ASSUME TypeOK, NEW a \in Activation, NEW r \in Result, Running(a), Pop(a, r)
    PROVE  /\ result' \in [Activation -> Result]
           /\ stack' \in [Thread -> Seq(Activation)]
           /\ thread' \in [Activation -> Thread \cup {NoThread}]
           /\ wait_response_id' \in [Activation -> CallId]
           /\ process_incoming_calls' \in [Activation -> BOOLEAN]
<1>1. SubSeq(stack[thread[a]], 1, Len(stack[thread[a]]) - 1) \in Seq(Activation)
  BY DEF TypeOK, Running
<1>2. QED
  BY <1>1, IdTypes DEF TypeOK, Running, Pop

\* A step that leaves the frames alone leaves their types alone.
LEMMA StayTypes ==
    ASSUME TypeOK, Stay
    PROVE  /\ result' \in [Activation -> Result]
           /\ stack' \in [Thread -> Seq(Activation)]
           /\ thread' \in [Activation -> Thread \cup {NoThread}]
           /\ wait_response_id' \in [Activation -> CallId]
           /\ process_incoming_calls' \in [Activation -> BOOLEAN]
BY DEF TypeOK, Stay, frame_vars

\* An activation that goes on with the code of its function changes only its
\* pc.
LEMMA ContinueTypes ==
    ASSUME TypeOK, NEW a \in Activation, NEW next \in Pc, Continue(a, next)
    PROVE  /\ pc' \in [Activation -> Pc]
           /\ Stay
BY DEF TypeOK, Continue

\* A return statement is a pop.
LEMMA ReturnTypes ==
    ASSUME TypeOK, NEW a \in Activation, NEW r \in Result, Return(a, r)
    PROVE  /\ pc' \in [Activation -> Pc]
           /\ Pop(a, r)
BY DEF TypeOK, Return, Pc

\* Starting a call or ProcessTransport keeps the types.
LEMMA PushTypes ==
    ASSUME TypeOK, NEW t \in Thread, NEW a \in Activation, NEW k \in Kind,
           NEW n \in CallId, NEW p \in BOOLEAN, NEW first \in Pc,
           Push(t, a, k, n, p, first), m_incremental_id' \in CallId,
           collided' \in BOOLEAN,
           UNCHANGED <<m_thread_waiting_transport, m_id_data_return,
                       m_data_incoming_call>>
    PROVE  TypeOK'
<1>1. Append(stack[t], a) \in Seq(Activation)
  BY DEF TypeOK
<1>2. (m_thread_waiting_transport = t) \in BOOLEAN
  OBVIOUS
<1>3. stack' \in [Thread -> Seq(Activation)]
  BY <1>1 DEF TypeOK, Push
<1>4. under_read' \in [Activation -> BOOLEAN]
  BY <1>2 DEF TypeOK, Push
<1>5. QED
  BY <1>3, <1>4 DEF TypeOK, Push, peer_vars, failure_vars

\* Every step keeps the types: one case for each action.
LEMMA TypeStep == TypeOK /\ [Next]_vars => TypeOK'
<1> SUFFICES ASSUME TypeOK, [Next]_vars
             PROVE  TypeOK'
  OBVIOUS
<1> USE DEF Pc, ReaderPc, Result
<1>1. CASE UNCHANGED vars
  BY <1>1 DEF TypeOK, vars, pending_vars, run_vars, frame_vars, call_vars,
     peer_vars, failure_vars
<1>2. ASSUME NEW t \in Thread, NEW a \in Activation, ProcessTransport(t, a)
      PROVE  TypeOK'
  <2>1. Push(t, a, "process", c_invalid_id, TRUE, "read_buffer")
    BY <1>2 DEF ProcessTransport
  <2>2. m_incremental_id' \in CallId /\ collided' \in BOOLEAN
    BY <1>2 DEF ProcessTransport, pending_vars, TypeOK
  <2>3. UNCHANGED <<m_thread_waiting_transport, m_id_data_return,
                    m_data_incoming_call>>
    BY <1>2 DEF ProcessTransport, pending_vars
  <2>4. "process" \in Kind /\ TRUE \in BOOLEAN /\ "read_buffer" \in Pc
    BY DEF Kind
  <2>5. QED
    BY <2>1, <2>2, <2>3, <2>4, PushTypes, IdTypes
<1>3. ASSUME NEW t \in Thread, NEW a \in Activation, NEW k \in Kind \ {"process"},
             NEW p \in BOOLEAN, InvokeUnified(t, a, k, p)
      PROVE  TypeOK'
  <2>1. PICK n \in CallId :
            /\ Push(t, a, k, n, p, "write")
            /\ m_incremental_id' = Successor(n)
            /\ collided' = (collided \/ InUse(n))
            /\ UNCHANGED <<m_thread_waiting_transport, m_id_data_return,
                           m_data_incoming_call>>
    BY <1>3 DEF InvokeUnified
  <2>2. collided' \in BOOLEAN
    BY <2>1
  <2>3. QED
    BY <2>1, <2>2, PushTypes, IdTypes
<1>4. ASSUME NEW a \in Activation, InvokeRemote(a)
      PROVE  TypeOK'
  <2>1. peer' \subseteq Request
    BY <1>4 DEF InvokeRemote, Request, IncomingType, TypeOK
  <2>2. pc' \in [Activation -> Pc] /\ (Stay \/ Pop(a, "unsent") \/ Pop(a, "sent"))
    BY <1>4, ContinueTypes, ReturnTypes DEF InvokeRemote
  <2>3. QED
    BY <1>4, <2>1, <2>2, StayTypes, PopTypes
    DEF InvokeRemote, TypeOK, pending_vars, call_vars, failure_vars
<1>5. ASSUME NEW a \in Activation, ReadBuffer_Reentrance(a)
      PROVE  TypeOK'
  <2>1. pc' \in [Activation -> Pc] /\ Pop(a, "reentrance")
    BY <1>5, ReturnTypes DEF ReadBuffer_Reentrance
  <2>2. QED
    BY <1>5, <2>1, PopTypes
    DEF ReadBuffer_Reentrance, TypeOK, pending_vars, call_vars, peer_vars,
        failure_vars
<1>6. ASSUME NEW a \in Activation, ReadBuffer_TakeResponse(a)
      PROVE  TypeOK'
  <2>1. pc' \in [Activation -> Pc] /\ Stay
    BY <1>6, ContinueTypes DEF ReadBuffer_TakeResponse
  <2>2. /\ m_id_data_return' \in [CallId -> ResponsePacket \cup {NoPacket}]
        /\ buffer' \in [Activation -> Packet \cup {NoPacket}]
    BY <1>6 DEF ReadBuffer_TakeResponse, TypeOK, Packet
  <2>3. QED
    BY <1>6, <2>1, <2>2, StayTypes
    DEF ReadBuffer_TakeResponse, TypeOK, call_vars, peer_vars, failure_vars
<1>7. ASSUME NEW a \in Activation, ReadBuffer_TakeIncoming(a)
      PROVE  TypeOK'
  <2>1. pc' \in [Activation -> Pc] /\ Stay
    BY <1>7, ContinueTypes DEF ReadBuffer_TakeIncoming
  <2>2. m_data_incoming_call \in Seq(IncomingPacket) /\ m_data_incoming_call # <<>>
    BY <1>7 DEF ReadBuffer_TakeIncoming, CallQueued, TypeOK
  <2>3. m_data_incoming_call' \in Seq(IncomingPacket)
    BY <1>7, <2>2 DEF ReadBuffer_TakeIncoming, RemainingCalls
  <2>4. buffer' \in [Activation -> Packet \cup {NoPacket}]
    <3>1. Head(m_data_incoming_call) \in IncomingPacket
      BY <2>2
    <3>2. QED
      BY <1>7, <3>1 DEF ReadBuffer_TakeIncoming, Packet, TypeOK
  <2>5. QED
    BY <1>7, <2>1, <2>3, <2>4, StayTypes
    DEF ReadBuffer_TakeIncoming, TypeOK, call_vars, peer_vars, failure_vars
<1>8. ASSUME NEW a \in Activation, ReadBuffer_ReaderBusy(a)
      PROVE  TypeOK'
  <2>1. pc' \in [Activation -> Pc] /\ (Stay \/ Pop(a, "busy"))
    BY <1>8, ContinueTypes, ReturnTypes DEF ReadBuffer_ReaderBusy
  <2>2. QED
    BY <1>8, <2>1, StayTypes, PopTypes
    DEF ReadBuffer_ReaderBusy, Searching, TypeOK, pending_vars, call_vars,
        peer_vars, failure_vars
<1>9. ASSUME NEW a \in Activation, ReadBuffer_BecomeReader(a)
      PROVE  TypeOK'
  <2>1. pc' \in [Activation -> Pc] /\ Stay
    BY <1>9, ContinueTypes DEF ReadBuffer_BecomeReader
  <2>2. QED
    BY <1>9, <2>1, StayTypes
    DEF ReadBuffer_BecomeReader, TypeOK, call_vars, peer_vars, failure_vars
<1>10. ASSUME NEW a \in Activation, SpuriousWakeup(a)
       PROVE  TypeOK'
  <2>1. pc' \in [Activation -> Pc] /\ Stay
    BY <1>10, ContinueTypes DEF SpuriousWakeup
  <2>2. QED
    BY <1>10, <2>1, StayTypes
    DEF SpuriousWakeup, TypeOK, pending_vars, call_vars, peer_vars, failure_vars
<1>11. ASSUME NEW a \in Activation, GetTransport(a)
       PROVE  TypeOK'
  <2>1. pc' \in [Activation -> Pc] /\ Stay
    BY <1>11, ContinueTypes DEF GetTransport
  <2>2. QED
    BY <1>11, <2>1, StayTypes
    DEF GetTransport, TypeOK, pending_vars, call_vars, peer_vars, failure_vars
<1>12. ASSUME NEW a \in Activation, NEW p \in Packet \cup {NoPacket},
              NEW ok \in BOOLEAN, Read(a, p, ok), inbox' \in Seq(Packet)
       PROVE  TypeOK'
  <2>1. pc' \in [Activation -> Pc] /\ Stay
    BY <1>12, ContinueTypes DEF Read
  <2>2. QED
    BY <1>12, <2>1, StayTypes
    DEF Read, TypeOK, pending_vars, call_vars, failure_vars
<1>13. ASSUME NEW a \in Activation, ReadPacket(a)
       PROVE  TypeOK'
  <2>1. inbox \in Seq(Packet) /\ inbox # <<>>
    BY <1>13 DEF ReadPacket, TypeOK
  <2>2. Head(inbox) \in Packet \cup {NoPacket} /\ Tail(inbox) \in Seq(Packet)
    BY <2>1
  <2>3. QED
    BY <1>12, <1>13, <2>2 DEF ReadPacket
<1>14. ASSUME NEW a \in Activation, ReadNothing(a) \/ ReadCancelled(a)
       PROVE  TypeOK'
  BY <1>12, <1>14 DEF ReadNothing, ReadCancelled, TypeOK
<1>15. ASSUME NEW a \in Activation, WriteBuffer(a)
       PROVE  TypeOK'
  <2> DEFINE p == buffer[a]
  <2>1. p \in Packet \cup {NoPacket}
    BY DEF TypeOK
  <2>2. m_data_incoming_call' \in Seq(IncomingPacket)
    BY <1>15, <2>1, PacketSorts DEF WriteBuffer, QueueCall, TypeOK
  <2>3. m_id_data_return' \in [CallId -> ResponsePacket \cup {NoPacket}]
    BY <1>15, <2>1, PacketSorts DEF WriteBuffer, StoreResponse, TypeOK
  <2>4. pc' \in [Activation -> Pc]
    BY <1>15 DEF WriteBuffer, NotifyAll, TypeOK
  <2>5. Stay \/ Pop(a, "idle") \/ Pop(a, "cancelled")
    BY <1>15 DEF WriteBuffer
  <2>6. QED
    BY <1>15, <2>2, <2>3, <2>4, <2>5, StayTypes, PopTypes
    DEF WriteBuffer, TypeOK, call_vars, peer_vars, failure_vars
<1>16. ASSUME NEW a \in Activation, ProcessBuffer_Invoke(a)
       PROVE  TypeOK'
  <2>1. pc' \in [Activation -> Pc] /\ Stay
    BY <1>16, ContinueTypes DEF ProcessBuffer_Invoke
  <2>2. QED
    BY <1>16, <2>1, StayTypes
    DEF ProcessBuffer_Invoke, TypeOK, pending_vars, call_vars, peer_vars,
        failure_vars
<1>17. ASSUME NEW a \in Activation, ProcessBuffer_NoHandler(a)
       PROVE  TypeOK'
  <2>1. pc' \in [Activation -> Pc] /\ Stay
    BY <1>17, ContinueTypes DEF ProcessBuffer_NoHandler
  <2>2. buffer[a].id \in CallId
    BY <1>17, PacketSorts DEF ProcessBuffer_NoHandler, TypeOK, IncomingPacket
  <2>3. QED
    BY <1>17, <2>1, <2>2, StayTypes
    DEF ProcessBuffer_NoHandler, TypeOK, pending_vars, call_vars, peer_vars,
        failure_vars
<1>18. ASSUME NEW a \in Activation, ProcessBuffer_Result(a)
       PROVE  TypeOK'
  <2>1. pc' \in [Activation -> Pc] /\ (Stay \/ Pop(a, "data"))
    BY <1>18, ContinueTypes, ReturnTypes DEF ProcessBuffer_Result
  <2>2. QED
    BY <1>18, <2>1, StayTypes, PopTypes
    DEF ProcessBuffer_Result, TypeOK, pending_vars, call_vars, peer_vars,
        failure_vars
<1>19. ASSUME NEW a \in Activation, HandlerReturns(a)
       PROVE  TypeOK'
  <2>1. pc' \in [Activation -> Pc] /\ (Stay \/ Pop(a, "error"))
    BY <1>19, ContinueTypes, ReturnTypes DEF HandlerReturns
  <2>2. IsIncoming(buffer[a]) => buffer[a].id \in CallId
    BY PacketSorts DEF TypeOK, IncomingPacket
  <2>3. QED
    BY <1>19, <2>1, <2>2, StayTypes, PopTypes
    DEF HandlerReturns, TypeOK, pending_vars, call_vars, peer_vars, failure_vars
<1>20. ASSUME NEW q \in peer, NEW type \in ResponseType, PeerAnswers(q, type)
       PROVE  TypeOK'
  <2>1. [type |-> type, id |-> q.id, of |-> q.of] \in Packet
    BY <1>20 DEF TypeOK, Request, Packet, ResponsePacket
  <2>2. inbox' \in Seq(Packet)
    BY <1>20, <2>1 DEF PeerAnswers, TypeOK
  <2>3. QED
    BY <1>20, <2>2
    DEF PeerAnswers, TypeOK, pending_vars, run_vars, frame_vars, call_vars,
        failure_vars
<1>21. ASSUME NEW type \in IncomingType, NEW s \in BOOLEAN, PeerCalls(type, s)
       PROVE  TypeOK'
  <2>1. peer_calls + 1 \in 0 .. MaxIncoming /\ peer_calls + 1 \in CallId
    BY <1>21, ConstantsAssumption DEF PeerCalls, TypeOK, CallId
  <2>2. [type |-> type, id |-> peer_calls + 1, send_return |-> s] \in Packet
    BY <2>1 DEF Packet, IncomingPacket
  <2>3. inbox' \in Seq(Packet)
    BY <1>21, <2>2 DEF PeerCalls, TypeOK
  <2>4. QED
    BY <1>21, <2>1, <2>3
    DEF PeerCalls, TypeOK, pending_vars, run_vars, frame_vars, call_vars,
        failure_vars
<1>22. CASE CancelWaitRespond \/ Expire
  BY <1>22
  DEF CancelWaitRespond, Expire, TypeOK, pending_vars, run_vars, frame_vars,
      call_vars, peer_vars
<1>23. QED
  BY <1>1, <1>2, <1>3, <1>4, <1>5, <1>6, <1>7, <1>8, <1>9, <1>10, <1>11, <1>13,
     <1>14, <1>15, <1>16, <1>17, <1>18, <1>19, <1>20, <1>21, <1>22, NextCases

\* The types hold when the endpoint is created.
LEMMA TypeInit == Init => TypeOK
<1> SUFFICES ASSUME Init PROVE TypeOK
  OBVIOUS
<1>1. 0 \in CallId /\ 0 \in 0 .. MaxIncoming
  BY ConstantsAssumption DEF CallId
<1>2. <<>> \in Seq(IncomingPacket) /\ <<>> \in Seq(Packet) /\ <<>> \in Seq(Activation)
  OBVIOUS
<1>3. QED
  BY <1>1, <1>2 DEF Init, TypeOK, c_invalid_id, Pc, Kind, Result

\* Every variable of the endpoint keeps its type whatever the threads and the
\* peer do: in particular call ids stay in range and only responses reach
\* m_id_data_return and only calls reach m_data_incoming_call.
THEOREM TypeCorrect == Spec => []TypeOK
<1>1. QED
  BY TypeInit, TypeStep, PTL DEF Spec

-----------------------------------------------------------------------------
(* The reader role.                                                        *)

\* Activation a moves to nxt without taking or giving back the reader role; no
\* other activation, and no response or queued call, is touched in a way a
\* blocked thread waits for.
Quiet(a, nxt) ==
    /\ ~Reader(a)
    /\ pc' = [pc EXCEPT ![a] = nxt]
    /\ nxt \notin ReaderPc
    /\ \A b \in Activation \ {a} :
            /\ thread'[b] = thread[b]
            /\ wait_response_id'[b] = wait_response_id[b]
            /\ process_incoming_calls'[b] = process_incoming_calls[b]
    /\ UNCHANGED m_thread_waiting_transport
    /\ \A n \in CallId : m_id_data_return[n] = NoPacket => m_id_data_return'[n] = NoPacket
    /\ m_data_incoming_call = <<>> => m_data_incoming_call' = <<>>

\* A pop changes nothing of other activations.
LEMMA PopFrames ==
    ASSUME TypeOK, NEW a \in Activation, NEW r, Pop(a, r) \/ Stay
    PROVE  \A b \in Activation \ {a} :
            /\ thread'[b] = thread[b]
            /\ wait_response_id'[b] = wait_response_id[b]
            /\ process_incoming_calls'[b] = process_incoming_calls[b]
BY DEF TypeOK, Pop, Stay, frame_vars

\* A step that changes neither the reader role nor what sleepers wait for
\* keeps both reader properties.
LEMMA QuietKeeps ==
    ASSUME TypeOK, SingleReader, NoLostWakeup, NEW a \in Activation,
           NEW nxt \in Pc \ {"cond_wait"}, Quiet(a, nxt)
    PROVE  SingleReader' /\ NoLostWakeup'
<1>1. \A b \in Activation : Reader(b)' <=> Reader(b)
  BY DEF Quiet, Reader, TypeOK
<1>2. \A b \in Activation : Reader(b) => thread'[b] = thread[b]
  BY DEF Quiet
<1>3. SingleReader'
  BY <1>1, <1>2 DEF SingleReader, IsCurrent, IsLocked, Quiet
<1>4. NoLostWakeup'
  <2> SUFFICES ASSUME NEW b \in Activation, pc'[b] = "cond_wait"
               PROVE  IsLocked' /\ ~ResponseStored(b)' /\ ~CallQueued(b)'
    BY DEF NoLostWakeup
  <2>1. b # a /\ pc[b] = "cond_wait"
    BY DEF Quiet, TypeOK
  <2>2. IsLocked /\ ~ResponseStored(b) /\ ~CallQueued(b)
    BY <2>1 DEF NoLostWakeup
  <2>3. wait_response_id[b] \in CallId
    BY DEF TypeOK
  <2>4. QED
    BY <2>1, <2>2, <2>3 DEF Quiet, IsLocked, ResponseStored, CallQueued
<1>5. QED
  BY <1>3, <1>4

\* The reader properties are kept by every step, given the types.
LEMMA ReaderStep ==
    TypeOK /\ SingleReader /\ NoLostWakeup /\ [Next]_vars
        => SingleReader' /\ NoLostWakeup'
<1> SUFFICES ASSUME TypeOK, SingleReader, NoLostWakeup, [Next]_vars
             PROVE  SingleReader' /\ NoLostWakeup'
  OBVIOUS
<1> USE DEF Pc, ReaderPc
<1>1. ASSUME UNCHANGED <<pending_vars, frame_vars, pc>>
      PROVE  SingleReader' /\ NoLostWakeup'
  BY <1>1 DEF SingleReader, NoLostWakeup, Reader, IsCurrent, IsLocked,
     ResponseStored, CallQueued, pending_vars, frame_vars
<1>2. ASSUME NEW t \in Thread, NEW a \in Activation, NEW k, NEW n, NEW p,
             NEW first \in {"write", "read_buffer"}, Push(t, a, k, n, p, first),
             UNCHANGED <<m_thread_waiting_transport, m_id_data_return,
                         m_data_incoming_call>>
      PROVE  SingleReader' /\ NoLostWakeup'
  <2>1. Quiet(a, first)
    BY <1>2 DEF Push, Quiet, Reader, TypeOK
  <2>2. QED
    BY <2>1, QuietKeeps
<1>3. ASSUME NEW t \in Thread, NEW a \in Activation, ProcessTransport(t, a)
      PROVE  SingleReader' /\ NoLostWakeup'
  BY <1>2, <1>3 DEF ProcessTransport, pending_vars
<1>4. ASSUME NEW t \in Thread, NEW a \in Activation, NEW k \in Kind \ {"process"},
             NEW p \in BOOLEAN, InvokeUnified(t, a, k, p)
      PROVE  SingleReader' /\ NoLostWakeup'
  BY <1>2, <1>4 DEF InvokeUnified
<1>5. ASSUME NEW a \in Activation, InvokeRemote(a)
      PROVE  SingleReader' /\ NoLostWakeup'
  <2>1. \E nxt \in Pc \ {"cond_wait"} : Quiet(a, nxt)
    BY <1>5, PopFrames
    DEF InvokeRemote, pending_vars, Quiet, Reader, Continue, Return, TypeOK
  <2>2. QED
    BY <2>1, QuietKeeps
<1>6. ASSUME NEW a \in Activation, ReadBuffer_Reentrance(a)
      PROVE  SingleReader' /\ NoLostWakeup'
  <2>1. \E nxt \in Pc \ {"cond_wait"} : Quiet(a, nxt)
    BY <1>6, PopFrames
    DEF ReadBuffer_Reentrance, pending_vars, Quiet, Reader, Continue, Return, TypeOK
  <2>2. QED
    BY <2>1, QuietKeeps
<1>7. ASSUME NEW a \in Activation, ReadBuffer_TakeResponse(a)
      PROVE  SingleReader' /\ NoLostWakeup'
  <2>1. \E nxt \in Pc \ {"cond_wait"} : Quiet(a, nxt)
    BY <1>7, PopFrames
    DEF ReadBuffer_TakeResponse, Searching, Quiet, Reader, Continue, Return, TypeOK
  <2>2. QED
    BY <2>1, QuietKeeps
<1>8. ASSUME NEW a \in Activation, ReadBuffer_TakeIncoming(a)
      PROVE  SingleReader' /\ NoLostWakeup'
  <2>1. m_data_incoming_call # <<>>
    BY <1>8 DEF ReadBuffer_TakeIncoming, CallQueued
  <2>2. Quiet(a, "process")
    BY <1>8, <2>1, PopFrames
    DEF ReadBuffer_TakeIncoming, Searching, Quiet, Reader, Continue, TypeOK
  <2>3. QED
    BY <2>2, QuietKeeps
<1>9. ASSUME NEW a \in Activation, ReadBuffer_ReaderBusy(a)
      PROVE  SingleReader' /\ NoLostWakeup'
  <2>1. CASE ~WaitIncoming(a)
    <3>1. \E nxt \in Pc \ {"cond_wait"} : Quiet(a, nxt)
      BY <1>9, <2>1, PopFrames
      DEF ReadBuffer_ReaderBusy, Searching, pending_vars, Quiet, Reader, Return,
          TypeOK
    <3>2. QED
      BY <3>1, QuietKeeps
  <2>2. CASE WaitIncoming(a)
    <3>1. /\ pc' = [pc EXCEPT ![a] = "cond_wait"]
          /\ UNCHANGED <<pending_vars, frame_vars>>
          /\ IsLocked /\ ~ResponseStored(a) /\ ~CallQueued(a)
          /\ ~Reader(a)
      BY <1>9, <2>2
      DEF ReadBuffer_ReaderBusy, Searching, Continue, Stay, Reader
    <3>2. QED
      BY <3>1 DEF SingleReader, NoLostWakeup, Reader, IsCurrent, IsLocked,
         ResponseStored, CallQueued, pending_vars, frame_vars, TypeOK
  <2>3. QED
    BY <2>1, <2>2
<1>10. ASSUME NEW a \in Activation, ReadBuffer_BecomeReader(a)
      PROVE  SingleReader' /\ NoLostWakeup'
  <2>1. /\ pc' = [pc EXCEPT ![a] = "get_transport"]
        /\ m_thread_waiting_transport' = thread[a]
        /\ thread[a] \in Thread
        /\ ~IsLocked
        /\ UNCHANGED <<m_id_data_return, m_data_incoming_call, frame_vars>>
    BY <1>10 DEF ReadBuffer_BecomeReader, Searching, Running, MayRead,
       Continue, Stay
  <2>2. \A b \in Activation : ~Reader(b) /\ pc[b] # "cond_wait"
    BY <2>1, ConstantsAssumption
    DEF SingleReader, NoLostWakeup, IsCurrent, IsLocked, TypeOK, Reader
  <2>3. QED
    BY <2>1, <2>2, ConstantsAssumption
    DEF SingleReader, NoLostWakeup, Reader, IsCurrent, IsLocked, frame_vars,
        TypeOK
<1>11. ASSUME NEW a \in Activation, SpuriousWakeup(a)
      PROVE  SingleReader' /\ NoLostWakeup'
  <2>1. \E nxt \in Pc \ {"cond_wait"} : Quiet(a, nxt)
    BY <1>11, PopFrames
    DEF SpuriousWakeup, pending_vars, Quiet, Reader, Continue, Return, TypeOK
  <2>2. QED
    BY <2>1, QuietKeeps
<1>12. ASSUME NEW a \in Activation, NEW nxt \in ReaderPc, Reader(a),
              Continue(a, nxt), UNCHANGED pending_vars
       PROVE  SingleReader' /\ NoLostWakeup'
  <2>1. \A b \in Activation : Reader(b)' <=> Reader(b)
    BY <1>12 DEF Reader, Continue, TypeOK
  <2>2. \A b \in Activation : pc'[b] = "cond_wait" => pc[b] = "cond_wait"
    BY <1>12 DEF Continue, TypeOK
  <2>3. QED
    BY <1>12, <2>1, <2>2
    DEF SingleReader, NoLostWakeup, IsCurrent, IsLocked, ResponseStored,
        CallQueued, Continue, Stay, pending_vars, frame_vars
<1>13. ASSUME NEW a \in Activation,
              GetTransport(a) \/ ReadPacket(a) \/ ReadNothing(a) \/ ReadCancelled(a)
       PROVE  SingleReader' /\ NoLostWakeup'
  BY <1>12, <1>13
  DEF GetTransport, ReadPacket, ReadNothing, ReadCancelled, Read, Reader
<1>14. ASSUME NEW a \in Activation, WriteBuffer(a)
       PROVE  SingleReader' /\ NoLostWakeup'
  <2>1. m_thread_waiting_transport' = NoThread
    BY <1>14 DEF WriteBuffer
  <2>2. \A b \in Activation : ~Reader(b)' /\ pc'[b] # "cond_wait"
    <3>1. \A b \in Activation \ {a} : ~Reader(b)
      BY <1>14 DEF WriteBuffer, SingleReader, Reader
    <3>2. pc'[a] \in {"done", "read_buffer"}
      BY <1>14 DEF WriteBuffer, NotifyAll, TypeOK
    <3>3. \A b \in Activation \ {a} :
             pc'[b] = IF pc[b] = "cond_wait" THEN "woken" ELSE pc[b]
      BY <1>14 DEF WriteBuffer, NotifyAll, TypeOK
    <3>4. QED
      BY <3>1, <3>2, <3>3 DEF Reader
  <2>3. QED
    BY <2>1, <2>2 DEF SingleReader, NoLostWakeup, IsLocked
<1>15. ASSUME NEW a \in Activation, ProcessBuffer_Invoke(a)
      PROVE  SingleReader' /\ NoLostWakeup'
  <2>1. \E nxt \in Pc \ {"cond_wait"} : Quiet(a, nxt)
    BY <1>15, PopFrames
    DEF ProcessBuffer_Invoke, pending_vars, Quiet, Reader, Continue, Return, TypeOK
  <2>2. QED
    BY <2>1, QuietKeeps
<1>16. ASSUME NEW a \in Activation, ProcessBuffer_NoHandler(a)
      PROVE  SingleReader' /\ NoLostWakeup'
  <2>1. \E nxt \in Pc \ {"cond_wait"} : Quiet(a, nxt)
    BY <1>16, PopFrames
    DEF ProcessBuffer_NoHandler, pending_vars, Quiet, Reader, Continue, Return, TypeOK
  <2>2. QED
    BY <2>1, QuietKeeps
<1>17. ASSUME NEW a \in Activation, ProcessBuffer_Result(a)
      PROVE  SingleReader' /\ NoLostWakeup'
  <2>1. \E nxt \in Pc \ {"cond_wait"} : Quiet(a, nxt)
    BY <1>17, PopFrames
    DEF ProcessBuffer_Result, pending_vars, Quiet, Reader, Continue, Return, TypeOK
  <2>2. QED
    BY <2>1, QuietKeeps
<1>18. ASSUME NEW a \in Activation, HandlerReturns(a)
      PROVE  SingleReader' /\ NoLostWakeup'
  <2>1. \E nxt \in Pc \ {"cond_wait"} : Quiet(a, nxt)
    BY <1>18, PopFrames
    DEF HandlerReturns, pending_vars, Quiet, Reader, Continue, Return, TypeOK
  <2>2. QED
    BY <2>1, QuietKeeps
<1>19. CASE \/ UNCHANGED vars
            \/ \E q \in peer, type \in ResponseType : PeerAnswers(q, type)
            \/ \E type \in IncomingType, s \in BOOLEAN : PeerCalls(type, s)
            \/ CancelWaitRespond
            \/ Expire
  BY <1>1, <1>19
  DEF vars, PeerAnswers, PeerCalls, CancelWaitRespond, Expire, run_vars
<1>20. QED
  BY <1>3, <1>4, <1>5, <1>6, <1>7, <1>8, <1>9, <1>10, <1>11, <1>13, <1>14,
     <1>15, <1>16, <1>17, <1>18, <1>19, NextCases

\* However many threads share the endpoint, the transport is read by one of them
\* at a time, and no thread sleeps on m_write_cond without a reader that will
\* wake it, beside its stored response, or beside a call it should run.
THEOREM ReaderCorrect == Spec => []ReaderHandover
<1>1. Init => SingleReader /\ NoLostWakeup
  BY DEF Init, SingleReader, NoLostWakeup, Reader, ReaderPc, IsLocked
<1>2. QED
  BY <1>1, TypeInit, TypeStep, ReaderStep, PTL DEF Spec, ReaderHandover

-----------------------------------------------------------------------------
(* Nested calls, and how a waiting call may end.                           *)

Live(a) == pc[a] \notin {"free", "done"}

\* The stacks hold the live activations, each once, on its own thread.
StackInv ==
    /\ \A t \in Thread : \A i \in 1 .. Len(stack[t]) :
            Live(stack[t][i]) /\ thread[stack[t][i]] = t
    /\ \A t \in Thread : \A i, j \in 1 .. Len(stack[t]) :
            stack[t][i] = stack[t][j] => i = j
    /\ \A a \in Activation : Live(a) =>
            /\ thread[a] \in Thread
            /\ \E i \in 1 .. Len(stack[thread[a]]) : stack[thread[a]][i] = a

\* A call above the reader on the reader's own stack was made under its read.
NestedInv ==
    \A t \in Thread : \A i, k \in 1 .. Len(stack[t]) :
        k < i /\ Reader(stack[t][k]) => under_read[stack[t][i]]

\* Only ProcessTransport runs without an id; a read fails only with the
\* transport.
CallInv ==
    \A a \in Activation :
        /\ Live(a) => (WaitIncoming(a) <=> kind[a] # "process")
        /\ pc[a] = "write_buffer" /\ ~transport_ok[a]
                => cancel_wait_respond \/ expired

\* The running activation a stays live or is popped; others are not disturbed.
LEMMA StackKeeps ==
    ASSUME TypeOK, StackInv, NestedInv, NEW a \in Activation, NEW r,
           Running(a),
           \/ Stay /\ Live(a)'
           \/ Pop(a, r) /\ ~Live(a)',
           \A b \in Activation \ {a} :
               (Live(b)' <=> Live(b)) /\ (Reader(b)' <=> Reader(b)),
           UNCHANGED under_read
    PROVE  StackInv' /\ NestedInv'
<1> DEFINE u == thread[a]
           n == Len(stack[u])
<1>1. u \in Thread /\ stack[u] \in Seq(Activation) /\ n \in Nat /\ n > 0
      /\ stack[u][n] = a
  BY DEF Running, Top, TypeOK
<1>2. CASE Stay /\ Live(a)'
  <2>1. stack' = stack /\ thread' = thread
    BY <1>2 DEF Stay, frame_vars
  <2>2. Live(a)
    BY <1>1 DEF StackInv
  <2>3. StackInv'
    BY <1>2, <2>1, <2>2 DEF StackInv, TypeOK
  <2>4. NestedInv'
    <3> SUFFICES ASSUME NEW t \in Thread, NEW i \in 1 .. Len(stack[t]),
                        NEW k \in 1 .. Len(stack[t]), k < i, Reader(stack[t][k])'
                 PROVE  under_read[stack[t][i]]
      BY <2>1 DEF NestedInv, Reader
    <3>1. stack[t][k] # a
      <4>1. SUFFICES ASSUME stack[t][k] = a PROVE FALSE
        OBVIOUS
      <4>2. t = u
        BY <4>1 DEF StackInv
      <4>3. k = n
        BY <1>1, <4>1, <4>2 DEF StackInv
      <4>4. QED
        BY <1>1, <4>2, <4>3
    <3>2. Reader(stack[t][k])
      <4>1. stack[t][k] \in Activation \ {a}
        BY <3>1 DEF TypeOK
      <4>2. QED
        BY <2>1, <4>1 DEF Reader
    <3>3. QED
      BY <3>2 DEF NestedInv
  <2>5. QED
    BY <2>3, <2>4
<1>3. CASE Pop(a, r) /\ ~Live(a)'
  <2>1. /\ stack'[u] = SubSeq(stack[u], 1, n - 1)
        /\ \A t \in Thread \ {u} : stack'[t] = stack[t]
        /\ \A b \in Activation \ {a} : thread'[b] = thread[b]
    BY <1>1, <1>3 DEF Pop, TypeOK
  <2>2. /\ Len(stack'[u]) = n - 1
        /\ \A i \in 1 .. n - 1 : stack'[u][i] = stack[u][i]
    BY <1>1, <2>1
  <2>3. \A t \in Thread : \A i \in 1 .. Len(stack'[t]) :
            /\ i \in 1 .. Len(stack[t])
            /\ stack'[t][i] = stack[t][i]
            /\ stack[t][i] \in Activation \ {a}
    <3> SUFFICES ASSUME NEW t \in Thread, NEW i \in 1 .. Len(stack'[t])
                 PROVE  /\ i \in 1 .. Len(stack[t])
                        /\ stack'[t][i] = stack[t][i]
                        /\ stack[t][i] \in Activation \ {a}
      OBVIOUS
    <3>1. i \in 1 .. Len(stack[t]) /\ stack'[t][i] = stack[t][i]
      <4>1. CASE t = u
        <5>1. i \in 1 .. n - 1
          BY <2>2, <4>1
        <5>2. QED
          BY <1>1, <2>2, <4>1, <5>1
      <4>2. CASE t # u
        BY <2>1, <4>2
      <4>3. QED
        BY <4>1, <4>2
    <3>2. stack[t][i] \in Activation
      BY <3>1 DEF TypeOK
    <3>3. stack[t][i] = a => t = u /\ i = n
      BY <1>1, <3>1 DEF StackInv
    <3>4. ~(t = u /\ i = n)
      BY <1>1, <2>2
    <3>5. QED
      BY <3>1, <3>2, <3>3, <3>4
  <2>4. \A b \in Activation : Live(b)' =>
            /\ thread'[b] \in Thread
            /\ \E i \in 1 .. Len(stack'[thread'[b]]) : stack'[thread'[b]][i] = b
    <3> SUFFICES ASSUME NEW b \in Activation, Live(b)'
                 PROVE  /\ thread'[b] \in Thread
                        /\ \E i \in 1 .. Len(stack'[thread'[b]]) :
                                stack'[thread'[b]][i] = b
      OBVIOUS
    <3>1. b # a /\ Live(b) /\ thread'[b] = thread[b]
      BY <1>3, <2>1
    <3>2. PICK i \in 1 .. Len(stack[thread[b]]) : stack[thread[b]][i] = b
      BY <3>1 DEF StackInv
    <3>3. thread[b] = u => i \in 1 .. n - 1
      BY <1>1, <3>1, <3>2
    <3>4. thread[b] \in Thread
      BY <3>1 DEF StackInv
    <3>5. QED
      BY <1>1, <2>1, <2>2, <3>1, <3>2, <3>3, <3>4
  <2>5. StackInv'
    <3>1. \A t \in Thread : \A i \in 1 .. Len(stack'[t]) :
              pc'[stack'[t][i]] \notin {"free", "done"} /\ thread'[stack'[t][i]] = t
      BY <2>1, <2>3 DEF StackInv, Live
    <3>2. \A t \in Thread : \A i, j \in 1 .. Len(stack'[t]) :
              stack'[t][i] = stack'[t][j] => i = j
      BY <2>3 DEF StackInv
    <3>3. QED
      BY <2>4, <3>1, <3>2 DEF StackInv, Live
  <2>6. NestedInv'
    BY <2>3 DEF NestedInv, Reader
  <2>7. QED
    BY <2>5, <2>6
<1>4. QED
  BY <1>2, <1>3

\* A new activation goes on top of the stack of its thread.
LEMMA StackPush ==
    ASSUME TypeOK, SingleReader, StackInv, NestedInv,
           NEW t \in Thread, NEW a \in Activation, NEW k, NEW m, NEW p,
           NEW first \in {"write", "read_buffer"}, Push(t, a, k, m, p, first)
    PROVE  StackInv' /\ NestedInv'
<1> DEFINE n == Len(stack[t])
<1>1. /\ stack[t] \in Seq(Activation) /\ n \in Nat
      /\ \A u \in Thread \ {t} : stack'[u] = stack[u]
      /\ Len(stack'[t]) = n + 1
      /\ \A i \in 1 .. n : stack'[t][i] = stack[t][i]
      /\ stack'[t][n + 1] = a
  BY DEF Push, TypeOK
<1>2. /\ pc[a] = "free"
      /\ pc' = [pc EXCEPT ![a] = first]
      /\ thread' = [thread EXCEPT ![a] = t]
      /\ under_read' = [under_read EXCEPT ![a] = (m_thread_waiting_transport = t)]
  BY DEF Push
<1>3. \A u \in Thread : \A i \in 1 .. Len(stack[u]) :
          stack[u][i] \in Activation \ {a}
  BY <1>2 DEF StackInv, Live, TypeOK
<1>4. \A b \in Activation \ {a} :
          /\ Live(b)' <=> Live(b)
          /\ Reader(b)' <=> Reader(b)
          /\ thread'[b] = thread[b]
          /\ under_read'[b] = under_read[b]
  BY <1>2 DEF Live, Reader, TypeOK
<1>5. Live(a)' /\ ~Reader(a)' /\ thread'[a] = t
      /\ under_read'[a] = (m_thread_waiting_transport = t)
  BY <1>2 DEF Live, Reader, ReaderPc, TypeOK
<1>6. \A u \in Thread : \A i \in 1 .. Len(stack'[u]) :
          \/ /\ i \in 1 .. Len(stack[u])
             /\ stack'[u][i] = stack[u][i]
          \/ u = t /\ i = n + 1 /\ stack'[u][i] = a
  BY <1>1
<1>7. StackInv'
  <2>1. \A u \in Thread : \A i \in 1 .. Len(stack'[u]) :
            pc'[stack'[u][i]] \notin {"free", "done"} /\ thread'[stack'[u][i]] = u
    BY <1>3, <1>4, <1>5, <1>6 DEF StackInv, Live
  <2>2. \A u \in Thread : \A i, j \in 1 .. Len(stack'[u]) :
            stack'[u][i] = stack'[u][j] => i = j
    BY <1>3, <1>6 DEF StackInv
  <2>3. ASSUME NEW b \in Activation, Live(b)'
        PROVE  /\ thread'[b] \in Thread
               /\ \E i \in 1 .. Len(stack'[thread'[b]]) :
                       stack'[thread'[b]][i] = b
    <3>1. CASE b = a
      <4>1. n + 1 \in 1 .. Len(stack'[t])
        BY <1>1
      <4>2. QED
        BY <1>1, <1>5, <3>1, <4>1
    <3>2. CASE b # a
      <4>1. Live(b) /\ thread'[b] = thread[b] /\ thread[b] \in Thread
        BY <1>4, <2>3, <3>2 DEF StackInv
      <4>2. PICK i \in 1 .. Len(stack[thread[b]]) : stack[thread[b]][i] = b
        BY <4>1 DEF StackInv
      <4>3. QED
        BY <1>1, <4>1, <4>2
    <3>3. QED
      BY <3>1, <3>2
  <2>4. QED
    BY <2>1, <2>2, <2>3 DEF StackInv, Live
<1>8. NestedInv'
  <2> SUFFICES ASSUME NEW u \in Thread, NEW i \in 1 .. Len(stack'[u]),
                      NEW j \in 1 .. Len(stack'[u]), j < i, pc'[stack'[u][j]] \in ReaderPc
               PROVE  under_read'[stack'[u][i]]
    BY DEF NestedInv, Reader
  <2>1. j \in 1 .. Len(stack[u]) /\ stack'[u][j] = stack[u][j] /\ Reader(stack[u][j])
    BY <1>1, <1>3, <1>4, <1>5, <1>6 DEF Reader
  <2>2. CASE i \in 1 .. Len(stack[u]) /\ stack'[u][i] = stack[u][i]
    BY <1>3, <1>4, <2>1, <2>2 DEF NestedInv
  <2>3. CASE u = t /\ stack'[u][i] = a
    <3>1. m_thread_waiting_transport = thread[stack[u][j]]
      BY <1>3, <2>1 DEF SingleReader, IsCurrent
    <3>2. thread[stack[u][j]] = t
      BY <2>1, <2>3 DEF StackInv
    <3>3. QED
      BY <1>5, <2>3, <3>1, <3>2
  <2>4. QED
    BY <1>6, <2>2, <2>3
<1>9. QED
  BY <1>7, <1>8

\* What every step of a running activation does to the stacks.
OwnStep(a) ==
    /\ Running(a)
    /\ \/ Stay /\ Live(a)'
       \/ \E r \in Result : Pop(a, r) /\ ~Live(a)'
    /\ \A b \in Activation \ {a} :
           /\ Live(b)' <=> Live(b)
           /\ Reader(b)' <=> Reader(b)
           /\ pc'[b] = "done" => pc[b] = "done"
    /\ UNCHANGED call_vars

\* Every step of a running activation is an OwnStep for the stacks.
LEMMA OwnSteps ==
    ASSUME TypeOK, NEW a \in Activation,
           \/ InvokeRemote(a)
           \/ ReadBuffer_Reentrance(a)
           \/ ReadBuffer_TakeResponse(a)
           \/ ReadBuffer_TakeIncoming(a)
           \/ ReadBuffer_ReaderBusy(a)
           \/ ReadBuffer_BecomeReader(a)
           \/ SpuriousWakeup(a)
           \/ GetTransport(a)
           \/ ReadPacket(a)
           \/ ReadNothing(a)
           \/ ReadCancelled(a)
           \/ WriteBuffer(a)
           \/ ProcessBuffer_Invoke(a)
           \/ ProcessBuffer_NoHandler(a)
           \/ ProcessBuffer_Result(a)
           \/ HandlerReturns(a)
    PROVE  OwnStep(a)
<1> USE DEF Result
<1>1. ASSUME Running(a), UNCHANGED call_vars,
             NEW nxt \in Pc \ {"free", "done"}, Continue(a, nxt)
      PROVE  OwnStep(a)
  BY <1>1 DEF OwnStep, Continue, Live, Reader, TypeOK
<1>2. ASSUME Running(a), UNCHANGED call_vars, NEW r \in Result, Return(a, r)
      PROVE  OwnStep(a)
  BY <1>2 DEF OwnStep, Return, Live, Reader, TypeOK
<1>3. CASE WriteBuffer(a)
  <2>1. \A b \in Activation \ {a} :
            pc'[b] = IF pc[b] = "cond_wait" THEN "woken" ELSE pc[b]
    BY <1>3 DEF WriteBuffer, NotifyAll, TypeOK
  <2>2. \A b \in Activation \ {a} :
            /\ Live(b)' <=> Live(b)
            /\ Reader(b)' <=> Reader(b)
            /\ pc'[b] = "done" => pc[b] = "done"
    BY <2>1 DEF Live, Reader, ReaderPc
  <2>3. \/ Stay /\ pc'[a] = "read_buffer"
        \/ \E r \in Result : Pop(a, r) /\ pc'[a] = "done"
    BY <1>3 DEF WriteBuffer, NotifyAll, TypeOK
  <2>4. QED
    BY <1>3, <2>2, <2>3 DEF OwnStep, WriteBuffer, Live
<1> USE DEF Pc, ReaderPc
<1>4. CASE InvokeRemote(a) \/ ReadBuffer_Reentrance(a) \/ ReadBuffer_ReaderBusy(a)
  BY <1>1, <1>2, <1>4
  DEF InvokeRemote, ReadBuffer_Reentrance, ReadBuffer_ReaderBusy, Searching
<1>5. CASE ReadBuffer_TakeResponse(a) \/ ReadBuffer_TakeIncoming(a)
           \/ ReadBuffer_BecomeReader(a) \/ SpuriousWakeup(a)
  BY <1>1, <1>5
  DEF ReadBuffer_TakeResponse, ReadBuffer_TakeIncoming,
      ReadBuffer_BecomeReader, SpuriousWakeup, Searching
<1>6. CASE GetTransport(a) \/ ReadPacket(a) \/ ReadNothing(a) \/ ReadCancelled(a)
  BY <1>1, <1>6 DEF GetTransport, ReadPacket, ReadNothing, ReadCancelled, Read
<1>7. CASE ProcessBuffer_Invoke(a) \/ ProcessBuffer_NoHandler(a)
  BY <1>1, <1>7 DEF ProcessBuffer_Invoke, ProcessBuffer_NoHandler
<1>8. CASE ProcessBuffer_Result(a) \/ HandlerReturns(a)
  BY <1>1, <1>2, <1>8 DEF ProcessBuffer_Result, HandlerReturns
<1>9. QED
  BY <1>3, <1>4, <1>5, <1>6, <1>7, <1>8

\* The shape of the stacks is kept by every step.
LEMMA StackStep ==
    TypeOK /\ SingleReader /\ StackInv /\ NestedInv /\ [Next]_vars
        => StackInv' /\ NestedInv'
<1> SUFFICES ASSUME TypeOK, SingleReader, StackInv, NestedInv, [Next]_vars
             PROVE  StackInv' /\ NestedInv'
  OBVIOUS
<1>1. CASE \/ UNCHANGED vars
           \/ \E q \in peer, type \in ResponseType : PeerAnswers(q, type)
           \/ \E type \in IncomingType, s \in BOOLEAN : PeerCalls(type, s)
           \/ CancelWaitRespond
           \/ Expire
  <2>1. UNCHANGED <<stack, thread, pc, under_read>>
    BY <1>1 DEF vars, PeerAnswers, PeerCalls, CancelWaitRespond, Expire,
       run_vars, frame_vars, call_vars
  <2>2. QED
    BY <2>1 DEF StackInv, NestedInv, Live, Reader
<1>2. ASSUME NEW t \in Thread, NEW a \in Activation, ProcessTransport(t, a)
      PROVE  StackInv' /\ NestedInv'
  BY <1>2, StackPush DEF ProcessTransport
<1>3. ASSUME NEW t \in Thread, NEW a \in Activation, NEW k \in Kind \ {"process"},
             NEW p \in BOOLEAN, InvokeUnified(t, a, k, p)
      PROVE  StackInv' /\ NestedInv'
  BY <1>3, StackPush DEF InvokeUnified
<1>4. ASSUME NEW a \in Activation, OwnStep(a)
      PROVE  StackInv' /\ NestedInv'
  BY <1>4, StackKeeps DEF OwnStep, call_vars
<1>5. QED
  BY <1>1, <1>2, <1>3, <1>4, OwnSteps, NextCases

\* The activation on top of its thread's stack is live.
LEMMA RunningLive ==
    ASSUME TypeOK, StackInv, NEW a \in Activation, Running(a)
    PROVE  Live(a)
<1> DEFINE u == thread[a]
           n == Len(stack[u])
<1>1. u \in Thread /\ stack[u] \in Seq(Activation) /\ stack[u] # <<>>
  BY DEF Running, TypeOK
<1>2. n \in 1 .. Len(stack[u])
  BY <1>1
<1>3. stack[u][n] = a
  BY DEF Running, Top
<1>4. QED
  BY <1>1, <1>2, <1>3 DEF StackInv

\* The facts about each kind of activation are kept by every step.
LEMMA CallStep ==
    TypeOK /\ StackInv /\ CallInv /\ [Next]_vars => CallInv'
<1> SUFFICES ASSUME TypeOK, StackInv, CallInv, [Next]_vars
             PROVE  CallInv'
  OBVIOUS
<1> DEFINE Failed == cancel_wait_respond \/ expired
           WaitOK(b) == Live(b) => (WaitIncoming(b) <=> kind[b] # "process")
           ReadOK(b) == pc[b] = "write_buffer" /\ ~transport_ok[b] => Failed
<1>1. CASE \/ UNCHANGED vars
           \/ \E q \in peer, type \in ResponseType : PeerAnswers(q, type)
           \/ \E type \in IncomingType, s \in BOOLEAN : PeerCalls(type, s)
           \/ CancelWaitRespond
           \/ Expire
  <2>1. UNCHANGED <<pc, kind, wait_response_id, transport_ok>>
    BY <1>1 DEF vars, PeerAnswers, PeerCalls, CancelWaitRespond, Expire,
       run_vars, frame_vars, call_vars
  <2>2. Failed => Failed'
    BY <1>1 DEF vars, PeerAnswers, PeerCalls, CancelWaitRespond, Expire,
       failure_vars
  <2>3. QED
    BY <2>1, <2>2 DEF CallInv, Live, WaitIncoming
<1>2. ASSUME NEW t \in Thread, NEW a \in Activation, NEW k \in Kind,
             NEW n \in CallId, NEW p, NEW first \in {"write", "read_buffer"},
             Push(t, a, k, n, p, first), n # c_invalid_id <=> k # "process"
      PROVE  CallInv'
  BY <1>2 DEF Push, CallInv, Live, WaitIncoming, TypeOK, failure_vars
<1>3. ASSUME NEW t \in Thread, NEW a \in Activation, ProcessTransport(t, a)
      PROVE  CallInv'
  BY <1>2, <1>3, IdTypes DEF ProcessTransport, Kind
<1>4. ASSUME NEW t \in Thread, NEW a \in Activation,
             NEW k \in Kind \ {"process"}, NEW p \in BOOLEAN,
             InvokeUnified(t, a, k, p)
      PROVE  CallInv'
  BY <1>2, <1>4, IdTypes DEF InvokeUnified
<1>5. ASSUME NEW a \in Activation, OwnStep(a), NEW b \in Activation
      PROVE  WaitOK(b)'
  <2>1. Live(a)
    <3>1. Running(a)
      BY <1>5 DEF OwnStep
    <3>2. QED
      BY <3>1, RunningLive
  <2>2. CASE Stay
    BY <1>5, <2>1, <2>2
    DEF OwnStep, Stay, frame_vars, call_vars, CallInv, WaitIncoming
  <2>3. ASSUME NEW r \in Result, Pop(a, r), ~Live(a)'
        PROVE  WaitOK(b)'
    <3>1. kind' = kind /\ (b # a => wait_response_id'[b] = wait_response_id[b])
      BY <1>5, <2>3 DEF OwnStep, Pop, call_vars, TypeOK
    <3>2. Live(b)' => b # a /\ Live(b)
      BY <1>5, <2>3 DEF OwnStep
    <3>3. QED
      BY <3>1, <3>2 DEF CallInv, WaitIncoming
  <2>4. QED
    BY <1>5, <2>2, <2>3 DEF OwnStep
<1>6. ASSUME NEW a \in Activation, OwnStep(a), UNCHANGED failure_vars,
             \/ UNCHANGED transport_ok /\ pc'[a] # "write_buffer"
             \/ /\ \A b \in Activation \ {a} : transport_ok'[b] = transport_ok[b]
                /\ pc'[a] = "write_buffer" /\ ~transport_ok'[a] => Failed,
             \A b \in Activation \ {a} :
                 pc'[b] = "write_buffer" => pc[b] = "write_buffer"
      PROVE  CallInv'
  <2>1. \A b \in Activation : ReadOK(b)'
    BY <1>6 DEF CallInv, failure_vars
  <2>2. QED
    BY <1>5, <1>6, <2>1 DEF CallInv
<1>7. ASSUME NEW a \in Activation, UNCHANGED transport_ok,
             \/ InvokeRemote(a)
             \/ ReadBuffer_Reentrance(a)
             \/ ReadBuffer_TakeResponse(a)
             \/ ReadBuffer_TakeIncoming(a)
             \/ ReadBuffer_ReaderBusy(a)
             \/ ReadBuffer_BecomeReader(a)
             \/ SpuriousWakeup(a)
             \/ ProcessBuffer_Invoke(a)
             \/ ProcessBuffer_NoHandler(a)
             \/ ProcessBuffer_Result(a)
             \/ HandlerReturns(a)
      PROVE  CallInv'
  <2>1. OwnStep(a)
    BY <1>7, OwnSteps
  <2>2. /\ \E nxt \in Pc \ {"write_buffer"} : pc' = [pc EXCEPT ![a] = nxt]
        /\ UNCHANGED failure_vars
    BY <1>7
    DEF InvokeRemote, ReadBuffer_Reentrance, ReadBuffer_TakeResponse,
        ReadBuffer_TakeIncoming, ReadBuffer_ReaderBusy, ReadBuffer_BecomeReader,
        SpuriousWakeup, ProcessBuffer_Invoke, ProcessBuffer_NoHandler,
        ProcessBuffer_Result, HandlerReturns, Continue, Return, Pc, ReaderPc
  <2>3. QED
    BY <1>6, <1>7, <2>1, <2>2 DEF TypeOK
<1>8. ASSUME NEW a \in Activation,
             \/ GetTransport(a)
             \/ ReadPacket(a)
             \/ ReadNothing(a)
             \/ ReadCancelled(a)
      PROVE  CallInv'
  <2>1. OwnStep(a)
    BY <1>8, OwnSteps
  <2>2. /\ \E nxt \in Pc : pc' = [pc EXCEPT ![a] = nxt]
        /\ UNCHANGED failure_vars
        /\ \A b \in Activation \ {a} : transport_ok'[b] = transport_ok[b]
        /\ pc'[a] = "write_buffer" /\ ~transport_ok'[a] => Failed
    BY <1>8
    DEF GetTransport, ReadPacket, ReadNothing, ReadCancelled, Read, Continue,
        Pc, ReaderPc, TypeOK
  <2>3. QED
    BY <1>6, <2>1, <2>2 DEF TypeOK
<1>9. ASSUME NEW a \in Activation, WriteBuffer(a)
      PROVE  CallInv'
  <2>1. OwnStep(a)
    BY <1>9, OwnSteps
  <2>2. /\ \A b \in Activation \ {a} :
               pc'[b] = "write_buffer" => pc[b] = "write_buffer"
        /\ pc'[a] # "write_buffer"
        /\ \A b \in Activation \ {a} : transport_ok'[b] = transport_ok[b]
        /\ UNCHANGED failure_vars
    BY <1>9 DEF WriteBuffer, NotifyAll, TypeOK
  <2>3. QED
    BY <1>6, <2>1, <2>2
<1>10. QED
  BY <1>1, <1>3, <1>4, <1>7, <1>8, <1>9, NextCases
  DEF InvokeRemote, ReadBuffer_Reentrance, ReadBuffer_TakeResponse,
      ReadBuffer_TakeIncoming, ReadBuffer_ReaderBusy, ReadBuffer_BecomeReader,
      SpuriousWakeup, ProcessBuffer_Invoke, ProcessBuffer_NoHandler,
      ProcessBuffer_Result, HandlerReturns

\* An activation that ends has a reason the code gives.
LEMMA EndStep ==
    TypeOK /\ SingleReader /\ StackInv /\ NestedInv /\ CallInv
           /\ EmptyOnlyOnFailure /\ [Next]_vars
        => EmptyOnlyOnFailure'
<1> SUFFICES ASSUME TypeOK, SingleReader, StackInv, NestedInv, CallInv,
                    EmptyOnlyOnFailure, [Next]_vars,
                    NEW b \in Activation, pc'[b] = "done", kind'[b] \in WaitingKind
             PROVE  MayEnd(b)'
  BY DEF EmptyOnlyOnFailure
<1> DEFINE Failed == cancel_wait_respond \/ expired
<1>1. ASSUME pc[b] = "done", kind'[b] = kind[b], result'[b] = result[b],
             under_read'[b] = under_read[b], Failed => Failed', expired => expired'
      PROVE  MayEnd(b)'
  BY <1>1 DEF EmptyOnlyOnFailure, MayEnd
<1>2. CASE \/ UNCHANGED vars
           \/ \E q \in peer, type \in ResponseType : PeerAnswers(q, type)
           \/ \E type \in IncomingType, s \in BOOLEAN : PeerCalls(type, s)
           \/ CancelWaitRespond
           \/ Expire
  <2>1. UNCHANGED <<pc, kind, result, under_read>>
    BY <1>2 DEF vars, PeerAnswers, PeerCalls, CancelWaitRespond, Expire,
       run_vars, frame_vars, call_vars
  <2>2. Failed => Failed'
    BY <1>2 DEF vars, PeerAnswers, PeerCalls, CancelWaitRespond, Expire,
       failure_vars
  <2>3. expired => expired'
    BY <1>2 DEF vars, PeerAnswers, PeerCalls, CancelWaitRespond, Expire,
       failure_vars
  <2>4. QED
    BY <1>1, <2>1, <2>2, <2>3
<1>3. ASSUME NEW t \in Thread, NEW a \in Activation, NEW k, NEW n, NEW p,
             NEW first \in {"write", "read_buffer"}, Push(t, a, k, n, p, first)
      PROVE  MayEnd(b)'
  <2>1. b # a /\ pc[b] = "done" /\ kind'[b] = kind[b] /\ result'[b] = result[b]
        /\ under_read'[b] = under_read[b]
    BY <1>3 DEF Push, TypeOK
  <2>2. UNCHANGED failure_vars
    BY <1>3 DEF Push
  <2>3. QED
    BY <1>1, <2>1, <2>2 DEF failure_vars
<1>4. ASSUME NEW a \in Activation, OwnStep(a), UNCHANGED failure_vars, b # a
      PROVE  MayEnd(b)'
  <2>1. pc[b] = "done" /\ UNCHANGED call_vars
    BY <1>4 DEF OwnStep
  <2>2. result'[b] = result[b]
    BY <1>4 DEF OwnStep, Stay, Pop, frame_vars, TypeOK
  <2>3. QED
    BY <1>1, <1>4, <2>1, <2>2 DEF call_vars, failure_vars
<1>5. ASSUME Running(b), UNCHANGED <<call_vars, failure_vars>>,
             \/ InvokeRemote(b)
             \/ ReadBuffer_Reentrance(b)
             \/ ReadBuffer_ReaderBusy(b)
             \/ WriteBuffer(b)
             \/ ProcessBuffer_Result(b)
             \/ HandlerReturns(b)
      PROVE  MayEnd(b)'
  <2>1. Live(b) /\ kind[b] \in WaitingKind /\ WaitIncoming(b)
    BY <1>5 DEF Running, Top, StackInv, TypeOK, CallInv, call_vars, WaitingKind
  <2>2. CASE InvokeRemote(b)
    <3>1. expired /\ Return(b, "unsent")
      BY <2>1, <2>2 DEF InvokeRemote, Continue, TypeOK, WaitingKind
    <3>2. result'[b] = "unsent"
      BY <3>1 DEF Return, Pop, TypeOK
    <3>3. QED
      BY <1>5, <3>1, <3>2 DEF MayEnd, failure_vars
  <2>3. CASE ReadBuffer_Reentrance(b)
    <3>1. result'[b] = "reentrance"
      BY <2>3 DEF ReadBuffer_Reentrance, Return, Pop, TypeOK
    <3>2. PICK r \in Activation : Reader(r)
      BY <1>5, <2>3, ConstantsAssumption
      DEF ReadBuffer_Reentrance, IsCurrent, IsLocked, SingleReader, Running
    <3>3. Live(r) /\ thread[r] = thread[b] /\ r # b
      BY <2>3, <3>2
      DEF ReadBuffer_Reentrance, IsCurrent, SingleReader, Reader, ReaderPc, Live
    <3>4. PICK k \in 1 .. Len(stack[thread[b]]) : stack[thread[b]][k] = r
      BY <3>3 DEF StackInv
    <3>5. /\ Len(stack[thread[b]]) \in 1 .. Len(stack[thread[b]])
          /\ stack[thread[b]][Len(stack[thread[b]])] = b
          /\ thread[b] \in Thread
      BY <1>5 DEF Running, Top, TypeOK
    <3>6. k < Len(stack[thread[b]])
      BY <3>3, <3>4, <3>5
    <3>7. under_read[b]
      BY <3>2, <3>4, <3>5, <3>6 DEF NestedInv
    <3>8. QED
      BY <1>5, <3>1, <3>7 DEF MayEnd, call_vars
  <2>4. CASE ReadBuffer_ReaderBusy(b)
    BY <2>1, <2>4 DEF ReadBuffer_ReaderBusy, Continue, TypeOK
  <2>5. CASE WriteBuffer(b)
    <3>1. ~transport_ok[b]
      BY <2>1, <2>5 DEF WriteBuffer, NotifyAll, TypeOK
    <3>2. result'[b] = "cancelled"
      BY <2>5, <3>1 DEF WriteBuffer, Pop, TypeOK
    <3>3. Failed
      BY <2>5, <3>1 DEF WriteBuffer, CallInv
    <3>4. QED
      BY <1>5, <3>2, <3>3 DEF MayEnd, failure_vars
  <2>6. CASE ProcessBuffer_Result(b)
    <3>1. result'[b] = "data"
      BY <2>6 DEF ProcessBuffer_Result, Return, Continue, Pop, TypeOK
    <3>2. QED
      BY <3>1 DEF MayEnd
  <2>7. CASE HandlerReturns(b)
    <3>1. result'[b] = "error"
      BY <2>7 DEF HandlerReturns, Return, Continue, Pop, TypeOK
    <3>2. QED
      BY <3>1 DEF MayEnd
  <2>8. QED
    BY <1>5, <2>2, <2>3, <2>4, <2>5, <2>6, <2>7
<1>6. ASSUME NEW a \in Activation,
             \/ ReadBuffer_TakeResponse(a)
             \/ ReadBuffer_TakeIncoming(a)
             \/ ReadBuffer_BecomeReader(a)
             \/ SpuriousWakeup(a)
             \/ GetTransport(a)
             \/ ReadPacket(a)
             \/ ReadNothing(a)
             \/ ReadCancelled(a)
             \/ ProcessBuffer_Invoke(a)
             \/ ProcessBuffer_NoHandler(a)
      PROVE  MayEnd(b)'
  <2>1. UNCHANGED failure_vars /\ pc'[a] # "done"
    BY <1>6
    DEF ReadBuffer_TakeResponse, ReadBuffer_TakeIncoming,
        ReadBuffer_BecomeReader, SpuriousWakeup, GetTransport, ReadPacket,
        ReadNothing, ReadCancelled, Read, ProcessBuffer_Invoke,
        ProcessBuffer_NoHandler, Continue, TypeOK
  <2>2. OwnStep(a)
    BY <1>6, OwnSteps
  <2>3. QED
    BY <1>4, <2>1, <2>2
<1>7. ASSUME NEW a \in Activation,
             \/ InvokeRemote(a)
             \/ ReadBuffer_Reentrance(a)
             \/ ReadBuffer_ReaderBusy(a)
             \/ WriteBuffer(a)
             \/ ProcessBuffer_Result(a)
             \/ HandlerReturns(a)
      PROVE  MayEnd(b)'
  <2>1. UNCHANGED failure_vars
    BY <1>7
    DEF InvokeRemote, ReadBuffer_Reentrance, ReadBuffer_ReaderBusy,
        WriteBuffer, ProcessBuffer_Result, HandlerReturns
  <2>2. OwnStep(a)
    BY <1>7, OwnSteps
  <2>3. CASE b = a
    BY <1>5, <1>7, <2>1, <2>2, <2>3 DEF OwnStep
  <2>4. QED
    BY <1>4, <2>1, <2>2, <2>3
<1>8. ASSUME NEW t \in Thread, NEW a \in Activation, ProcessTransport(t, a)
      PROVE  MayEnd(b)'
  BY <1>3, <1>8 DEF ProcessTransport
<1>9. ASSUME NEW t \in Thread, NEW a \in Activation,
             NEW k \in Kind \ {"process"}, NEW p \in BOOLEAN,
             InvokeUnified(t, a, k, p)
      PROVE  MayEnd(b)'
  BY <1>3, <1>9 DEF InvokeUnified
<1>10. QED
  BY <1>2, <1>6, <1>7, <1>8, <1>9, NextCases

\* WaitInvoke and EnumerateRemote come back empty-handed only when the transport
\* failed or when they were called from inside their own thread's transport
\* read; in every other case the caller gets the peer's data or error.
THEOREM NoSilentDefault == Spec => []EmptyOnlyOnFailure
<1>1. Init => /\ SingleReader /\ NoLostWakeup /\ StackInv /\ NestedInv
              /\ CallInv /\ EmptyOnlyOnFailure
  BY DEF Init, SingleReader, NoLostWakeup, Reader, ReaderPc, IsLocked, StackInv,
     NestedInv, CallInv, Live, EmptyOnlyOnFailure
<1>2. QED
  BY <1>1, TypeInit, TypeStep, ReaderStep, StackStep, CallStep, EndStep, PTL
  DEF Spec

-----------------------------------------------------------------------------
(* Incoming calls: one order, one handler each.                            *)

\* The ids of the incoming calls in a sequence of packets, and their order.
IncomingIds(s) == {s[i].id : i \in {j \in 1 .. Len(s) : IsIncoming(s[j])}}
IncomingSorted(s) ==
    \A i, j \in 1 .. Len(s) :
        i < j /\ IsIncoming(s[i]) /\ IsIncoming(s[j]) => s[i].id < s[j].id

\* The transport is a FIFO: what it holds is sorted by the peer's count.
InboxSorted == IncomingSorted(inbox)

\* What goes to the end of a sorted sequence must be newer than all of it.
LEMMA AppendIncoming ==
    ASSUME NEW s \in Seq(Packet), NEW p \in Packet
    PROVE  /\ ~IsIncoming(p) =>
                /\ IncomingIds(Append(s, p)) = IncomingIds(s)
                /\ IncomingSorted(s) => IncomingSorted(Append(s, p))
           /\ IsIncoming(p) =>
                /\ IncomingIds(Append(s, p)) = IncomingIds(s) \cup {p.id}
                /\ IncomingSorted(s) /\ Before(IncomingIds(s), {p.id})
                      => IncomingSorted(Append(s, p))
<1> DEFINE n == Len(s)
           w == Append(s, p)
<1>1. /\ n \in Nat /\ Len(w) = n + 1 /\ w[n + 1] = p
      /\ \A i \in 1 .. n : w[i] = s[i]
  OBVIOUS
<1>2. \A i \in 1 .. n + 1 : i \in 1 .. n \/ i = n + 1
  BY <1>1
<1>3. \A i \in 1 .. n : i \in 1 .. n + 1 /\ i < n + 1
  BY <1>1
<1>4. n + 1 \in 1 .. n + 1
  BY <1>1
<1> HIDE DEF w, n
<1>5. ASSUME ~IsIncoming(p)
      PROVE  /\ IncomingIds(w) = IncomingIds(s)
             /\ IncomingSorted(s) => IncomingSorted(w)
  BY <1>1, <1>2, <1>3, <1>5 DEF IncomingIds, IncomingSorted, n
<1>6. ASSUME IsIncoming(p)
      PROVE  IncomingIds(w) = IncomingIds(s) \cup {p.id}
  BY <1>1, <1>2, <1>3, <1>4, <1>6 DEF IncomingIds, n
<1>7. ASSUME IsIncoming(p), IncomingSorted(s), Before(IncomingIds(s), {p.id})
      PROVE  IncomingSorted(w)
  <2>1. \A i \in 1 .. n : IsIncoming(s[i]) => s[i].id < p.id
    BY <1>7 DEF Before, IncomingIds, n
  <2> SUFFICES ASSUME NEW i \in 1 .. n + 1, NEW j \in 1 .. n + 1, i < j,
                      IsIncoming(w[i]), IsIncoming(w[j])
               PROVE  w[i].id < w[j].id
    BY <1>1 DEF IncomingSorted
  <2>2. i \in 1 .. n
    BY <1>1
  <2>3. CASE j = n + 1
    BY <1>1, <2>1, <2>2, <2>3
  <2>4. CASE j \in 1 .. n
    BY <1>1, <1>7, <2>2, <2>4 DEF IncomingSorted, n
  <2>5. QED
    BY <1>2, <2>3, <2>4
<1>8. QED
  BY <1>5, <1>6, <1>7 DEF w

\* What comes off the front of a sorted sequence is older than all of the rest.
LEMMA TailIncoming ==
    ASSUME NEW s \in Seq(Packet), s # <<>>, IncomingSorted(s)
    PROVE  /\ IncomingSorted(Tail(s))
           /\ ~IsIncoming(Head(s)) => IncomingIds(Tail(s)) = IncomingIds(s)
           /\ IsIncoming(Head(s)) =>
                /\ IncomingIds(s) = IncomingIds(Tail(s)) \cup {Head(s).id}
                /\ Before({Head(s).id}, IncomingIds(Tail(s)))
<1> DEFINE n == Len(s)
           w == Tail(s)
<1>1. /\ n \in Nat /\ n > 0 /\ Len(w) = n - 1 /\ Head(s) = s[1]
      /\ \A i \in 1 .. n - 1 : w[i] = s[i + 1]
  OBVIOUS
<1>2. /\ \A i \in 1 .. n - 1 : i + 1 \in 1 .. n /\ 1 < i + 1
      /\ \A i \in 1 .. n : i = 1 \/ (i - 1 \in 1 .. n - 1 /\ (i - 1) + 1 = i)
      /\ 1 \in 1 .. n
      /\ \A i, j \in 1 .. n - 1 : i < j => i + 1 < j + 1
  BY <1>1
<1> HIDE DEF w, n
<1>3. IncomingSorted(w)
  BY <1>1, <1>2 DEF IncomingSorted, n
<1>4. \A x \in IncomingIds(w) : \E i \in 1 .. n - 1 : IsIncoming(s[i + 1]) /\ x = s[i + 1].id
  BY <1>1 DEF IncomingIds
<1>5. \A x : x \in IncomingIds(w) => x \in IncomingIds(s)
  BY <1>2, <1>4 DEF IncomingIds, n
<1>6. \A x : x \in IncomingIds(s) => x \in IncomingIds(w) \/ (IsIncoming(s[1]) /\ x = s[1].id)
  <2> SUFFICES ASSUME NEW i \in 1 .. n, IsIncoming(s[i]), i # 1
               PROVE  s[i].id \in IncomingIds(w)
    BY DEF IncomingIds, n
  <2>1. i - 1 \in 1 .. Len(w) /\ w[i - 1] = s[i]
    BY <1>1, <1>2
  <2>2. QED
    BY <2>1 DEF IncomingIds
<1>7. IsIncoming(s[1]) => s[1].id \in IncomingIds(s)
  BY <1>2 DEF IncomingIds, n
<1>8. IsIncoming(s[1]) => Before({s[1].id}, IncomingIds(w))
  BY <1>2, <1>4 DEF Before, IncomingSorted, n
<1>9. QED
  BY <1>1, <1>3, <1>5, <1>6, <1>7, <1>8 DEF w

\* Who holds an incoming call: the reader that just read it, or the activation
\* that handles it.
Holds(b) == pc[b] = "write_buffer" /\ IsIncoming(buffer[b])
Handles(b) == Handling(b) /\ IsIncoming(buffer[b])

IncomingInv == InboxSorted /\ IncomingInOrder /\ IncomingOnce

\* The queue of calls is a sequence of packets that are all incoming calls.
LEMMA QueueIncoming ==
    ASSUME NEW s \in Seq(IncomingPacket)
    PROVE  /\ s \in Seq(Packet)
           /\ IncomingIds(s) = {s[i].id : i \in 1 .. Len(s)}
           /\ IncomingSorted(s) <=>
                \A i, j \in 1 .. Len(s) : i < j => s[i].id < s[j].id
<1>1. s \in Seq(Packet)
  BY DEF Packet
<1>2. \A i \in 1 .. Len(s) : s[i] \in IncomingPacket
  OBVIOUS
<1>3. \A i \in 1 .. Len(s) : IsIncoming(s[i])
  BY <1>2, NoPacketAssumption DEF IncomingPacket, Packet, IsIncoming
<1>4. QED
  BY <1>1, <1>3 DEF IncomingIds, IncomingSorted

\* A step that moves no incoming call keeps their order.
LEMMA NoneMoves ==
    ASSUME TypeOK, IncomingInv,
           \A b \in Activation :
               /\ Holds(b)' <=> Holds(b)
               /\ Handles(b)' <=> Handles(b)
               /\ Holds(b) \/ Handles(b) => buffer'[b] = buffer[b],
           InboxIds' = InboxIds, InboxSorted',
           UNCHANGED <<m_data_incoming_call, handled, replied, peer_calls>>
    PROVE  IncomingInv'
<1>1. ReaderIds' = ReaderIds
  BY DEF ReaderIds, Holds
<1>2. HandlingIds' = HandlingIds
  BY DEF HandlingIds, Handles
<1>3. QueueIds' = QueueIds
  BY DEF QueueIds
<1>4. IncomingInOrder'
  BY <1>1, <1>2, <1>3 DEF IncomingInv, IncomingInOrder, Before
<1>5. \A a, b \in Activation :
          Handles(a)' /\ Handles(b)' /\ buffer'[a].id = buffer'[b].id => a = b
  BY DEF IncomingInv, IncomingOnce, Handles
<1>6. IncomingOnce'
  BY <1>1, <1>2, <1>3, <1>5 DEF IncomingInv, IncomingOnce, Handles
<1>7. QED
  BY <1>4, <1>6 DEF IncomingInv

\* An activation's step that neither reads, queues, takes nor handles a call.
LEMMA StepMovesNone ==
    ASSUME TypeOK, IncomingInv, NEW a \in Activation, NEW nxt \in Pc,
           pc' = [pc EXCEPT ![a] = nxt],
           \/ UNCHANGED buffer
           \/ \E p \in Packet \cup {NoPacket} : buffer' = [buffer EXCEPT ![a] = p],
           Holds(a)' <=> Holds(a),
           Handles(a)' <=> Handles(a),
           Holds(a) \/ Handles(a) => buffer'[a] = buffer[a],
           UNCHANGED <<inbox, m_data_incoming_call, handled, replied, peer_calls>>
    PROVE  IncomingInv'
<1>1. InboxIds' = InboxIds /\ InboxSorted'
  BY DEF InboxIds, InboxSorted, IncomingSorted, IncomingInv
<1>2. \A b \in Activation \ {a} : pc'[b] = pc[b] /\ buffer'[b] = buffer[b]
  BY DEF TypeOK
<1>3. \A b \in Activation \ {a} :
               /\ Holds(b)' <=> Holds(b)
               /\ Handles(b)' <=> Handles(b)
  BY <1>2 DEF Holds, Handles, Handling
<1>4. QED
  BY <1>1, <1>2, <1>3, NoneMoves

\* The reader takes the oldest call out of the transport.
LEMMA CallRead ==
    ASSUME TypeOK, SingleReader, IncomingInv, NEW a \in Activation, ReadPacket(a)
    PROVE  IncomingInv'
<1> DEFINE p == Head(inbox)
<1>1. /\ inbox \in Seq(Packet) /\ inbox # <<>> /\ inbox' = Tail(inbox)
      /\ pc[a] = "read" /\ pc' = [pc EXCEPT ![a] = "write_buffer"]
      /\ buffer' = [buffer EXCEPT ![a] = p]
      /\ UNCHANGED <<m_data_incoming_call, handled, replied, peer_calls>>
  BY DEF ReadPacket, Read, Continue, pending_vars, TypeOK
<1>2. p \in Packet
  BY <1>1
<1>3. /\ InboxSorted'
      /\ ~IsIncoming(p) => InboxIds' = InboxIds
      /\ IsIncoming(p) => /\ InboxIds = InboxIds' \cup {p.id}
                          /\ Before({p.id}, InboxIds')
  <2>1. InboxIds = IncomingIds(inbox) /\ InboxIds' = IncomingIds(inbox')
    BY DEF InboxIds, IncomingIds
  <2>2. IncomingSorted(inbox) /\ (InboxSorted' <=> IncomingSorted(inbox'))
    BY DEF InboxSorted, IncomingSorted, IncomingInv
  <2>3. QED
    BY <1>1, <2>1, <2>2, TailIncoming
<1>4. /\ \A b \in Activation : ~Holds(b)
      /\ \A b \in Activation : Handles(b)' <=> Handles(b)
      /\ \A b \in Activation : Handles(b) => buffer'[b] = buffer[b]
      /\ \A b \in Activation \ {a} : ~Holds(b)'
      /\ Holds(a)' <=> IsIncoming(p)
      /\ buffer'[a] = p
  <2>1. \A b \in Activation \ {a} :
            pc[b] # "write_buffer" /\ pc'[b] = pc[b] /\ buffer'[b] = buffer[b]
    BY <1>1 DEF SingleReader, Reader, ReaderPc, TypeOK
  <2>2. pc'[a] = "write_buffer" /\ buffer'[a] = p
    BY <1>1 DEF TypeOK
  <2>3. QED
    BY <1>1, <2>1, <2>2 DEF Holds, Handles, Handling
<1> HIDE DEF p
<1>5. CASE ~IsIncoming(p)
  BY <1>1, <1>3, <1>4, <1>5, NoneMoves
<1>6. CASE IsIncoming(p)
  <2>1. ReaderIds = {} /\ ReaderIds' = {p.id}
    BY <1>4, <1>6 DEF ReaderIds, Holds
  <2>2. HandlingIds' = HandlingIds
    BY <1>4 DEF HandlingIds, Handles
  <2>3. QueueIds' = QueueIds
    BY <1>1 DEF QueueIds
  <2>4. p.id \in InboxIds
    BY <1>3, <1>6
  <2>5. IncomingInOrder'
    BY <1>1, <1>3, <1>6, <2>1, <2>2, <2>3, <2>4
    DEF IncomingInv, IncomingInOrder, Before
  <2>6. \A b, c \in Activation :
            Handles(b)' /\ Handles(c)' /\ buffer'[b].id = buffer'[c].id => b = c
    BY <1>4 DEF IncomingInv, IncomingOnce, Handles
  <2>7. IncomingOnce'
    BY <1>1, <1>3, <1>6, <2>1, <2>2, <2>3, <2>6
    DEF IncomingInv, IncomingOnce, Handles
  <2>8. QED
    BY <1>3, <2>5, <2>7 DEF IncomingInv
<1>7. QED
  BY <1>5, <1>6

\* The reader gives its call to the queue, where it is the newest.
LEMMA CallQueuedLast ==
    ASSUME TypeOK, SingleReader, IncomingInv, NEW a \in Activation, WriteBuffer(a)
    PROVE  IncomingInv'
<1> DEFINE p == buffer[a]
<1>1. /\ pc[a] = "write_buffer"
      /\ m_data_incoming_call' = QueueCall(p)
      /\ buffer' = [buffer EXCEPT ![a] = NoPacket]
      /\ UNCHANGED <<inbox, peer_calls, handled, replied>>
  BY DEF WriteBuffer, peer_vars
<1>2. p \in Packet \cup {NoPacket}
  BY DEF TypeOK
<1>3. /\ \A b \in Activation : ~Holds(b)'
      /\ \A b \in Activation \ {a} : ~Holds(b)
      /\ \A b \in Activation : Handles(b)' <=> Handles(b)
      /\ \A b \in Activation : Handles(b) => buffer'[b] = buffer[b]
  <2>1. \A b \in Activation \ {a} :
            /\ pc[b] # "write_buffer" /\ buffer'[b] = buffer[b]
            /\ pc'[b] = IF pc[b] = "cond_wait" THEN "woken" ELSE pc[b]
    BY <1>1 DEF SingleReader, Reader, ReaderPc, TypeOK, WriteBuffer, NotifyAll
  <2>2. pc'[a] \in {"done", "read_buffer"} /\ buffer'[a] = NoPacket
    BY <1>1 DEF TypeOK, WriteBuffer, NotifyAll
  <2>3. QED
    BY <1>1, <2>1, <2>2 DEF Holds, Handles, Handling
<1>4. InboxIds' = InboxIds /\ InboxSorted'
  BY <1>1 DEF InboxIds, InboxSorted, IncomingSorted, IncomingInv
<1>5. CASE ~IsIncoming(p)
  <2>1. \A b \in Activation : Holds(b)' <=> Holds(b)
    BY <1>3, <1>5 DEF Holds
  <2>2. m_data_incoming_call' = m_data_incoming_call
    BY <1>1, <1>5 DEF QueueCall
  <2>3. QED
    BY <1>1, <1>3, <1>4, <2>1, <2>2, NoneMoves DEF Holds
<1>6. CASE IsIncoming(p)
  <2>1. p \in Packet /\ m_data_incoming_call' = Append(m_data_incoming_call, p)
    BY <1>1, <1>2, <1>6 DEF QueueCall, IsIncoming
  <2>2. ReaderIds = {p.id} /\ ReaderIds' = {}
    BY <1>1, <1>3, <1>6 DEF ReaderIds, Holds
  <2>3. TypeOK'
    <3>1. Next
      BY DEF Next, Step
    <3>2. QED
      BY <3>1, TypeStep
  <2> DEFINE s == m_data_incoming_call
             w == m_data_incoming_call'
  <2>4. s \in Seq(IncomingPacket) /\ w \in Seq(IncomingPacket) /\ s \in Seq(Packet)
    BY <2>3, QueueIncoming DEF TypeOK
  <2>5. QueueIds = IncomingIds(s) /\ QueueIds' = IncomingIds(w)
    BY <2>4, QueueIncoming DEF QueueIds
  <2>6. QueueIds' = QueueIds \cup {p.id}
    BY <1>6, <2>1, <2>4, <2>5, AppendIncoming
  <2>7. \A i, j \in 1 .. Len(m_data_incoming_call') :
            i < j => m_data_incoming_call'[i].id < m_data_incoming_call'[j].id
    <3>1. IncomingSorted(s)
      BY <2>4, QueueIncoming DEF IncomingInv, IncomingInOrder
    <3>2. Before(IncomingIds(s), {p.id})
      BY <2>2, <2>5 DEF IncomingInv, IncomingInOrder, Before
    <3>3. IncomingSorted(w)
      BY <1>6, <2>1, <2>4, <3>1, <3>2, AppendIncoming
    <3>4. QED
      BY <2>4, <3>3, QueueIncoming
  <2>8. HandlingIds' = HandlingIds
    BY <1>3 DEF HandlingIds, Handles
  <2>9. IncomingInOrder'
    BY <1>1, <1>4, <2>2, <2>6, <2>7, <2>8
    DEF IncomingInv, IncomingInOrder, Before
  <2>10. \A b, c \in Activation :
            Handles(b)' /\ Handles(c)' /\ buffer'[b].id = buffer'[c].id => b = c
    BY <1>3 DEF IncomingInv, IncomingOnce, Handles
  <2>11. IncomingOnce'
    BY <1>1, <1>4, <2>2, <2>6, <2>8, <2>10 DEF IncomingInv, IncomingOnce, Handles
  <2>12. QED
    BY <1>4, <2>9, <2>11 DEF IncomingInv
<1>7. QED
  BY <1>5, <1>6

\* A thread takes the oldest queued call to handle it.
LEMMA CallTaken ==
    ASSUME TypeOK, IncomingInv, NEW a \in Activation, ReadBuffer_TakeIncoming(a)
    PROVE  IncomingInv'
<1> DEFINE p == Head(m_data_incoming_call)
<1>1. /\ pc[a] \in {"read_buffer", "woken"}
      /\ pc' = [pc EXCEPT ![a] = "process"]
      /\ m_data_incoming_call # <<>>
      /\ buffer' = [buffer EXCEPT ![a] = p]
      /\ m_data_incoming_call' = Tail(m_data_incoming_call)
      /\ UNCHANGED <<inbox, peer_calls, handled, replied>>
  BY DEF ReadBuffer_TakeIncoming, Searching, CallQueued, Continue,
     RemainingCalls, peer_vars
<1>2. m_data_incoming_call \in Seq(IncomingPacket)
  BY DEF TypeOK
<1>3. p \in IncomingPacket
  BY <1>1, <1>2
<1>4. IsIncoming(p)
  BY <1>3, NoPacketAssumption DEF IncomingPacket, Packet, IsIncoming
<1>5. /\ \A b \in Activation : Holds(b)' <=> Holds(b)
      /\ \A b \in Activation : Holds(b) => buffer'[b] = buffer[b]
      /\ \A b \in Activation \ {a} : Handles(b)' <=> Handles(b)
      /\ \A b \in Activation \ {a} : buffer'[b] = buffer[b]
      /\ ~Handles(a) /\ Handles(a)' /\ buffer'[a] = p
  <2>1. \A b \in Activation \ {a} : pc'[b] = pc[b] /\ buffer'[b] = buffer[b]
    BY <1>1 DEF TypeOK
  <2>2. pc'[a] = "process" /\ buffer'[a] = p
    BY <1>1 DEF TypeOK
  <2>3. QED
    BY <1>1, <1>4, <2>1, <2>2 DEF Holds, Handles, Handling
<1>6. TypeOK'
  <2>1. Next
    BY DEF Next, Step
  <2>2. QED
    BY <2>1, TypeStep
<1> DEFINE s == m_data_incoming_call
           w == m_data_incoming_call'
<1>7. /\ s \in Seq(Packet)
      /\ QueueIds = IncomingIds(s) /\ IncomingSorted(s)
      /\ QueueIds' = IncomingIds(w)
      /\ IncomingSorted(w) =>
            \A i, j \in 1 .. Len(w) : i < j => w[i].id < w[j].id
  <2>1. s \in Seq(IncomingPacket) /\ w \in Seq(IncomingPacket)
    BY <1>6 DEF TypeOK
  <2>2. QED
    BY <2>1, QueueIncoming DEF QueueIds, IncomingInv, IncomingInOrder
<1>8. /\ QueueIds = QueueIds' \cup {p.id}
      /\ Before({p.id}, QueueIds')
      /\ IncomingSorted(w)
  BY <1>1, <1>4, <1>7, TailIncoming
<1>9. \A i, j \in 1 .. Len(w) : i < j => w[i].id < w[j].id
  BY <1>7, <1>8
<1>10. InboxIds' = InboxIds /\ InboxSorted'
  BY <1>1 DEF InboxIds, InboxSorted, IncomingSorted, IncomingInv
<1>11. ReaderIds' = ReaderIds
  BY <1>5 DEF ReaderIds, Holds
<1>12. HandlingIds' = HandlingIds \cup {p.id}
  BY <1>5 DEF HandlingIds, Handles
<1> HIDE DEF p
<1>13. p.id \in QueueIds /\ p.id \notin HandlingIds /\ p.id \notin handled
  <2>1. p.id \in QueueIds
    BY <1>8
  <2>2. p.id \in Int
    BY <2>1 DEF IncomingInv, IncomingOnce
  <2>3. QED
    BY <2>1, <2>2 DEF IncomingInv, IncomingInOrder, Before
<1>14. IncomingInOrder'
  BY <1>1, <1>8, <1>9, <1>10, <1>11, <1>12, <1>13
  DEF IncomingInv, IncomingInOrder, Before
<1>15. \A b, c \in Activation :
          Handles(b)' /\ Handles(c)' /\ buffer'[b].id = buffer'[c].id => b = c
  <2>1. \A b \in Activation \ {a} : Handles(b)' => buffer'[b].id \in HandlingIds
    BY <1>5 DEF HandlingIds, Handles
  <2>2. QED
    BY <1>5, <1>13, <2>1 DEF IncomingInv, IncomingOnce, Handles
<1>16. IncomingOnce'
  BY <1>1, <1>8, <1>10, <1>11, <1>12, <1>13, <1>15
  DEF IncomingInv, IncomingOnce, Handles
<1>17. QED
  BY <1>10, <1>14, <1>16 DEF IncomingInv

\* A call whose processing ends counts as handled, and may be answered.
LEMMA CallHandled ==
    ASSUME TypeOK, IncomingInv, NEW a \in Activation, Handles(a),
           ~Holds(a)', ~Handles(a)',
           handled' = handled \cup {buffer[a].id},
           replied' \subseteq replied \cup {buffer[a].id},
           \A b \in Activation \ {a} : pc'[b] = pc[b] /\ buffer'[b] = buffer[b],
           UNCHANGED <<inbox, m_data_incoming_call, peer_calls>>
    PROVE  IncomingInv'
<1> DEFINE n == buffer[a].id
<1>1. InboxIds' = InboxIds /\ InboxSorted' /\ QueueIds' = QueueIds
  BY DEF InboxIds, QueueIds, InboxSorted, IncomingSorted, IncomingInv
<1>2. \A b \in Activation \ {a} :
          /\ Holds(b)' <=> Holds(b)
          /\ Handles(b)' <=> Handles(b)
          /\ buffer'[b] = buffer[b]
  BY DEF Holds, Handles, Handling
<1>3. ReaderIds' = ReaderIds
  BY <1>2 DEF ReaderIds, Holds, Handles, Handling
<1>4. HandlingIds = HandlingIds' \cup {n} /\ n \notin HandlingIds'
  <2>1. \A b \in Activation \ {a} : Handles(b) => buffer[b].id # n
    BY DEF IncomingInv, IncomingOnce, Handles
  <2>2. HandlingIds' = {buffer[b].id : b \in {c \in Activation \ {a} : Handles(c)}}
    BY <1>2 DEF HandlingIds, Handles
  <2>3. QED
    BY <2>1, <2>2 DEF HandlingIds, Handles
<1> HIDE DEF n
<1>5. handled' = handled \cup {n} /\ replied' \subseteq replied \cup {n}
  BY DEF n
<1>6. IncomingInOrder'
  BY <1>1, <1>3, <1>4, <1>5 DEF IncomingInv, IncomingInOrder, Before
<1>7. \A b, c \in Activation :
          Handles(b)' /\ Handles(c)' /\ buffer'[b].id = buffer'[c].id => b = c
  BY <1>2 DEF IncomingInv, IncomingOnce, Handles
<1>8. IncomingOnce'
  BY <1>1, <1>3, <1>4, <1>5, <1>7 DEF IncomingInv, IncomingOnce, Handles
<1>9. QED
  BY <1>1, <1>6, <1>8 DEF IncomingInv

\* Every step keeps the order of incoming calls and gives each one handler.
LEMMA IncomingStep ==
    TypeOK /\ SingleReader /\ IncomingInv /\ [Next]_vars => IncomingInv'
<1> SUFFICES ASSUME TypeOK, SingleReader, IncomingInv, [Next]_vars
             PROVE  IncomingInv'
  OBVIOUS
<1> USE DEF Pc, ReaderPc
<1>1. CASE UNCHANGED vars \/ CancelWaitRespond \/ Expire
  <2>1. UNCHANGED <<pc, buffer, inbox, m_data_incoming_call, handled, replied,
                    peer_calls>>
    BY <1>1 DEF vars, CancelWaitRespond, Expire, pending_vars, run_vars, peer_vars
  <2>2. InboxIds' = InboxIds /\ InboxSorted'
    BY <2>1 DEF InboxIds, InboxSorted, IncomingSorted, IncomingInv
  <2>3. QED
    BY <2>1, <2>2, NoneMoves DEF Holds, Handles, Handling
<1>2. ASSUME NEW t \in Thread, NEW a \in Activation, NEW k, NEW n, NEW p,
             NEW first \in {"write", "read_buffer"}, Push(t, a, k, n, p, first),
             UNCHANGED m_data_incoming_call
      PROVE  IncomingInv'
  <2>1. pc[a] = "free" /\ pc'[a] = first
    BY <1>2 DEF Push, TypeOK
  <2>2. ~Holds(a) /\ ~Holds(a)' /\ ~Handles(a) /\ ~Handles(a)'
    BY <2>1 DEF Holds, Handles, Handling
  <2>3. QED
    BY <1>2, <2>2, StepMovesNone DEF Push, peer_vars
<1>3. ASSUME NEW t \in Thread, NEW a \in Activation, ProcessTransport(t, a)
      PROVE  IncomingInv'
  BY <1>2, <1>3 DEF ProcessTransport, pending_vars
<1>4. ASSUME NEW t \in Thread, NEW a \in Activation, NEW k \in Kind \ {"process"},
             NEW p \in BOOLEAN, InvokeUnified(t, a, k, p)
      PROVE  IncomingInv'
  BY <1>2, <1>4 DEF InvokeUnified
<1>5. ASSUME NEW a \in Activation, NEW nxt \in Pc, NEW next \in Pc,
             pc[a] = nxt, pc' = [pc EXCEPT ![a] = next],
             nxt \notin {"write_buffer", "process", "handler"},
             next \notin {"write_buffer", "process", "handler"},
             UNCHANGED <<buffer, inbox, m_data_incoming_call, handled, replied,
                         peer_calls>>
      PROVE  IncomingInv'
  <2>1. ~Holds(a) /\ ~Holds(a)' /\ ~Handles(a) /\ ~Handles(a)'
    BY <1>5 DEF Holds, Handles, Handling, TypeOK
  <2>2. QED
    BY <1>5, <2>1, StepMovesNone
<1>6. ASSUME NEW a \in Activation,
             \/ InvokeRemote(a)
             \/ ReadBuffer_Reentrance(a)
             \/ ReadBuffer_ReaderBusy(a)
             \/ ReadBuffer_BecomeReader(a)
             \/ SpuriousWakeup(a)
      PROVE  IncomingInv'
  <2>1. UNCHANGED <<buffer, inbox, m_data_incoming_call, handled, replied, peer_calls>>
    BY <1>6 DEF InvokeRemote, ReadBuffer_Reentrance, ReadBuffer_ReaderBusy,
       ReadBuffer_BecomeReader, SpuriousWakeup, pending_vars, peer_vars
  <2>2. /\ pc[a] \in {"write", "read_buffer", "woken", "cond_wait"}
        /\ \E next \in {"done", "read_buffer", "cond_wait", "get_transport", "woken"} :
               pc' = [pc EXCEPT ![a] = next]
    BY <1>6 DEF InvokeRemote, ReadBuffer_Reentrance, ReadBuffer_ReaderBusy,
       ReadBuffer_BecomeReader, SpuriousWakeup, Searching, Return, Continue
  <2>3. QED
    BY <1>5, <2>1, <2>2
<1>7. ASSUME NEW a \in Activation, ReadBuffer_TakeResponse(a)
      PROVE  IncomingInv'
  <2>1. /\ pc[a] \in {"read_buffer", "woken"} /\ pc' = [pc EXCEPT ![a] = "process"]
        /\ m_id_data_return[wait_response_id[a]] \in ResponsePacket
        /\ buffer' = [buffer EXCEPT ![a] = m_id_data_return[wait_response_id[a]]]
        /\ UNCHANGED <<inbox, m_data_incoming_call, handled, replied, peer_calls>>
    BY <1>7 DEF ReadBuffer_TakeResponse, ResponseStored, Searching, Continue,
       peer_vars, TypeOK
  <2>2. ~IsIncoming(buffer'[a])
    BY <2>1 DEF IsIncoming, ResponsePacket, ResponseType, IncomingType, TypeOK
  <2>3. ~Holds(a) /\ ~Holds(a)' /\ ~Handles(a) /\ ~Handles(a)'
    BY <2>1, <2>2 DEF Holds, Handles, Handling
  <2>4. QED
    BY <2>1, <2>3, StepMovesNone DEF Packet
<1>8. ASSUME NEW a \in Activation,
             GetTransport(a) \/ ReadNothing(a) \/ ReadCancelled(a)
      PROVE  IncomingInv'
  <2>1. /\ pc[a] \in {"get_transport", "read"}
        /\ \/ pc' = [pc EXCEPT ![a] = "read"] /\ UNCHANGED buffer
           \/ /\ pc' = [pc EXCEPT ![a] = "write_buffer"]
              /\ buffer' = [buffer EXCEPT ![a] = NoPacket]
        /\ UNCHANGED <<inbox, m_data_incoming_call, handled, replied, peer_calls>>
    BY <1>8 DEF GetTransport, ReadNothing, ReadCancelled, Read, Continue,
       pending_vars, peer_vars
  <2>2. ~Holds(a) /\ ~Holds(a)' /\ ~Handles(a) /\ ~Handles(a)'
    BY <2>1 DEF Holds, Handles, Handling, IsIncoming, TypeOK
  <2>3. QED
    BY <2>1, <2>2, StepMovesNone
<1>9. ASSUME NEW a \in Activation, ProcessBuffer_Invoke(a)
      PROVE  IncomingInv'
  <2>1. /\ pc[a] = "process" /\ pc' = [pc EXCEPT ![a] = "handler"]
        /\ UNCHANGED <<buffer, inbox, m_data_incoming_call, handled, replied,
                       peer_calls>>
    BY <1>9 DEF ProcessBuffer_Invoke, Continue, pending_vars, peer_vars
  <2>2. ~Holds(a) /\ ~Holds(a)' /\ (Handles(a)' <=> Handles(a))
    BY <2>1 DEF Holds, Handles, Handling, TypeOK
  <2>3. QED
    BY <2>1, <2>2, StepMovesNone
<1>10. ASSUME NEW a \in Activation, pc[a] \in {"process", "handler"},
              NEW next \in {"done", "read_buffer"},
              pc' = [pc EXCEPT ![a] = next],
              buffer' = [buffer EXCEPT ![a] = NoPacket],
              UNCHANGED <<inbox, m_data_incoming_call, peer_calls>>,
              \/ ~IsIncoming(buffer[a]) /\ UNCHANGED <<handled, replied>>
              \/ /\ IsIncoming(buffer[a])
                 /\ handled' = handled \cup {buffer[a].id}
                 /\ replied' \subseteq replied \cup {buffer[a].id}
       PROVE  IncomingInv'
  <2>1. ~Holds(a) /\ ~Holds(a)' /\ ~Handles(a)'
    BY <1>10 DEF Holds, Handles, Handling, TypeOK
  <2>2. CASE ~IsIncoming(buffer[a])
    <3>1. ~Handles(a)
      BY <2>2 DEF Handles
    <3>2. QED
      BY <1>10, <2>1, <2>2, <3>1, StepMovesNone
  <2>3. CASE IsIncoming(buffer[a])
    <3>1. Handles(a)
      BY <1>10, <2>3 DEF Handles, Handling
    <3>2. \A b \in Activation \ {a} : pc'[b] = pc[b] /\ buffer'[b] = buffer[b]
      BY <1>10 DEF TypeOK
    <3>3. QED
      BY <1>10, <2>1, <2>3, <3>1, <3>2, CallHandled
  <2>4. QED
    BY <2>2, <2>3
<1>11. ASSUME NEW a \in Activation, ProcessBuffer_NoHandler(a)
       PROVE  IncomingInv'
  <2>1. replied' \subseteq replied \cup {buffer[a].id}
    BY <1>11 DEF ProcessBuffer_NoHandler
  <2>2. QED
    BY <1>10, <1>11, <2>1
    DEF ProcessBuffer_NoHandler, Continue, pending_vars, peer_vars
<1>12. ASSUME NEW a \in Activation, ProcessBuffer_Result(a)
       PROVE  IncomingInv'
  <2>1. ~IsIncoming(buffer[a])
    BY <1>12 DEF ProcessBuffer_Result, IsIncoming, IncomingType
  <2>2. QED
    BY <1>10, <1>12, <2>1
    DEF ProcessBuffer_Result, Continue, Return, pending_vars, peer_vars
<1>13. ASSUME NEW a \in Activation, HandlerReturns(a)
       PROVE  IncomingInv'
  <2>1. replied' \subseteq replied \cup {buffer[a].id}
    BY <1>13 DEF HandlerReturns
  <2>2. CASE IsIncoming(buffer[a])
    BY <1>10, <1>13, <2>1, <2>2
    DEF HandlerReturns, Continue, Return, pending_vars, peer_vars
  <2>3. CASE ~IsIncoming(buffer[a])
    BY <1>10, <1>13, <2>3
    DEF HandlerReturns, Continue, Return, pending_vars, peer_vars
  <2>4. QED
    BY <2>2, <2>3
<1>14. ASSUME NEW q \in peer, NEW type \in ResponseType, PeerAnswers(q, type)
       PROVE  IncomingInv'
  <2> DEFINE p == [type |-> type, id |-> q.id, of |-> q.of]
  <2>1. p \in Packet /\ ~IsIncoming(p)
    BY DEF TypeOK, Request, Packet, ResponsePacket, IsIncoming, IncomingType,
       ResponseType
  <2>2. /\ inbox \in Seq(Packet) /\ inbox' = Append(inbox, p)
        /\ UNCHANGED <<pc, buffer, m_data_incoming_call, handled, replied, peer_calls>>
    BY <1>14 DEF PeerAnswers, pending_vars, run_vars, TypeOK
  <2> HIDE DEF p
  <2>3. InboxIds = IncomingIds(inbox) /\ InboxIds' = IncomingIds(inbox')
    BY DEF InboxIds, IncomingIds
  <2>4. IncomingSorted(inbox) /\ (InboxSorted' <=> IncomingSorted(inbox'))
    BY DEF InboxSorted, IncomingSorted, IncomingInv
  <2>5. InboxIds' = InboxIds /\ InboxSorted'
    BY <2>1, <2>2, <2>3, <2>4, AppendIncoming
  <2>6. QED
    BY <2>2, <2>5, NoneMoves DEF Holds, Handles, Handling
<1>15. ASSUME NEW type \in IncomingType, NEW s \in BOOLEAN, PeerCalls(type, s)
       PROVE  IncomingInv'
  <2> DEFINE n == peer_calls + 1
             p == [type |-> type, id |-> n, send_return |-> s]
  <2>1. n \in CallId /\ peer_calls \in Nat /\ n = peer_calls + 1 /\ p.id = n
    BY <1>15, ConstantsAssumption DEF PeerCalls, TypeOK, CallId
  <2>2. p \in Packet /\ IsIncoming(p)
    BY <2>1, NoPacketAssumption DEF Packet, IncomingPacket, IsIncoming
  <2>3. /\ inbox \in Seq(Packet) /\ inbox' = Append(inbox, p)
        /\ UNCHANGED <<pc, buffer, m_data_incoming_call, handled, replied>>
        /\ peer_calls' = n
    BY <1>15 DEF PeerCalls, pending_vars, run_vars, TypeOK
  <2> HIDE DEF n, p
  <2>4. InboxIds = IncomingIds(inbox) /\ InboxIds' = IncomingIds(inbox')
    BY DEF InboxIds, IncomingIds
  <2>5. IncomingSorted(inbox) /\ (InboxSorted' <=> IncomingSorted(inbox'))
    BY DEF InboxSorted, IncomingSorted, IncomingInv
  <2>6. \A m \in InboxIds \cup ReaderIds \cup QueueIds \cup HandlingIds \cup handled :
            m < n
    BY <2>1 DEF IncomingInv, IncomingOnce
  <2>7. InboxIds' = InboxIds \cup {n} /\ InboxSorted'
    BY <2>1, <2>2, <2>3, <2>4, <2>5, <2>6, AppendIncoming DEF Before
  <2>8. ReaderIds' = ReaderIds /\ HandlingIds' = HandlingIds /\ QueueIds' = QueueIds
    BY <2>3 DEF ReaderIds, HandlingIds, QueueIds, Handling
  <2>9. IncomingInOrder'
    BY <2>3, <2>6, <2>7, <2>8 DEF IncomingInv, IncomingInOrder, Before
  <2>10. \A a, b \in Activation :
             Handles(a)' /\ Handles(b)' /\ buffer'[a].id = buffer'[b].id => a = b
    BY <2>3 DEF IncomingInv, IncomingOnce, Handles, Handling
  <2>11. 1 .. n = (1 .. peer_calls) \cup {n}
    BY <2>1
  <2>12. IncomingOnce'
    BY <2>3, <2>7, <2>8, <2>10, <2>11 DEF IncomingInv, IncomingOnce, Handles
  <2>13. QED
    BY <2>7, <2>9, <2>12 DEF IncomingInv
<1>16. QED
  BY <1>1, <1>3, <1>4, <1>6, <1>7, <1>8, <1>9, <1>11, <1>12, <1>13, <1>14, <1>15,
     CallRead, CallQueuedLast, CallTaken, NextCases

\* Every call the peer makes is handled by exactly one thread, in the order the
\* peer made them, whichever threads read the transport and whichever run the
\* handlers, and it is answered only after it was handled.
THEOREM IncomingCorrect == Spec => []IncomingHandled
<1>1. Init => IncomingInv
  <2> SUFFICES ASSUME Init PROVE IncomingInv
    OBVIOUS
  <2>1. /\ inbox = <<>> /\ m_data_incoming_call = <<>> /\ handled = {}
        /\ replied = {} /\ peer_calls = 0
        /\ \A a \in Activation : pc[a] = "free"
    BY DEF Init
  <2>2. InboxIds = {} /\ QueueIds = {} /\ ReaderIds = {} /\ HandlingIds = {}
    BY <2>1 DEF InboxIds, QueueIds, ReaderIds, HandlingIds, Handling
  <2>3. QED
    BY <2>1, <2>2 DEF IncomingInv, IncomingInOrder, IncomingOnce, Before,
       InboxSorted, IncomingSorted, Handling
<1>2. Init => SingleReader /\ NoLostWakeup
  BY DEF Init, SingleReader, NoLostWakeup, Reader, ReaderPc, IsLocked
<1>3. IncomingInv => IncomingHandled
  BY DEF IncomingInv, IncomingHandled
<1>4. QED
  BY <1>1, <1>2, <1>3, TypeInit, TypeStep, ReaderStep, IncomingStep, PTL DEF Spec

-----------------------------------------------------------------------------
(* Answers: none is lost, none is taken by another call.                   *)

\* The answer to the call x, under id n, is with the peer or in the transport;
\* in the hands of a reader; or stored.
Asked(n, x) == \E q \in peer : q.id = n /\ q.of = x
Received(n, x) ==
    \E i \in 1 .. Len(inbox) :
        IsResponse(inbox[i]) /\ inbox[i].id = n /\ inbox[i].of = x
Carried(n, x) ==
    \E b \in Activation : /\ pc[b] = "write_buffer" /\ IsResponse(buffer[b])
                          /\ buffer[b].id = n /\ buffer[b].of = x
Stored(n, x) == m_id_data_return[n] # NoPacket /\ m_id_data_return[n].of = x

InFlight(n, x) == Asked(n, x) \/ Received(n, x) \/ Carried(n, x) \/ Stored(n, x)

\* An answer on its way belongs to a call that was sent, under that call's id.
FlightInv ==
    \A n \in CallId, x \in Activation :
        InFlight(n, x) =>
            /\ n # c_invalid_id
            /\ pc[x] \notin {"free", "write"}
            /\ Live(x) => wait_response_id[x] = n

\* The call a waits under id n.
Waits(a, n) == Live(a) /\ WaitIncoming(a) /\ wait_response_id[a] = n

\* Without a collision an id stands for one call: the one that waits under it,
\* and the one whose answer is on its way.
UniqueIds ==
    ~collided =>
        /\ \A n \in CallId, a, x \in Activation :
                InFlight(n, x) /\ Waits(a, n) => x = a
        /\ \A n \in CallId, a, b \in Activation :
                Waits(a, n) /\ Waits(b, n) => a = b

\* A response is stored under its id, and taken by a call that waits for it.
FiledById ==
    /\ \A n \in CallId :
            m_id_data_return[n] # NoPacket => m_id_data_return[n].id = n
    /\ \A a \in Activation :
            Handling(a) /\ IsResponse(buffer[a]) =>
                buffer[a].id = wait_response_id[a]
    /\ \A a \in Activation : Handling(a) => buffer[a] # NoPacket

\* The call x has taken its answer, or it is on its way under some id.
Taken(x) == Handling(x) /\ IsResponse(buffer[x]) /\ buffer[x].of = x
Located(x) == Taken(x) \/ \E n \in CallId : InFlight(n, x)
NoneLost == ~collided => \A x \in Activation : Sent(x) => Located(x)

\* The peer has answered x: the answer is on its way, or somebody took it.
Given(x) ==
    \/ \E n \in CallId : Received(n, x) \/ Carried(n, x) \/ Stored(n, x)
    \/ \E b \in Activation : /\ Handling(b) /\ IsResponse(buffer[b])
                             /\ buffer[b].of = x

\* A call has one request at most, and while it is with the peer there is no
\* answer to it.
OneRequest ==
    /\ \A q, r \in peer : q.of = r.of => q = r
    /\ \A q \in peer : ~Given(q.of)
    /\ \A x \in Activation : Given(x) => pc[x] \notin {"free", "write"}

AnswerInv ==
    FlightInv /\ UniqueIds /\ FiledById /\ OwnAnswer /\ NoneLost /\ OneRequest

\* A step that sends nothing and starts no call keeps the answers where they
\* are, or moves them on.
LEMMA AnswersMoveOn ==
    ASSUME TypeOK, AnswerInv,
           collided' = collided,
           \A n \in CallId, x \in Activation : InFlight(n, x)' => InFlight(n, x),
           \A b \in Activation :
               /\ Live(b)' => Live(b) /\ wait_response_id'[b] = wait_response_id[b]
               /\ pc'[b] \in {"free", "write"} => pc[b] \in {"free", "write"}
               /\ Sent(b)' => Sent(b),
           FiledById', OwnAnswer',
           peer' \subseteq peer,
           \A x \in Activation :
               Given(x)' => Given(x) \/ \E n \in CallId : Asked(n, x),
           \A q \in peer' : Given(q.of)' => Given(q.of),
           ASSUME ~collided, NEW x \in Activation, Sent(x), Sent(x)', Located(x)
           PROVE  Located(x)'
    PROVE  AnswerInv'
<1>1. FlightInv'
  BY DEF FlightInv, AnswerInv
<1>2. UniqueIds'
  BY DEF UniqueIds, AnswerInv, Waits, WaitIncoming
<1>3. NoneLost'
  BY DEF NoneLost, AnswerInv
<1>4. OneRequest'
  <2>1. \A x \in Activation : Given(x)' => pc'[x] \notin {"free", "write"}
    BY DEF AnswerInv, OneRequest, FlightInv, InFlight
  <2>2. QED
    BY <2>1 DEF AnswerInv, OneRequest
<1>5. QED
  BY <1>1, <1>2, <1>3, <1>4 DEF AnswerInv

\* The running activation goes on, or returns, and moves no answer.
LEMMA AnswersStay ==
    ASSUME TypeOK, AnswerInv, NEW a \in Activation, NEW next \in Pc,
           Live(a), pc' = [pc EXCEPT ![a] = next],
           next \notin {"free", "write"},
           pc[a] = "write" => next = "done",
           UNCHANGED <<peer, inbox, m_id_data_return, collided, kind>>,
           \A b \in Activation \ {a} :
               buffer'[b] = buffer[b] /\ wait_response_id'[b] = wait_response_id[b],
           next = "done" \/ wait_response_id'[a] = wait_response_id[a],
           pc[a] # "write_buffer" \/ ~IsResponse(buffer[a]),
           next # "write_buffer" \/ ~IsResponse(buffer'[a]),
           Handling(a)' /\ IsResponse(buffer'[a]) =>
               Handling(a) /\ buffer'[a] = buffer[a],
           Handling(a)' =>
               buffer'[a] # NoPacket \/ (Handling(a) /\ buffer'[a] = buffer[a]),
           next # "done" /\ Taken(a) => Taken(a)'
    PROVE  AnswerInv'
<1>1. pc'[a] = next /\ \A b \in Activation \ {a} : pc'[b] = pc[b]
  BY DEF TypeOK
<1>2. /\ \A n, x : InFlight(n, x)' <=> InFlight(n, x)
      /\ \A x : Given(x)' => Given(x)
  <2>1. \A n, x : Asked(n, x)' <=> Asked(n, x)
    BY DEF Asked
  <2>2. \A n, x : Received(n, x)' <=> Received(n, x)
    BY DEF Received
  <2>3. \A n, x : Carried(n, x)' <=> Carried(n, x)
    BY <1>1 DEF Carried
  <2>4. \A n, x : Stored(n, x)' <=> Stored(n, x)
    BY DEF Stored
  <2>5. ASSUME NEW x, Given(x)' PROVE Given(x)
    <3>1. CASE \E n \in CallId : (Received(n, x) \/ Carried(n, x) \/ Stored(n, x))'
      BY <2>2, <2>3, <2>4, <3>1 DEF Given
    <3>2. ASSUME NEW b \in Activation, Handling(b)', IsResponse(buffer'[b]),
                 buffer'[b].of = x
          PROVE  Given(x)
      <4>1. Handling(b) /\ buffer'[b] = buffer[b]
        BY <1>1, <3>2 DEF Handling
      <4>2. QED
        BY <3>2, <4>1 DEF Given
    <3>3. QED
      BY <2>5, <3>1, <3>2 DEF Given
  <2>6. QED
    BY <2>1, <2>2, <2>3, <2>4, <2>5 DEF InFlight
<1>3. \A b \in Activation :
          /\ Live(b)' => Live(b) /\ wait_response_id'[b] = wait_response_id[b]
          /\ pc'[b] \in {"free", "write"} => pc[b] \in {"free", "write"}
          /\ Sent(b)' => Sent(b)
  BY <1>1 DEF Live, Sent
<1>4. FiledById'
  <2>1. ASSUME NEW b \in Activation, Handling(b)', IsResponse(buffer'[b])
        PROVE  buffer'[b].id = wait_response_id'[b]
    <3>1. Handling(b) /\ buffer'[b] = buffer[b]
      BY <1>1, <2>1 DEF Handling
    <3>2. wait_response_id'[b] = wait_response_id[b]
      BY <1>1, <2>1 DEF Handling
    <3>3. QED
      BY <2>1, <3>1, <3>2 DEF AnswerInv, FiledById
  <2>2. \A b \in Activation : Handling(b)' => buffer'[b] # NoPacket
    BY <1>1 DEF AnswerInv, FiledById, Handling
  <2>3. QED
    BY <2>1, <2>2 DEF AnswerInv, FiledById
<1>5. OwnAnswer'
  <2>1. ASSUME NEW b \in Activation, Handling(b)', IsResponse(buffer'[b])
        PROVE  Handling(b) /\ buffer'[b] = buffer[b]
    BY <1>1, <2>1 DEF Handling
  <2>2. QED
    BY <2>1 DEF AnswerInv, OwnAnswer
<1>6. ASSUME NEW x \in Activation, Sent(x)', Located(x)
      PROVE  Located(x)'
  <2>1. CASE Taken(x)
    <3>1. CASE x = a
      BY <1>1, <1>6, <2>1, <3>1 DEF Located, Sent
    <3>2. CASE x # a
      BY <1>1, <2>1, <3>2 DEF Located, Taken, Handling
    <3>3. QED
      BY <3>1, <3>2
  <2>2. CASE \E n \in CallId : InFlight(n, x)
    BY <1>2, <2>2 DEF Located
  <2>3. QED
    BY <1>6, <2>1, <2>2 DEF Located
<1>7. QED
  BY <1>2, <1>3, <1>4, <1>5, <1>6, AnswersMoveOn

\* A new call gets an id under which no answer is on its way, or collided says
\* that it did not.
LEMMA AnswersPush ==
    ASSUME TypeOK, AnswerInv, NEW t \in Thread, NEW a \in Activation, NEW k \in Kind,
           NEW m \in CallId, NEW p, NEW first \in {"write", "read_buffer"},
           Push(t, a, k, m, p, first), UNCHANGED m_id_data_return,
           first = "read_buffer" => k = "process",
           m # c_invalid_id =>
               m_id_data_return[m] = NoPacket /\ (~collided' => ~InUse(m)),
           ~collided' => ~collided
    PROVE  AnswerInv'
<1>1. /\ pc[a] = "free" /\ pc'[a] = first /\ kind'[a] = k /\ wait_response_id'[a] = m
      /\ \A b \in Activation \ {a} :
            /\ pc'[b] = pc[b] /\ kind'[b] = kind[b]
            /\ wait_response_id'[b] = wait_response_id[b]
      /\ UNCHANGED <<buffer, peer, inbox>>
  BY DEF Push, peer_vars, TypeOK
<1>2. \A n, x : InFlight(n, x)' <=> InFlight(n, x)
  <2>1. \A n, x : Carried(n, x)' <=> Carried(n, x)
    BY <1>1 DEF Carried
  <2>2. QED
    BY <1>1, <2>1 DEF InFlight, Asked, Received, Stored
<1>3. \A n \in CallId : ~InFlight(n, a)
  BY <1>1 DEF AnswerInv, FlightInv
<1>4. FlightInv'
  BY <1>1, <1>2, <1>3 DEF AnswerInv, FlightInv, Live
<1>5. UniqueIds'
  <2> SUFFICES ASSUME ~collided' PROVE UniqueIds'
    BY DEF UniqueIds
  <2>1. m # c_invalid_id => \A x : ~InFlight(m, x)
    BY DEF InFlight, Asked, Received, Carried, Stored, InUse
  <2>2. m # c_invalid_id => \A b \in Activation : ~Waits(b, m)
    BY DEF InUse, Waits, Live
  <2>3. \A b \in Activation \ {a}, n \in CallId : Waits(b, n)' <=> Waits(b, n)
    BY <1>1 DEF Waits, WaitIncoming, Live
  <2>4. \A n \in CallId : Waits(a, n)' => n = m /\ m # c_invalid_id
    BY <1>1 DEF Waits, WaitIncoming
  <2>5. QED
    BY <1>2, <2>1, <2>2, <2>3, <2>4 DEF AnswerInv, UniqueIds
<1>6. FiledById'
  BY <1>1 DEF AnswerInv, FiledById, Handling
<1>7. OwnAnswer'
  BY <1>1 DEF AnswerInv, OwnAnswer, Handling
<1>8. NoneLost'
  <2>1. \A x \in Activation : Sent(x)' => x # a /\ Sent(x)
    BY <1>1 DEF Sent, WaitingKind
  <2>2. \A x \in Activation \ {a} : Located(x) => Located(x)'
    BY <1>1, <1>2 DEF Located, Taken, Handling
  <2>3. QED
    BY <2>1, <2>2 DEF AnswerInv, NoneLost
<1>9. OneRequest'
  <2>1. \A n, x : /\ Carried(n, x)' <=> Carried(n, x)
                  /\ Received(n, x)' <=> Received(n, x)
                  /\ Stored(n, x)' <=> Stored(n, x)
    BY <1>1 DEF Carried, Received, Stored
  <2>2. \A b \in Activation : (Handling(b)' <=> Handling(b)) /\ buffer'[b] = buffer[b]
    BY <1>1 DEF Handling
  <2>3. \A x : Given(x)' <=> Given(x)
    BY <2>1, <2>2 DEF Given
  <2>4. ~Given(a)
    BY <1>1 DEF AnswerInv, OneRequest
  <2>5. QED
    BY <1>1, <2>3, <2>4 DEF AnswerInv, OneRequest
<1>10. QED
  BY <1>4, <1>5, <1>6, <1>7, <1>8, <1>9 DEF AnswerInv

\* The request is with the peer, under the id of the call that waits.
LEMMA AnswerAsked ==
    ASSUME TypeOK, StackInv, CallInv, AnswerInv, NEW a \in Activation,
           InvokeRemote(a)
    PROVE  AnswerInv'
<1>1. /\ pc[a] = "write" /\ Live(a)
      /\ UNCHANGED <<inbox, m_id_data_return, collided, kind, buffer>>
  BY DEF InvokeRemote, Live, pending_vars, call_vars
<1>2. CASE Return(a, "unsent") \/ Return(a, "sent")
  <2>1. /\ pc' = [pc EXCEPT ![a] = "done"] /\ UNCHANGED peer
        /\ \A b \in Activation \ {a} : wait_response_id'[b] = wait_response_id[b]
    BY <1>1, <1>2, PopFrames DEF InvokeRemote, Return, Continue, TypeOK
  <2>2. ~Handling(a)' /\ "done" \in Pc
    BY <2>1 DEF Handling, TypeOK, Pc
  <2>3. \A b \in Activation \ {a} :
            buffer'[b] = buffer[b] /\ wait_response_id'[b] = wait_response_id[b]
    BY <1>1, <2>1
  <2>4. QED
    BY <1>1, <2>1, <2>2, <2>3, AnswersStay
<1>3. CASE Continue(a, "read_buffer")
  <2> DEFINE m == wait_response_id[a]
             q == [type |-> IF kind[a] = "enumerate" THEN "pt_enumerate"
                            ELSE "pt_call", id |-> m, of |-> a]
  <2>1. /\ pc'[a] = "read_buffer" /\ \A b \in Activation \ {a} : pc'[b] = pc[b]
        /\ UNCHANGED wait_response_id
        /\ kind[a] \in WaitingKind
        /\ peer' = peer \cup {q}
    <3>1. pc'[a] = "read_buffer" /\ \A b \in Activation \ {a} : pc'[b] = pc[b]
      BY <1>3 DEF Continue, TypeOK
    <3>2. UNCHANGED wait_response_id
      BY <1>3 DEF Continue, Stay, frame_vars
    <3>3. ~Return(a, "unsent") /\ ~Return(a, "sent")
      BY <3>1 DEF Return, TypeOK
    <3>4. QED
      BY <3>1, <3>2, <3>3 DEF InvokeRemote
  <2>2. m \in CallId /\ m # c_invalid_id /\ Waits(a, m)
    BY <1>1, <2>1 DEF CallInv, WaitIncoming, WaitingKind, TypeOK, Waits
  <2>3. q.id = m /\ q.of = a
    OBVIOUS
  <2> HIDE DEF m, q
  <2>4. \A n, x : InFlight(n, x)' <=> InFlight(n, x) \/ (n = m /\ x = a)
    <3>1. \A n, x : Asked(n, x)' <=> Asked(n, x) \/ (n = m /\ x = a)
      BY <2>1, <2>3 DEF Asked
    <3>2. \A n, x : Carried(n, x)' <=> Carried(n, x)
      BY <1>1, <2>1 DEF Carried
    <3>3. QED
      BY <1>1, <3>1, <3>2 DEF InFlight, Received, Stored
  <2>5. \A b \in Activation : (Live(b)' <=> Live(b)) /\ (Handling(b)' <=> Handling(b))
    BY <1>1, <2>1 DEF Live, Handling
  <2>6. FlightInv'
    BY <1>1, <2>1, <2>2, <2>4, <2>5 DEF AnswerInv, FlightInv, Waits
  <2>7. UniqueIds'
    <3>1. \A b \in Activation, n \in CallId : Waits(b, n)' <=> Waits(b, n)
      BY <2>1, <2>5 DEF Waits, WaitIncoming
    <3>2. QED
      BY <1>1, <2>2, <2>4, <3>1 DEF AnswerInv, UniqueIds
  <2>8. FiledById' /\ OwnAnswer'
    BY <1>1, <2>1, <2>5 DEF AnswerInv, FiledById, OwnAnswer
  <2>9. NoneLost'
    <3>1. \A x \in Activation \ {a} : (Sent(x)' => Sent(x)) /\ (Located(x) => Located(x)')
      BY <1>1, <2>1, <2>4, <2>5 DEF Sent, Located, Taken
    <3>2. Located(a)'
      BY <2>2, <2>4 DEF Located
    <3>3. QED
      BY <1>1, <3>1, <3>2 DEF AnswerInv, NoneLost
  <2>10. OneRequest'
    <3>1. \A n, x : /\ Carried(n, x)' <=> Carried(n, x)
                    /\ Received(n, x)' <=> Received(n, x)
                    /\ Stored(n, x)' <=> Stored(n, x)
      BY <1>1, <2>1 DEF Carried, Received, Stored
    <3>2. \A x : Given(x)' <=> Given(x)
      BY <1>1, <2>5, <3>1 DEF Given
    <3>3. ~Given(a)
      BY <1>1 DEF AnswerInv, OneRequest
    <3>4. \A r \in peer : r.of # a
      <4>1. \A r \in peer : r.id \in CallId /\ Asked(r.id, r.of)
        BY DEF TypeOK, Request, Asked
      <4>2. QED
        BY <1>1, <4>1 DEF AnswerInv, FlightInv, InFlight
    <3>5. QED
      BY <2>1, <2>3, <3>2, <3>3, <3>4 DEF AnswerInv, OneRequest
  <2>11. QED
    BY <2>6, <2>7, <2>8, <2>9, <2>10 DEF AnswerInv
<1>4. QED
  BY <1>2, <1>3 DEF InvokeRemote

\* Without a collision the response a call finds under its id is its own.
LEMMA AnswerTaken ==
    ASSUME TypeOK, StackInv, AnswerInv, NEW a \in Activation,
           ReadBuffer_TakeResponse(a)
    PROVE  AnswerInv'
<1> DEFINE m == wait_response_id[a]
           p == m_id_data_return[m]
<1>1. /\ Running(a) /\ m \in CallId
      /\ pc[a] \in {"read_buffer", "woken"} /\ pc' = [pc EXCEPT ![a] = "process"]
      /\ p # NoPacket /\ p \in ResponsePacket
      /\ buffer' = [buffer EXCEPT ![a] = p]
      /\ m_id_data_return' = [m_id_data_return EXCEPT ![m] = NoPacket]
      /\ UNCHANGED <<wait_response_id, peer, inbox, kind, collided>>
  BY DEF ReadBuffer_TakeResponse, Searching, ResponseStored, Continue, Stay,
     frame_vars, call_vars, peer_vars, TypeOK
<1>2. /\ pc'[a] = "process" /\ buffer'[a] = p
      /\ \A b \in Activation \ {a} : pc'[b] = pc[b] /\ buffer'[b] = buffer[b]
      /\ m_id_data_return'[m] = NoPacket
      /\ \A n \in CallId \ {m} : m_id_data_return'[n] = m_id_data_return[n]
  BY <1>1 DEF TypeOK
<1>3. p.id = m /\ p.of \in Activation
  BY <1>1 DEF AnswerInv, FiledById, ResponsePacket
<1> HIDE DEF m, p
<1>4. Stored(m, p.of)
  BY <1>1 DEF Stored, m, p
<1>5. Waits(a, m)
  <2>1. Live(a)
    BY <1>1, RunningLive
  <2>2. m # c_invalid_id
    BY <1>1, <1>3, <1>4 DEF AnswerInv, FlightInv, InFlight
  <2>3. QED
    BY <2>1, <2>2 DEF Waits, WaitIncoming, m
<1>6. \A x \in Activation : ~collided /\ InFlight(m, x) => x = a
  BY <1>1, <1>5 DEF AnswerInv, UniqueIds
<1>7. \A n \in CallId : \A x : InFlight(n, x)' <=>
          Asked(n, x) \/ Received(n, x) \/ Carried(n, x) \/ (n # m /\ Stored(n, x))
  <2>1. \A n, x : Carried(n, x)' <=> Carried(n, x)
    BY <1>1, <1>2 DEF Carried
  <2>2. \A n \in CallId : \A x : Stored(n, x)' <=> n # m /\ Stored(n, x)
    BY <1>2 DEF Stored
  <2>3. \A n, x : (Asked(n, x)' <=> Asked(n, x)) /\ (Received(n, x)' <=> Received(n, x))
    BY <1>1 DEF Asked, Received
  <2>4. QED
    BY <2>1, <2>2, <2>3 DEF InFlight
<1>8. \A x : Given(x)' => Given(x)
  <2>1. \A n, x : /\ Carried(n, x)' <=> Carried(n, x)
                  /\ Received(n, x)' <=> Received(n, x)
    BY <1>1, <1>2 DEF Carried, Received
  <2>2. \A n \in CallId : \A x : Stored(n, x)' => Stored(n, x)
    BY <1>2 DEF Stored
  <2>3. Given(p.of)
    BY <1>1, <1>4 DEF Given
  <2>4. \A b \in Activation \ {a} : Handling(b)' => Handling(b) /\ buffer'[b] = buffer[b]
    BY <1>2 DEF Handling
  <2>5. QED
    BY <1>2, <2>1, <2>2, <2>3, <2>4 DEF Given
<1>9. \A n \in CallId, x \in Activation : InFlight(n, x)' => InFlight(n, x)
  BY <1>7 DEF InFlight
<1>10. \A b \in Activation :
          /\ Live(b)' => Live(b) /\ wait_response_id'[b] = wait_response_id[b]
          /\ pc'[b] \in {"free", "write"} => pc[b] \in {"free", "write"}
          /\ Sent(b)' => Sent(b)
  BY <1>1, <1>2 DEF Live, Sent
<1>11. FiledById'
  <2>1. \A n \in CallId :
            m_id_data_return'[n] # NoPacket => m_id_data_return'[n].id = n
    BY <1>2 DEF AnswerInv, FiledById
  <2>2. \A b \in Activation :
            Handling(b)' /\ IsResponse(buffer'[b]) =>
                buffer'[b].id = wait_response_id'[b]
    BY <1>1, <1>2, <1>3 DEF AnswerInv, FiledById, Handling, m
  <2>3. \A b \in Activation : Handling(b)' => buffer'[b] # NoPacket
    BY <1>1, <1>2 DEF AnswerInv, FiledById, Handling
  <2>4. QED
    BY <2>1, <2>2, <2>3 DEF FiledById
<1>12. ~collided => p.of = a
  BY <1>3, <1>4, <1>6 DEF InFlight
<1>13. OwnAnswer'
  BY <1>1, <1>2, <1>12 DEF AnswerInv, OwnAnswer, Handling
<1>14. ASSUME ~collided, NEW x \in Activation, Located(x)
       PROVE  Located(x)'
  <2>1. CASE x = a
    <3>1. Handling(a)' /\ IsResponse(buffer'[a])
      BY <1>1, <1>2 DEF Handling, IsResponse, ResponsePacket
    <3>2. QED
      BY <1>2, <1>12, <1>14, <2>1, <3>1 DEF Located, Taken
  <2>2. CASE x # a /\ Taken(x)
    BY <1>2, <2>2 DEF Located, Taken, Handling
  <2>3. ASSUME x # a, NEW n \in CallId, InFlight(n, x)
        PROVE  Located(x)'
    <3>1. n # m
      BY <1>6, <1>14, <2>3
    <3>2. QED
      BY <1>7, <2>3, <3>1 DEF Located, InFlight
  <2>4. QED
    BY <1>14, <2>1, <2>2, <2>3 DEF Located
<1>15. QED
  BY <1>1, <1>9, <1>10, <1>11, <1>13, <1>14, <1>8, AnswersMoveOn

\* The reader takes a packet out of the transport.
LEMMA AnswerRead ==
    ASSUME TypeOK, AnswerInv, NEW a \in Activation, ReadPacket(a)
    PROVE  AnswerInv'
<1> DEFINE p == Head(inbox)
<1>1. /\ inbox \in Seq(Packet) /\ inbox # <<>> /\ inbox' = Tail(inbox)
      /\ pc[a] = "read" /\ pc' = [pc EXCEPT ![a] = "write_buffer"]
      /\ buffer' = [buffer EXCEPT ![a] = p]
      /\ UNCHANGED <<wait_response_id, m_id_data_return, peer, kind, collided>>
  BY DEF ReadPacket, Read, Continue, Stay, frame_vars, call_vars, pending_vars,
     TypeOK
<1>2. /\ pc'[a] = "write_buffer" /\ buffer'[a] = p
      /\ \A b \in Activation \ {a} : pc'[b] = pc[b] /\ buffer'[b] = buffer[b]
  BY <1>1 DEF TypeOK
<1>3. \A n, x : Received(n, x) <=>
          Received(n, x)' \/ (IsResponse(p) /\ p.id = n /\ p.of = x)
  <2>1. /\ Len(inbox) \in Nat /\ Len(inbox') = Len(inbox) - 1 /\ inbox[1] = p
        /\ 1 \in 1 .. Len(inbox)
        /\ \A i \in 1 .. Len(inbox') : i + 1 \in 1 .. Len(inbox) /\ inbox'[i] = inbox[i + 1]
        /\ \A i \in 1 .. Len(inbox) : i # 1 => i - 1 \in 1 .. Len(inbox') /\ inbox'[i - 1] = inbox[i]
    BY <1>1
  <2> HIDE DEF p
  <2>2. ASSUME NEW n, NEW x, Received(n, x)
        PROVE  Received(n, x)' \/ (IsResponse(p) /\ p.id = n /\ p.of = x)
    <3>1. PICK i \in 1 .. Len(inbox) : IsResponse(inbox[i]) /\ inbox[i].id = n /\ inbox[i].of = x
      BY <2>2 DEF Received
    <3>2. CASE i = 1
      BY <2>1, <3>1, <3>2
    <3>3. CASE i # 1
      BY <2>1, <3>1, <3>3 DEF Received
    <3>4. QED
      BY <3>2, <3>3
  <2>3. ASSUME NEW n, NEW x, Received(n, x)'
        PROVE  Received(n, x)
    <3>1. PICK i \in 1 .. Len(inbox') : IsResponse(inbox'[i]) /\ inbox'[i].id = n /\ inbox'[i].of = x
      BY <2>3 DEF Received
    <3>2. QED
      BY <2>1, <3>1 DEF Received
  <2>4. ASSUME NEW n, NEW x, IsResponse(p) /\ p.id = n /\ p.of = x
        PROVE  Received(n, x)
    BY <2>1, <2>4 DEF Received
  <2>5. QED
    BY <2>2, <2>3, <2>4
<1> HIDE DEF p
<1>4. \A n, x : Carried(n, x)' <=>
          Carried(n, x) \/ (IsResponse(p) /\ p.id = n /\ p.of = x)
  BY <1>1, <1>2 DEF Carried
<1>5. \A n, x : InFlight(n, x)' <=> InFlight(n, x)
  BY <1>1, <1>3, <1>4 DEF InFlight, Asked, Stored
<1>6. \A b \in Activation :
          /\ Live(b)' => Live(b) /\ wait_response_id'[b] = wait_response_id[b]
          /\ pc'[b] \in {"free", "write"} => pc[b] \in {"free", "write"}
          /\ Sent(b)' => Sent(b)
          /\ Handling(b)' <=> Handling(b)
          /\ Handling(b) => buffer'[b] = buffer[b]
  BY <1>1, <1>2 DEF Live, Sent, Handling
<1>7. FiledById' /\ OwnAnswer'
  BY <1>1, <1>6 DEF AnswerInv, FiledById, OwnAnswer
<1>8. \A x \in Activation : Located(x) => Located(x)'
  BY <1>5, <1>6 DEF Located, Taken
<1>9. \A x : Given(x)' => Given(x)
  BY <1>1, <1>3, <1>4, <1>6 DEF Given, Stored
<1>10. QED
  BY <1>1, <1>5, <1>6, <1>7, <1>8, <1>9, AnswersMoveOn

\* The reader files the response it carries under its id.  When the id is taken
\* the response is dropped: then no live call waits for it, or ids collided.
LEMMA AnswerStored ==
    ASSUME TypeOK, SingleReader, AnswerInv, NEW a \in Activation, WriteBuffer(a)
    PROVE  AnswerInv'
<1> DEFINE p == buffer[a]
<1>1. /\ pc[a] = "write_buffer"
      /\ m_id_data_return' = StoreResponse(p)
      /\ buffer' = [buffer EXCEPT ![a] = NoPacket]
      /\ UNCHANGED <<inbox, peer, kind, collided>>
  BY DEF WriteBuffer, peer_vars, call_vars
<1>2. p \in Packet \cup {NoPacket}
  BY DEF TypeOK
<1>3. /\ \A b \in Activation \ {a} :
            /\ pc[b] # "write_buffer" /\ buffer'[b] = buffer[b]
            /\ pc'[b] = IF pc[b] = "cond_wait" THEN "woken" ELSE pc[b]
            /\ wait_response_id'[b] = wait_response_id[b]
      /\ pc'[a] \in {"done", "read_buffer"} /\ buffer'[a] = NoPacket
      /\ pc'[a] # "done" => wait_response_id'[a] = wait_response_id[a]
  <2>1. \A b \in Activation \ {a} :
            /\ pc[b] # "write_buffer" /\ buffer'[b] = buffer[b]
            /\ pc'[b] = IF pc[b] = "cond_wait" THEN "woken" ELSE pc[b]
    BY <1>1 DEF SingleReader, Reader, ReaderPc, TypeOK, WriteBuffer, NotifyAll
  <2>2. /\ pc'[a] \in {"done", "read_buffer"} /\ buffer'[a] = NoPacket
        /\ \/ pc'[a] = "done"
           \/ Stay
    BY <1>1 DEF WriteBuffer, NotifyAll, TypeOK
  <2>3. \A b \in Activation \ {a} : wait_response_id'[b] = wait_response_id[b]
    BY PopFrames DEF WriteBuffer
  <2>4. QED
    BY <2>1, <2>2, <2>3 DEF Stay, frame_vars
<1>4. \A n, x : Carried(n, x) <=> IsResponse(p) /\ p.id = n /\ p.of = x
  BY <1>1, <1>3 DEF Carried
<1>5. \A n, x : ~Carried(n, x)'
  BY <1>3 DEF Carried, IsResponse
<1> HIDE DEF p
<1>6. /\ IsResponse(p) => p.id \in CallId /\ p.of \in Activation /\ p # NoPacket
      /\ \A n \in CallId :
            \/ m_id_data_return'[n] = m_id_data_return[n]
            \/ /\ IsResponse(p) /\ n = p.id
               /\ m_id_data_return[n] = NoPacket /\ m_id_data_return'[n] = p
      /\ IsResponse(p) => m_id_data_return'[p.id] # NoPacket
  <2>1. IsResponse(p) => p \in ResponsePacket /\ p # NoPacket
    BY <1>2, PacketSorts DEF IsResponse
  <2>2. IsResponse(p) => p.id \in CallId /\ p.of \in Activation
    BY <2>1 DEF ResponsePacket
  <2>3. QED
    BY <1>1, <2>1, <2>2 DEF StoreResponse, TypeOK
<1>7. \A n \in CallId, x \in Activation : Stored(n, x)' => Stored(n, x) \/ Carried(n, x)
  BY <1>4, <1>6 DEF Stored
<1>8. \A n \in CallId, x \in Activation : Stored(n, x) => Stored(n, x)'
  BY <1>6 DEF Stored
<1>9. \A n \in CallId, x \in Activation : InFlight(n, x)' => InFlight(n, x)
  BY <1>1, <1>5, <1>7 DEF InFlight, Asked, Received
<1>10. \A b \in Activation :
          /\ Live(b)' => Live(b) /\ wait_response_id'[b] = wait_response_id[b]
          /\ pc'[b] \in {"free", "write"} => pc[b] \in {"free", "write"}
          /\ Sent(b)' => Sent(b)
          /\ Handling(b)' <=> Handling(b)
          /\ Handling(b) => buffer'[b] = buffer[b] /\ Live(b)'
  BY <1>1, <1>3 DEF Live, Sent, Handling
<1>11. FiledById'
  <2>1. \A n \in CallId :
            m_id_data_return'[n] # NoPacket => m_id_data_return'[n].id = n
    BY <1>6 DEF AnswerInv, FiledById
  <2>2. \A b \in Activation :
            Handling(b)' /\ IsResponse(buffer'[b]) =>
                buffer'[b].id = wait_response_id'[b]
    BY <1>10 DEF AnswerInv, FiledById
  <2>3. \A b \in Activation : Handling(b)' => buffer'[b] # NoPacket
    BY <1>10 DEF AnswerInv, FiledById
  <2>4. QED
    BY <2>1, <2>2, <2>3 DEF FiledById
<1>12. OwnAnswer'
  BY <1>1, <1>10 DEF AnswerInv, OwnAnswer
<1>13. ASSUME ~collided, NEW x \in Activation, Sent(x), Located(x)
       PROVE  Located(x)'
  <2>1. CASE Taken(x)
    BY <1>10, <2>1 DEF Located, Taken
  <2>2. ASSUME NEW n \in CallId, InFlight(n, x), ~Carried(n, x)
        PROVE  Located(x)'
    BY <1>1, <1>8, <2>2 DEF Located, InFlight, Asked, Received
  <2>3. ASSUME NEW n \in CallId, Carried(n, x)
        PROVE  Located(x)'
    <3>1. IsResponse(p) /\ p.id = n /\ p.of = x
      BY <1>4, <2>3
    <3>2. CASE m_id_data_return[n] = NoPacket
      <4>1. m_id_data_return'[n] = p /\ p # NoPacket
        BY <1>6, <3>1, <3>2
      <4>2. QED
        BY <3>1, <4>1 DEF Located, InFlight, Stored
    <3>3. CASE m_id_data_return[n] # NoPacket
      <4> DEFINE y == m_id_data_return[n].of
      <4>1. y \in Activation /\ Stored(n, y)
        BY <3>3 DEF Stored, TypeOK, ResponsePacket
      <4>2. Waits(x, n)
        BY <1>13, <2>3 DEF AnswerInv, FlightInv, InFlight, Sent, Live, Waits,
           WaitIncoming
      <4>3. y = x
        BY <1>13, <4>1, <4>2 DEF AnswerInv, UniqueIds, InFlight
      <4>4. QED
        BY <1>8, <4>1, <4>3 DEF Located, InFlight
    <3>4. QED
      BY <3>2, <3>3
  <2>4. QED
    BY <1>13, <2>1, <2>2, <2>3 DEF Located
<1>14. QED
  <2>1. \A x \in Activation : Given(x)' => Given(x)
    BY <1>1, <1>5, <1>7, <1>10 DEF Given, Received
  <2>2. \A q \in peer : q.of \in Activation
    BY DEF TypeOK, Request
  <2>3. QED
    BY <1>1, <1>9, <1>10, <1>11, <1>12, <1>13, <2>1, <2>2, AnswersMoveOn

\* The peer's answer goes into the transport under the id of the request.
LEMMA AnswerSent ==
    ASSUME TypeOK, AnswerInv, NEW q \in peer, NEW type \in ResponseType,
           PeerAnswers(q, type)
    PROVE  AnswerInv'
<1> DEFINE p == [type |-> type, id |-> q.id, of |-> q.of]
<1>1. /\ p \in Packet /\ IsResponse(p) /\ p.id = q.id /\ p.of = q.of
      /\ q.id \in CallId /\ q.of \in Activation
  BY NoPacketAssumption DEF TypeOK, Request, Packet, ResponsePacket, IsResponse
<1>2. /\ inbox \in Seq(Packet) /\ inbox' = Append(inbox, p) /\ peer' = peer \ {q}
      /\ UNCHANGED <<pc, buffer, wait_response_id, m_id_data_return, kind, collided>>
  BY DEF PeerAnswers, pending_vars, run_vars, frame_vars, call_vars, TypeOK
<1> HIDE DEF p
<1>3. \A n, x : Received(n, x)' <=> Received(n, x) \/ (q.id = n /\ q.of = x)
  <2>1. /\ Len(inbox) \in Nat /\ Len(inbox') = Len(inbox) + 1
        /\ \A i \in 1 .. Len(inbox) : i \in 1 .. Len(inbox') /\ inbox'[i] = inbox[i]
        /\ \A i \in 1 .. Len(inbox') : i \in 1 .. Len(inbox) \/ i = Len(inbox')
        /\ Len(inbox') \in 1 .. Len(inbox')
        /\ inbox'[Len(inbox')] = p
    BY <1>2
  <2>2. QED
    BY <1>1, <2>1 DEF Received
<1>4. /\ \A n, x : Asked(n, x)' => Asked(n, x)
      /\ \A n, x : Asked(n, x) => Asked(n, x)' \/ (q.id = n /\ q.of = x)
      /\ Asked(q.id, q.of)
  BY <1>2 DEF Asked
<1>5. \A n, x : InFlight(n, x)' <=> InFlight(n, x)
  BY <1>2, <1>3, <1>4 DEF InFlight, Carried, Stored
<1>6. \A b \in Activation :
          /\ Live(b)' => Live(b) /\ wait_response_id'[b] = wait_response_id[b]
          /\ pc'[b] \in {"free", "write"} => pc[b] \in {"free", "write"}
          /\ Sent(b)' => Sent(b)
  BY <1>2 DEF Live, Sent
<1>7. FiledById' /\ OwnAnswer'
  BY <1>2 DEF AnswerInv, FiledById, OwnAnswer, Handling
<1>8. \A x \in Activation : Located(x) => Located(x)'
  BY <1>2, <1>5 DEF Located, Taken, Handling
<1>9. \A x : Given(x)' => Given(x) \/ x = q.of
  BY <1>2, <1>3 DEF Given, Carried, Stored, Handling
<1>10. \A r \in peer' : r.of # q.of
  BY <1>2 DEF AnswerInv, OneRequest
<1>11. QED
  BY <1>1, <1>2, <1>4, <1>5, <1>6, <1>7, <1>8, <1>9, <1>10, AnswersMoveOn

\* Every step keeps the answers.
LEMMA AnswerStep ==
    TypeOK /\ SingleReader /\ StackInv /\ CallInv /\ AnswerInv /\ [Next]_vars
        => AnswerInv'
<1> SUFFICES ASSUME TypeOK, SingleReader, StackInv, CallInv, AnswerInv, [Next]_vars
             PROVE  AnswerInv'
  OBVIOUS
<1> USE DEF Pc, ReaderPc
<1>1. ASSUME UNCHANGED <<pc, buffer, wait_response_id, m_id_data_return, kind,
                         peer, collided>>,
             \A n, x : Received(n, x)' <=> Received(n, x)
      PROVE  AnswerInv'
  <2>1. \A n, x : InFlight(n, x)' <=> InFlight(n, x)
    BY <1>1 DEF InFlight, Asked, Carried, Stored
  <2>2. \A b \in Activation :
            /\ Live(b)' => Live(b) /\ wait_response_id'[b] = wait_response_id[b]
            /\ pc'[b] \in {"free", "write"} => pc[b] \in {"free", "write"}
            /\ Sent(b)' => Sent(b)
    BY <1>1 DEF Live, Sent
  <2>3. FiledById' /\ OwnAnswer'
    BY <1>1 DEF AnswerInv, FiledById, OwnAnswer, Handling
  <2>4. \A x \in Activation : Located(x) => Located(x)'
    BY <1>1, <2>1 DEF Located, Taken, Handling
  <2>5. \A x : Given(x)' => Given(x)
    BY <1>1 DEF Given, Carried, Stored, Handling
  <2>6. QED
    BY <1>1, <2>1, <2>2, <2>3, <2>4, <2>5, AnswersMoveOn
<1>2. CASE UNCHANGED vars \/ CancelWaitRespond \/ Expire
  BY <1>1, <1>2 DEF vars, CancelWaitRespond, Expire, pending_vars, run_vars,
     frame_vars, call_vars, peer_vars, Received
<1>3. ASSUME NEW type \in IncomingType, NEW s \in BOOLEAN, PeerCalls(type, s)
      PROVE  AnswerInv'
  <2> DEFINE p == [type |-> type, id |-> peer_calls + 1, send_return |-> s]
  <2>1. ~IsResponse(p)
    BY DEF IsResponse, ResponseType, IncomingType
  <2>2. inbox \in Seq(Packet) /\ inbox' = Append(inbox, p)
    BY <1>3 DEF PeerCalls, TypeOK
  <2> HIDE DEF p
  <2>3. /\ Len(inbox) \in Nat /\ Len(inbox') = Len(inbox) + 1
        /\ \A i \in 1 .. Len(inbox) : i \in 1 .. Len(inbox') /\ inbox'[i] = inbox[i]
        /\ \A i \in 1 .. Len(inbox') : i \in 1 .. Len(inbox) \/ inbox'[i] = p
    BY <2>2
  <2>4. \A n, x : Received(n, x)' <=> Received(n, x)
    BY <2>1, <2>3 DEF Received
  <2>5. QED
    BY <1>1, <1>3, <2>4 DEF PeerCalls, pending_vars, run_vars, frame_vars, call_vars
<1>4. ASSUME NEW t \in Thread, NEW a \in Activation, ProcessTransport(t, a)
      PROVE  AnswerInv'
  <2>1. /\ Push(t, a, "process", c_invalid_id, TRUE, "read_buffer")
        /\ UNCHANGED <<m_id_data_return, collided>>
    BY <1>4 DEF ProcessTransport, pending_vars
  <2>2. "process" \in Kind /\ c_invalid_id \in CallId
    BY IdTypes DEF Kind
  <2>3. QED
    BY <2>1, <2>2, AnswersPush
<1>5. ASSUME NEW t \in Thread, NEW a \in Activation, NEW k \in Kind \ {"process"},
             NEW p \in BOOLEAN, InvokeUnified(t, a, k, p)
      PROVE  AnswerInv'
  <2>1. PICK n \in CallId :
            /\ IsNewCallId(n)
            /\ Push(t, a, k, n, p, "write")
            /\ collided' = (collided \/ InUse(n))
            /\ UNCHANGED m_id_data_return
    BY <1>5 DEF InvokeUnified
  <2>2. m_id_data_return[n] = NoPacket
    BY <2>1, IdTypes
  <2>3. (~collided' => ~InUse(n)) /\ (~collided' => ~collided)
    BY <2>1
  <2>4. QED
    BY <2>1, <2>2, <2>3, AnswersPush
<1>6. ASSUME NEW a \in Activation, Running(a), NEW r,
             NEW next \in Pc, pc' = [pc EXCEPT ![a] = next],
             next \notin {"free", "write", "write_buffer"},
             pc[a] # "write",
             (Pop(a, r) /\ next = "done") \/ Stay,
             UNCHANGED <<pending_vars, peer, inbox, collided, call_vars>>,
             \A b \in Activation \ {a} : buffer'[b] = buffer[b],
             pc[a] # "write_buffer",
             Handling(a)' => Handling(a) /\ buffer'[a] = buffer[a],
             next # "done" /\ Taken(a) => Taken(a)'
      PROVE  AnswerInv'
  <2>1. Live(a)
    BY <1>6, RunningLive
  <2>2. \A b \in Activation \ {a} : wait_response_id'[b] = wait_response_id[b]
    BY <1>6, PopFrames
  <2>3. next = "done" \/ wait_response_id'[a] = wait_response_id[a]
    BY <1>6 DEF Stay, frame_vars
  <2>4. UNCHANGED <<m_id_data_return, kind>>
    BY <1>6 DEF pending_vars, call_vars
  <2>5. QED
    BY <1>6, <2>1, <2>2, <2>3, <2>4, AnswersStay
<1>7. ASSUME NEW a \in Activation,
             ReadBuffer_Reentrance(a) \/ ReadBuffer_ReaderBusy(a) \/ SpuriousWakeup(a)
      PROVE  AnswerInv'
  <2>1. PICK next \in {"done", "cond_wait", "woken"} :
            pc' = [pc EXCEPT ![a] = next] /\ (Stay \/ \E r : Pop(a, r) /\ next = "done")
    BY <1>7 DEF ReadBuffer_Reentrance, ReadBuffer_ReaderBusy, SpuriousWakeup,
       Return, Continue
  <2>2. /\ Running(a) /\ pc[a] \in {"read_buffer", "woken", "cond_wait"}
        /\ UNCHANGED <<pending_vars, buffer, peer, inbox, collided, call_vars>>
    BY <1>7 DEF ReadBuffer_Reentrance, ReadBuffer_ReaderBusy, SpuriousWakeup,
       Searching, peer_vars
  <2>3. ~Handling(a) /\ ~Handling(a)'
    BY <2>1, <2>2 DEF Handling, TypeOK
  <2>4. QED
    BY <1>6, <2>1, <2>2, <2>3 DEF Taken
<1>8. ASSUME NEW a \in Activation,
             \/ ReadBuffer_BecomeReader(a)
             \/ GetTransport(a) \/ ReadNothing(a) \/ ReadCancelled(a)
      PROVE  AnswerInv'
  <2>1. /\ Running(a) /\ pc[a] \in {"read_buffer", "woken", "get_transport", "read"}
        /\ \/ pc' = [pc EXCEPT ![a] = "get_transport"] /\ UNCHANGED buffer
           \/ pc' = [pc EXCEPT ![a] = "read"] /\ UNCHANGED buffer
           \/ /\ pc' = [pc EXCEPT ![a] = "write_buffer"]
              /\ buffer' = [buffer EXCEPT ![a] = NoPacket]
        /\ UNCHANGED <<m_id_data_return, peer, inbox, collided, kind, wait_response_id>>
    BY <1>8 DEF ReadBuffer_BecomeReader, GetTransport, ReadNothing, ReadCancelled,
       Read, Searching, Continue, Stay, frame_vars, pending_vars, call_vars, peer_vars
  <2>2. Live(a) /\ ~Handling(a) /\ ~Handling(a)'
    BY <2>1 DEF Live, Handling, TypeOK
  <2>3. \A b \in Activation \ {a} : buffer'[b] = buffer[b]
    BY <2>1 DEF TypeOK
  <2>4. pc'[a] = "write_buffer" => ~IsResponse(buffer'[a])
    BY <2>1 DEF IsResponse, TypeOK
  <2>5. PICK next \in {"get_transport", "read", "write_buffer"} :
            pc' = [pc EXCEPT ![a] = next]
    BY <2>1
  <2>6. pc'[a] = next
    BY <2>5 DEF TypeOK
  <2>7. \A b \in Activation \ {a} :
            buffer'[b] = buffer[b] /\ wait_response_id'[b] = wait_response_id[b]
    BY <2>1, <2>3
  <2>8. ~Taken(a)
    BY <2>2 DEF Taken
  <2>9. QED
    BY <2>1, <2>2, <2>4, <2>5, <2>6, <2>7, <2>8, AnswersStay
<1>9. ASSUME NEW a \in Activation, ProcessBuffer_Invoke(a)
      PROVE  AnswerInv'
  <2>1. /\ Running(a) /\ pc[a] = "process" /\ pc' = [pc EXCEPT ![a] = "handler"]
        /\ Stay
        /\ UNCHANGED <<pending_vars, buffer, peer, inbox, collided, call_vars>>
    BY <1>9 DEF ProcessBuffer_Invoke, Continue, peer_vars
  <2>2. Handling(a) /\ Handling(a)'
    BY <2>1 DEF Handling, TypeOK
  <2>3. QED
    BY <1>6, <2>1, <2>2 DEF Taken
<1>10. ASSUME NEW a \in Activation, Running(a), Handling(a),
              buffer' = [buffer EXCEPT ![a] = NoPacket],
              NEW r,
              IF OwnResponse(a) THEN Return(a, r) ELSE Continue(a, "read_buffer"),
              UNCHANGED <<pending_vars, peer, inbox, collided, call_vars>>
       PROVE  AnswerInv'
  <2>1. IsResponse(buffer[a]) => OwnResponse(a)
    BY <1>10 DEF AnswerInv, FiledById, OwnResponse, IsResponse
  <2>2. PICK next \in {"done", "read_buffer"} :
            /\ pc' = [pc EXCEPT ![a] = next]
            /\ (Pop(a, r) /\ next = "done") \/ Stay
            /\ OwnResponse(a) => next = "done"
    BY <1>10 DEF Return, Continue
  <2>3. ~Handling(a)' /\ pc[a] \notin {"write", "write_buffer"}
    BY <1>10, <2>2 DEF Handling, TypeOK
  <2>4. next # "done" => ~Taken(a)
    BY <2>1, <2>2 DEF Taken
  <2>5. \A b \in Activation \ {a} : buffer'[b] = buffer[b]
    BY <1>10 DEF TypeOK
  <2>6. QED
    BY <1>6, <1>10, <2>2, <2>3, <2>4, <2>5
<1>11. ASSUME NEW a \in Activation, ProcessBuffer_NoHandler(a)
       PROVE  AnswerInv'
  <2>1. ~OwnResponse(a)
    BY <1>11 DEF ProcessBuffer_NoHandler, OwnResponse, IsIncoming, IncomingType,
       ResponseType
  <2>2. QED
    BY <1>10, <1>11, <2>1 DEF ProcessBuffer_NoHandler, Handling, peer_vars
<1>12. ASSUME NEW a \in Activation, ProcessBuffer_Result(a) \/ HandlerReturns(a)
       PROVE  AnswerInv'
  BY <1>10, <1>12
  DEF ProcessBuffer_Result, HandlerReturns, Handling, peer_vars
<1>13. ASSUME NEW a \in Activation, ReadBuffer_TakeIncoming(a)
       PROVE  AnswerInv'
  <2>1. /\ pc[a] \in {"read_buffer", "woken"} /\ pc' = [pc EXCEPT ![a] = "process"]
        /\ m_data_incoming_call # <<>>
        /\ buffer' = [buffer EXCEPT ![a] = Head(m_data_incoming_call)]
        /\ UNCHANGED <<m_id_data_return, peer, inbox, collided, kind, wait_response_id>>
    BY <1>13 DEF ReadBuffer_TakeIncoming, CallQueued, Searching, Continue, Stay,
       frame_vars, call_vars, peer_vars
  <2>2. Head(m_data_incoming_call) \in IncomingPacket
    <3>1. m_data_incoming_call \in Seq(IncomingPacket)
      BY DEF TypeOK
    <3>2. QED
      BY <2>1, <3>1
  <2>3. ~IsResponse(buffer'[a]) /\ buffer'[a] # NoPacket
    BY <2>1, <2>2, NoPacketAssumption
    DEF IsResponse, IncomingPacket, IncomingType, ResponseType, Packet, TypeOK
  <2>4. Live(a) /\ ~Taken(a)
    BY <2>1 DEF Live, Taken, Handling
  <2>5. \A b \in Activation \ {a} :
            buffer'[b] = buffer[b] /\ wait_response_id'[b] = wait_response_id[b]
    BY <2>1 DEF TypeOK
  <2>6. PICK next \in Pc : /\ next = "process"
                           /\ pc' = [pc EXCEPT ![a] = next]
                           /\ pc[a] \in {"read_buffer", "woken"}
                           /\ UNCHANGED <<peer, inbox, m_id_data_return, collided,
                                          kind, wait_response_id>>
    BY <2>1
  <2>7. QED
    BY <2>3, <2>4, <2>5, <2>6, AnswersStay
<1>14. QED
  BY <1>2, <1>3, <1>4, <1>5, <1>7, <1>8, <1>9, <1>11, <1>12, <1>13,
     AnswerAsked, AnswerTaken, AnswerRead, AnswerStored, AnswerSent, NextCases

\* At first there is no call and no answer.
LEMMA AnswerInit == Init => AnswerInv
<1> SUFFICES ASSUME Init PROVE AnswerInv
  OBVIOUS
<1>1. /\ peer = {} /\ inbox = <<>>
      /\ \A n \in CallId : m_id_data_return[n] = NoPacket
      /\ \A a \in Activation : pc[a] = "free"
  BY DEF Init
<1>2. \A n \in CallId : \A x : ~InFlight(n, x)
  BY <1>1 DEF InFlight, Asked, Received, Carried, Stored
<1>3. QED
  BY <1>1, <1>2 DEF AnswerInv, FlightInv, UniqueIds, Waits, Live, FiledById,
     OwnAnswer, NoneLost, OneRequest, Given, InFlight, Sent, Handling

\* While no id was handed out to two calls at once, the answer to a waiting call
\* is never dropped and never taken by another call, also when the ids wrap
\* around and responses of calls that returned early are still stored.
THEOREM AnswersCorrect == Spec => []AnswersKept
<1>1. Init => SingleReader /\ NoLostWakeup /\ StackInv /\ NestedInv /\ CallInv
  BY DEF Init, SingleReader, NoLostWakeup, Reader, ReaderPc, IsLocked, StackInv,
     NestedInv, CallInv, Live
<1>2. TypeOK /\ AnswerInv => AnswersKept
  <2> SUFFICES ASSUME TypeOK, AnswerInv, ~collided, NEW a \in Activation, Sent(a)
               PROVE  AnswerLocated(a)
    BY DEF AnswersKept, NoAnswerLost, AnswerInv
  <2>1. CASE Taken(a)
    BY <2>1 DEF Taken, AnswerLocated
  <2>2. ASSUME NEW n \in CallId, InFlight(n, a)
        PROVE  AnswerLocated(a)
    <3>1. wait_response_id[a] = n
      BY <2>2 DEF AnswerInv, FlightInv, Sent, Live
    <3>2. QED
      BY <2>2, <3>1 DEF InFlight, Asked, Received, Carried, Stored, AnswerLocated,
         ResponseStored
  <2>3. QED
    BY <2>1, <2>2 DEF AnswerInv, NoneLost, Located
<1>3. QED
  BY <1>1, <1>2, AnswerInit, TypeInit, TypeStep, ReaderStep, StackStep, CallStep,
     AnswerStep, PTL DEF Spec

-----------------------------------------------------------------------------
(* The endpoint implements CallContract.                                   *)

\* An activation that was not used yet has no kind.
UnusedInv == \A a \in Activation : pc[a] = "free" => kind[a] = "process"

\* Every step keeps it: only starting a call sets the kind.
LEMMA UnusedStep == TypeOK /\ UnusedInv /\ [Next]_vars => UnusedInv'
<1> SUFFICES ASSUME TypeOK, UnusedInv, [Next]_vars
             PROVE  UnusedInv'
  OBVIOUS
<1>1. ASSUME NEW t \in Thread, NEW a \in Activation, NEW k, NEW n, NEW p,
             NEW first \in {"write", "read_buffer"}, Push(t, a, k, n, p, first)
      PROVE  UnusedInv'
  BY <1>1 DEF Push, UnusedInv, TypeOK
<1>2. CASE \/ \E t \in Thread, a \in Activation : ProcessTransport(t, a)
           \/ \E t \in Thread, a \in Activation,
                 k \in Kind \ {"process"}, p \in BOOLEAN : InvokeUnified(t, a, k, p)
  BY <1>1, <1>2 DEF ProcessTransport, InvokeUnified
<1>3. ASSUME UNCHANGED kind, NEW a \in Activation, NEW next,
             pc' = [pc EXCEPT ![a] = next], next # "free"
      PROVE  UnusedInv'
  BY <1>3 DEF UnusedInv, TypeOK
<1>4. CASE \E a \in Activation :
                  \/ InvokeRemote(a)
                  \/ ReadBuffer_Reentrance(a)
                  \/ ReadBuffer_TakeResponse(a)
                  \/ ReadBuffer_TakeIncoming(a)
                  \/ ReadBuffer_ReaderBusy(a)
                  \/ ReadBuffer_BecomeReader(a)
                  \/ SpuriousWakeup(a)
                  \/ GetTransport(a)
                  \/ ReadPacket(a)
                  \/ ReadNothing(a)
                  \/ ReadCancelled(a)
                  \/ ProcessBuffer_Invoke(a)
                  \/ ProcessBuffer_NoHandler(a)
                  \/ ProcessBuffer_Result(a)
                  \/ HandlerReturns(a)
  BY <1>3, <1>4
  DEF InvokeRemote, ReadBuffer_Reentrance, ReadBuffer_TakeResponse,
      ReadBuffer_TakeIncoming, ReadBuffer_ReaderBusy, ReadBuffer_BecomeReader,
      SpuriousWakeup, GetTransport, ReadPacket, ReadNothing, ReadCancelled, Read,
      ProcessBuffer_Invoke, ProcessBuffer_NoHandler, ProcessBuffer_Result,
      HandlerReturns, Continue, Return, call_vars
<1>5. ASSUME NEW a \in Activation, WriteBuffer(a)
      PROVE  UnusedInv'
  <2>1. \A b \in Activation : pc'[b] = "free" => pc[b] = "free"
    BY <1>5 DEF WriteBuffer, NotifyAll, TypeOK
  <2>2. QED
    BY <1>5, <2>1 DEF WriteBuffer, call_vars, UnusedInv
<1>6. CASE \/ UNCHANGED vars
           \/ \E q \in peer, type \in ResponseType : PeerAnswers(q, type)
           \/ \E type \in IncomingType, s \in BOOLEAN : PeerCalls(type, s)
           \/ CancelWaitRespond
           \/ Expire
  BY <1>6 DEF vars, PeerAnswers, PeerCalls, CancelWaitRespond, Expire, run_vars,
     call_vars, UnusedInv
<1>7. QED
  BY <1>2, <1>4, <1>5, <1>6, NextCases

\* The refinement mapping, as state functions of the endpoint.
status == [a \in Activation |-> CallStatus(a)]
inner == [a \in Activation |-> under_read[a] /\ kind[a] \in WaitingKind]
broken == cancel_wait_respond \/ expired

\* The next-state relation of the contract, through the mapping.
LEMMA ContractNext ==
    Contract!Next <=>
          \/ \E c \in Activation :
                \/ /\ status[c] = "idle" /\ status' = [status EXCEPT ![c] = "issued"]
                   /\ \E nested \in BOOLEAN : inner' = [inner EXCEPT ![c] = nested]
                   /\ broken' = broken
                \/ /\ status[c] = "issued" /\ status' = [status EXCEPT ![c] = "pending"]
                   /\ inner' = inner /\ broken' = broken
                \/ /\ status[c] = "pending" /\ status' = [status EXCEPT ![c] = "answered"]
                   /\ inner' = inner /\ broken' = broken
                \/ /\ status[c] = "answered" /\ status' = [status EXCEPT ![c] = "returned"]
                   /\ inner' = inner /\ broken' = broken
                \/ /\ broken \/ inner[c]
                   /\ status[c] \in {"issued", "pending", "answered"}
                   /\ status' = [status EXCEPT ![c] = "failed"]
                   /\ inner' = inner /\ broken' = broken
          \/ ~broken /\ broken' = TRUE /\ status' = status /\ inner' = inner
BY DEF Contract!Next, Contract!Issue, Contract!Send, Contract!Answer,
   Contract!Return, Contract!Fail, Contract!Break, Contract!Move,
   status, inner, broken

\* A step that shows no caller anything is a stuttering step of the contract.
LEMMA ContractStutter ==
    ASSUME status' = status, inner' = inner, broken' = broken
    PROVE  UNCHANGED Contract!vars
BY DEF Contract!vars, status, inner, broken

\* What the caller of a sees, by the place its activation is at.
LEMMA StatusValues ==
    ASSUME NEW a \in Activation
    PROVE  /\ pc[a] = "free" \/ kind[a] \notin WaitingKind => CallStatus(a) = "idle"
           /\ pc[a] = "write" /\ kind[a] \in WaitingKind => CallStatus(a) = "issued"
           /\ pc[a] = "done" /\ kind[a] \in WaitingKind =>
                 CallStatus(a) = IF result[a] \in {"data", "error"} THEN "returned"
                                                                  ELSE "failed"
           /\ pc[a] \notin {"free", "write", "done"} /\ kind[a] \in WaitingKind =>
                 CallStatus(a) = IF WithPeer(a) THEN "pending" ELSE "answered"
BY DEF CallStatus

\* The same after a step.
LEMMA StatusValuesNext ==
    ASSUME NEW a \in Activation
    PROVE  /\ pc'[a] = "free" \/ kind'[a] \notin WaitingKind => CallStatus(a)' = "idle"
           /\ pc'[a] = "write" /\ kind'[a] \in WaitingKind => CallStatus(a)' = "issued"
           /\ pc'[a] = "done" /\ kind'[a] \in WaitingKind =>
                 CallStatus(a)' = IF result'[a] \in {"data", "error"} THEN "returned"
                                                                    ELSE "failed"
           /\ pc'[a] \notin {"free", "write", "done"} /\ kind'[a] \in WaitingKind =>
                 CallStatus(a)' = IF WithPeer(a)' THEN "pending" ELSE "answered"
BY DEF CallStatus

\* Nothing the caller of b sees has changed.
SameView(b) ==
    /\ kind'[b] = kind[b] /\ result'[b] = result[b] /\ under_read'[b] = under_read[b]
    /\ WithPeer(b)' <=> WithPeer(b)
    /\ \/ pc'[b] = pc[b]
       \/ pc[b] \notin {"free", "write", "done"} /\ pc'[b] \notin {"free", "write", "done"}

\* When that holds of every call, the step is none of the contract's.
LEMMA SameStatus ==
    ASSUME NEW b \in Activation, SameView(b)
    PROVE  status'[b] = status[b] /\ inner'[b] = inner[b]
<1>1. CallStatus(b)' = CallStatus(b)
  BY DEF SameView, CallStatus
<1>2. QED
  BY <1>1 DEF status, inner, SameView

\* At most one call's view changes, from one status to the next.
LEMMA OneMoves ==
    ASSUME NEW a \in Activation, \A b \in Activation \ {a} : SameView(b),
           under_read'[a] = under_read[a], kind'[a] = kind[a]
    PROVE  /\ inner' = inner
           /\ status' = [status EXCEPT ![a] = CallStatus(a)']
           /\ CallStatus(a)' = CallStatus(a) => status' = status
<1>1. \A b \in Activation \ {a} : status'[b] = status[b]
  BY SameStatus
<1>2. status'[a] = CallStatus(a)' /\ status[a] = CallStatus(a)
  BY DEF status
<1>3. inner' = inner
  BY DEF inner, SameView
<1>4. /\ status = [b \in Activation |-> status[b]]
      /\ status' = [b \in Activation |-> status'[b]]
  BY DEF status
<1>5. QED
  BY <1>1, <1>2, <1>3, <1>4

\* A call that comes back has its answer, or the contract lets it fail.
LEMMA ReturnMoves ==
    ASSUME TypeOK, NEW a \in Activation, \A b \in Activation \ {a} : SameView(b),
           UNCHANGED <<kind, under_read, peer, failure_vars>>,
           pc[a] \notin {"free", "done"}, pc'[a] = "done",
           kind[a] \in WaitingKind => MayEnd(a)',
           kind[a] \in WaitingKind /\ result'[a] \in {"data", "error"} =>
               pc[a] # "write" /\ ~WithPeer(a)
    PROVE  Contract!Next \/ UNCHANGED Contract!vars
<1>1. /\ inner' = inner /\ broken' = broken
      /\ status' = [status EXCEPT ![a] = CallStatus(a)']
      /\ CallStatus(a)' = CallStatus(a) => status' = status
  BY OneMoves DEF broken, failure_vars
<1>2. status[a] = CallStatus(a) /\ inner[a] = (under_read[a] /\ kind[a] \in WaitingKind)
  BY DEF status, inner
<1>3. CASE kind[a] \notin WaitingKind
  <2>1. CallStatus(a)' = CallStatus(a)
    BY <1>3, StatusValues, StatusValuesNext
  <2>2. QED
    BY <1>1, <2>1, ContractStutter
<1>4. CASE kind[a] \in WaitingKind /\ result'[a] \in {"data", "error"}
  <2>1. status[a] = "answered" /\ CallStatus(a)' = "returned"
    BY <1>2, <1>4, StatusValues, StatusValuesNext
  <2>2. QED
    BY <1>1, <2>1, ContractNext
<1>5. CASE kind[a] \in WaitingKind /\ result'[a] \notin {"data", "error"}
  <2>1. status[a] \in {"issued", "pending", "answered"} /\ CallStatus(a)' = "failed"
    BY <1>2, <1>5, StatusValues, StatusValuesNext
  <2>2. broken \/ inner[a]
    BY <1>2, <1>5 DEF MayEnd, broken, failure_vars
  <2>3. QED
    BY <1>1, <2>1, <2>2, ContractNext
<1>6. QED
  BY <1>3, <1>4, <1>5

\* Only the status of the call a request is for changes when it is answered.
LEMMA AnswerMoves ==
    ASSUME TypeOK, AnswerInv, NEW q \in peer, NEW type \in ResponseType,
           PeerAnswers(q, type)
    PROVE  Contract!Next \/ UNCHANGED Contract!vars
<1> DEFINE x == q.of
<1>1. /\ peer' = peer \ {q} /\ x \in Activation
      /\ UNCHANGED <<pc, kind, result, under_read, failure_vars>>
  BY DEF PeerAnswers, run_vars, frame_vars, call_vars, TypeOK, Request
<1>2. WithPeer(x) /\ ~WithPeer(x)'
  BY <1>1 DEF WithPeer, AnswerInv, OneRequest
<1>3. \A b \in Activation \ {x} : WithPeer(b)' <=> WithPeer(b)
  BY <1>1 DEF WithPeer
<1> HIDE DEF x
<1>4. \A b \in Activation \ {x} : SameView(b)
  BY <1>1, <1>3 DEF SameView
<1>5. /\ inner' = inner /\ broken' = broken
      /\ status' = [status EXCEPT ![x] = CallStatus(x)']
      /\ CallStatus(x)' = CallStatus(x) => status' = status
  BY <1>1, <1>4, OneMoves DEF broken, failure_vars
<1>6. status[x] = CallStatus(x)
  BY <1>1 DEF status
<1>7. CASE kind[x] \in WaitingKind /\ pc[x] \notin {"free", "write", "done"}
  <2>1. status[x] = "pending" /\ CallStatus(x)' = "answered"
    BY <1>1, <1>2, <1>6, <1>7, StatusValues, StatusValuesNext
  <2>2. QED
    BY <1>1, <1>5, <2>1, ContractNext
<1>8. CASE ~(kind[x] \in WaitingKind /\ pc[x] \notin {"free", "write", "done"})
  <2>1. CallStatus(x)' = CallStatus(x)
    BY <1>1, <1>8, StatusValues, StatusValuesNext
  <2>2. QED
    BY <1>5, <2>1, ContractStutter
<1>9. QED
  BY <1>7, <1>8

\* Starting a call or ProcessTransport issues a call of the contract, or none.
LEMMA PushMoves ==
    ASSUME TypeOK, UnusedInv, NEW t \in Thread, NEW a \in Activation, NEW k \in Kind,
           NEW n, NEW p, NEW first \in {"write", "read_buffer"},
           Push(t, a, k, n, p, first), k \in WaitingKind => first = "write"
    PROVE  Contract!Next \/ UNCHANGED Contract!vars
<1>1. /\ pc[a] = "free" /\ kind[a] = "process" /\ pc'[a] = first /\ kind'[a] = k
      /\ \A b \in Activation \ {a} :
            /\ pc'[b] = pc[b] /\ kind'[b] = kind[b]
            /\ under_read'[b] = under_read[b]
      /\ under_read'[a] \in BOOLEAN
      /\ UNCHANGED <<peer, result, failure_vars>>
  BY DEF Push, peer_vars, UnusedInv, TypeOK
<1>2. \A b \in Activation \ {a} : SameView(b)
  BY <1>1 DEF SameView, WithPeer
<1>3. broken' = broken
  BY <1>1 DEF broken, failure_vars
<1>4. \A b \in Activation \ {a} : status'[b] = status[b] /\ inner'[b] = inner[b]
  BY <1>2, SameStatus
<1>5. /\ status[a] = "idle" /\ status'[a] = CallStatus(a)'
      /\ inner[a] = FALSE /\ inner'[a] = (under_read'[a] /\ k \in WaitingKind)
  BY <1>1, StatusValues DEF status, inner, WaitingKind
<1>6. /\ status = [b \in Activation |-> status[b]]
      /\ status' = [b \in Activation |-> status'[b]]
      /\ inner = [b \in Activation |-> inner[b]]
      /\ inner' = [b \in Activation |-> inner'[b]]
  BY DEF status, inner
<1>7. CASE k \in WaitingKind
  <2>1. CallStatus(a)' = "issued"
    BY <1>1, <1>7, StatusValuesNext
  <2>2. status' = [status EXCEPT ![a] = "issued"]
    BY <1>4, <1>5, <1>6, <2>1
  <2>3. inner' = [inner EXCEPT ![a] = under_read'[a]]
    BY <1>1, <1>4, <1>5, <1>6, <1>7
  <2>4. QED
    BY <1>1, <1>3, <1>5, <2>2, <2>3, ContractNext
<1>8. CASE k \notin WaitingKind
  <2>1. CallStatus(a)' = "idle"
    BY <1>1, <1>8, StatusValuesNext
  <2>2. status' = status
    BY <1>4, <1>5, <1>6, <2>1
  <2>3. inner' = inner
    BY <1>4, <1>5, <1>6, <1>8
  <2>4. QED
    BY <1>3, <2>2, <2>3, ContractStutter
<1>9. QED
  BY <1>7, <1>8

\* A step of an activation that neither sends nor returns shows nothing.
LEMMA QuietMoves ==
    ASSUME TypeOK, \A b \in Activation : SameView(b), UNCHANGED failure_vars
    PROVE  UNCHANGED Contract!vars
<1>1. \A b \in Activation : status'[b] = status[b] /\ inner'[b] = inner[b]
  BY SameStatus
<1>2. /\ status = [b \in Activation |-> status[b]]
      /\ status' = [b \in Activation |-> status'[b]]
      /\ inner = [b \in Activation |-> inner[b]]
      /\ inner' = [b \in Activation |-> inner'[b]]
  BY DEF status, inner
<1>3. status' = status /\ inner' = inner
  BY <1>1, <1>2
<1>4. QED
  BY <1>3, ContractStutter DEF broken, failure_vars

\* Every step of the endpoint is a step of the contract, or none.
LEMMA ContractStep ==
    ASSUME TypeOK, AnswerInv, StackInv, UnusedInv, ~collided,
           EmptyOnlyOnFailure', [Next]_vars
    PROVE  Contract!Next \/ UNCHANGED Contract!vars
<1>1. ASSUME UNCHANGED <<pc, kind, result, under_read, peer>>
      PROVE  \A b \in Activation : SameView(b)
  BY <1>1 DEF SameView, WithPeer
<1>2. CASE UNCHANGED vars \/ \E type \in IncomingType, s \in BOOLEAN : PeerCalls(type, s)
  BY <1>1, <1>2, QuietMoves
  DEF vars, PeerCalls, run_vars, frame_vars, call_vars, peer_vars
<1>3. CASE CancelWaitRespond \/ Expire
  <2>1. /\ UNCHANGED <<pc, kind, result, under_read, peer>>
        /\ broken'
    BY <1>3 DEF CancelWaitRespond, Expire, run_vars, frame_vars, call_vars,
       peer_vars, broken
  <2>2. status' = status /\ inner' = inner
    <3>1. \A b \in Activation : CallStatus(b)' = CallStatus(b)
      BY <2>1 DEF CallStatus, WithPeer
    <3>2. QED
      BY <2>1, <3>1 DEF status, inner
  <2>3. broken \in BOOLEAN /\ broken' \in BOOLEAN
    BY DEF broken
  <2>4. CASE broken
    BY <2>1, <2>2, <2>3, <2>4, ContractStutter
  <2>5. CASE ~broken
    BY <2>1, <2>2, <2>3, <2>5, ContractNext
  <2>6. QED
    BY <2>4, <2>5
<1>4. ASSUME NEW t \in Thread, NEW a \in Activation, ProcessTransport(t, a)
      PROVE  Contract!Next \/ UNCHANGED Contract!vars
  BY <1>4, PushMoves DEF ProcessTransport, Kind, WaitingKind
<1>5. ASSUME NEW t \in Thread, NEW a \in Activation, NEW k \in Kind \ {"process"},
             NEW p \in BOOLEAN, InvokeUnified(t, a, k, p)
      PROVE  Contract!Next \/ UNCHANGED Contract!vars
  BY <1>5, PushMoves DEF InvokeUnified
<1>6. ASSUME NEW a \in Activation, OwnStep(a), UNCHANGED <<peer, failure_vars>>,
             \A b \in Activation \ {a} :
                \/ pc'[b] = pc[b]
                \/ pc[b] = "cond_wait" /\ pc'[b] = "woken",
             pc[a] # "write",
             pc'[a] \notin {"free", "write"},
             result'[a] \in {"data", "error"} /\ pc'[a] = "done" =>
                 Handling(a) /\ OwnResponse(a)
      PROVE  Contract!Next \/ UNCHANGED Contract!vars
  <2>1. /\ Live(a) /\ pc[a] \notin {"free", "done", "write"}
        /\ UNCHANGED <<kind, under_read>>
    <3>1. Running(a)
      BY <1>6 DEF OwnStep
    <3>2. QED
      BY <1>6, <3>1, RunningLive DEF OwnStep, call_vars, Live
  <2>2. \A b \in Activation \ {a} : result'[b] = result[b]
    BY <1>6 DEF OwnStep, Stay, Pop, frame_vars, TypeOK
  <2>3. \A b \in Activation \ {a} : SameView(b)
    BY <1>6, <2>1, <2>2 DEF SameView, WithPeer
  <2>4. CASE pc'[a] = "done"
    <3>1. kind[a] \in WaitingKind => MayEnd(a)'
      BY <2>1, <2>4 DEF EmptyOnlyOnFailure
    <3>2. result'[a] \in {"data", "error"} => ~WithPeer(a)
      <4> SUFFICES ASSUME result'[a] \in {"data", "error"} PROVE ~WithPeer(a)
        OBVIOUS
      <4>1. Handling(a) /\ IsResponse(buffer[a])
        <5>1. Handling(a) /\ buffer[a].type \in ResponseType
          BY <1>6, <2>4 DEF OwnResponse
        <5>2. buffer[a] # NoPacket
          BY <5>1 DEF AnswerInv, FiledById
        <5>3. QED
          BY <5>1, <5>2 DEF IsResponse
      <4>2. buffer[a].of = a
        BY <4>1 DEF AnswerInv, OwnAnswer
      <4>3. Given(a)
        BY <4>1, <4>2 DEF Given
      <4>4. QED
        BY <4>3 DEF AnswerInv, OneRequest, WithPeer
    <3>3. QED
      BY <1>6, <2>1, <2>3, <2>4, <3>1, <3>2, ReturnMoves
  <2>5. CASE pc'[a] # "done"
    <3>1. Stay
      BY <1>6, <2>5 DEF OwnStep, Live
    <3>2. SameView(a)
      BY <1>6, <2>1, <2>5, <3>1 DEF SameView, WithPeer, Stay, frame_vars
    <3>3. QED
      BY <1>6, <2>3, <3>2, QuietMoves
  <2>6. QED
    BY <2>4, <2>5

<1>7. ASSUME NEW a \in Activation, InvokeRemote(a)
      PROVE  Contract!Next \/ UNCHANGED Contract!vars
  <2>1. /\ Running(a) /\ pc[a] = "write"
        /\ UNCHANGED <<kind, under_read, failure_vars>>
    BY <1>7 DEF InvokeRemote, call_vars
  <2>2. ASSUME NEW r \in Result \ {"data", "error"}, Return(a, r), UNCHANGED peer
        PROVE  Contract!Next \/ UNCHANGED Contract!vars
    <3>1. /\ pc'[a] = "done" /\ result'[a] = r
          /\ \A b \in Activation \ {a} : pc'[b] = pc[b] /\ result'[b] = result[b]
      BY <2>2 DEF Return, Pop, TypeOK
    <3>2. \A b \in Activation \ {a} : SameView(b)
      BY <2>1, <2>2, <3>1 DEF SameView, WithPeer
    <3>3. kind[a] \in WaitingKind => MayEnd(a)'
      BY <2>1, <3>1 DEF EmptyOnlyOnFailure
    <3>4. QED
      BY <2>1, <2>2, <3>1, <3>2, <3>3, ReturnMoves
  <2>3. CASE Return(a, "unsent") /\ UNCHANGED peer
    BY <2>2, <2>3 DEF Result
  <2>4. CASE Return(a, "sent") /\ UNCHANGED peer
    BY <2>2, <2>4 DEF Result
  <2>5. ASSUME kind[a] \in WaitingKind, Continue(a, "read_buffer"),
               NEW q, peer' = peer \cup {q}, q.of = a
        PROVE  Contract!Next \/ UNCHANGED Contract!vars
    <3>1. /\ pc'[a] = "read_buffer" /\ WithPeer(a)'
          /\ \A b \in Activation \ {a} :
                pc'[b] = pc[b] /\ result'[b] = result[b] /\ (WithPeer(b)' <=> WithPeer(b))
      BY <2>5 DEF Continue, Stay, frame_vars, TypeOK, WithPeer
    <3>2. \A b \in Activation \ {a} : SameView(b)
      BY <2>1, <3>1 DEF SameView
    <3>3. status[a] = "issued" /\ CallStatus(a)' = "pending"
      BY <2>1, <2>5, <3>1, StatusValues, StatusValuesNext DEF status
    <3>4. /\ inner' = inner /\ broken' = broken
          /\ status' = [status EXCEPT ![a] = CallStatus(a)']
      BY <2>1, <3>2, OneMoves DEF broken, failure_vars
    <3>5. QED
      BY <3>3, <3>4, ContractNext
  <2> DEFINE q == [type |-> IF kind[a] = "enumerate" THEN "pt_enumerate"
                            ELSE "pt_call", id |-> wait_response_id[a], of |-> a]
  <2>6. CASE /\ kind[a] \in WaitingKind /\ Continue(a, "read_buffer")
             /\ peer' = peer \cup {q}
    <3>1. q.of = a
      OBVIOUS
    <3> HIDE DEF q
    <3>2. QED
      BY <2>5, <2>6, <3>1
  <2>7. QED
    BY <1>7, <2>3, <2>4, <2>6 DEF InvokeRemote
<1>8. ASSUME NEW a \in Activation,
             \/ ReadBuffer_Reentrance(a)
             \/ ReadBuffer_ReaderBusy(a)
             \/ WriteBuffer(a)
      PROVE  Contract!Next \/ UNCHANGED Contract!vars
  <2>1. OwnStep(a) /\ UNCHANGED <<peer, failure_vars>>
    BY <1>8, OwnSteps
    DEF ReadBuffer_Reentrance, ReadBuffer_ReaderBusy, WriteBuffer, peer_vars
  <2>2. pc[a] # "write" /\ pc'[a] \notin {"free", "write"}
    BY <1>8 DEF ReadBuffer_Reentrance, ReadBuffer_ReaderBusy, WriteBuffer,
       Searching, NotifyAll, Return, Continue, TypeOK
  <2>3. \A b \in Activation \ {a} :
            \/ pc'[b] = pc[b]
            \/ pc[b] = "cond_wait" /\ pc'[b] = "woken"
    BY <1>8 DEF ReadBuffer_Reentrance, ReadBuffer_ReaderBusy, WriteBuffer,
       NotifyAll, Return, Continue, TypeOK
  <2>4. pc'[a] = "done" => result'[a] \notin {"data", "error"}
    BY <1>8 DEF ReadBuffer_Reentrance, ReadBuffer_ReaderBusy, WriteBuffer,
       NotifyAll, Return, Continue, Pop, TypeOK
  <2>5. QED
    BY <1>6, <2>1, <2>2, <2>3, <2>4
<1>9. ASSUME NEW a \in Activation,
             \/ ReadBuffer_TakeResponse(a)
             \/ ReadBuffer_TakeIncoming(a)
             \/ ReadBuffer_BecomeReader(a)
             \/ SpuriousWakeup(a)
             \/ GetTransport(a)
             \/ ReadPacket(a)
             \/ ReadNothing(a)
             \/ ReadCancelled(a)
             \/ ProcessBuffer_Invoke(a)
             \/ ProcessBuffer_NoHandler(a)
      PROVE  Contract!Next \/ UNCHANGED Contract!vars
  <2>1. OwnStep(a)
    BY <1>9, OwnSteps
  <2>2. /\ UNCHANGED <<peer, failure_vars>>
        /\ pc[a] # "write"
        /\ \E next \in Pc \ {"free", "write", "done"} : pc' = [pc EXCEPT ![a] = next]
    BY <1>9
    DEF ReadBuffer_TakeResponse, ReadBuffer_TakeIncoming,
        ReadBuffer_BecomeReader, SpuriousWakeup, GetTransport, ReadPacket,
        ReadNothing, ReadCancelled, Read, ProcessBuffer_Invoke,
        ProcessBuffer_NoHandler, Searching, Continue, peer_vars, Pc, ReaderPc
  <2>3. /\ pc'[a] \notin {"free", "write", "done"}
        /\ \A b \in Activation \ {a} : pc'[b] = pc[b]
    BY <2>2 DEF TypeOK
  <2>4. QED
    BY <1>6, <2>1, <2>2, <2>3
<1>10. ASSUME NEW a \in Activation, ProcessBuffer_Result(a) \/ HandlerReturns(a)
       PROVE  Contract!Next \/ UNCHANGED Contract!vars
  <2>1. OwnStep(a)
    BY <1>10, OwnSteps
  <2>2. /\ UNCHANGED <<peer, failure_vars>>
        /\ pc[a] # "write" /\ Handling(a)
        /\ \E next \in {"done", "read_buffer"} :
               pc' = [pc EXCEPT ![a] = next] /\ (next = "done" => OwnResponse(a))
    BY <1>10
    DEF ProcessBuffer_Result, HandlerReturns, Continue, Return, Handling, peer_vars
  <2>3. /\ pc'[a] \notin {"free", "write"}
        /\ pc'[a] = "done" => OwnResponse(a)
        /\ \A b \in Activation \ {a} : pc'[b] = pc[b]
    BY <2>2 DEF TypeOK
  <2>4. QED
    BY <1>6, <2>1, <2>2, <2>3
<1>11. QED
  BY <1>2, <1>3, <1>4, <1>5, <1>7, <1>8, <1>9, <1>10, AnswerMoves, NextCases

\* The queue of pending responses implements the contract of its callers, for any
\* number of threads, calls and ids, as long as NewCallId hands out no id that is
\* still in use: each call is answered by the peer before it returns, with its
\* own answer, and comes back empty-handed only from a broken connection or from
\* inside its own transport read.
THEOREM ContractImplemented == Spec /\ []~collided => ImplementsContract
<1>1. Init => /\ SingleReader /\ NoLostWakeup /\ StackInv /\ NestedInv /\ CallInv
              /\ EmptyOnlyOnFailure /\ UnusedInv
  BY DEF Init, SingleReader, NoLostWakeup, Reader, ReaderPc, IsLocked, StackInv,
     NestedInv, CallInv, Live, EmptyOnlyOnFailure, UnusedInv
<1>2. Init => Contract!Init
  <2> SUFFICES ASSUME Init PROVE Contract!Init
    OBVIOUS
  <2>1. /\ \A a \in Activation : /\ pc[a] = "free" /\ kind[a] = "process"
                                 /\ under_read[a] = FALSE
        /\ ~cancel_wait_respond /\ ~expired
    BY DEF Init
  <2>2. \A a \in Activation : CallStatus(a) = "idle"
    BY <2>1, StatusValues
  <2>3. QED
    BY <2>1, <2>2 DEF Contract!Init, WaitingKind
<1>3. QED
  BY <1>1, <1>2, AnswerInit, TypeInit, TypeStep, ReaderStep, StackStep, CallStep,
     AnswerStep, EndStep, UnusedStep, ContractStep, PTL
  DEF Spec, ImplementsContract, Contract!Spec
=============================================================================
