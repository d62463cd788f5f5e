---------------------------- MODULE PacketParser ----------------------------
(***************************************************************************)
(* TransportProxy::Read and MAssIpc_PacketParser: packets reassembled from *)
(* a byte stream (MAssIpc_TransportCopy) that delivers any part of what    *)
(* was written, and that may be cut and connected again.                   *)
(*                                                                         *)
(* A byte is its position in everything the peer ever wrote, so a buffer   *)
(* tells which bytes it holds.  The bytes written but not arrived are      *)
(* arrived + 1 .. written, those that can be read consumed + 1 .. arrived. *)
(* One thread reads at a time (SingleReader of MAssIpcCall); between any   *)
(* two calls of the transport more bytes may arrive or the connection may  *)
(* be lost.                                                                *)
(***************************************************************************)
EXTENDS Integers, Sequences

CONSTANTS HeaderSize,     \* c_net_call_packet_header_size
          BodySize,       \* sizes of packets without the header
          MaxPackets,     \* bound: packets the peer writes
          Failures        \* what may happen to the connection

c_invalid_packet_size == -1

ASSUME ParserConstants ==
    /\ HeaderSize \in Nat \ {0}
    /\ BodySize \subseteq Nat /\ BodySize # {}
    /\ MaxPackets \in Nat
    /\ Failures \subseteq {"disconnect", "cancel", "expire"}

VARIABLES
    \* the stream
    packets, written, arrived, consumed,
    connected, cancel_wait_respond, expired,
    \* MAssIpc_PacketParser
    data_size, need_size, raw_header_buffer, m_incoming_packet_header_data,
    \* the call of TransportProxy::Read
    pc, wait_incoming_packet, waited, read_size, result,
    \* history: the packets returned to the endpoint, the number of the first
    \* packet not read completely, and whether bytes of a packet were lost while
    \* the parser kept others
    delivered, next, torn

link_vars == <<connected, cancel_wait_respond, expired>>
stream_vars == <<packets, written, arrived, consumed, link_vars>>
parser_vars == <<data_size, need_size, raw_header_buffer, m_incoming_packet_header_data>>
call_vars == <<pc, wait_incoming_packet, waited, read_size, result>>
history_vars == <<delivered, next, torn>>
vars == <<stream_vars, parser_vars, call_vars, history_vars>>

NoBytes == <<>>
EmptyHeader == [i \in 1 .. HeaderSize |-> 0]

Init ==
    /\ packets = <<>> /\ written = 0 /\ arrived = 0 /\ consumed = 0
    /\ connected = TRUE /\ cancel_wait_respond = FALSE /\ expired = FALSE
    /\ data_size = c_invalid_packet_size
    /\ need_size = HeaderSize
    /\ raw_header_buffer = EmptyHeader
    /\ m_incoming_packet_header_data = NoBytes
    /\ pc = "idle" /\ wait_incoming_packet = FALSE /\ waited = FALSE
    /\ read_size = 0 /\ result = "none"
    /\ delivered = <<>> /\ next = 1 /\ torn = FALSE

-----------------------------------------------------------------------------
(* TransportProxy::Read                                                    *)

\* Where ReadNeededDataSize begins: with the header or with the body.
FirstPart == IF data_size = c_invalid_packet_size THEN "header" ELSE "body"

Read(wait) ==
    /\ pc = "idle" /\ ~expired
    /\ pc' = FirstPart
    /\ wait_incoming_packet' = wait
    /\ waited' = FALSE
    /\ result' = "none"
    /\ UNCHANGED <<stream_vars, parser_vars, read_size, history_vars>>

\* Read without a transport.
ReadExpired ==
    /\ pc = "idle" /\ expired
    /\ result' = "failed"
    /\ UNCHANGED <<stream_vars, parser_vars, pc, wait_incoming_packet, waited,
                   read_size, history_vars>>

Available == arrived - consumed

Least(m, n) == IF m < n THEN m ELSE n

\* ReadNeededDataSize ended without a packet: wait for the bytes that are
\* missing and try once more, or return without one.
NoPacketYet ==
    IF wait_incoming_packet /\ ~waited
    THEN pc' = "wait" /\ UNCHANGED result
    ELSE pc' = "idle" /\ result' = "nothing"

\* ReadBytesAvailable for the header.
HeaderAvailable ==
    /\ pc = "header"
    /\ read_size' = Least(need_size, Available)
    /\ IF Available > 0 THEN pc' = "read_header" /\ UNCHANGED result
                        ELSE NoPacketYet
    /\ UNCHANGED <<stream_vars, parser_vars, wait_incoming_packet, waited,
                   history_vars>>

\* The bytes at offset + 1 .. offset + n of a buffer come from the stream.
Fill(buffer, offset, n) ==
    [i \in DOMAIN buffer |-> IF i \in offset + 1 .. offset + n
                             THEN consumed + i - offset
                             ELSE buffer[i]]

\* The size in the header that starts with byte b; when b is not the first byte
\* of a packet it is whatever the bytes there happen to be.
SizeAt(b) ==
    IF \E k \in 1 .. Len(packets) : packets[k].start + 1 = b
    THEN {packets[k].size : k \in {j \in 1 .. Len(packets) : packets[j].start + 1 = b}}
    ELSE BodySize

ReadOffset_FromStart(size) == 0

\* read_offset
ReadOffset(size) == size - need_size

\* The header is not complete: the bytes read so far are kept.
ReadHeader_Part ==
    /\ pc = "read_header" /\ Available >= read_size
    /\ read_size < need_size
    /\ raw_header_buffer' = Fill(raw_header_buffer, ReadOffset(HeaderSize), read_size)
    /\ need_size' = need_size - read_size
    /\ consumed' = consumed + read_size
    /\ read_size' = 0
    /\ NoPacketYet
    /\ UNCHANGED <<packets, written, arrived, link_vars,
                   data_size, m_incoming_packet_header_data,
                   wait_incoming_packet, waited, history_vars>>

\* ReceiveReadHeader: the size is known and the packet's buffer is made.
NewBuffer(header, size) ==
    [i \in 1 .. HeaderSize + size |-> IF i <= HeaderSize THEN header[i] ELSE 0]

BodyNeed(size) == size

ReadHeader_Whole ==
    LET header == Fill(raw_header_buffer, ReadOffset(HeaderSize), read_size)
    IN  /\ pc = "read_header" /\ Available >= read_size
        /\ read_size = need_size
        /\ raw_header_buffer' = header
        /\ \E size \in SizeAt(header[1]) :
            /\ data_size' = size
            /\ need_size' = BodyNeed(size)
            /\ m_incoming_packet_header_data' = NewBuffer(header, size)
            /\ next' = IF size = 0 THEN next + 1 ELSE next
        /\ consumed' = consumed + read_size
        /\ read_size' = 0
        /\ pc' = "body"
        /\ UNCHANGED <<packets, written, arrived, link_vars,
                       wait_incoming_packet, waited, result, delivered, torn>>

Deliver_NoReset(packet) ==
    /\ delivered' = Append(delivered, packet)
    /\ UNCHANGED <<data_size, need_size, raw_header_buffer>>
    /\ m_incoming_packet_header_data' = NoBytes
    /\ pc' = "idle" /\ result' = "packet"

\* The packet goes to the endpoint and the parser starts over (ReadState{}).
Deliver(packet) ==
    /\ delivered' = Append(delivered, packet)
    /\ data_size' = c_invalid_packet_size
    /\ need_size' = HeaderSize
    /\ raw_header_buffer' = EmptyHeader
    /\ m_incoming_packet_header_data' = NoBytes
    /\ pc' = "idle" /\ result' = "packet"

IsComplete_WithData == need_size = 0 /\ Available > 0

\* Nothing of the body is missing (a body may be empty).
IsComplete == need_size = 0

\* ReadBytesAvailable for the body: there is something to read, the packet is
\* complete without it, or it is not and nothing came.
BodyAvailable ==
    /\ pc = "body"
    /\ read_size' = Least(need_size, Available)
    /\ \/ /\ Available > 0 /\ need_size > 0
          /\ pc' = "read_body"
          /\ UNCHANGED <<parser_vars, result, delivered>>
       \/ /\ IsComplete
          /\ Deliver(m_incoming_packet_header_data)
       \/ /\ Available = 0 /\ ~IsComplete
          /\ NoPacketYet
          /\ UNCHANGED <<parser_vars, delivered>>
    /\ UNCHANGED <<stream_vars, wait_incoming_packet, waited, next, torn>>

ReadBody ==
    LET buffer == Fill(m_incoming_packet_header_data,
                       HeaderSize + ReadOffset(data_size), read_size)
    IN  /\ pc = "read_body" /\ Available >= read_size
        /\ consumed' = consumed + read_size
        /\ read_size' = 0
        /\ IF read_size = need_size
           THEN Deliver(buffer) /\ next' = next + 1
           ELSE /\ need_size' = need_size - read_size
                /\ m_incoming_packet_header_data' = buffer
                /\ NoPacketYet
                /\ UNCHANGED <<data_size, raw_header_buffer, delivered, next>>
        /\ UNCHANGED <<packets, written, arrived, link_vars,
                       wait_incoming_packet, waited, torn>>

\* The bytes counted before are gone with their connection: Read takes what the
\* new one has and fails, and the parser does not count it.
ReadFails ==
    /\ pc \in {"read_header", "read_body"} /\ Available < read_size
    /\ consumed' = arrived
    /\ torn' = (torn \/ Available > 0)
    /\ read_size' = 0
    /\ pc' = "idle" /\ result' = "failed"
    /\ UNCHANGED <<packets, written, arrived, link_vars, parser_vars,
                   wait_incoming_packet, waited, delivered, next>>

\* WaitRespond must return when the bytes asked for are there; a transport may
\* return with fewer, or after a time-out.
WaitRespond(enough) ==
    /\ pc = "wait"
    /\ connected /\ ~cancel_wait_respond
    /\ enough => Available >= need_size
    /\ pc' = FirstPart
    /\ waited' = TRUE
    /\ UNCHANGED <<stream_vars, parser_vars, wait_incoming_packet, read_size,
                   result, history_vars>>

WaitRespondFails ==
    /\ pc = "wait"
    /\ ~connected \/ cancel_wait_respond
    /\ pc' = "idle" /\ result' = "failed"
    /\ UNCHANGED <<stream_vars, parser_vars, wait_incoming_packet, waited,
                   read_size, history_vars>>

-----------------------------------------------------------------------------
(* The peer and the connection.                                            *)

\* TransportProxy::Write of the peer: the whole packet in one call.
Write(size) ==
    /\ connected /\ Len(packets) < MaxPackets
    /\ packets' = Append(packets, [start |-> written, size |-> size])
    /\ written' = written + HeaderSize + size
    /\ UNCHANGED <<arrived, consumed, link_vars, parser_vars, call_vars,
                   history_vars>>

Arrive ==
    /\ connected
    /\ \E n \in arrived + 1 .. written : arrived' = n
    /\ UNCHANGED <<packets, written, consumed, link_vars, parser_vars,
                   call_vars, history_vars>>

\* The parser holds a part of a packet.
Midway ==
    \/ data_size = c_invalid_packet_size /\ need_size < HeaderSize
    \/ data_size # c_invalid_packet_size /\ need_size > 0

\* The socket is deleted with everything in it; nothing tells the parser.
OnDisconnected ==
    /\ "disconnect" \in Failures /\ connected
    /\ connected' = FALSE
    /\ arrived' = written /\ consumed' = written
    /\ next' = Len(packets) + 1
    /\ torn' = (torn \/ Midway)
    /\ UNCHANGED <<packets, written, cancel_wait_respond, expired, parser_vars,
                   call_vars, delivered>>

\* StartConnection on the same transport.
AssignConnection ==
    /\ ~connected
    /\ connected' = TRUE
    /\ UNCHANGED <<packets, written, arrived, consumed, cancel_wait_respond,
                   expired, parser_vars, call_vars, history_vars>>

CancelWaitRespond ==
    /\ "cancel" \in Failures /\ ~cancel_wait_respond
    /\ cancel_wait_respond' = TRUE
    /\ UNCHANGED <<packets, written, arrived, consumed, connected, expired,
                   parser_vars, call_vars, history_vars>>

\* The last shared_ptr to the MAssIpc_TransportCopy is gone; Read holds one.
Expire ==
    /\ "expire" \in Failures /\ ~expired /\ pc = "idle"
    /\ expired' = TRUE
    /\ UNCHANGED <<packets, written, arrived, consumed, connected,
                   cancel_wait_respond, parser_vars, call_vars, history_vars>>

-----------------------------------------------------------------------------
ReadStep ==
    \/ HeaderAvailable \/ ReadHeader_Part \/ ReadHeader_Whole
    \/ BodyAvailable \/ ReadBody \/ ReadFails
    \/ WaitRespond(TRUE) \/ WaitRespondFails

Call == \E wait \in BOOLEAN : Read(wait)

Next ==
    \/ Call \/ ReadExpired
    \/ ReadStep \/ WaitRespond(FALSE)
    \/ \E size \in BodySize : Write(size)
    \/ Arrive
    \/ OnDisconnected \/ AssignConnection \/ CancelWaitRespond \/ Expire

Spec == Init /\ [][Next]_vars

FairSpec == Spec /\ WF_vars(Call) /\ WF_vars(ReadStep) /\ WF_vars(Arrive)

-----------------------------------------------------------------------------
(* Properties.                                                             *)

\* Bytes by their offset, from 1.
Buffer == Seq(Nat)

\* Every variable has its type.
TypeOK ==
    /\ packets \in Seq([start : Nat, size : BodySize])
    /\ written \in Nat /\ arrived \in 0 .. written /\ consumed \in 0 .. arrived
    /\ connected \in BOOLEAN /\ cancel_wait_respond \in BOOLEAN
    /\ expired \in BOOLEAN
    /\ data_size \in BodySize \cup {c_invalid_packet_size}
    /\ need_size \in Nat
    /\ raw_header_buffer \in Buffer /\ Len(raw_header_buffer) = HeaderSize
    /\ m_incoming_packet_header_data \in Buffer
    /\ data_size # c_invalid_packet_size =>
            /\ need_size <= data_size
            /\ Len(m_incoming_packet_header_data) = HeaderSize + data_size
    /\ data_size = c_invalid_packet_size => need_size \in 1 .. HeaderSize
    /\ pc \in {"idle", "header", "read_header", "body", "read_body", "wait"}
    /\ pc \in {"header", "read_header"} => data_size = c_invalid_packet_size
    /\ pc \in {"body", "read_body"} => data_size # c_invalid_packet_size
    /\ wait_incoming_packet \in BOOLEAN /\ waited \in BOOLEAN
    /\ read_size \in Nat
    /\ pc \in {"read_header", "read_body"} => read_size \in 1 .. need_size
    /\ result \in {"none", "packet", "nothing", "failed"}
    /\ delivered \in Seq(Buffer)
    /\ next \in Nat \ {0}
    /\ torn \in BOOLEAN

End(k) == packets[k].start + HeaderSize + packets[k].size

\* The packet number k as it was written.
Bytes(k) == [i \in 1 .. HeaderSize + packets[k].size |-> packets[k].start + i]

\* However the stream is cut into pieces, and across lost connections, what
\* TransportProxy::Read returns are whole packets as they were written, in the
\* order of writing and none twice.  The exception the code has: a connection
\* lost while the parser holds part of a packet (torn), because
\* AssignConnection does not reset the parser.
WholePackets ==
    ~torn =>
        /\ \A j \in 1 .. Len(delivered) :
              \E k \in 1 .. Len(packets) : delivered[j] = Bytes(k) /\ k < next
        /\ \A i, j \in 1 .. Len(delivered) :
              i < j => delivered[i][1] < delivered[j][1]

\* WaitRespond is never asked for bytes beyond the packet being received: a
\* transport that waits for all of them is not kept waiting for the next packet.
WaitWithinPacket ==
    /\ ~torn
    /\ pc = "wait"
    /\ next <= Len(packets)
    => consumed + need_size <= End(next)

\* Every packet written is delivered, if the bytes arrive and the endpoint keeps
\* reading, unless the connection is ever lost, cancelled or destroyed.
EveryPacketDelivered ==
    \/ \A k \in 1 .. MaxPackets : Len(packets) >= k ~> Len(delivered) >= k
    \/ <>(~connected \/ cancel_wait_respond \/ expired)

\* ReadNeededDataSize puts packets together: within the bounds of its buffers,
\* from the bytes of that packet only, and asking for no others.
Reassembled == TypeOK /\ WholePackets /\ WaitWithinPacket
=============================================================================
