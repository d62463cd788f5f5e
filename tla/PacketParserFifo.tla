-------------------------- MODULE PacketParserFifo --------------------------
(***************************************************************************)
(* The parser over a byte stream implements PacketFifo.                    *)
(***************************************************************************)
EXTENDS PacketParser

\* A packet without body is complete with its header, one step before it is
\* delivered.
Complete == data_size # c_invalid_packet_size /\ need_size = 0

Held == IF Complete THEN 1 ELSE 0

\* The packets on their way: the complete one in the parser, and those of which
\* bytes are still to be read.
Inbox ==
    [i \in 1 .. Held + Len(packets) + 1 - next |->
        IF i <= Held THEN m_incoming_packet_header_data
                     ELSE Bytes(next + i - 1 - Held)]

Fifo == INSTANCE PacketFifo WITH inbox <- Inbox, received <- delivered

\* Every step of the parser, of the stream and of the connection sends,
\* receives or loses whole packets, or changes nothing the endpoint sees.
ImplementsFifo == Fifo!Spec
=============================================================================
