--------------------------- MODULE Packets_proofs ---------------------------
(***************************************************************************)
(* What is in a packet, and packets in a stream.                           *)
(*                                                                         *)
(* The parser delivers whole packets in order, for every header size, every *)
(* set of body sizes and any number of packets, and implements PacketFifo. *)
(*                                                                         *)
(* A message is measured, written and read back without loss, for every    *)
(* number of values of a byte, every width of a length and every message,  *)
(* whatever its items are.                                                 *)
(***************************************************************************)
EXTENDS PacketParserFifo, DataStream, WellFoundedInduction, TLAPS

-----------------------------------------------------------------------------
(* Buffers.                                                                *)

\* Filling a part of a buffer keeps its length and the other bytes.
LEMMA FillType ==
    ASSUME NEW b \in Buffer, NEW offset \in Nat, NEW n \in Nat, consumed \in Nat
    PROVE  /\ Fill(b, offset, n) \in Buffer
           /\ Len(Fill(b, offset, n)) = Len(b)
           /\ DOMAIN Fill(b, offset, n) = 1 .. Len(b)
           /\ \A i \in 1 .. Len(b) :
                 Fill(b, offset, n)[i] = IF i \in offset + 1 .. offset + n
                                         THEN consumed + i - offset ELSE b[i]
<1> DEFINE f == Fill(b, offset, n)
<1>1. DOMAIN b = 1 .. Len(b) /\ Len(b) \in Nat /\ \A i \in 1 .. Len(b) : b[i] \in Nat
  BY DEF Buffer
<1>2. /\ DOMAIN f = 1 .. Len(b)
      /\ \A i \in 1 .. Len(b) : f[i] = IF i \in offset + 1 .. offset + n
                                       THEN consumed + i - offset ELSE b[i]
  BY <1>1 DEF Fill
<1>3. \A i \in 1 .. Len(b) : f[i] \in Nat
  BY <1>1, <1>2
<1>4. f = [i \in 1 .. Len(b) |-> f[i]]
  BY <1>1 DEF Fill
<1>5. f \in Seq(Nat)
  BY <1>1, <1>3, <1>4
<1>6. QED
  BY <1>1, <1>2, <1>5 DEF Buffer

\* The buffer made for a packet starts with its header.
LEMMA NewBufferType ==
    ASSUME NEW h \in Buffer, Len(h) = HeaderSize, NEW size \in Nat
    PROVE  /\ NewBuffer(h, size) \in Buffer
           /\ Len(NewBuffer(h, size)) = HeaderSize + size
           /\ DOMAIN NewBuffer(h, size) = 1 .. HeaderSize + size
           /\ \A i \in 1 .. HeaderSize : NewBuffer(h, size)[i] = h[i]
<1> DEFINE f == NewBuffer(h, size)
           n == HeaderSize + size
<1>1. HeaderSize \in Nat /\ n \in Nat
  BY ParserConstants
<1>2. \A i \in 1 .. HeaderSize : h[i] \in Nat
  BY DEF Buffer
<1>3. f = [i \in 1 .. n |-> IF i <= HeaderSize THEN h[i] ELSE 0]
  BY DEF NewBuffer
<1> HIDE DEF f, n
<1>4. \A i \in 1 .. n : (IF i <= HeaderSize THEN h[i] ELSE 0) \in Nat
  BY <1>1, <1>2
<1>5. f \in [1 .. n -> Nat]
  BY <1>3, <1>4
<1>6. f \in Seq(Nat) /\ Len(f) = n
  BY <1>1, <1>5
<1>7. \A i \in 1 .. HeaderSize : i \in 1 .. n /\ i <= HeaderSize
  BY <1>1 DEF n
<1>8. \A i \in 1 .. HeaderSize : f[i] = h[i]
  BY <1>3, <1>7
<1>9. QED
  BY <1>5, <1>6, <1>8 DEF Buffer, f, n

\* An element of a sequence belongs to the set it is a sequence over.
LEMMA ElementOf ==
    ASSUME NEW S, NEW s \in Seq(S), NEW k \in 1 .. Len(s)
    PROVE  s[k] \in S
OBVIOUS

\* The decoded size is that of a packet, or some size.
LEMMA SizeAtType ==
    ASSUME TypeOK, NEW b
    PROVE  SizeAt(b) \subseteq BodySize
<1>0. packets \in Seq([start : Nat, size : BodySize])
  BY DEF TypeOK
<1>1. \A k \in 1 .. Len(packets) : packets[k].size \in BodySize
  <2>1. TAKE k \in 1 .. Len(packets)
  <2>2. packets[k] \in [start : Nat, size : BodySize]
    BY <1>0, ElementOf
  <2>3. QED
    BY <2>2
<1>2. CASE \E k \in 1 .. Len(packets) : packets[k].start + 1 = b
  <2>1. SizeAt(b) = {packets[k].size :
                        k \in {j \in 1 .. Len(packets) : packets[j].start + 1 = b}}
    BY <1>2 DEF SizeAt
  <2>2. QED
    BY <1>1, <2>1
<1>3. CASE ~\E k \in 1 .. Len(packets) : packets[k].start + 1 = b
  BY <1>3 DEF SizeAt
<1>4. QED
  BY <1>2, <1>3

-----------------------------------------------------------------------------
(* Types.                                                                  *)

\* Delivering a packet resets the parser to a state of the right types.
LEMMA DeliverTypes ==
    ASSUME TypeOK, NEW p \in Buffer, Deliver(p), read_size' \in Nat
    PROVE  /\ data_size' = c_invalid_packet_size /\ need_size' \in 1 .. HeaderSize
           /\ need_size' \in Nat
           /\ raw_header_buffer' \in Buffer /\ Len(raw_header_buffer') = HeaderSize
           /\ m_incoming_packet_header_data' \in Buffer
           /\ pc' = "idle" /\ result' = "packet"
           /\ delivered' \in Seq(Buffer)
<1>1. EmptyHeader \in Seq(Nat) /\ Len(EmptyHeader) = HeaderSize
  BY ParserConstants DEF EmptyHeader
<1>2. <<>> \in Seq(Nat)
  OBVIOUS
<1>3. QED
  BY <1>1, <1>2, ParserConstants DEF Deliver, TypeOK, Buffer, NoBytes

\* Every step keeps the types: one case for each action.
LEMMA TypeStep == TypeOK /\ [Next]_vars => TypeOK'
<1> SUFFICES ASSUME TypeOK, [Next]_vars PROVE TypeOK'
  OBVIOUS
<1> USE ParserConstants DEF c_invalid_packet_size
<1>1. CASE \/ UNCHANGED vars \/ ReadExpired \/ Call \/ WaitRespondFails
           \/ \E enough \in BOOLEAN : WaitRespond(enough)
           \/ AssignConnection \/ CancelWaitRespond \/ Expire
  <2> USE DEF TypeOK, stream_vars, link_vars, parser_vars, call_vars, history_vars
  <2>1. CASE UNCHANGED vars
    BY <2>1 DEF vars
  <2>2. CASE ReadExpired \/ WaitRespondFails
    BY <2>2 DEF ReadExpired, WaitRespondFails
  <2>3. ASSUME NEW wait \in BOOLEAN, Read(wait) PROVE TypeOK'
    BY <2>3 DEF Read, FirstPart
  <2>4. ASSUME NEW enough \in BOOLEAN, WaitRespond(enough) PROVE TypeOK'
    BY <2>4 DEF WaitRespond, FirstPart
  <2>5. CASE AssignConnection
    BY <2>5 DEF AssignConnection
  <2>6. CASE CancelWaitRespond
    BY <2>6 DEF CancelWaitRespond
  <2>7. CASE Expire
    BY <2>7 DEF Expire
  <2> HIDE DEF TypeOK
  <2>8. QED
    BY <1>1, <2>1, <2>2, <2>3, <2>4, <2>5, <2>6, <2>7 DEF Call
<1>2. CASE Arrive \/ OnDisconnected \/ ReadFails
  <2>1. CASE Arrive
    BY <2>1 DEF Arrive, TypeOK, link_vars, parser_vars, call_vars, history_vars
  <2>2. CASE OnDisconnected
    <3>1. next' \in Nat \ {0}
      BY <2>2 DEF OnDisconnected, TypeOK
    <3>2. torn' \in BOOLEAN
      BY <2>2 DEF OnDisconnected, TypeOK, Midway
    <3>3. /\ UNCHANGED <<packets, written, cancel_wait_respond, expired,
                          parser_vars, call_vars, delivered>>
          /\ connected' = FALSE /\ arrived' = written /\ consumed' = written
      BY <2>2 DEF OnDisconnected
    <3>4. connected' \in BOOLEAN
      BY <3>3
    <3>5. written \in Nat
      BY DEF TypeOK
    <3>6. arrived' \in 0 .. written' /\ consumed' \in 0 .. arrived'
      BY <3>3, <3>5
    <3>7. QED
      BY <3>1, <3>2, <3>3, <3>4, <3>6 DEF TypeOK, parser_vars, call_vars
  <2>3. CASE ReadFails
    <3>1. torn' \in BOOLEAN
      BY <2>3 DEF ReadFails, TypeOK
    <3>2. QED
      BY <2>3, <3>1 DEF ReadFails, TypeOK, parser_vars, link_vars, Available
  <2>4. QED
    BY <1>2, <2>1, <2>2, <2>3
<1>3. ASSUME NEW size \in BodySize, Write(size) PROVE TypeOK'
  <2>1. packets' \in Seq([start : Nat, size : BodySize])
    BY <1>3 DEF Write, TypeOK
  <2>2. written' \in Nat /\ arrived \in 0 .. written'
    BY <1>3 DEF Write, TypeOK
  <2>3. QED
    BY <1>3, <2>1, <2>2 DEF Write, TypeOK, link_vars, parser_vars, call_vars,
       history_vars
<1>4. CASE HeaderAvailable
  BY <1>4 DEF HeaderAvailable, TypeOK, Least, Available, NoPacketYet,
     stream_vars, link_vars, parser_vars, history_vars
<1>5. CASE ReadHeader_Part
  <2>1. read_size \in 1 .. need_size /\ need_size \in 1 .. HeaderSize
    BY <1>5 DEF ReadHeader_Part, TypeOK
  <2>2. ReadOffset(HeaderSize) \in Nat
    BY <2>1 DEF ReadOffset
  <2>3. raw_header_buffer' \in Buffer /\ Len(raw_header_buffer') = HeaderSize
    BY <1>5, <2>1, <2>2, FillType DEF ReadHeader_Part, TypeOK
  <2>4. QED
    BY <1>5, <2>1, <2>3 DEF ReadHeader_Part, TypeOK, Available, NoPacketYet,
       link_vars, history_vars
<1>6. CASE ReadHeader_Whole
  <2> DEFINE header == Fill(raw_header_buffer, ReadOffset(HeaderSize), read_size)
  <2>1. read_size \in 1 .. need_size /\ need_size \in 1 .. HeaderSize
    BY <1>6 DEF ReadHeader_Whole, TypeOK
  <2>2. ReadOffset(HeaderSize) \in Nat
    BY <2>1 DEF ReadOffset
  <2>3. header \in Buffer /\ Len(header) = HeaderSize
    BY <2>1, <2>2, FillType DEF TypeOK
  <2>4. PICK size \in SizeAt(header[1]) :
            /\ data_size' = size /\ need_size' = size
            /\ m_incoming_packet_header_data' = NewBuffer(header, size)
            /\ next' = IF size = 0 THEN next + 1 ELSE next
    BY <1>6 DEF ReadHeader_Whole, BodyNeed
  <2>5. size \in BodySize /\ size \in Nat
    BY <2>4, SizeAtType
  <2> HIDE DEF header
  <2>6. /\ m_incoming_packet_header_data' \in Buffer
        /\ Len(m_incoming_packet_header_data') = HeaderSize + size
    BY <2>3, <2>4, <2>5, NewBufferType
  <2>7. raw_header_buffer' = header /\ next' \in Nat \ {0}
    BY <1>6, <2>4 DEF ReadHeader_Whole, TypeOK, header
  <2>8. QED
    BY <1>6, <2>1, <2>3, <2>4, <2>5, <2>6, <2>7
    DEF ReadHeader_Whole, TypeOK, Available, link_vars
<1>7. CASE BodyAvailable
  <2>1. read_size' \in Nat
    BY <1>7 DEF BodyAvailable, TypeOK, Least, Available
  <2>2. CASE IsComplete /\ Deliver(m_incoming_packet_header_data)
    <3>1. m_incoming_packet_header_data \in Buffer
      BY DEF TypeOK
    <3>2. QED
      BY <1>7, <2>1, <2>2, <3>1, DeliverTypes
      DEF BodyAvailable, TypeOK, stream_vars, link_vars
  <2>3. CASE ~IsComplete
    BY <1>7, <2>3 DEF BodyAvailable, TypeOK, Least, Available, NoPacketYet,
       IsComplete, stream_vars, link_vars, parser_vars
  <2>4. QED
    BY <1>7, <2>2, <2>3 DEF BodyAvailable, IsComplete
<1>8. CASE ReadBody
  <2> DEFINE buffer == Fill(m_incoming_packet_header_data,
                            HeaderSize + ReadOffset(data_size), read_size)
  <2>1. /\ read_size \in 1 .. need_size /\ need_size <= data_size
        /\ data_size \in BodySize
    BY <1>8 DEF ReadBody, TypeOK
  <2>2. HeaderSize + ReadOffset(data_size) \in Nat
    BY <2>1 DEF ReadOffset, TypeOK
  <2>3. /\ buffer \in Buffer
        /\ Len(buffer) = Len(m_incoming_packet_header_data)
    BY <2>1, <2>2, FillType DEF TypeOK
  <2> HIDE DEF buffer
  <2>4. CASE read_size = need_size
    <3>1. Deliver(buffer) /\ next' = next + 1 /\ read_size' \in Nat
      BY <1>8, <2>4 DEF ReadBody, buffer
    <3>2. QED
      BY <1>8, <2>1, <2>3, <3>1, DeliverTypes
      DEF ReadBody, TypeOK, Available, link_vars
  <2>5. CASE read_size # need_size
    <3>1. m_incoming_packet_header_data' = buffer
      BY <1>8, <2>5 DEF ReadBody, buffer
    <3>2. QED
      BY <1>8, <2>1, <2>3, <2>5, <3>1
      DEF ReadBody, TypeOK, Available, NoPacketYet, link_vars
  <2>6. QED
    BY <2>4, <2>5
<1>9. QED
  BY <1>1, <1>2, <1>3, <1>4, <1>5, <1>6, <1>7, <1>8 DEF Next, ReadStep

\* The types hold when the proxy is created.
LEMMA TypeInit == Init => TypeOK
<1>1. EmptyHeader \in Seq(Nat) /\ Len(EmptyHeader) = HeaderSize
  BY ParserConstants DEF EmptyHeader
<1>2. <<>> \in Seq(Nat) /\ <<>> \in Seq(Seq(Nat))
      /\ <<>> \in Seq([start : Nat, size : BodySize])
  OBVIOUS
<1> SUFFICES ASSUME Init PROVE TypeOK
  OBVIOUS
<1>3. /\ packets \in Seq([start : Nat, size : BodySize])
      /\ delivered \in Seq(Buffer)
      /\ m_incoming_packet_header_data \in Buffer
      /\ raw_header_buffer \in Buffer /\ Len(raw_header_buffer) = HeaderSize
  BY <1>1, <1>2 DEF Init, Buffer, NoBytes
<1>4. /\ written \in Nat /\ arrived \in 0 .. written /\ consumed \in 0 .. arrived
      /\ need_size \in 1 .. HeaderSize /\ read_size \in Nat
      /\ next \in Nat \ {0}
  BY ParserConstants DEF Init
<1>5. /\ connected \in BOOLEAN /\ cancel_wait_respond \in BOOLEAN
      /\ expired \in BOOLEAN
      /\ wait_incoming_packet \in BOOLEAN /\ waited \in BOOLEAN
      /\ torn \in BOOLEAN
  BY DEF Init
<1>6. /\ data_size = c_invalid_packet_size /\ pc = "idle" /\ result = "none"
  BY DEF Init
<1>7. QED
  BY <1>3, <1>4, <1>5, <1>6 DEF TypeOK

\* The parser's state stays well formed: in particular a read never asks for
\* more than is missing of the header or of the body, so it never writes past
\* the end of a buffer.
THEOREM ParserTypes == Spec => []TypeOK
BY TypeInit, TypeStep, PTL DEF Spec

-----------------------------------------------------------------------------
(* Reassembly: what the parser holds is the beginning of packet number     *)
(* next, and the stream continues with the rest of it.                     *)

\* Where packet n starts: the next one to be written starts after the others.
Start(n) == IF n <= Len(packets) THEN packets[n].start ELSE written

\* The packets lie one behind the other in the stream.
StreamInv ==
    /\ \A j, k \in 1 .. Len(packets) : j < k => End(j) <= packets[k].start
    /\ \A k \in 1 .. Len(packets) : End(k) = Start(k + 1)
    /\ \A k \in 1 .. Len(packets) : End(k) <= written

\* While the header is received.
InHeader ==
    data_size = c_invalid_packet_size =>
        /\ consumed = Start(next) + HeaderSize - need_size
        /\ \A i \in 1 .. HeaderSize - need_size : raw_header_buffer[i] = Start(next) + i

\* While the body is received.
InBody ==
    data_size # c_invalid_packet_size /\ need_size > 0 =>
        /\ next <= Len(packets)
        /\ data_size = packets[next].size
        /\ consumed = End(next) - need_size
        /\ \A i \in 1 .. HeaderSize + data_size - need_size :
              m_incoming_packet_header_data[i] = packets[next].start + i

\* A packet without body is complete, and not delivered yet.
HoldsPacket ==
    data_size # c_invalid_packet_size /\ need_size = 0 =>
        /\ consumed = Start(next)
        /\ \E k \in 1 .. Len(packets) :
              k < next /\ m_incoming_packet_header_data = Bytes(k)
        /\ \A j \in 1 .. Len(delivered) :
              delivered[j][1] < m_incoming_packet_header_data[1]

Reassembly ==
    ~torn => /\ next \in 1 .. Len(packets) + 1
             /\ InHeader /\ InBody /\ HoldsPacket

Inv == TypeOK /\ StreamInv /\ Reassembly /\ WholePackets

\* The fields of a packet, and its last byte.
LEMMA PacketFields ==
    ASSUME TypeOK, NEW k \in 1 .. Len(packets)
    PROVE  /\ packets[k].start \in Nat /\ packets[k].size \in Nat
           /\ packets[k].size \in BodySize
           /\ End(k) = packets[k].start + HeaderSize + packets[k].size
           /\ HeaderSize \in Nat /\ HeaderSize > 0 /\ End(k) \in Nat
           /\ k \in Nat /\ Len(packets) \in Nat
<1>1. packets \in Seq([start : Nat, size : BodySize])
  BY DEF TypeOK
<1>2. packets[k] \in [start : Nat, size : BodySize]
  BY <1>1, ElementOf
<1>3. packets[k].start \in Nat /\ packets[k].size \in BodySize
  BY <1>2
<1>4. Len(packets) \in Nat
  BY <1>1
<1>5. packets[k].size \in Nat /\ HeaderSize \in Nat /\ HeaderSize > 0
  <2>1. BodySize \subseteq Nat /\ HeaderSize \in Nat \ {0}
    BY ParserConstants
  <2>2. packets[k].size \in Nat
    BY <1>3, <2>1
  <2>3. HeaderSize \in Nat /\ HeaderSize > 0
    BY <2>1
  <2>4. QED
    BY <2>2, <2>3
<1>6. End(k) = packets[k].start + HeaderSize + packets[k].size
  BY DEF End
<1>7. End(k) \in Nat
  BY <1>3, <1>5, <1>6
<1>8. k \in Nat
  BY <1>4
<1>9. QED
  BY <1>3, <1>4, <1>5, <1>6, <1>7, <1>8

\* Write puts its packet behind the others.
LEMMA StreamWrite ==
    ASSUME TypeOK, StreamInv, NEW size \in BodySize, Write(size)
    PROVE  /\ StreamInv'
           /\ Len(packets') = Len(packets) + 1
           /\ \A k \in 1 .. Len(packets) :
                 /\ packets'[k] = packets[k]
                 /\ Bytes(k)' = Bytes(k) /\ End(k)' = End(k)
           /\ \A n \in 1 .. Len(packets) + 1 : Start(n)' = Start(n)
           /\ packets'[Len(packets) + 1] = [start |-> written, size |-> size]
<1> DEFINE new == [start |-> written, size |-> size]
<1>0. PICK n \in Nat : n = Len(packets)
  BY DEF TypeOK
<1>1. /\ packets \in Seq([start : Nat, size : BodySize]) /\ new \in [start : Nat, size : BodySize]
      /\ written \in Nat /\ size \in Nat /\ n \in Nat /\ HeaderSize \in Nat \ {0}
      /\ n = Len(packets)
  BY <1>0, ParserConstants DEF TypeOK
<1>2. packets' = Append(packets, new) /\ written' = written + HeaderSize + size
  BY DEF Write
<1> HIDE DEF new
<1>3. /\ Len(packets') = n + 1 /\ packets'[n + 1] = new
      /\ \A k \in 1 .. n : packets'[k] = packets[k]
  BY <1>1, <1>2
<1>4. new.start = written /\ new.size = size
  BY DEF new
<1>5. \A k \in 1 .. n : /\ packets[k].start \in Nat /\ packets[k].size \in Nat
                        /\ End(k) = packets[k].start + HeaderSize + packets[k].size
                        /\ End(k) <= written /\ End(k) = Start(k + 1)
  BY <1>0, PacketFields DEF StreamInv
<1>6. \A k \in 1 .. n : Bytes(k)' = Bytes(k) /\ End(k)' = End(k)
  BY <1>3 DEF Bytes, End
<1>7. End(n + 1)' = written'
  BY <1>1, <1>2, <1>3, <1>4 DEF End
<1>8. \A k \in 1 .. n : Start(k)' = Start(k)
  BY <1>1, <1>3 DEF Start
<1>9. Start(n + 1)' = Start(n + 1) /\ Start(n + 2)' = written'
  BY <1>1, <1>3, <1>4 DEF Start
<1>10. \A m \in 1 .. n + 1 : Start(m)' = Start(m)
  BY <1>1, <1>8, <1>9
<1>11. \A j, k \in 1 .. n + 1 : j < k => End(j)' <= packets'[k].start
  <2> TAKE j, k \in 1 .. n + 1
  <2> HAVE j < k
  <2>1. j \in 1 .. n /\ (k \in 1 .. n \/ k = n + 1)
    BY <1>1
  <2>2. QED
    BY <2>1, <1>1, <1>3, <1>4, <1>5, <1>6 DEF StreamInv
<1>12. \A k \in 1 .. n + 1 : End(k)' = Start(k + 1)' /\ End(k)' <= written'
  <2> TAKE k \in 1 .. n + 1
  <2>1. CASE k = n + 1
    BY <2>1, <1>1, <1>2, <1>7, <1>9
  <2>2. CASE k \in 1 .. n
    <3>1. k + 1 \in 1 .. n + 1
      BY <2>2, <1>1
    <3>2. End(k) = Start(k + 1) /\ End(k) <= written
      BY <2>2, <1>5
    <3>3. End(k) \in Nat
      BY <2>2, <1>0, PacketFields
    <3>4. QED
      BY <2>2, <3>1, <3>2, <3>3, <1>1, <1>2, <1>6, <1>10
  <2>3. QED
    BY <2>1, <2>2, <1>1
<1>13. StreamInv'
  BY <1>1, <1>3, <1>11, <1>12 DEF StreamInv
<1>14. QED
  BY <1>1, <1>3, <1>6, <1>10, <1>13 DEF new

\* A packet ends after its first byte.
LEMMA Disjoint ==
    ASSUME NEW start \in Nat, NEW size \in Nat, NEW header \in Nat, header > 0,
           NEW other \in Nat, start + header + size <= other
    PROVE  start + 1 < other + 1 /\ start + 1 # other + 1
OBVIOUS

\* No two packets start with the same byte, so the first byte of a packet gives
\* its size.
LEMMA SizeAtStart ==
    ASSUME TypeOK, StreamInv, NEW n \in 1 .. Len(packets)
    PROVE  SizeAt(packets[n].start + 1) = {packets[n].size}
<1>1. \A k \in 1 .. Len(packets) : packets[k].start + 1 = packets[n].start + 1 => k = n
  <2> TAKE k \in 1 .. Len(packets)
  <2> HAVE packets[k].start + 1 = packets[n].start + 1
  <2>1. /\ packets[k].start \in Nat /\ packets[k].size \in Nat /\ k \in Nat
        /\ End(k) = packets[k].start + HeaderSize + packets[k].size
    BY PacketFields
  <2>2. /\ packets[n].start \in Nat /\ packets[n].size \in Nat /\ n \in Nat
        /\ End(n) = packets[n].start + HeaderSize + packets[n].size
        /\ HeaderSize \in Nat /\ HeaderSize > 0
    BY PacketFields
  <2>3. ~(k < n)
    <3>1. k < n => End(k) <= packets[n].start
      BY DEF StreamInv
    <3>2. QED
      BY <3>1, <2>1, <2>2, Disjoint
  <2>4. ~(n < k)
    <3>1. n < k => End(n) <= packets[k].start
      BY DEF StreamInv
    <3>2. QED
      BY <3>1, <2>1, <2>2, Disjoint
  <2>5. QED
    BY <2>1, <2>2, <2>3, <2>4
<1>2. {j \in 1 .. Len(packets) : packets[j].start + 1 = packets[n].start + 1} = {n}
  BY <1>1
<1>3. QED
  BY <1>2 DEF SizeAt

\* A buffer with the bytes of a packet is that packet.
LEMMA BytesEqual ==
    ASSUME TypeOK, NEW n \in 1 .. Len(packets), NEW b \in Buffer,
           Len(b) = HeaderSize + packets[n].size,
           \A i \in 1 .. Len(b) : b[i] = packets[n].start + i
    PROVE  b = Bytes(n)
<1>1. b = [i \in 1 .. Len(b) |-> b[i]]
  BY DEF Buffer
<1>2. [i \in 1 .. Len(b) |-> b[i]] = [i \in 1 .. Len(b) |-> packets[n].start + i]
  OBVIOUS
<1>3. QED
  BY <1>1, <1>2 DEF Bytes

\* The first byte of a packet.
LEMMA FirstByte ==
    ASSUME TypeOK, NEW k \in 1 .. Len(packets)
    PROVE  Bytes(k)[1] = packets[k].start + 1
<1>1. 1 \in 1 .. HeaderSize + packets[k].size
  BY PacketFields
<1>2. QED
  BY <1>1 DEF Bytes

\* What was delivered was written before the packet being received.
LEMMA DeliveredBefore ==
    ASSUME Inv, ~torn, next \in 1 .. Len(packets)
    PROVE  \A j \in 1 .. Len(delivered) : delivered[j][1] < packets[next].start + 1
<1> TAKE j \in 1 .. Len(delivered)
<1>1. PICK k \in 1 .. Len(packets) : delivered[j] = Bytes(k) /\ k < next
  BY DEF Inv, WholePackets
<1>2. TypeOK
  BY DEF Inv
<1>3. End(k) <= packets[next].start
  BY <1>1 DEF Inv, StreamInv
<1>4. delivered[j][1] = packets[k].start + 1
  BY <1>1, <1>2, FirstByte
<1>5. /\ packets[k].start \in Nat /\ packets[k].size \in Nat
      /\ End(k) = packets[k].start + HeaderSize + packets[k].size
      /\ HeaderSize \in Nat /\ HeaderSize > 0
  BY <1>2, PacketFields
<1>6. packets[next].start \in Nat
  BY <1>2, PacketFields
<1>7. QED
  BY <1>3, <1>4, <1>5, <1>6, Disjoint

\* The header grows by the bytes that follow in the packet.
LEMMA HeaderBytes ==
    ASSUME Inv, ~torn, pc = "read_header", Available >= read_size,
           NEW header, header = Fill(raw_header_buffer, ReadOffset(HeaderSize), read_size)
    PROVE  /\ next \in 1 .. Len(packets) /\ Start(next) = packets[next].start
           /\ consumed = packets[next].start + HeaderSize - need_size
           /\ \A i \in 1 .. HeaderSize - need_size + read_size :
                 header[i] = packets[next].start + i
<1>1. /\ data_size = c_invalid_packet_size
      /\ need_size \in 1 .. HeaderSize /\ read_size \in 1 .. need_size
      /\ HeaderSize \in Nat
      /\ written \in Nat /\ arrived \in 0 .. written /\ consumed \in 0 .. arrived
      /\ raw_header_buffer \in Buffer /\ Len(raw_header_buffer) = HeaderSize
  BY ParserConstants DEF Inv, TypeOK
<1>2. /\ consumed = Start(next) + HeaderSize - need_size
      /\ \A i \in 1 .. HeaderSize - need_size : raw_header_buffer[i] = Start(next) + i
      /\ next \in 1 .. Len(packets) + 1
  BY <1>1 DEF Inv, Reassembly, InHeader
<1>3. consumed + read_size <= written
  BY <1>1 DEF Available
<1>4. Len(packets) \in Nat /\ TypeOK
  BY DEF Inv, TypeOK
<1>5. next \in 1 .. Len(packets)
  <2>1. SUFFICES ASSUME next = Len(packets) + 1 PROVE FALSE
    BY <1>2, <1>4
  <2>2. Start(next) = written
    BY <2>1, <1>4 DEF Start
  <2>3. QED
    BY <2>2, <1>1, <1>2, <1>3
<1>6. Start(next) = packets[next].start
  BY <1>5 DEF Start
<1>7. packets[next].start \in Nat
  BY <1>4, <1>5, PacketFields
<1>8. ReadOffset(HeaderSize) = HeaderSize - need_size /\ ReadOffset(HeaderSize) \in Nat
  BY <1>1 DEF ReadOffset
<1>9. \A i \in 1 .. HeaderSize :
         header[i] = IF i \in HeaderSize - need_size + 1 .. HeaderSize - need_size + read_size
                     THEN consumed + i - (HeaderSize - need_size) ELSE raw_header_buffer[i]
  BY <1>1, <1>8, FillType
<1>10. ASSUME NEW i \in 1 .. HeaderSize - need_size + read_size
       PROVE  header[i] = packets[next].start + i
  <2>1. i \in 1 .. HeaderSize
    BY <1>1
  <2>2. CASE i \in 1 .. HeaderSize - need_size
    BY <2>1, <2>2, <1>1, <1>2, <1>6, <1>9
  <2>3. CASE i \in HeaderSize - need_size + 1 .. HeaderSize - need_size + read_size
    BY <2>1, <2>3, <1>1, <1>2, <1>6, <1>7, <1>9
  <2>4. QED
    BY <2>2, <2>3, <1>1
<1>11. QED
  BY <1>2, <1>5, <1>6, <1>10

\* The packet's buffer grows by the bytes that follow in the packet.
LEMMA BodyBytes ==
    ASSUME Inv, ~torn, pc = "read_body",
           NEW buffer, buffer = Fill(m_incoming_packet_header_data,
                                     HeaderSize + ReadOffset(data_size), read_size)
    PROVE  /\ next \in 1 .. Len(packets) /\ data_size = packets[next].size
           /\ consumed = End(next) - need_size
           /\ \A i \in 1 .. HeaderSize + data_size - need_size + read_size :
                 buffer[i] = packets[next].start + i
           /\ read_size = need_size => buffer = Bytes(next)
<1>1. /\ data_size # c_invalid_packet_size /\ data_size \in Nat
      /\ need_size \in Nat /\ need_size <= data_size /\ read_size \in 1 .. need_size
      /\ HeaderSize \in Nat /\ consumed \in Nat
      /\ m_incoming_packet_header_data \in Buffer
      /\ Len(m_incoming_packet_header_data) = HeaderSize + data_size
  BY ParserConstants DEF Inv, TypeOK
<1>2. TypeOK /\ next \in 1 .. Len(packets) + 1 /\ Len(packets) \in Nat
  BY DEF Inv, Reassembly, TypeOK
<1>3. /\ next <= Len(packets)
      /\ data_size = packets[next].size
      /\ consumed = End(next) - need_size
      /\ \A i \in 1 .. HeaderSize + data_size - need_size :
            m_incoming_packet_header_data[i] = packets[next].start + i
  BY <1>1 DEF Inv, Reassembly, InBody
<1>4. next \in 1 .. Len(packets)
  BY <1>2, <1>3
<1>5. /\ packets[next].start \in Nat
      /\ End(next) = packets[next].start + HeaderSize + data_size
  BY <1>2, <1>3, <1>4, PacketFields
<1> DEFINE offset == HeaderSize + data_size - need_size
<1>6. HeaderSize + ReadOffset(data_size) = offset /\ offset \in Nat
  BY <1>1 DEF ReadOffset
<1> HIDE DEF offset
<1>7. /\ buffer \in Buffer /\ Len(buffer) = HeaderSize + data_size
      /\ \A i \in 1 .. HeaderSize + data_size :
           buffer[i] = IF i \in offset + 1 .. offset + read_size
                       THEN consumed + i - offset ELSE m_incoming_packet_header_data[i]
  BY <1>1, <1>6, FillType
<1>8. ASSUME NEW i \in 1 .. offset + read_size
      PROVE  buffer[i] = packets[next].start + i
  <2>1. i \in 1 .. HeaderSize + data_size
    BY <1>1 DEF offset
  <2>2. CASE i \in 1 .. offset
    <3>1. buffer[i] = m_incoming_packet_header_data[i]
      BY <2>1, <2>2, <1>6, <1>7
    <3>2. m_incoming_packet_header_data[i] = packets[next].start + i
      BY <2>2, <1>3 DEF offset
    <3>3. QED
      BY <3>1, <3>2
  <2>3. CASE i \in offset + 1 .. offset + read_size
    <3>1. buffer[i] = consumed + i - offset
      BY <2>1, <2>3, <1>7
    <3>2. consumed = packets[next].start + offset
      <4>1. consumed = End(next) - need_size
        BY <1>3
      <4>2. QED
        BY <4>1, <1>1, <1>5 DEF offset
    <3>3. QED
      BY <3>1, <3>2, <1>5, <1>6
  <2>4. QED
    BY <2>2, <2>3, <1>1, <1>6
<1>9. ASSUME read_size = need_size PROVE buffer = Bytes(next)
  <2>1. \A i \in 1 .. Len(buffer) : buffer[i] = packets[next].start + i
    <3>1. offset + read_size = HeaderSize + data_size
      BY <1>1, <1>9 DEF offset
    <3>2. 1 .. Len(buffer) = 1 .. offset + read_size
      BY <1>7, <3>1
    <3>3. QED
      BY <1>8, <3>2
  <2>2. QED
    BY <2>1, <1>2, <1>3, <1>4, <1>7, BytesEqual
<1>10. QED
  BY <1>3, <1>4, <1>8, <1>9 DEF offset

-----------------------------------------------------------------------------
(* The invariant holds initially and is kept by every step.                *)

\* The invariant holds when the proxy is created.
LEMMA InvInit == Init => Inv
<1> SUFFICES ASSUME Init PROVE Inv
  OBVIOUS
<1>1. TypeOK
  BY TypeInit
<1>2. /\ Len(packets) = 0 /\ Len(delivered) = 0 /\ written = 0 /\ consumed = 0
      /\ next = 1 /\ data_size = c_invalid_packet_size /\ need_size = HeaderSize
      /\ HeaderSize \in Nat
  BY ParserConstants DEF Init
<1>3. StreamInv /\ WholePackets
  BY <1>2 DEF StreamInv, WholePackets
<1>4. Start(next) = 0
  BY <1>2 DEF Start
<1>5. Reassembly
  BY <1>2, <1>4 DEF Reassembly, InHeader, InBody, HoldsPacket
<1>6. QED
  BY <1>1, <1>3, <1>5 DEF Inv

\* Steps that change nothing of what the parser holds.
LEMMA FrameStep ==
    ASSUME Inv, TypeOK',
           UNCHANGED <<packets, written, consumed, parser_vars, history_vars>>
    PROVE  Inv'
<1> USE DEF parser_vars, history_vars
<1>1. StreamInv'
  BY DEF Inv, StreamInv, Start, End
<1>2. WholePackets'
  BY DEF Inv, WholePackets, Bytes
<1>3. Reassembly'
  BY DEF Inv, Reassembly, InHeader, InBody, HoldsPacket, Start, End, Bytes
<1>4. QED
  BY <1>1, <1>2, <1>3 DEF Inv

\* Once bytes were lost within a packet nothing more is claimed.
LEMMA TornStep ==
    ASSUME Inv, TypeOK', UNCHANGED <<packets, written>>, torn'
    PROVE  Inv'
BY DEF Inv, StreamInv, Start, End, WholePackets, Reassembly

\* Writing a packet keeps the invariant: the packets still lie one behind the
\* other.
LEMMA WriteStep ==
    ASSUME Inv, TypeOK', NEW size \in BodySize, Write(size)
    PROVE  Inv'
<1> USE DEF parser_vars, history_vars
<1>1. TypeOK /\ StreamInv /\ Len(packets) \in Nat /\ next \in Nat
  BY DEF Inv, TypeOK
<1>2. /\ StreamInv'
      /\ Len(packets') = Len(packets) + 1
      /\ \A k \in 1 .. Len(packets) :
            packets'[k] = packets[k] /\ Bytes(k)' = Bytes(k) /\ End(k)' = End(k)
      /\ \A n \in 1 .. Len(packets) + 1 : Start(n)' = Start(n)
  BY <1>1, StreamWrite
<1>3. UNCHANGED <<consumed, parser_vars, history_vars>>
  BY DEF Write
<1>4. CASE torn
  BY <1>2, <1>3, <1>4 DEF Inv, Reassembly, WholePackets
<1>5. CASE ~torn
  <2>1. \A k \in 1 .. Len(packets) : k \in 1 .. Len(packets')
    BY <1>1, <1>2
  <2>2. WholePackets'
    <3>1. ASSUME NEW j \in 1 .. Len(delivered')
          PROVE  \E k \in 1 .. Len(packets') : delivered'[j] = Bytes(k)' /\ k < next'
      <4>1. PICK k \in 1 .. Len(packets) : delivered[j] = Bytes(k) /\ k < next
        BY <1>3, <1>5, <3>1 DEF Inv, WholePackets
      <4>2. QED
        BY <4>1, <1>2, <1>3, <2>1
    <3>2. \A i, j \in 1 .. Len(delivered') :
             i < j => delivered'[i][1] < delivered'[j][1]
      BY <1>3, <1>5 DEF Inv, WholePackets
    <3>3. QED
      BY <3>1, <3>2 DEF WholePackets
  <2>3. next \in 1 .. Len(packets) + 1 /\ InHeader /\ InBody /\ HoldsPacket
    BY <1>5 DEF Inv, Reassembly
  <2>4. Start(next)' = Start(next)
    BY <1>2, <1>3, <2>3
  <2>5. next' \in 1 .. Len(packets') + 1
    BY <1>1, <1>2, <1>3, <2>3
  <2>6. InHeader'
    BY <1>3, <2>3, <2>4 DEF InHeader
  <2>7. InBody'
    <3>1. SUFFICES ASSUME data_size # c_invalid_packet_size, need_size > 0
                   PROVE  InBody'
      BY <1>3 DEF InBody
    <3>2. next \in 1 .. Len(packets)
      BY <1>1, <2>3, <3>1 DEF InBody
    <3>3. packets'[next'] = packets[next] /\ End(next)' = End(next)
      BY <1>2, <1>3, <3>2
    <3>4. QED
      BY <1>1, <1>2, <1>3, <2>3, <3>2, <3>3 DEF InBody
  <2>8. HoldsPacket'
    <3>1. SUFFICES ASSUME data_size # c_invalid_packet_size, need_size = 0
                   PROVE  HoldsPacket'
      BY <1>3 DEF HoldsPacket
    <3>2. PICK k \in 1 .. Len(packets) :
              k < next /\ m_incoming_packet_header_data = Bytes(k)
      BY <2>3, <3>1 DEF HoldsPacket
    <3>3. k \in 1 .. Len(packets') /\ Bytes(k)' = Bytes(k)
      BY <1>2, <2>1
    <3>4. QED
      BY <1>3, <2>3, <2>4, <3>2, <3>3 DEF HoldsPacket
  <2>9. QED
    BY <1>2, <2>2, <2>5, <2>6, <2>7, <2>8 DEF Inv, Reassembly
<1>6. QED
  BY <1>4, <1>5

\* A lost connection keeps the invariant, or tears a packet.
LEMMA LossStep ==
    ASSUME Inv, TypeOK', OnDisconnected \/ ReadFails
    PROVE  Inv'
<1> USE DEF parser_vars
<1>1. UNCHANGED <<packets, written, parser_vars, delivered>>
  BY DEF OnDisconnected, ReadFails
<1>2. CASE torn'
  BY <1>1, <1>2, TornStep
<1>3. CASE ~torn' /\ ReadFails
  <2>1. consumed' = consumed
    <3>1. ~(Available > 0) /\ consumed' = arrived
      BY <1>3 DEF ReadFails
    <3>2. arrived \in Nat /\ consumed \in 0 .. arrived
      BY DEF Inv, TypeOK
    <3>3. QED
      BY <3>1, <3>2 DEF Available
  <2>2. torn' = torn
    BY <1>3 DEF ReadFails, Inv, TypeOK
  <2>3. next' = next
    BY <1>3 DEF ReadFails
  <2>4. QED
    BY <1>1, <2>1, <2>2, <2>3, FrameStep DEF history_vars
<1>4. CASE ~torn' /\ OnDisconnected
  <2>1. ~torn /\ ~Midway /\ consumed' = written /\ next' = Len(packets) + 1
    BY <1>4 DEF OnDisconnected
  <2>2. TypeOK /\ Len(packets) \in Nat /\ written \in Nat /\ HeaderSize \in Nat
    BY ParserConstants DEF Inv, TypeOK
  <2>3. Start(next)' = written
    BY <1>1, <2>1, <2>2 DEF Start
  <2>4. StreamInv'
    BY <1>1 DEF Inv, StreamInv, Start, End
  <2>5. InHeader' /\ InBody'
    BY <1>1, <2>1, <2>2, <2>3 DEF InHeader, InBody, Midway, TypeOK
  <2>6. HoldsPacket'
    <3>1. SUFFICES ASSUME data_size # c_invalid_packet_size, need_size = 0
                   PROVE  HoldsPacket'
      BY <1>1 DEF HoldsPacket
    <3>2. HoldsPacket
      BY <2>1 DEF Inv, Reassembly
    <3>3. PICK k \in 1 .. Len(packets) : m_incoming_packet_header_data = Bytes(k)
      BY <3>1, <3>2 DEF HoldsPacket
    <3>4. Bytes(k)' = Bytes(k) /\ k < next'
      BY <1>1, <2>1, <2>2 DEF Bytes
    <3>5. QED
      BY <1>1, <2>1, <2>3, <3>1, <3>2, <3>3, <3>4 DEF HoldsPacket
  <2>7. WholePackets'
    <3>1. \A k \in 1 .. Len(packets) : Bytes(k)' = Bytes(k) /\ k < next'
      BY <1>1, <2>1, <2>2 DEF Bytes
    <3>2. QED
      BY <1>1, <2>1, <3>1 DEF Inv, WholePackets
  <2>8. QED
    BY <1>1, <2>1, <2>2, <2>4, <2>5, <2>6, <2>7 DEF Inv, Reassembly
<1>5. QED
  BY <1>2, <1>3, <1>4

\* A part of a header continues the prefix of the packet.
LEMMA HeaderPartStep ==
    ASSUME Inv, TypeOK', ReadHeader_Part, ~torn
    PROVE  Inv'
<1> DEFINE header == Fill(raw_header_buffer, ReadOffset(HeaderSize), read_size)
<1>1. /\ raw_header_buffer' = header /\ need_size' = need_size - read_size
      /\ consumed' = consumed + read_size /\ read_size < need_size
      /\ UNCHANGED <<packets, written, data_size, m_incoming_packet_header_data,
                     history_vars>>
      /\ pc = "read_header" /\ Available >= read_size
  BY DEF ReadHeader_Part
<1>2. /\ data_size = c_invalid_packet_size
      /\ need_size \in 1 .. HeaderSize /\ read_size \in 1 .. need_size
      /\ HeaderSize \in Nat /\ TypeOK
  BY <1>1, ParserConstants DEF Inv, TypeOK
<1>3. /\ next \in 1 .. Len(packets) /\ Start(next) = packets[next].start
      /\ consumed = packets[next].start + HeaderSize - need_size
      /\ \A i \in 1 .. HeaderSize - need_size + read_size :
            header[i] = packets[next].start + i
  BY <1>1, HeaderBytes
<1> HIDE DEF header
<1>4. packets[next].start \in Nat
  BY <1>2, <1>3, PacketFields
<1>5. Start(next)' = packets[next].start
  BY <1>1, <1>3 DEF Start, history_vars
<1>6. InHeader'
  <2>1. consumed' = Start(next)' + HeaderSize - need_size'
    BY <1>1, <1>2, <1>3, <1>4, <1>5
  <2>2. HeaderSize - need_size' = HeaderSize - need_size + read_size
    BY <1>1, <1>2
  <2>3. \A i \in 1 .. HeaderSize - need_size' : raw_header_buffer'[i] = Start(next)' + i
    BY <1>1, <1>3, <1>5, <2>2
  <2>4. QED
    BY <2>1, <2>3 DEF InHeader
<1>7. InBody' /\ HoldsPacket' /\ next' \in 1 .. Len(packets') + 1
  BY <1>1, <1>2, <1>3 DEF InBody, HoldsPacket, history_vars
<1>8. StreamInv' /\ WholePackets'
  BY <1>1 DEF Inv, StreamInv, WholePackets, Start, End, Bytes, history_vars
<1>9. QED
  BY <1>6, <1>7, <1>8 DEF Inv, Reassembly

\* The header is complete: the buffer made for the packet starts with its bytes,
\* and is the packet when there is no body.
LEMMA HeaderWhole ==
    ASSUME Inv, ReadHeader_Whole, ~torn
    PROVE  /\ next \in 1 .. Len(packets)
           /\ data_size = c_invalid_packet_size
           /\ data_size' = packets[next].size /\ data_size' \in Nat
           /\ need_size' = data_size'
           /\ consumed' = packets[next].start + HeaderSize
           /\ \A i \in 1 .. HeaderSize :
                 m_incoming_packet_header_data'[i] = packets[next].start + i
           /\ data_size' = 0 => m_incoming_packet_header_data' = Bytes(next)
           /\ next' = IF data_size' = 0 THEN next + 1 ELSE next
           /\ UNCHANGED <<packets, written, delivered, torn>>
<1> DEFINE header == Fill(raw_header_buffer, ReadOffset(HeaderSize), read_size)
<1>1. /\ consumed' = consumed + read_size /\ read_size = need_size
      /\ UNCHANGED <<packets, written, delivered, torn>>
      /\ pc = "read_header" /\ Available >= read_size
  BY DEF ReadHeader_Whole
<1>2. PICK size \in SizeAt(header[1]) :
          /\ data_size' = size /\ need_size' = size
          /\ m_incoming_packet_header_data' = NewBuffer(header, size)
          /\ next' = IF size = 0 THEN next + 1 ELSE next
  BY DEF ReadHeader_Whole, BodyNeed
<1>3. /\ data_size = c_invalid_packet_size
      /\ need_size \in 1 .. HeaderSize /\ read_size \in 1 .. need_size
      /\ HeaderSize \in Nat /\ TypeOK /\ StreamInv
      /\ raw_header_buffer \in Buffer /\ Len(raw_header_buffer) = HeaderSize
      /\ consumed \in Nat
  BY <1>1, ParserConstants DEF Inv, TypeOK
<1>4. /\ next \in 1 .. Len(packets)
      /\ consumed = packets[next].start + HeaderSize - need_size
      /\ \A i \in 1 .. HeaderSize - need_size + read_size :
            header[i] = packets[next].start + i
  BY <1>1, HeaderBytes
<1>5. /\ packets[next].start \in Nat /\ packets[next].size \in Nat
  BY <1>3, <1>4, PacketFields
<1>6. \A i \in 1 .. HeaderSize : header[i] = packets[next].start + i
  BY <1>1, <1>3, <1>4
<1>7. size = packets[next].size
  <2>1. header[1] = packets[next].start + 1
    BY <1>3, <1>6
  <2>2. QED
    BY <2>1, <1>2, <1>3, <1>4, SizeAtStart
<1>8. header \in Buffer /\ Len(header) = HeaderSize
  <2>1. ReadOffset(HeaderSize) \in Nat
    BY <1>3 DEF ReadOffset
  <2>2. QED
    BY <2>1, <1>3, FillType
<1> HIDE DEF header
<1>9. /\ NewBuffer(header, size) \in Buffer
      /\ Len(NewBuffer(header, size)) = HeaderSize + size
      /\ \A i \in 1 .. HeaderSize : NewBuffer(header, size)[i] = header[i]
  BY <1>5, <1>7, <1>8, NewBufferType
<1>10. \A i \in 1 .. HeaderSize :
          m_incoming_packet_header_data'[i] = packets[next].start + i
  BY <1>2, <1>6, <1>9
<1>11. ASSUME size = 0 PROVE m_incoming_packet_header_data' = Bytes(next)
  <2>1. Len(NewBuffer(header, size)) = HeaderSize
    BY <1>3, <1>9, <1>11
  <2>2. \A i \in 1 .. Len(NewBuffer(header, size)) :
            NewBuffer(header, size)[i] = packets[next].start + i
    BY <1>2, <1>10, <2>1
  <2>3. NewBuffer(header, size) = Bytes(next)
    BY <2>2, <1>3, <1>4, <1>7, <1>9, BytesEqual
  <2>4. QED
    BY <2>3, <1>2
<1>12. consumed' = packets[next].start + HeaderSize
  BY <1>1, <1>3, <1>4, <1>5
<1>13. QED
  BY <1>1, <1>2, <1>3, <1>4, <1>5, <1>7, <1>10, <1>11, <1>12

\* A complete header gives the size of the packet that is next.
LEMMA HeaderWholeStep ==
    ASSUME Inv, TypeOK', ReadHeader_Whole, ~torn
    PROVE  Inv'
<1>1. /\ next \in 1 .. Len(packets)
      /\ data_size' = packets[next].size /\ data_size' \in Nat
      /\ need_size' = data_size'
      /\ consumed' = packets[next].start + HeaderSize
      /\ \A i \in 1 .. HeaderSize :
            m_incoming_packet_header_data'[i] = packets[next].start + i
      /\ data_size' = 0 => m_incoming_packet_header_data' = Bytes(next)
      /\ next' = IF data_size' = 0 THEN next + 1 ELSE next
      /\ UNCHANGED <<packets, written, delivered, torn>>
  BY HeaderWhole
<1>2. TypeOK /\ StreamInv /\ Len(packets) \in Nat
  BY DEF Inv, TypeOK
<1>3. /\ packets[next].start \in Nat /\ HeaderSize \in Nat /\ next \in Nat
      /\ End(next) = packets[next].start + HeaderSize + packets[next].size
  BY <1>1, <1>2, PacketFields
<1>4. data_size' # c_invalid_packet_size
  BY <1>1 DEF c_invalid_packet_size
<1>5. StreamInv'
  BY <1>1, <1>2 DEF StreamInv, Start, End
<1>6. \A k \in 1 .. Len(packets) : Bytes(k)' = Bytes(k)
  BY <1>1 DEF Bytes
<1>7. \A k \in 1 .. Len(packets) : k < next => k < next'
  BY <1>1, <1>2, <1>3
<1>8. WholePackets'
  BY <1>1, <1>6, <1>7 DEF Inv, WholePackets
<1>9. CASE data_size' = 0
  <2>1. next' = next + 1 /\ next' \in 1 .. Len(packets') + 1
    BY <1>1, <1>2, <1>3, <1>9
  <2>2. Start(next)' = Start(next + 1)
    BY <1>1, <2>1 DEF Start
  <2>3. consumed' = Start(next)'
    <3>1. End(next) = Start(next + 1)
      BY <1>1, <1>2 DEF StreamInv
    <3>2. consumed' = End(next)
      BY <1>1, <1>3, <1>9
    <3>3. QED
      BY <2>2, <3>1, <3>2
  <2>4. m_incoming_packet_header_data'[1] = packets[next].start + 1
    BY <1>1, <1>2, <1>9, FirstByte
  <2>5. \A j \in 1 .. Len(delivered) :
           delivered[j][1] < m_incoming_packet_header_data'[1]
    BY <1>1, <2>4, DeliveredBefore
  <2>7. \E k \in 1 .. Len(packets') :
            k < next' /\ m_incoming_packet_header_data' = Bytes(k)'
    <3>1. Bytes(next) = m_incoming_packet_header_data' /\ next < next'
      BY <1>1, <1>3, <1>9, <2>1
    <3>2. QED
      BY <1>1, <1>6, <3>1
  <2>8. HoldsPacket'
    BY <1>1, <2>3, <2>5, <2>7 DEF HoldsPacket
  <2>9. InHeader' /\ InBody'
    BY <1>1, <1>4, <1>9 DEF InHeader, InBody
  <2>10. QED
    BY <1>5, <1>8, <2>1, <2>8, <2>9 DEF Inv, Reassembly
<1>10. CASE data_size' # 0
  <2>1. next' = next /\ need_size' > 0
    BY <1>1, <1>10
  <2>2. HeaderSize + data_size' - need_size' = HeaderSize
    BY <1>1, <1>3
  <2>3. End(next)' = End(next)
    BY <1>1, <2>1 DEF End
  <2>4. consumed' = End(next)' - need_size'
    BY <1>1, <1>3, <2>3
  <2>5. packets'[next'] = packets[next]
    BY <1>1, <2>1
  <2>6. next' <= Len(packets') /\ next' \in 1 .. Len(packets') + 1
    BY <1>1, <1>2, <2>1
  <2>7. InBody'
    BY <1>1, <2>2, <2>4, <2>5, <2>6 DEF InBody
  <2>8. InHeader' /\ HoldsPacket'
    BY <1>4, <2>1 DEF InHeader, HoldsPacket
  <2>9. QED
    BY <1>5, <1>8, <2>6, <2>7, <2>8 DEF Inv, Reassembly
<1>11. QED
  BY <1>9, <1>10

\* A packet later than those delivered may be delivered.
LEMMA DeliverNext ==
    ASSUME Inv, ~torn, NEW p, Deliver(p),
           NEW k \in 1 .. Len(packets), p = Bytes(k), k < next',
           \A j \in 1 .. Len(delivered) : delivered[j][1] < p[1],
           next' \in Nat, next <= next',
           UNCHANGED packets
    PROVE  WholePackets'
<1>1. /\ delivered \in Seq(Buffer) /\ next \in Nat /\ Len(delivered) \in Nat
      /\ Len(packets) \in Nat
  BY DEF Inv, TypeOK
<1>2. delivered' = Append(delivered, p)
  BY DEF Deliver
<1>3. /\ Len(delivered') = Len(delivered) + 1
      /\ delivered'[Len(delivered) + 1] = p
      /\ \A j \in 1 .. Len(delivered) : delivered'[j] = delivered[j]
  BY <1>1, <1>2
<1>4. \A n \in 1 .. Len(packets) : Bytes(n)' = Bytes(n)
  BY DEF Bytes
<1>5. ASSUME NEW j \in 1 .. Len(delivered')
      PROVE  \E n \in 1 .. Len(packets') : delivered'[j] = Bytes(n)' /\ n < next'
  <2>1. CASE j \in 1 .. Len(delivered)
    <3>1. PICK n \in 1 .. Len(packets) : delivered[j] = Bytes(n) /\ n < next
      BY <2>1 DEF Inv, WholePackets
    <3>2. n < next'
      BY <1>1, <3>1
    <3>3. QED
      BY <1>3, <1>4, <2>1, <3>1, <3>2
  <2>2. CASE j = Len(delivered) + 1
    <3>1. delivered'[j] = Bytes(k)'
      BY <1>3, <1>4, <2>2
    <3>2. QED
      BY <3>1
  <2>3. QED
    BY <1>1, <1>3, <2>1, <2>2
<1>6. ASSUME NEW i \in 1 .. Len(delivered'), NEW j \in 1 .. Len(delivered'), i < j
      PROVE  delivered'[i][1] < delivered'[j][1]
  <2>1. i \in 1 .. Len(delivered) /\ (j \in 1 .. Len(delivered) \/ j = Len(delivered) + 1)
    BY <1>1, <1>3, <1>6
  <2>2. QED
    BY <1>3, <1>6, <2>1 DEF Inv, WholePackets
<1>7. QED
  BY <1>5, <1>6 DEF WholePackets

\* After a delivery the parser is at the start of the next packet.
LEMMA DeliverStart ==
    ASSUME NEW p, Deliver(p), consumed' = Start(next)', Start(next)' \in Nat
    PROVE  InHeader' /\ InBody' /\ HoldsPacket'
<1>1. data_size' = c_invalid_packet_size /\ need_size' = HeaderSize /\ HeaderSize \in Nat
  BY ParserConstants DEF Deliver
<1>2. QED
  BY <1>1 DEF InHeader, InBody, HoldsPacket

\* Counting the bytes of a body keeps the invariant; a packet without missing
\* bytes is delivered whole.
LEMMA BodyAvailableStep ==
    ASSUME Inv, TypeOK', BodyAvailable, ~torn
    PROVE  Inv'
<1>1. UNCHANGED <<packets, written, consumed, next, torn>>
  BY DEF BodyAvailable, stream_vars
<1>2. CASE UNCHANGED <<parser_vars, delivered>>
  BY <1>1, <1>2, FrameStep DEF history_vars
<1>3. CASE IsComplete /\ Deliver(m_incoming_packet_header_data)
  <2>1. /\ data_size # c_invalid_packet_size /\ need_size = 0 /\ TypeOK
        /\ next \in Nat /\ consumed \in Nat
    BY <1>3 DEF BodyAvailable, IsComplete, Inv, TypeOK
  <2>2. HoldsPacket /\ next \in 1 .. Len(packets) + 1
    BY DEF Inv, Reassembly
  <2>3. PICK k \in 1 .. Len(packets) :
            k < next /\ m_incoming_packet_header_data = Bytes(k)
    BY <2>1, <2>2 DEF HoldsPacket
  <2>4. /\ consumed = Start(next)
        /\ \A j \in 1 .. Len(delivered) :
              delivered[j][1] < m_incoming_packet_header_data[1]
    BY <2>1, <2>2 DEF HoldsPacket
  <2>5. WholePackets'
    <3>1. next' \in Nat /\ next <= next' /\ k < next'
      BY <1>1, <2>1, <2>3
    <3>2. QED
      BY <1>1, <1>3, <2>3, <2>4, <3>1, DeliverNext
  <2>6. consumed' = Start(next)' /\ Start(next)' \in Nat
    BY <1>1, <2>1, <2>4 DEF Start
  <2>7. InHeader' /\ InBody' /\ HoldsPacket'
    BY <1>3, <2>6, DeliverStart
  <2>8. StreamInv'
    BY <1>1 DEF Inv, StreamInv, Start, End
  <2>9. QED
    BY <1>1, <2>2, <2>5, <2>7, <2>8 DEF Inv, Reassembly
<1>4. QED
  BY <1>2, <1>3 DEF BodyAvailable

\* Reading bytes of a body keeps the invariant; the last ones complete packet
\* next.
LEMMA BodyStep ==
    ASSUME Inv, TypeOK', ReadBody, ~torn
    PROVE  Inv'
<1> DEFINE buffer == Fill(m_incoming_packet_header_data,
                          HeaderSize + ReadOffset(data_size), read_size)
<1>1. /\ pc = "read_body" /\ consumed' = consumed + read_size
      /\ UNCHANGED <<packets, written, torn>>
      /\ read_size = need_size => Deliver(buffer) /\ next' = next + 1
      /\ read_size # need_size =>
            /\ need_size' = need_size - read_size
            /\ m_incoming_packet_header_data' = buffer
            /\ UNCHANGED <<data_size, raw_header_buffer, delivered, next>>
  BY DEF ReadBody
<1>2. /\ next \in 1 .. Len(packets) /\ data_size = packets[next].size
      /\ consumed = End(next) - need_size
      /\ \A i \in 1 .. HeaderSize + data_size - need_size + read_size :
            buffer[i] = packets[next].start + i
      /\ read_size = need_size => buffer = Bytes(next)
  BY <1>1, BodyBytes
<1> HIDE DEF buffer
<1>3. /\ data_size # c_invalid_packet_size /\ need_size \in Nat
      /\ read_size \in 1 .. need_size /\ TypeOK /\ StreamInv
      /\ data_size \in Nat /\ HeaderSize \in Nat
  BY <1>1, ParserConstants DEF Inv, TypeOK
<1>4. End(next) \in Nat /\ next \in Nat /\ Len(packets) \in Nat
  BY <1>2, <1>3, PacketFields
<1>5. StreamInv'
  BY <1>1, <1>3 DEF StreamInv, Start, End
<1>6. CASE read_size = need_size
  <2>1. Deliver(buffer) /\ next' = next + 1 /\ buffer = Bytes(next)
    BY <1>1, <1>2, <1>6
  <2>2. buffer[1] = packets[next].start + 1
    BY <1>2, <1>3, <2>1, FirstByte
  <2>3. \A j \in 1 .. Len(delivered) : delivered[j][1] < buffer[1]
    BY <1>2, <2>2, DeliveredBefore
  <2>4. next < next' /\ next <= next' /\ next' \in Nat
    BY <1>4, <2>1
  <2>5. WholePackets'
    BY <1>1, <1>2, <2>1, <2>3, <2>4, DeliverNext
  <2>6. consumed' = Start(next)' /\ Start(next)' \in Nat
    <3>1. Start(next)' = Start(next + 1)
      BY <1>1, <2>1 DEF Start
    <3>2. End(next) = Start(next + 1)
      BY <1>2, <1>3 DEF StreamInv
    <3>3. QED
      BY <1>1, <1>2, <1>3, <1>4, <1>6, <3>1, <3>2
  <2>7. InHeader' /\ InBody' /\ HoldsPacket'
    BY <2>1, <2>6, DeliverStart
  <2>8. next' \in 1 .. Len(packets') + 1
    BY <1>1, <1>2, <1>4, <2>1
  <2>9. QED
    BY <1>5, <2>5, <2>7, <2>8 DEF Inv, Reassembly
<1>7. CASE read_size # need_size
  <2>1. /\ need_size' = need_size - read_size
        /\ m_incoming_packet_header_data' = buffer
        /\ UNCHANGED <<data_size, raw_header_buffer, delivered, next>>
    BY <1>1, <1>7
  <2>2. need_size' > 0
    BY <1>3, <1>7, <2>1
  <2>3. HeaderSize + data_size' - need_size' = HeaderSize + data_size - need_size + read_size
    BY <1>3, <2>1
  <2>4. End(next)' = End(next) /\ packets'[next'] = packets[next]
    BY <1>1, <2>1 DEF End
  <2>5. consumed' = End(next)' - need_size'
    BY <1>1, <1>2, <1>3, <1>4, <2>1, <2>4
  <2>6. next' \in 1 .. Len(packets') /\ next' <= Len(packets')
        /\ next' \in 1 .. Len(packets') + 1
    BY <1>1, <1>2, <1>4, <2>1
  <2>7. InBody'
    BY <1>2, <2>1, <2>3, <2>4, <2>5, <2>6 DEF InBody
  <2>8. InHeader' /\ HoldsPacket'
    BY <1>3, <2>1, <2>2 DEF InHeader, HoldsPacket
  <2>9. WholePackets'
    BY <1>1, <2>1 DEF Inv, WholePackets, Bytes
  <2>10. QED
    BY <1>5, <2>6, <2>7, <2>8, <2>9 DEF Inv, Reassembly
<1>8. QED
  BY <1>6, <1>7

\* The invariant is kept by every step.
LEMMA InvStep == Inv /\ [Next]_vars => Inv'
<1> SUFFICES ASSUME Inv, [Next]_vars PROVE Inv'
  OBVIOUS
<1>1. TypeOK'
  BY TypeStep DEF Inv
<1>2. CASE \/ UNCHANGED vars \/ ReadExpired \/ Call \/ WaitRespondFails
           \/ \E enough \in BOOLEAN : WaitRespond(enough)
           \/ AssignConnection \/ CancelWaitRespond \/ Expire
           \/ Arrive \/ HeaderAvailable
  <2>1. UNCHANGED <<packets, written, consumed, parser_vars, history_vars>>
    BY <1>2 DEF vars, stream_vars, ReadExpired, Call, Read, WaitRespondFails,
       WaitRespond, AssignConnection, CancelWaitRespond, Expire, Arrive,
       HeaderAvailable
  <2>2. QED
    BY <1>1, <2>1, FrameStep
<1>3. ASSUME NEW size \in BodySize, Write(size) PROVE Inv'
  BY <1>1, <1>3, WriteStep
<1>4. CASE OnDisconnected \/ ReadFails
  BY <1>1, <1>4, LossStep
<1>5. CASE torn /\ (ReadHeader_Part \/ ReadHeader_Whole \/ BodyAvailable \/ ReadBody)
  <2>1. UNCHANGED <<packets, written, torn>>
    BY <1>5 DEF ReadHeader_Part, ReadHeader_Whole, BodyAvailable, ReadBody,
       history_vars, stream_vars
  <2>2. QED
    BY <1>1, <1>5, <2>1, TornStep
<1>6. CASE ~torn /\ (ReadHeader_Part \/ ReadHeader_Whole \/ BodyAvailable \/ ReadBody)
  BY <1>1, <1>6, HeaderPartStep, HeaderWholeStep, BodyAvailableStep, BodyStep
<1>7. QED
  BY <1>2, <1>3, <1>4, <1>5, <1>6 DEF Next, ReadStep

\* However the stream is cut into pieces, TransportProxy::Read returns whole
\* packets as they were written, in order and none twice, for every header size,
\* every set of body sizes and any number of packets, as long as no connection
\* is lost within a packet.
THEOREM ReadsWholePackets == Spec => []WholePackets
<1>1. Inv => WholePackets
  BY DEF Inv
<1>2. QED
  BY InvInit, InvStep, <1>1, PTL DEF Spec

\* WaitRespond is never asked for bytes beyond the packet being received.
THEOREM WaitsWithinPacket == Spec => []WaitWithinPacket
<1>1. Inv => WaitWithinPacket
  <2>1. SUFFICES ASSUME Inv, ~torn, next <= Len(packets)
                 PROVE  consumed + need_size <= End(next)
    BY DEF WaitWithinPacket
  <2>2. next \in 1 .. Len(packets) /\ TypeOK
    BY <2>1 DEF Inv, Reassembly
  <2>3. /\ packets[next].start \in Nat /\ packets[next].size \in Nat
        /\ End(next) = packets[next].start + HeaderSize + packets[next].size
        /\ HeaderSize \in Nat /\ End(next) \in Nat
    BY <2>2, PacketFields
  <2>4. Start(next) = packets[next].start /\ need_size \in Nat /\ consumed \in Nat
    BY <2>2 DEF Start, TypeOK
  <2>5. CASE data_size = c_invalid_packet_size
    <3>1. consumed = Start(next) + HeaderSize - need_size
      BY <2>1, <2>5 DEF Inv, Reassembly, InHeader
    <3>2. QED
      BY <3>1, <2>3, <2>4
  <2>6. CASE data_size # c_invalid_packet_size /\ need_size > 0
    <3>1. consumed = End(next) - need_size
      BY <2>1, <2>6 DEF Inv, Reassembly, InBody
    <3>2. QED
      BY <3>1, <2>3, <2>4
  <2>7. CASE data_size # c_invalid_packet_size /\ need_size = 0
    <3>1. consumed = Start(next)
      BY <2>1, <2>7 DEF Inv, Reassembly, HoldsPacket
    <3>2. QED
      BY <3>1, <2>3, <2>4, <2>7
  <2>8. QED
    BY <2>4, <2>5, <2>6, <2>7
<1>2. QED
  BY InvInit, InvStep, <1>1, PTL DEF Spec

\* The parser writes within its buffers, returns whole packets only and waits
\* for nothing beyond the packet it is in.
THEOREM ParserCorrect == Spec => []Reassembled
BY ParserTypes, ReadsWholePackets, WaitsWithinPacket, PTL DEF Reassembled

-----------------------------------------------------------------------------
(* Refinement: the parser over the byte stream implements PacketFifo.      *)

\* A function on 1 .. n is a sequence of length n.
LEMMA FunctionSeq ==
    ASSUME NEW n \in Nat, NEW f, f = [i \in 1 .. n |-> f[i]]
    PROVE  f \in Seq({f[i] : i \in 1 .. n}) /\ Len(f) = n
<1>1. f \in [1 .. n -> {f[i] : i \in 1 .. n}]
  OBVIOUS
<1>2. QED
  BY <1>1

\* The packets on their way are a sequence: the one held by the parser and
\* those not read completely.
LEMMA InboxSeq ==
    ASSUME Inv, ~torn
    PROVE  /\ Held + Len(packets) + 1 - next \in Nat
           /\ Held \in 0 .. 1
           /\ Len(packets) \in Nat /\ next \in 1 .. Len(packets) + 1
           /\ Len(Inbox) = Held + Len(packets) + 1 - next
           /\ DOMAIN Inbox = 1 .. Held + Len(packets) + 1 - next
           /\ Inbox = [i \in 1 .. Held + Len(packets) + 1 - next |-> Inbox[i]]
           /\ Inbox \in Seq({Inbox[i] : i \in 1 .. Held + Len(packets) + 1 - next})
           /\ \A i \in 1 .. Held + Len(packets) + 1 - next :
                 Inbox[i] = IF i <= Held THEN m_incoming_packet_header_data
                                         ELSE Bytes(next + i - 1 - Held)
<1> DEFINE n == Held + Len(packets) + 1 - next
<1>1. Held \in 0 .. 1
  BY DEF Held
<1>2. Len(packets) \in Nat /\ next \in 1 .. Len(packets) + 1
  BY DEF Inv, TypeOK, Reassembly
<1>3. n \in Nat
  BY <1>1, <1>2
<1>4. Inbox = [i \in 1 .. n |-> IF i <= Held THEN m_incoming_packet_header_data
                                             ELSE Bytes(next + i - 1 - Held)]
  BY DEF Inbox
<1> HIDE DEF n
<1>5. Inbox = [i \in 1 .. n |-> Inbox[i]] /\ DOMAIN Inbox = 1 .. n
  BY <1>4
<1>6. Inbox \in Seq({Inbox[i] : i \in 1 .. n}) /\ Len(Inbox) = n
  BY <1>3, <1>5, FunctionSeq
<1>7. \A i \in 1 .. n : Inbox[i] = IF i <= Held THEN m_incoming_packet_header_data
                                               ELSE Bytes(next + i - 1 - Held)
  BY <1>4
<1>8. QED
  BY <1>1, <1>2, <1>3, <1>5, <1>6, <1>7 DEF n

\* A new proxy is an empty FIFO.
LEMMA InitFifo == Init => Fifo!Init
<1> SUFFICES ASSUME Init PROVE Fifo!Init
  OBVIOUS
<1>1. Held = 0
  BY DEF Init, Held, Complete
<1>2. Len(packets) = 0 /\ next = 1 /\ delivered = <<>> /\ torn = FALSE
  BY DEF Init
<1>3. Inbox = <<>>
  BY <1>1, <1>2 DEF Inbox
<1>4. QED
  BY <1>2, <1>3 DEF Fifo!Init

\* Steps after which the same packets are on their way.
LEMMA SameInbox ==
    ASSUME Held' = Held,
           Held = 0 \/ UNCHANGED m_incoming_packet_header_data,
           UNCHANGED <<packets, next>>, Held \in 0 .. 1, next \in Nat
    PROVE  Inbox' = Inbox
<1>1. \A k : Bytes(k)' = Bytes(k)
  BY DEF Bytes
<1>2. CASE Held = 0
  BY <1>1, <1>2 DEF Inbox
<1>3. CASE UNCHANGED m_incoming_packet_header_data
  BY <1>1, <1>3 DEF Inbox
<1>4. QED
  BY <1>2, <1>3

\* Writing a packet appends it to the FIFO.
LEMMA WriteSends ==
    ASSUME Inv, Inv', ~torn, NEW size \in BodySize, Write(size)
    PROVE  Fifo!Send
<1>1. /\ UNCHANGED <<parser_vars, history_vars>>
  BY DEF Write
<1>2. /\ Held' = Held /\ next' = next /\ torn' = torn /\ delivered' = delivered
      /\ m_incoming_packet_header_data' = m_incoming_packet_header_data
  BY <1>1 DEF Held, Complete, parser_vars, history_vars
<1>3. /\ Len(packets') = Len(packets) + 1
      /\ \A k \in 1 .. Len(packets) : Bytes(k)' = Bytes(k)
  BY StreamWrite DEF Inv
<1> DEFINE n == Held + Len(packets) + 1 - next
<1>4. /\ n \in Nat /\ Held \in 0 .. 1 /\ Len(packets) \in Nat
      /\ next \in 1 .. Len(packets) + 1
      /\ Len(Inbox) = n /\ Inbox = [i \in 1 .. n |-> Inbox[i]]
      /\ \A i \in 1 .. n : Inbox[i] = IF i <= Held THEN m_incoming_packet_header_data
                                                   ELSE Bytes(next + i - 1 - Held)
  BY InboxSeq
<1>5. /\ Held' + Len(packets') + 1 - next' = n + 1
  BY <1>2, <1>3, <1>4
<1>6. PICK m \in Nat : m = n
  BY <1>4
<1>7. /\ Len(Inbox') = m + 1
      /\ Inbox' \in Seq({Inbox'[i] : i \in 1 .. m + 1})
      /\ \A i \in 1 .. m + 1 :
            Inbox'[i] = IF i <= Held' THEN m_incoming_packet_header_data'
                                      ELSE Bytes(next + i - 1 - Held)'
  <2>1. (/\ Len(Inbox) = Held + Len(packets) + 1 - next
         /\ Inbox \in Seq({Inbox[i] : i \in 1 .. Held + Len(packets) + 1 - next})
         /\ \A i \in 1 .. Held + Len(packets) + 1 - next :
               Inbox[i] = IF i <= Held THEN m_incoming_packet_header_data
                                       ELSE Bytes(next + i - 1 - Held))'
    <3>1. ~torn'
      BY <1>2
    <3>2. QED
      BY <3>1, InboxSeq, PTL
  <2>2. QED
    BY <2>1, <1>5, <1>6
<1>8. \A i \in 1 .. m : Inbox'[i] = Inbox[i]
  <2> TAKE i \in 1 .. m
  <2>1. i \in 1 .. n /\ i \in 1 .. m + 1
    BY <1>4, <1>6
  <2>2. CASE i <= Held
    BY <1>2, <1>4, <1>7, <2>1, <2>2
  <2>3. CASE ~(i <= Held)
    <3>1. next + i - 1 - Held \in 1 .. Len(packets)
      BY <1>4, <2>1, <2>3
    <3>2. Bytes(next + i - 1 - Held)' = Bytes(next + i - 1 - Held)
      BY <1>2, <1>3, <3>1 DEF Bytes
    <3>3. QED
      BY <1>2, <1>4, <1>7, <2>1, <2>3, <3>2
  <2>4. QED
    BY <2>2, <2>3
<1>9. SubSeq(Inbox', 1, m) = [i \in 1 .. m |-> Inbox'[i]]
  BY <1>6, <1>7
<1>10. SubSeq(Inbox', 1, m) = Inbox
  BY <1>4, <1>6, <1>8, <1>9
<1>11. QED
  BY <1>2, <1>4, <1>6, <1>7, <1>10 DEF Fifo!Send

\* The packets on their way after a step that writes none.
LEMMA InboxNext ==
    ASSUME Inv', ~torn', UNCHANGED packets
    PROVE  /\ Inbox' = [i \in 1 .. Held' + Len(packets) + 1 - next' |-> Inbox'[i]]
           /\ \A i \in 1 .. Held' + Len(packets) + 1 - next' :
                 Inbox'[i] = IF i <= Held' THEN m_incoming_packet_header_data'
                                           ELSE Bytes(next' + i - 1 - Held')
<1>1. (/\ Inbox = [i \in 1 .. Held + Len(packets) + 1 - next |-> Inbox[i]]
       /\ \A i \in 1 .. Held + Len(packets) + 1 - next :
             Inbox[i] = IF i <= Held THEN m_incoming_packet_header_data
                                     ELSE Bytes(next + i - 1 - Held))'
  BY InboxSeq, PTL
<1>2. \A i : Bytes(next + i - 1 - Held)' = Bytes(next' + i - 1 - Held')
  BY DEF Bytes
<1>3. QED
  BY <1>1, <1>2

\* A complete header of a packet without body moves that packet from the stream
\* into the parser.
LEMMA HeaderKeeps ==
    ASSUME Inv, Inv', ~torn, ReadHeader_Whole
    PROVE  Inbox' = Inbox /\ UNCHANGED <<delivered, torn>>
<1>1. /\ next \in 1 .. Len(packets)
      /\ data_size = c_invalid_packet_size
      /\ data_size' \in Nat /\ need_size' = data_size'
      /\ data_size' = 0 => m_incoming_packet_header_data' = Bytes(next)
      /\ next' = IF data_size' = 0 THEN next + 1 ELSE next
      /\ UNCHANGED <<packets, written, delivered, torn>>
  BY HeaderWhole
<1>2. Held = 0 /\ data_size' # c_invalid_packet_size
  BY <1>1 DEF Held, Complete, c_invalid_packet_size
<1>3. \A k : Bytes(k)' = Bytes(k)
  BY <1>1 DEF Bytes
<1>4. CASE data_size' # 0
  <2>1. Held' = 0
    BY <1>1, <1>4 DEF Held, Complete
  <2>2. QED
    BY <1>1, <1>2, <1>4, <2>1, SameInbox
<1>5. CASE data_size' = 0
  <2>1. Held' = 1 /\ next' = next + 1
    BY <1>1, <1>2, <1>5 DEF Held, Complete
  <2>2. Len(packets) \in Nat /\ next \in Nat /\ ~torn'
    BY <1>1 DEF Inv, TypeOK
  <2>3. PICK n \in Int : n = Len(packets) + 1 - next
    <3>1. Len(packets) + 1 - next \in Int
      BY <2>2
    <3>2. QED
      BY <3>1, Zenon
  <2>4. /\ Held + Len(packets) + 1 - next = n
        /\ Held' + Len(packets) + 1 - next' = n
    BY <1>2, <2>1, <2>2, <2>3
  <2>5. /\ Inbox = [i \in 1 .. n |-> Inbox[i]]
        /\ \A i \in 1 .. n : Inbox[i] = IF i <= Held THEN m_incoming_packet_header_data
                                                     ELSE Bytes(next + i - 1 - Held)
    BY <2>4, InboxSeq
  <2>6. /\ Inbox' = [i \in 1 .. n |-> Inbox'[i]]
        /\ \A i \in 1 .. n : Inbox'[i] = IF i <= Held' THEN m_incoming_packet_header_data'
                                                       ELSE Bytes(next' + i - 1 - Held')
    BY <1>1, <2>2, <2>4, InboxNext
  <2>7. ASSUME NEW i \in 1 .. n PROVE Inbox'[i] = Inbox[i]
    <3>1. Inbox[i] = Bytes(next + i - 1 - Held)
      BY <1>2, <2>3, <2>5
    <3>2. CASE i = 1
      <4>1. next + i - 1 - Held = next /\ i <= Held'
        BY <1>2, <2>1, <2>2, <3>2
      <4>2. QED
        BY <1>1, <1>5, <2>6, <3>1, <4>1
    <3>3. CASE i # 1
      <4>1. next' + i - 1 - Held' = next + i - 1 - Held /\ ~(i <= Held')
        BY <1>2, <2>1, <2>2, <2>3, <3>3
      <4>2. QED
        BY <2>6, <3>1, <4>1
    <3>4. QED
      BY <3>2, <3>3
  <2>8. Inbox' = Inbox
    BY <2>5, <2>6, <2>7
  <2>9. QED
    BY <1>1, <2>8
<1>6. QED
  BY <1>1, <1>4, <1>5

\* The packet at the head is delivered, and those behind it move up.
LEMMA DeliverReceives ==
    ASSUME Inv, Inv', ~torn, ~torn', NEW p, Deliver(p), UNCHANGED packets,
           Len(Inbox) > 0, Inbox[1] = p,
           next' = next + 1 - Held
    PROVE  Fifo!Receive
<1>1. Held' = 0
  BY DEF Deliver, Held, Complete
<1>2. PICK n \in Nat : n = Held + Len(packets) + 1 - next
  BY InboxSeq
<1>3. /\ Held \in 0 .. 1 /\ Len(packets) \in Nat /\ next \in Nat /\ n > 0
      /\ Len(Inbox) = n
      /\ Inbox = [i \in 1 .. n |-> Inbox[i]]
      /\ Inbox \in Seq({Inbox[i] : i \in 1 .. n})
      /\ \A i \in 1 .. n :
            Inbox[i] = IF i <= Held THEN m_incoming_packet_header_data
                                    ELSE Bytes(next + i - 1 - Held)
  BY <1>2, InboxSeq
<1>4. next' \in Nat
  BY DEF Inv, TypeOK
<1>5. /\ Inbox' = [i \in 1 .. n - 1 |-> Inbox'[i]]
      /\ \A i \in 1 .. n - 1 : Inbox'[i] = IF i <= Held' THEN m_incoming_packet_header_data'
                                                         ELSE Bytes(next' + i - 1 - Held')
  <2>1. Held \in 0 .. 1 /\ Len(packets) \in Nat /\ next \in Nat
    BY <1>3
  <2>2. Held' + Len(packets) + 1 - next' = n - 1
    BY <1>1, <1>2, <1>4, <2>1
  <2>3. QED
    BY <2>2, InboxNext
<1>7. ASSUME NEW i \in 1 .. n - 1 PROVE Inbox'[i] = Inbox[i + 1]
  <2>1. Held \in 0 .. 1 /\ next \in Nat
    BY <1>3
  <2>2. i + 1 \in 1 .. n /\ ~(i + 1 <= Held) /\ ~(i <= Held')
    BY <1>1, <2>1
  <2>3. next + (i + 1) - 1 - Held = next' + i - 1 - Held'
    BY <1>1, <1>4, <2>1
  <2>4. Inbox[i + 1] = Bytes(next + (i + 1) - 1 - Held)
    BY <1>3, <2>2
  <2>5. QED
    BY <1>5, <2>2, <2>3, <2>4
<1>8. Tail(Inbox) = [i \in 1 .. n - 1 |-> Inbox[i + 1]]
  BY <1>3
<1>9. Inbox' = Tail(Inbox)
  BY <1>5, <1>7, <1>8
<1>10. Inbox # <<>> /\ Head(Inbox) = p
  BY <1>3
<1>11. delivered' = Append(delivered, Head(Inbox)) /\ torn' = torn
  <2>1. torn \in BOOLEAN /\ torn' \in BOOLEAN
    BY DEF Inv, TypeOK
  <2>2. QED
    BY <1>10, <2>1 DEF Deliver
<1>12. QED
  BY <1>9, <1>10, <1>11 DEF Fifo!Receive

\* Counting the bytes of a body receives a packet from the FIFO or leaves it
\* as it is.
LEMMA BodyAvailableFifo ==
    ASSUME Inv, Inv', ~torn, BodyAvailable
    PROVE  Fifo!Receive \/ UNCHANGED <<Inbox, delivered, torn>>
<1>1. UNCHANGED <<packets, next, torn>> /\ pc = "body"
  BY DEF BodyAvailable, stream_vars
<1>2. CASE UNCHANGED <<parser_vars, delivered>>
  <2>1. Held' = Held /\ UNCHANGED m_incoming_packet_header_data
    BY <1>2 DEF parser_vars, Held, Complete
  <2>2. Held \in 0 .. 1 /\ next \in Nat
    BY InboxSeq
  <2>3. QED
    BY <1>1, <1>2, <2>1, <2>2, SameInbox
<1>3. CASE IsComplete /\ Deliver(m_incoming_packet_header_data)
  <2>1. Held = 1
    BY <1>1, <1>3 DEF IsComplete, Held, Complete, Inv, TypeOK
  <2>2. 1 \in 1 .. Held + Len(packets) + 1 - next
    BY <2>1, InboxSeq
  <2>3. Inbox[1] = m_incoming_packet_header_data
    <3>1. Inbox[1] = IF 1 <= Held THEN m_incoming_packet_header_data
                                  ELSE Bytes(next + 1 - 1 - Held)
      BY <2>2, InboxSeq
    <3>2. QED
      BY <2>1, <3>1
  <2>4. Len(Inbox) > 0
    BY <2>2, InboxSeq
  <2>5. next' = next + 1 - Held
    BY <1>1, <2>1, InboxSeq
  <2>6. ~torn'
    BY <1>1
  <2>7. QED
    BY <1>1, <1>3, <2>3, <2>4, <2>5, <2>6, DeliverReceives
<1>4. QED
  BY <1>2, <1>3 DEF BodyAvailable

\* Reading bytes of a body receives a packet from the FIFO or leaves it as it
\* is.
LEMMA BodyFifo ==
    ASSUME Inv, Inv', ~torn, ReadBody
    PROVE  Fifo!Receive \/ UNCHANGED <<Inbox, delivered, torn>>
<1> DEFINE buffer == Fill(m_incoming_packet_header_data,
                          HeaderSize + ReadOffset(data_size), read_size)
<1>1. /\ pc = "read_body" /\ UNCHANGED <<packets, torn>>
      /\ read_size = need_size => Deliver(buffer) /\ next' = next + 1
      /\ read_size # need_size =>
            /\ need_size' = need_size - read_size
            /\ UNCHANGED <<data_size, delivered, next>>
  BY DEF ReadBody
<1>2. next \in 1 .. Len(packets) /\ (read_size = need_size => buffer = Bytes(next))
  BY <1>1, BodyBytes
<1> HIDE DEF buffer
<1>3. read_size \in 1 .. need_size /\ need_size \in Nat /\ next \in Nat
  BY <1>1 DEF Inv, TypeOK
<1>4. Held = 0
  BY <1>3 DEF Held, Complete
<1>5. CASE read_size = need_size
  <2>1. 1 \in 1 .. Held + Len(packets) + 1 - next
    BY <1>2, <1>3, <1>4, InboxSeq
  <2>2. Inbox[1] = Bytes(next + 1 - 1 - Held)
    BY <1>4, <2>1, InboxSeq
  <2>3. next + 1 - 1 - Held = next
    BY <1>3, <1>4
  <2>4. Inbox[1] = buffer
    BY <1>2, <1>5, <2>2, <2>3
  <2>5. Len(Inbox) > 0
    BY <2>1, InboxSeq
  <2>6. next' = next + 1 - Held
    BY <1>1, <1>3, <1>4, <1>5
  <2>7. ~torn'
    BY <1>1
  <2>8. QED
    BY <1>1, <1>5, <2>4, <2>5, <2>6, <2>7, DeliverReceives
<1>6. CASE read_size # need_size
  <2>1. Held' = 0
    BY <1>1, <1>3, <1>6 DEF Held, Complete
  <2>2. QED
    BY <1>1, <1>3, <1>4, <1>6, <2>1, SameInbox
<1>7. QED
  BY <1>5, <1>6

\* A lost connection takes the packets that are not complete in the parser.
LEMMA DisconnectLoses ==
    ASSUME Inv, Inv', ~torn, OnDisconnected
    PROVE  Fifo!Lose
<1>1. /\ UNCHANGED <<packets, parser_vars, delivered>> /\ next' = Len(packets) + 1
  BY DEF OnDisconnected
<1>2. Held' = Held /\ m_incoming_packet_header_data' = m_incoming_packet_header_data
  BY <1>1 DEF Held, Complete, parser_vars
<1>3. PICK n \in Nat : n = Held + Len(packets) + 1 - next
  BY InboxSeq
<1>4. /\ Held \in 0 .. 1 /\ Len(packets) \in Nat /\ next \in 1 .. Len(packets) + 1
      /\ Len(Inbox) = n
      /\ Inbox \in Seq({Inbox[i] : i \in 1 .. n})
      /\ \A i \in 1 .. n : Inbox[i] = IF i <= Held THEN m_incoming_packet_header_data
                                                   ELSE Bytes(next + i - 1 - Held)
  BY <1>3, InboxSeq
<1>5. Held \in 0 .. 1 /\ Len(packets) \in Nat /\ next \in 1 .. Len(packets) + 1
  BY <1>4
<1>6. Held' + Len(packets') + 1 - next' = Held /\ Held \in 0 .. n
  BY <1>1, <1>2, <1>3, <1>5
<1>7. Inbox' = [i \in 1 .. Held |-> m_incoming_packet_header_data]
  <2>1. Inbox' = [i \in 1 .. Held' + Len(packets') + 1 - next' |->
                    IF i <= Held' THEN m_incoming_packet_header_data'
                                  ELSE Bytes(next + i - 1 - Held)']
    BY DEF Inbox
  <2>2. \A i \in 1 .. Held : i <= Held
    BY <1>5
  <2>3. QED
    BY <1>2, <1>6, <2>1, <2>2
<1>8. \A i \in 1 .. Held : Inbox[i] = m_incoming_packet_header_data
  <2> TAKE i \in 1 .. Held
  <2>1. i \in 1 .. n /\ i <= Held
    BY <1>5, <1>6
  <2>2. QED
    BY <1>4, <2>1
<1>9. SubSeq(Inbox, 1, Held) = [i \in 1 .. Held |-> Inbox[i]]
  BY <1>4, <1>6
<1>10. Inbox' = SubSeq(Inbox, 1, Held)
  BY <1>7, <1>8, <1>9
<1>11. \E m \in 0 .. Len(Inbox) : Inbox' = SubSeq(Inbox, 1, m)
  BY <1>4, <1>6, <1>10
<1>12. QED
  BY <1>1, <1>11 DEF Fifo!Lose

\* Every step sends, receives or loses packets, or changes nothing of them.
LEMMA FifoStep ==
    ASSUME Inv, Inv', [Next]_vars
    PROVE  [Fifo!Next]_Fifo!vars
<1>1. torn => torn'
  BY DEF Next, Call, ReadStep, vars, history_vars, ReadExpired, Read,
     HeaderAvailable, ReadHeader_Part, ReadHeader_Whole, BodyAvailable, ReadBody,
     ReadFails, WaitRespond, WaitRespondFails, Write, Arrive, OnDisconnected,
     AssignConnection, CancelWaitRespond, Expire
<1>2. CASE torn
  BY <1>1, <1>2 DEF Fifo!Next, Fifo!Torn
<1>3. CASE ~torn /\ UNCHANGED <<Inbox, delivered, torn>>
  BY <1>3 DEF Fifo!vars
<1>4. /\ Held \in 0 .. 1 /\ next \in Nat
  BY DEF Held, Inv, TypeOK
<1>5. CASE \/ UNCHANGED vars \/ ReadExpired \/ Call \/ WaitRespondFails
           \/ \E enough \in BOOLEAN : WaitRespond(enough)
           \/ AssignConnection \/ CancelWaitRespond \/ Expire
           \/ Arrive \/ HeaderAvailable
  <2>1. UNCHANGED <<packets, parser_vars, history_vars>>
    BY <1>5 DEF vars, stream_vars, ReadExpired, Call, Read, WaitRespondFails,
       WaitRespond, AssignConnection, CancelWaitRespond, Expire, Arrive,
       HeaderAvailable
  <2>2. Held' = Held /\ UNCHANGED <<m_incoming_packet_header_data, packets, next>>
    BY <2>1 DEF Held, Complete, parser_vars, history_vars
  <2>3. Inbox' = Inbox
    BY <1>4, <2>2, SameInbox
  <2>4. UNCHANGED <<Inbox, delivered, torn>>
    BY <2>1, <2>3 DEF history_vars
  <2>5. QED
    BY <2>4 DEF Fifo!vars
<1>6. ASSUME ~torn, NEW size \in BodySize, Write(size) PROVE Fifo!Next
  BY <1>6, WriteSends DEF Fifo!Next
<1>7. CASE ~torn /\ OnDisconnected
  BY <1>7, DisconnectLoses DEF Fifo!Next
<1>8. CASE ~torn /\ ReadFails
  <2>1. UNCHANGED <<packets, parser_vars, delivered, next>>
    BY <1>8 DEF ReadFails
  <2>2. Held' = Held /\ UNCHANGED <<m_incoming_packet_header_data, packets, next>>
    BY <2>1 DEF Held, Complete, parser_vars
  <2>3. Inbox' = Inbox
    BY <1>4, <2>2, SameInbox
  <2>4. PICK n \in Nat : n = Len(Inbox)
    BY <1>8, InboxSeq
  <2>5. Inbox = SubSeq(Inbox, 1, n)
    <3>1. n = Held + Len(packets) + 1 - next
      BY <1>8, <2>4, InboxSeq
    <3>2. Inbox \in Seq({Inbox[i] : i \in 1 .. n}) /\ Inbox = [i \in 1 .. n |-> Inbox[i]]
      BY <1>8, <3>1, InboxSeq
    <3>3. QED
      BY <2>4, <3>2
  <2>6. n \in 0 .. Len(Inbox)
    BY <2>4
  <2>7. Fifo!Lose
    BY <1>1, <2>1, <2>3, <2>5, <2>6 DEF Fifo!Lose
  <2>8. QED
    BY <2>7 DEF Fifo!Next
<1>9. CASE ~torn /\ ReadHeader_Part
  <2>1. /\ UNCHANGED <<packets, data_size, m_incoming_packet_header_data, history_vars>>
        /\ pc = "read_header"
    BY <1>9 DEF ReadHeader_Part
  <2>2. data_size = c_invalid_packet_size
    BY <2>1 DEF Inv, TypeOK
  <2>3. Held' = Held /\ UNCHANGED <<m_incoming_packet_header_data, packets, next>>
    BY <2>1, <2>2 DEF Held, Complete, history_vars
  <2>4. Inbox' = Inbox
    BY <1>4, <2>3, SameInbox
  <2>5. QED
    BY <1>3, <1>9, <2>1, <2>4 DEF history_vars
<1>10. CASE ~torn /\ ReadHeader_Whole
  BY <1>3, <1>10, HeaderKeeps
<1>11. CASE ~torn /\ (BodyAvailable \/ ReadBody)
  BY <1>3, <1>11, BodyAvailableFifo, BodyFifo DEF Fifo!Next
<1>12. QED
  BY <1>2, <1>5, <1>6, <1>7, <1>8, <1>9, <1>10, <1>11 DEF Next, ReadStep

\* The parser over the byte stream, with partial reads, lost and renewed
\* connections, implements the FIFO of packets that MAssIpcCall builds on.
THEOREM ParserImplementsFifo == Spec => ImplementsFifo
<1>1. Inv /\ Inv' /\ [Next]_vars => [Fifo!Next]_Fifo!vars
  BY FifoStep
<1>2. QED
  BY InitFifo, InvInit, InvStep, <1>1, PTL DEF Spec, ImplementsFifo, Fifo!Spec

\* Every set of numbers has a least one.
LEMMA SmallestNat ==
    ASSUME NEW T, T \subseteq Nat, T # {}
    PROVE  \E x \in T : \A y \in T : x =< y
  <1> DEFINE R == {ss \in Nat \X Nat : ss[1] < ss[2]}
  <1>1. IsWellFoundedOn(R, Nat)
    BY NatLessThanWellFounded DEF OpToRel
  <1>2. PICK x \in T : \A y \in T : ~ (<<y, x>> \in R)
    <2> HIDE DEF R
    <2> QED
      BY <1>1, WFMin, Zenon
  <1>3. \A y \in T : x =< y
    <2> SUFFICES ASSUME NEW y \in T, y < x PROVE FALSE
      OBVIOUS
    <2>1. <<y, x>> \in R
      BY Zenon
    <2> QED
      BY <1>2, <2>1
  <1> QED
    BY <1>3

\* Induction, for a set of numbers.
LEMMA NatSet ==
    ASSUME NEW S, 0 \in S, \A n \in Nat : n \in S => n + 1 \in S
    PROVE  \A n \in Nat : n \in S
  <1> DEFINE T == {n \in Nat : n \notin S}
  <1>1. CASE T = {}
    BY <1>1
  <1>2. CASE T # {}
    <2>1. PICK x \in T : \A y \in T : x =< y
      BY <1>2, SmallestNat
    <2>2. x # 0 /\ x \in Nat /\ x - 1 \in Nat
      BY <2>1
    <2>3. x - 1 \notin T
      BY <2>1, <2>2
    <2>4. (x - 1) + 1 \in S
      BY <2>2, <2>3
    <2> QED
      BY <2>1, <2>2, <2>4
  <1> QED
    BY <1>1, <1>2

-----------------------------------------------------------------------------
(* Loops: the recursive functions of the operators exist                   *)

\* The streams that writing pieces goes through.
Wrote(f, s, pieces, n) == f = [i \in 0 .. n |-> IF i = 0 THEN s ELSE WriteRawData(f[i - 1], pieces[i])]

\* The loop of an operator<< can be run to its end.
LEMMA WroteExists ==
    ASSUME NEW s, NEW pieces, NEW n \in Nat
    PROVE  \E f : Wrote(f, s, pieces, n)
  <1> DEFINE S == {k \in Nat : \E f : Wrote(f, s, pieces, k)}
  <1>1. 0 \in S
    <2>1. Wrote([i \in 0 .. 0 |-> s], s, pieces, 0)
      BY DEF Wrote
    <2> QED
      BY <2>1
  <1>2. ASSUME NEW k \in Nat, k \in S PROVE k + 1 \in S
    <2>1. PICK g : Wrote(g, s, pieces, k)
      BY <1>2
    <2> DEFINE f == [i \in 0 .. k + 1 |-> IF i = k + 1 THEN WriteRawData(g[k], pieces[k + 1]) ELSE g[i]]
    <2>2. \A i \in 0 .. k + 1 : f[i] = IF i = 0 THEN s ELSE WriteRawData(f[i - 1], pieces[i])
      BY <2>1 DEF Wrote
    <2>3. Wrote(f, s, pieces, k + 1)
      BY <2>2 DEF Wrote
    <2> QED
      <3> HIDE DEF f
      <3> QED
        BY <2>3
  <1> QED
    <2> HIDE DEF S
    <2>1. n \in S
      BY <1>1, <1>2, NatSet
    <2> QED
      BY <2>1 DEF S

\* WriteAll is where that loop ends.
LEMMA WriteAllLoop ==
    ASSUME NEW s, NEW pieces, Len(pieces) \in Nat
    PROVE  \E f : Wrote(f, s, pieces, Len(pieces)) /\ WriteAll(s, pieces) = f[Len(pieces)]
  <1>1. \E f : Wrote(f, s, pieces, Len(pieces))
    BY WroteExists
  <1>2. Wrote(CHOOSE f : Wrote(f, s, pieces, Len(pieces)), s, pieces, Len(pieces))
    BY <1>1, Zenon
  <1>3. WriteAll(s, pieces) = (CHOOSE f : Wrote(f, s, pieces, Len(pieces)))[Len(pieces)]
    BY Zenon DEF Wrote, WriteAll
  <1> QED
    BY <1>2, <1>3, Zenon

\* The strings that adding names goes through.
Strung(f, names, n) == f = [i \in 0 .. n |-> IF i = 0 THEN <<>> ELSE AddType(f[i - 1], names[i])]

\* The loop over the names of parameters can be run to its end.
LEMMA StrungExists ==
    ASSUME NEW names, NEW n \in Nat
    PROVE  \E f : Strung(f, names, n)
  <1> DEFINE S == {k \in Nat : \E f : Strung(f, names, k)}
  <1>1. 0 \in S
    <2>1. Strung([i \in 0 .. 0 |-> <<>>], names, 0)
      BY DEF Strung
    <2> QED
      BY <2>1
  <1>2. ASSUME NEW k \in Nat, k \in S PROVE k + 1 \in S
    <2>1. PICK g : Strung(g, names, k)
      BY <1>2
    <2> DEFINE f == [i \in 0 .. k + 1 |-> IF i = k + 1 THEN AddType(g[k], names[k + 1]) ELSE g[i]]
    <2>2. \A i \in 0 .. k + 1 : f[i] = IF i = 0 THEN <<>> ELSE AddType(f[i - 1], names[i])
      BY <2>1 DEF Strung
    <2>3. Strung(f, names, k + 1)
      BY <2>2 DEF Strung
    <2> QED
      <3> HIDE DEF f
      <3> QED
        BY <2>3
  <1> QED
    <2> HIDE DEF S
    <2>1. n \in S
      BY <1>1, <1>2, NatSet
    <2> QED
      BY <2>1 DEF S

\* ParamsString is where that loop ends.
LEMMA ParamsStringLoop ==
    ASSUME NEW names, Len(names) \in Nat
    PROVE  \E f : Strung(f, names, Len(names)) /\ ParamsString(names) = f[Len(names)]
  <1>1. \E f : Strung(f, names, Len(names))
    BY StrungExists
  <1>2. Strung(CHOOSE f : Strung(f, names, Len(names)), names, Len(names))
    BY <1>1, Zenon
  <1>3. ParamsString(names) = (CHOOSE f : Strung(f, names, Len(names)))[Len(names)]
    BY Zenon DEF Strung, ParamsString
  <1> QED
    BY <1>2, <1>3, Zenon

\* The sizes that adding names goes through.
Sized(f, names, n) == f = [i \in 0 .. n |-> IF i = 0 THEN 0 ELSE AddTypeSize(f[i - 1], names[i])]

\* The loop over the sizes of names can be run to its end.
LEMMA SizedExists ==
    ASSUME NEW names, NEW n \in Nat
    PROVE  \E f : Sized(f, names, n)
  <1> DEFINE S == {k \in Nat : \E f : Sized(f, names, k)}
  <1>1. 0 \in S
    <2>1. Sized([i \in 0 .. 0 |-> 0], names, 0)
      BY DEF Sized
    <2> QED
      BY <2>1
  <1>2. ASSUME NEW k \in Nat, k \in S PROVE k + 1 \in S
    <2>1. PICK g : Sized(g, names, k)
      BY <1>2
    <2> DEFINE f == [i \in 0 .. k + 1 |-> IF i = k + 1 THEN AddTypeSize(g[k], names[k + 1]) ELSE g[i]]
    <2>2. \A i \in 0 .. k + 1 : f[i] = IF i = 0 THEN 0 ELSE AddTypeSize(f[i - 1], names[i])
      BY <2>1 DEF Sized
    <2>3. Sized(f, names, k + 1)
      BY <2>2 DEF Sized
    <2> QED
      <3> HIDE DEF f
      <3> QED
        BY <2>3
  <1> QED
    <2> HIDE DEF S
    <2>1. n \in S
      BY <1>1, <1>2, NatSet
    <2> QED
      BY <2>1 DEF S

\* ParamsSize is where that loop ends.
LEMMA ParamsSizeLoop ==
    ASSUME NEW names, Len(names) \in Nat
    PROVE  \E f : Sized(f, names, Len(names)) /\ ParamsSize(names) = f[Len(names)]
  <1>1. \E f : Sized(f, names, Len(names))
    BY SizedExists
  <1>2. Sized(CHOOSE f : Sized(f, names, Len(names)), names, Len(names))
    BY <1>1, Zenon
  <1>3. ParamsSize(names) = (CHOOSE f : Sized(f, names, Len(names)))[Len(names)]
    BY Zenon DEF Sized, ParamsSize
  <1> QED
    BY <1>2, <1>3, Zenon

\* The sums of the first numbers of a sequence.
Summed(f, lengths, n) == f = [i \in 0 .. n |-> IF i = 0 THEN 0 ELSE f[i - 1] + lengths[i]]

\* Any number of summands has sums.
LEMMA SummedExists ==
    ASSUME NEW lengths, NEW n \in Nat
    PROVE  \E f : Summed(f, lengths, n)
  <1> DEFINE S == {k \in Nat : \E f : Summed(f, lengths, k)}
  <1>1. 0 \in S
    <2>1. Summed([i \in 0 .. 0 |-> 0], lengths, 0)
      BY DEF Summed
    <2> QED
      BY <2>1
  <1>2. ASSUME NEW k \in Nat, k \in S PROVE k + 1 \in S
    <2>1. PICK g : Summed(g, lengths, k)
      BY <1>2
    <2> DEFINE f == [i \in 0 .. k + 1 |-> IF i = k + 1 THEN g[k] + lengths[k + 1] ELSE g[i]]
    <2>2. \A i \in 0 .. k + 1 : f[i] = IF i = 0 THEN 0 ELSE f[i - 1] + lengths[i]
      BY <2>1 DEF Summed
    <2>3. Summed(f, lengths, k + 1)
      BY <2>2 DEF Summed
    <2> QED
      <3> HIDE DEF f
      <3> QED
        BY <2>3
  <1> QED
    <2> HIDE DEF S
    <2>1. n \in S
      BY <1>1, <1>2, NatSet
    <2> QED
      BY <2>1 DEF S

\* Total is the last of them.
LEMMA TotalLoop ==
    ASSUME NEW lengths, Len(lengths) \in Nat
    PROVE  \E f : Summed(f, lengths, Len(lengths)) /\ Total(lengths) = f[Len(lengths)]
  <1>1. \E f : Summed(f, lengths, Len(lengths))
    BY SummedExists
  <1>2. Summed(CHOOSE f : Summed(f, lengths, Len(lengths)), lengths, Len(lengths))
    BY <1>1, Zenon
  <1>3. Total(lengths) = (CHOOSE f : Summed(f, lengths, Len(lengths)))[Len(lengths)]
    BY Zenon DEF Summed, Total
  <1> QED
    BY <1>2, <1>3, Zenon

\* What a sequence that is read goes through.
Filled(f, r, item, n) == f = [i \in 0 .. n |-> IF i = 0 THEN [input |-> r, value |-> <<>>] ELSE ReadNext(f[i - 1], item)]

\* The loop of operator>> for a vector can be run to its end.
LEMMA FilledExists ==
    ASSUME NEW r, NEW item, NEW n \in Nat
    PROVE  \E f : Filled(f, r, item, n)
  <1> DEFINE S == {k \in Nat : \E f : Filled(f, r, item, k)}
  <1>1. 0 \in S
    <2>1. Filled([i \in 0 .. 0 |-> [input |-> r, value |-> <<>>]], r, item, 0)
      BY DEF Filled
    <2> QED
      BY <2>1
  <1>2. ASSUME NEW k \in Nat, k \in S PROVE k + 1 \in S
    <2>1. PICK g : Filled(g, r, item, k)
      BY <1>2
    <2> DEFINE f == [i \in 0 .. k + 1 |-> IF i = k + 1 THEN ReadNext(g[k], item) ELSE g[i]]
    <2>2. \A i \in 0 .. k + 1 : f[i] = IF i = 0 THEN [input |-> r, value |-> <<>>] ELSE ReadNext(f[i - 1], item)
      BY <2>1 DEF Filled
    <2>3. Filled(f, r, item, k + 1)
      BY <2>2 DEF Filled
    <2> QED
      <3> HIDE DEF f
      <3> QED
        BY <2>3
  <1> QED
    <2> HIDE DEF S
    <2>1. n \in S
      BY <1>1, <1>2, NatSet
    <2> QED
      BY <2>1 DEF S

\* ReadSeq is where that loop ends.
LEMMA ReadSeqLoop ==
    ASSUME NEW r, NEW item, NEW count \in Nat
    PROVE  \E f : Filled(f, r, item, count) /\ ReadSeq(r, count, item) = f[count]
  <1>1. \E f : Filled(f, r, item, count)
    BY FilledExists
  <1>2. Filled(CHOOSE f : Filled(f, r, item, count), r, item, count)
    BY <1>1, Zenon
  <1>3. ReadSeq(r, count, item) = (CHOOSE f : Filled(f, r, item, count))[count]
    BY Zenon DEF Filled, ReadSeq
  <1> QED
    BY <1>2, <1>3, Zenon

Shifted(t, bytes, i) == (t * Base + bytes[Len(bytes) - i + 1]) % Power[Len(bytes)]
Signs(v, bytes, signed) == IF signed THEN Signed(v, Len(bytes)) ELSE v

\* The numbers that bytes shifted in go through.
Assembled(f, bytes, n) == f = [i \in 0 .. n |-> IF i = 0 THEN 0 ELSE Shifted(f[i - 1], bytes, i)]

\* The loop of ReadUnsafe can be run to its end.
LEMMA AssembledExists ==
    ASSUME NEW bytes, NEW n \in Nat
    PROVE  \E f : Assembled(f, bytes, n)
  <1> DEFINE S == {k \in Nat : \E f : Assembled(f, bytes, k)}
  <1>1. 0 \in S
    <2>1. Assembled([i \in 0 .. 0 |-> 0], bytes, 0)
      BY DEF Assembled
    <2> QED
      BY <2>1
  <1>2. ASSUME NEW k \in Nat, k \in S PROVE k + 1 \in S
    <2>1. PICK g : Assembled(g, bytes, k)
      BY <1>2
    <2> DEFINE f == [i \in 0 .. k + 1 |-> IF i = k + 1 THEN Shifted(g[k], bytes, (k + 1)) ELSE g[i]]
    <2>2. \A i \in 0 .. k + 1 : f[i] = IF i = 0 THEN 0 ELSE Shifted(f[i - 1], bytes, i)
      BY <2>1 DEF Assembled
    <2>3. Assembled(f, bytes, k + 1)
      BY <2>2 DEF Assembled
    <2> QED
      <3> HIDE DEF f
      <3> QED
        BY <2>3
  <1> QED
    <2> HIDE DEF S
    <2>1. n \in S
      BY <1>1, <1>2, NatSet
    <2> QED
      BY <2>1 DEF S

\* ReadUnsafe is where that loop ends, with its sign.
LEMMA ReadUnsafeLoop ==
    ASSUME NEW bytes, NEW signed, Len(bytes) \in Nat
    PROVE  \E f : Assembled(f, bytes, Len(bytes)) /\ ReadUnsafe(bytes, signed) = Signs(f[Len(bytes)], bytes, signed)
  <1>1. \E f : Assembled(f, bytes, Len(bytes))
    BY AssembledExists
  <1>2. Assembled(CHOOSE f : Assembled(f, bytes, Len(bytes)), bytes, Len(bytes))
    BY <1>1, Zenon
  <1>3. ReadUnsafe(bytes, signed) = Signs((CHOOSE f : Assembled(f, bytes, Len(bytes)))[Len(bytes)], bytes, signed)
    BY Zenon DEF Assembled, ReadUnsafe, Shifted, Signs
  <1> QED
    BY <1>2, <1>3, Zenon

\* The first powers of a number.
Powered(f, b, n) == f = [i \in 0 .. n |-> IF i = 0 THEN 1 ELSE b * f[i - 1]]

\* Every number has powers.
LEMMA PoweredExists ==
    ASSUME NEW b, NEW n \in Nat
    PROVE  \E f : Powered(f, b, n)
  <1> DEFINE S == {k \in Nat : \E f : Powered(f, b, k)}
  <1>1. 0 \in S
    <2>1. Powered([i \in 0 .. 0 |-> 1], b, 0)
      BY DEF Powered
    <2> QED
      BY <2>1
  <1>2. ASSUME NEW k \in Nat, k \in S PROVE k + 1 \in S
    <2>1. PICK g : Powered(g, b, k)
      BY <1>2
    <2> DEFINE f == [i \in 0 .. k + 1 |-> IF i = k + 1 THEN b * g[k] ELSE g[i]]
    <2>2. \A i \in 0 .. k + 1 : f[i] = IF i = 0 THEN 1 ELSE b * f[i - 1]
      BY <2>1 DEF Powered
    <2>3. Powered(f, b, k + 1)
      BY <2>2 DEF Powered
    <2> QED
      <3> HIDE DEF f
      <3> QED
        BY <2>3
  <1> QED
    <2> HIDE DEF S
    <2>1. n \in S
      BY <1>1, <1>2, NatSet
    <2> QED
      BY <2>1 DEF S

\* More powers agree with fewer.
LEMMA PoweredUnique ==
    ASSUME NEW b, NEW n \in Nat, NEW m \in Nat, n =< m, NEW f, NEW g, Powered(f, b, n), Powered(g, b, m)
    PROVE  \A k \in 0 .. n : f[k] = g[k]
  <1> DEFINE S == {k \in Nat : k =< n => f[k] = g[k]}
  <1>1. 0 \in S
    BY DEF Powered
  <1>2. ASSUME NEW k \in Nat, k \in S PROVE k + 1 \in S
    BY <1>2 DEF Powered
  <1>3. \A k \in Nat : k \in S
    <2> HIDE DEF S
    <2> QED
      BY <1>1, <1>2, NatSet
  <1> QED
    BY <1>3

\* Power is what its recursion says.
LEMMA PowerIs == \A n \in Nat : Power[n] = IF n = 0 THEN 1 ELSE Base * Power[n - 1]
  <1> DEFINE First(n) == CHOOSE f : Powered(f, Base, n)
             P == [n \in Nat |-> First(n)[n]]
             Powers(f) == f = [n \in Nat |-> IF n = 0 THEN 1 ELSE Base * f[n - 1]]
  <1>1. ASSUME NEW n \in Nat PROVE Powered(First(n), Base, n)
    <2>1. \E f : Powered(f, Base, n)
      BY PoweredExists
    <2> QED
      BY <2>1, Zenon
  <1>2. ASSUME NEW n \in Nat PROVE P[n] = IF n = 0 THEN 1 ELSE Base * P[n - 1]
    <2>1. First(n)[n] = IF n = 0 THEN 1 ELSE Base * First(n)[n - 1]
      <3> HIDE DEF First
      <3> QED
        BY <1>1 DEF Powered
    <2>2. ASSUME n # 0 PROVE First(n)[n - 1] = First(n - 1)[n - 1]
      <3>1. n - 1 \in Nat /\ n - 1 =< n /\ n - 1 \in 0 .. n - 1
        BY <2>2
      <3> HIDE DEF First
      <3> QED
        BY <1>1, <3>1, PoweredUnique
    <2> HIDE DEF First
    <2> QED
      BY <2>1, <2>2
  <1>3. Powers(P)
    <2> HIDE DEF First
    <2> QED
      BY <1>2
  <1>4. Powers(CHOOSE f : Powers(f))
    <2> HIDE DEF Powers, P
    <2> QED
      BY <1>3, Zenon
  <1>5. Power = CHOOSE f : Powers(f)
    BY Zenon DEF Power
  <1>6. Powers(Power)
    BY <1>4, <1>5, Zenon
  <1> QED
    BY <1>6

\* Powers are numbers of values.
LEMMA PowerPositive == \A n \in Nat : Power[n] \in Nat \ {0}
  <1> DEFINE S == {n \in Nat : Power[n] \in Nat \ {0}}
  <1>1. 0 \in S
    BY PowerIs
  <1>2. ASSUME NEW n \in Nat, n \in S PROVE n + 1 \in S
    <2>1. Power[n + 1] = Base * Power[n]
      BY PowerIs
    <2>2. Power[n] \in Nat \ {0} /\ Base \in Nat \ {0}
      BY <1>2, DataStreamConstants
    <2>3. \A x, y \in Nat \ {0} : x * y \in Nat \ {0}
      OBVIOUS
    <2> QED
      BY <2>1, <2>2, <2>3
  <1> QED
    <2> HIDE DEF S
    <2>1. \A n \in Nat : n \in S
      BY <1>1, <1>2, NatSet
    <2> QED
      BY <2>1 DEF S

\* Sizes.
LEMMA SizesType ==
    /\ Base \in Nat /\ Base > 1 /\ LengthWidth \in Nat /\ LengthWidth > 0
    /\ PacketSizes \in Nat \ {0} /\ MaxPacketSize \in Nat /\ MaxPacketSize = PacketSizes - 1
    /\ CallHeaderSize \in Nat /\ CallHeaderSize = 3 * LengthWidth
  <1>1. PacketSizes \in Nat \ {0}
    BY PowerPositive, DataStreamConstants DEF PacketSizes
  <1> QED
    BY <1>1, DataStreamConstants DEF MaxPacketSize, CallHeaderSize

-----------------------------------------------------------------------------
(* What writing and reading return                                         *)

Memory == 0 .. Base
Streams == [stored : BOOLEAN, data : Seq(Memory), pos : 0 .. MaxPacketSize, asserted : BOOLEAN, spilled : BOOLEAN]
Inputs == [data : Seq(Memory), pos : Nat, asserted : BOOLEAN, overrun : BOOLEAN]

\* An input that was not read beyond its end.
Within(r) == r \in Inputs /\ r.pos =< Len(r.data) /\ Len(r.data) =< MaxPacketSize /\ ~r.overrun

\* Pieces of bytes.
ArePieces(pieces) ==
    Len(pieces) \in Nat /\ DOMAIN pieces = 1 .. Len(pieces) /\ \A i \in 1 .. Len(pieces) : pieces[i] \in Seq(Byte)

\* A remainder is less than the divisor.
LEMMA ModType == \A a \in Int, b \in Nat \ {0} : a % b \in 0 .. b - 1
  OBVIOUS

\* What is less than the divisor is its own remainder.
LEMMA ModSmall == \A a \in Nat, b \in Nat \ {0} : a < b => a % b = a
  OBVIOUS

\* A size that wraps around is a PacketSize.
LEMMA ModPacket == \A a \in Int : a % PacketSizes \in 0 .. MaxPacketSize
  <1>1. PacketSizes \in Nat \ {0} /\ MaxPacketSize = PacketSizes - 1
    BY SizesType
  <1> QED
    BY <1>1, ModType, Zenon

\* A PacketSize does not wrap around.
LEMMA ModPacketSmall == \A a \in Nat : a =< MaxPacketSize => a % PacketSizes = a
  <1>1. PacketSizes \in Nat \ {0} /\ \A a \in Nat : a =< MaxPacketSize => a < PacketSizes
    BY SizesType
  <1> QED
    BY <1>1, ModSmall, Zenon

\* Division with remainder.
LEMMA DivMod == \A a \in Int, b \in Nat \ {0} : a = b * (a \div b) + (a % b) /\ a % b \in 0 .. b - 1 /\ a \div b \in Int
  <1> SUFFICES ASSUME NEW a \in Int, NEW b \in Nat \ {0}
               PROVE a = b * (a \div b) + (a % b) /\ a % b \in 0 .. b - 1 /\ a \div b \in Int
    OBVIOUS
  <1>1. a \div b \in Int
    OBVIOUS
  <1>2. a % b \in 0 .. b - 1
    OBVIOUS
  <1>3. a % b = a - b * (a \div b)
    OBVIOUS
  <1> QED
    <2> DEFINE q == a \div b
               r == a % b
    <2>1. q \in Int /\ r \in 0 .. b - 1 /\ r = a - b * q
      BY <1>1, <1>2, <1>3
    <2> HIDE DEF q, r
    <2>2. a = b * q + r
      BY <2>1
    <2> QED
      BY <2>1, <2>2 DEF q, r

\* Quotient and remainder are unique.
LEMMA QuotientUnique ==
  ASSUME NEW b \in Nat \ {0}, NEW q \in Int, NEW p \in Int, NEW r \in 0 .. b - 1, NEW s \in 0 .. b - 1, b * q + r = b * p + s
  PROVE  q = p /\ r = s
  <1>1. b * (q - p) = s - r
    OBVIOUS
  <1>2. CASE q > p
    <2>1. b * (q - p) >= b * 1
      BY <1>2
    <2> QED
      BY <1>1, <2>1
  <1>3. CASE q < p
    <2>1. b * (p - q) >= b * 1
      BY <1>3
    <2>2. b * (q - p) = - (b * (p - q))
      OBVIOUS
    <2> QED
      BY <1>1, <2>1, <2>2
  <1> QED
    BY <1>1, <1>2, <1>3

\* A quotient and a remainder are the quotient and the remainder.
LEMMA DivModIs ==
  ASSUME NEW a \in Int, NEW b \in Nat \ {0}, NEW q \in Int, NEW r \in 0 .. b - 1, a = b * q + r
  PROVE  a \div b = q /\ a % b = r
  <1>1. a = b * (a \div b) + (a % b) /\ a % b \in 0 .. b - 1 /\ a \div b \in Int
    BY DivMod
  <1> DEFINE x == a \div b
             y == a % b
  <1>2. x \in Int /\ y \in 0 .. b - 1 /\ b * x + y = b * q + r
    BY <1>1
  <1> HIDE DEF x, y
  <1>3. x = q /\ y = r
    BY <1>2, QuotientUnique
  <1> QED BY <1>3 DEF x, y

\* Sums may be reduced early.
LEMMA ModAdd ==
  ASSUME NEW a \in Int, NEW c \in Int, NEW b \in Nat \ {0}
  PROVE  ((a % b) + c) % b = (a + c) % b
  <1> DEFINE q == a \div b
             r == a % b
             p == (r + c) \div b
             t == (r + c) % b
  <1>1. q \in Int /\ r \in 0 .. b - 1 /\ a = b * q + r
    BY DivMod
  <1>2. r + c \in Int
    BY <1>1
  <1>3. p \in Int /\ t \in 0 .. b - 1 /\ r + c = b * p + t
    <2> HIDE DEF r
    <2> QED BY <1>2, DivMod
  <1> HIDE DEF q, r, p, t
  <1>4. a + c = b * (p + q) + t /\ p + q \in Int /\ a + c \in Int
    BY <1>1, <1>3
  <1>5. (a + c) % b = t
    BY <1>3, <1>4, DivModIs
  <1> QED BY <1>5 DEF t, r

\* A sequence has the values of its function.
LEMMA SeqOf ==
    ASSUME NEW S, NEW n \in Nat, NEW f, f = [i \in 1 .. n |-> f[i]], \A i \in 1 .. n : f[i] \in S
    PROVE  f \in Seq(S) /\ Len(f) = n /\ DOMAIN f = 1 .. n
  <1>1. f \in [1 .. n -> S]
    BY Zenon
  <1> QED
    BY <1>1

\* A quotient of integers is an integer.
LEMMA DivType == \A a \in Int, b \in Nat \ {0} : a \div b \in Int
  OBVIOUS

\* WriteUnsafe makes n bytes.
LEMMA DigitsType ==
    ASSUME NEW v \in Int, NEW n \in Nat
    PROVE  /\ WriteUnsafe(v, n) \in Seq(Byte) /\ Len(WriteUnsafe(v, n)) = n
           /\ \A i \in 1 .. n : WriteUnsafe(v, n)[i] = (v \div Power[i - 1]) % Base
  <1>1. ASSUME NEW i \in 1 .. n PROVE (v \div Power[i - 1]) % Base \in Byte
    <2>1. Power[i - 1] \in Nat \ {0}
      BY PowerPositive
    <2>2. v \div Power[i - 1] \in Int
      BY <2>1, DivType
    <2>3. Base \in Nat \ {0}
      BY SizesType
    <2> QED
      BY <2>2, <2>3, ModType, Zenon DEF Byte
  <1> QED
    BY <1>1 DEF WriteUnsafe

\* A length takes LengthWidth bytes.
LEMMA LengthType ==
    ASSUME NEW v \in Int
    PROVE  LengthBytes(v) \in Seq(Byte) /\ Len(LengthBytes(v)) = LengthWidth
  BY DigitsType, SizesType DEF LengthBytes

\* A write.
LEMMA RawWritten ==
    ASSUME NEW s \in Streams, NEW bytes \in Seq(Byte)
    PROVE  LET t == WriteRawData(s, bytes)
           IN  /\ t \in Streams /\ t.stored = s.stored /\ Len(t.data) = Len(s.data)
               /\ ~s.stored => /\ t.pos = Advance(s, Len(bytes))
                               /\ t.asserted = s.asserted /\ t.spilled = s.spilled
               /\ s.pos + Len(bytes) =< Len(s.data) /\ Len(s.data) =< MaxPacketSize =>
                    /\ t.pos = s.pos + Len(bytes) /\ t.asserted = s.asserted /\ t.spilled = s.spilled
                    /\ \A i \in 1 .. Len(s.data) :
                          t.data[i] = IF s.pos < i /\ i =< s.pos + Len(bytes) THEN bytes[i - s.pos] ELSE s.data[i]
  <1> DEFINE n == Len(bytes)
             d == [i \in DOMAIN s.data |-> IF i \in s.pos + 1 .. s.pos + n THEN bytes[i - s.pos] ELSE s.data[i]]
  <1>1. n \in Nat /\ \A i \in 1 .. n : bytes[i] \in Memory
    BY SizesType DEF Byte, Memory
  <1>2. s.data \in Seq(Memory) /\ s.pos \in Nat /\ s.pos =< MaxPacketSize /\ s.stored \in BOOLEAN
    BY SizesType DEF Streams
  <1>3. d \in Seq(Memory) /\ Len(d) = Len(s.data) /\ DOMAIN d = 1 .. Len(s.data)
    <2>1. DOMAIN s.data = 1 .. Len(s.data) /\ Len(s.data) \in Nat /\ \A i \in 1 .. Len(s.data) : s.data[i] \in Memory
      BY <1>2
    <2>2. \A i \in s.pos + 1 .. s.pos + n : i - s.pos \in 1 .. n
      BY <1>1, <1>2
    <2>3. \A i \in 1 .. Len(s.data) : d[i] \in Memory
      BY <1>1, <2>1, <2>2
    <2>4. d = [i \in 1 .. Len(s.data) |-> d[i]]
      BY <2>1
    <2> HIDE DEF d
    <2> QED
      BY <2>1, <2>3, <2>4, SeqOf
  <1>8. s.pos + n \in Nat /\ s.pos + n \in Int
    BY <1>1, <1>2
  <1>4. Advance(s, n) \in 0 .. MaxPacketSize
    BY <1>8, ModPacket, Zenon DEF Advance
  <1>5. s.pos + n =< MaxPacketSize => Advance(s, n) = s.pos + n
    BY <1>8, ModPacketSmall, Zenon DEF Advance
  <1>6. CASE Refused(s, n)
    <2>1. WriteRawData(s, bytes) = [s EXCEPT !.asserted = TRUE]
      BY <1>6 DEF WriteRawData
    <2>2. s.stored /\ ~(s.pos + n =< Len(s.data))
      BY <1>1, <1>2, <1>6 DEF Refused
    <2> QED
      BY <2>1, <2>2 DEF Streams
  <1>7. CASE ~Refused(s, n)
    <2> DEFINE t == [stored |-> s.stored, data |-> d, pos |-> Advance(s, n), asserted |-> s.asserted,
                     spilled |-> s.spilled \/ (s.stored /\ s.pos + n > Len(s.data))]
    <2>1. WriteRawData(s, bytes) = t
      BY <1>7 DEF WriteRawData, Streams
    <2>2. t \in Streams
      <3>1. s.asserted \in BOOLEAN /\ s.spilled \in BOOLEAN /\ s.stored \in BOOLEAN
        BY DEF Streams
      <3>2. (s.spilled \/ (s.stored /\ s.pos + n > Len(s.data))) \in BOOLEAN
        OBVIOUS
      <3> HIDE DEF d
      <3> QED
        BY <1>3, <1>4, <3>1, <3>2 DEF Streams
    <2>3. ~s.stored => t.spilled = s.spilled
      BY DEF Streams
    <2>4. s.pos + n =< Len(s.data) => t.spilled = s.spilled
      BY <1>1, <1>2 DEF Streams
    <2>5. t.stored = s.stored /\ t.data = d /\ t.pos = Advance(s, n) /\ t.asserted = s.asserted
      OBVIOUS
    <2>6. \A i \in 1 .. Len(s.data) : d[i] = IF s.pos < i /\ i =< s.pos + n THEN bytes[i - s.pos] ELSE s.data[i]
      BY <1>1, <1>2, <1>3
    <2>7. s.pos + n =< Len(s.data) /\ Len(s.data) =< MaxPacketSize => s.pos + n =< MaxPacketSize
      BY <1>1, <1>2, SizesType
    <2> HIDE DEF t, d
    <2> QED
      BY <1>3, <1>5, <2>1, <2>2, <2>3, <2>4, <2>5, <2>6, <2>7
  <1> QED
    BY <1>6, <1>7

-----------------------------------------------------------------------------
(* What an operator writes                                                 *)

Lengths(pieces) == [i \in 1 .. Len(pieces) |-> Len(pieces[i])]

\* A sequence of numbers.
AreNumbers(lengths) ==
    Len(lengths) \in Nat /\ DOMAIN lengths = 1 .. Len(lengths) /\ \A i \in 1 .. Len(lengths) : lengths[i] \in Nat

\* A sum and the next summand make the next sum.
LEMMA SumStep ==
    ASSUME NEW lengths, NEW n \in Nat, NEW g, Summed(g, lengths, n)
    PROVE  g[0] = 0 /\ \A k \in 1 .. n : g[k] = g[k - 1] + lengths[k]
  BY DEF Summed

\* Sums of natural numbers only grow.
LEMMA SumType ==
    ASSUME NEW lengths, NEW n \in Nat, NEW g, Summed(g, lengths, n), \A i \in 1 .. n : lengths[i] \in Nat
    PROVE  \A k \in 0 .. n : g[k] \in Nat /\ g[k] =< g[n] /\ \A j \in 0 .. k : g[j] =< g[k]
  <1> DEFINE S == {k \in Nat : k =< n => g[k] \in Nat /\ \A j \in 0 .. k : g[j] \in Nat /\ g[j] =< g[k]}
  <1>0. g[0] = 0 /\ \A k \in 1 .. n : g[k] = g[k - 1] + lengths[k]
    BY SumStep
  <1>1. 0 \in S
    BY <1>0
  <1>2. ASSUME NEW k \in Nat, k \in S PROVE k + 1 \in S
    <2> SUFFICES ASSUME k + 1 =< n
                 PROVE  g[k + 1] \in Nat /\ \A j \in 0 .. k + 1 : g[j] \in Nat /\ g[j] =< g[k + 1]
      OBVIOUS
    <2>1. g[k] \in Nat /\ \A j \in 0 .. k : g[j] \in Nat /\ g[j] =< g[k]
      BY <1>2
    <2>2. g[k + 1] = g[k] + lengths[k + 1] /\ lengths[k + 1] \in Nat
      <3>1. g[k + 1] = g[(k + 1) - 1] + lengths[k + 1] /\ lengths[k + 1] \in Nat
        BY <1>0
      <3> QED
        BY <3>1
    <2>3. ASSUME NEW j \in 0 .. k + 1 PROVE g[j] \in Nat /\ g[j] =< g[k + 1]
      <3>1. CASE j = k + 1
        BY <2>1, <2>2, <3>1
      <3>2. CASE j # k + 1
        <4>1. g[j] \in Nat /\ g[j] =< g[k]
          BY <2>1, <3>2
        <4> QED
          BY <2>1, <2>2, <4>1
      <3> QED
        BY <3>1, <3>2
    <2> QED
      BY <2>1, <2>2, <2>3
  <1>3. \A k \in Nat : k \in S
    <2> HIDE DEF S
    <2> QED
      BY <1>1, <1>2, NatSet
  <1> QED
    BY <1>3

\* There is one way to add up a sequence.
LEMMA SumUnique ==
    ASSUME NEW lengths, NEW n \in Nat, NEW f, NEW g, Summed(f, lengths, n), Summed(g, lengths, n)
    PROVE  \A k \in 0 .. n : f[k] = g[k]
  <1> DEFINE S == {k \in Nat : k =< n => f[k] = g[k]}
  <1>1. 0 \in S
    BY SumStep
  <1>2. ASSUME NEW k \in Nat, k \in S PROVE k + 1 \in S
    BY <1>2, SumStep
  <1>3. \A k \in Nat : k \in S
    <2> HIDE DEF S
    <2> QED
      BY <1>1, <1>2, NatSet
  <1> QED
    BY <1>3

\* Any way to add up a sequence gives its total.
LEMMA TotalIs ==
    ASSUME NEW lengths, Len(lengths) \in Nat, NEW g, Summed(g, lengths, Len(lengths))
    PROVE  Total(lengths) = g[Len(lengths)]
  <1>1. PICK f : Summed(f, lengths, Len(lengths)) /\ Total(lengths) = f[Len(lengths)]
    BY TotalLoop
  <1> QED
    BY <1>1, SumUnique

\* The lengths of pieces are natural numbers.
LEMMA LengthsType ==
    ASSUME NEW pieces, ArePieces(pieces)
    PROVE  /\ AreNumbers(Lengths(pieces)) /\ Len(Lengths(pieces)) = Len(pieces)
           /\ \A i \in 1 .. Len(pieces) : Lengths(pieces)[i] = Len(pieces[i])
  BY DEF ArePieces, Lengths, AreNumbers

\* How many bytes the first pieces have.
Sums(g, pieces) == Summed(g, Lengths(pieces), Len(pieces))

\* What writing the first k pieces has done.
WrittenUpTo(s, t, pieces, g, k) ==
    /\ t \in Streams /\ t.stored = s.stored /\ Len(t.data) = Len(s.data)
    /\ ~s.stored => t.pos = (s.pos + g[k]) % PacketSizes /\ t.asserted = s.asserted /\ t.spilled = s.spilled
    /\ s.pos + g[Len(pieces)] =< Len(s.data) /\ Len(s.data) =< MaxPacketSize =>
         /\ t.pos = s.pos + g[k] /\ t.asserted = s.asserted /\ t.spilled = s.spilled
         /\ \A j \in 1 .. k : \A i \in DOMAIN pieces[j] : t.data[s.pos + g[j - 1] + i] = pieces[j][i]
         /\ \A i \in 1 .. Len(s.data) : i =< s.pos \/ i > s.pos + g[k] => t.data[i] = s.data[i]

\* WriteRawData of the next piece puts it behind those before it.
LEMMA OneMoreWritten ==
    ASSUME NEW s \in Streams, NEW pieces, ArePieces(pieces), NEW g, Sums(g, pieces),
           NEW k \in Nat, k + 1 \in DOMAIN pieces, NEW t, WrittenUpTo(s, t, pieces, g, k)
    PROVE  WrittenUpTo(s, WriteRawData(t, pieces[k + 1]), pieces, g, k + 1)
  <1> DEFINE p == pieces[k + 1]
             u == WriteRawData(t, p)
             n == Len(pieces)
             m == Len(p)
             L == Len(s.data)
  <1>1. p \in Seq(Byte) /\ m \in Nat /\ n \in Nat /\ k + 1 \in 1 .. n /\ k \in 0 .. n
    BY DEF ArePieces
  <1>2. g[k + 1] = g[k] + m /\ (\A j \in 0 .. n : g[j] \in Nat /\ g[j] =< g[n] /\ \A i \in 0 .. j : g[i] =< g[j])
    <2>1. \A i \in 1 .. n : Lengths(pieces)[i] \in Nat /\ Lengths(pieces)[i] = Len(pieces[i])
      BY LengthsType DEF AreNumbers
    <2>2. \A j \in 0 .. n : g[j] \in Nat /\ g[j] =< g[n] /\ \A i \in 0 .. j : g[i] =< g[j]
      BY <1>1, <2>1, SumType DEF Sums
    <2>3. g[k + 1] = g[(k + 1) - 1] + Lengths(pieces)[k + 1]
      BY <1>1, SumStep DEF Sums
    <2> QED
      BY <1>1, <2>1, <2>2, <2>3
  <1>3. t \in Streams /\ t.stored = s.stored /\ Len(t.data) = L
    BY DEF WrittenUpTo
  <1>4. /\ u \in Streams /\ u.stored = s.stored /\ Len(u.data) = L
        /\ ~s.stored => /\ u.pos = Advance(t, m)
                        /\ u.asserted = t.asserted /\ u.spilled = t.spilled
        /\ t.pos + m =< L /\ L =< MaxPacketSize =>
              /\ u.pos = t.pos + m /\ u.asserted = t.asserted /\ u.spilled = t.spilled
              /\ \A i \in 1 .. L :
                    u.data[i] = IF t.pos < i /\ i =< t.pos + m THEN p[i - t.pos] ELSE t.data[i]
    <2> HIDE DEF p
    <2> QED
      BY <1>1, <1>3, RawWritten
  <1>5. s.pos \in Nat /\ t.pos \in Nat /\ L \in Nat
    BY <1>3, SizesType DEF Streams
  <1>6. ASSUME ~s.stored
        PROVE  u.pos = (s.pos + g[k + 1]) % PacketSizes /\ u.asserted = s.asserted /\ u.spilled = s.spilled
    <2>1. t.pos = (s.pos + g[k]) % PacketSizes /\ t.asserted = s.asserted /\ t.spilled = s.spilled
      BY <1>6 DEF WrittenUpTo
    <2>2. u.pos = (((s.pos + g[k]) % PacketSizes) + m) % PacketSizes
      BY <1>4, <1>6, <2>1, Zenon DEF Advance
    <2>3. s.pos + g[k] \in Int /\ m \in Int /\ s.pos + g[k + 1] = (s.pos + g[k]) + m
      BY <1>1, <1>2, <1>5
    <2>4. PacketSizes \in Nat \ {0}
      BY SizesType
    <2>5. (((s.pos + g[k]) % PacketSizes) + m) % PacketSizes = ((s.pos + g[k]) + m) % PacketSizes
      BY <2>3, <2>4, ModAdd
    <2> QED
      BY <1>4, <1>6, <2>1, <2>2, <2>3, <2>5
  <1>7. ASSUME s.pos + g[n] =< L, L =< MaxPacketSize
        PROVE  /\ u.pos = s.pos + g[k + 1] /\ u.asserted = s.asserted /\ u.spilled = s.spilled
               /\ \A j \in 1 .. k + 1 : \A i \in DOMAIN pieces[j] : u.data[s.pos + g[j - 1] + i] = pieces[j][i]
               /\ \A i \in 1 .. L : i =< s.pos \/ i > s.pos + g[k + 1] => u.data[i] = s.data[i]
    <2>0. t.pos = s.pos + g[k] /\ t.asserted = s.asserted /\ t.spilled = s.spilled
      BY <1>7 DEF WrittenUpTo
    <2>1. /\ \A j \in 1 .. k : \A i \in DOMAIN pieces[j] : t.data[s.pos + g[j - 1] + i] = pieces[j][i]
          /\ \A i \in 1 .. L : i =< s.pos \/ i > s.pos + g[k] => t.data[i] = s.data[i]
      BY <1>7 DEF WrittenUpTo
    <2>2. t.pos + m = s.pos + g[k + 1] /\ t.pos + m =< L
      <3>1. g[k + 1] =< g[n] /\ g[k + 1] \in Nat /\ g[n] \in Nat /\ g[k] \in Nat
        BY <1>1, <1>2
      <3> HIDE DEF p, n, m, L
      <3>2. s.pos + g[n] =< L
        BY <1>7
      <3>3. g[k + 1] = g[k] + m /\ m \in Nat
        BY <1>1, <1>2
      <3> QED
        BY <1>5, <2>0, <3>1, <3>2, <3>3
    <2>3. /\ u.pos = t.pos + m /\ u.asserted = t.asserted /\ u.spilled = t.spilled
          /\ \A i \in 1 .. L :
                u.data[i] = IF t.pos < i /\ i =< t.pos + m THEN p[i - t.pos] ELSE t.data[i]
      BY <1>4, <1>7, <2>2
    <2>4. ASSUME NEW j \in 1 .. k + 1, NEW i \in DOMAIN pieces[j]
          PROVE  u.data[s.pos + g[j - 1] + i] = pieces[j][i]
      <3>1. CASE j = k + 1
        <4> DEFINE x == s.pos + g[k] + i
        <4>0. i \in 1 .. m /\ g[k] \in Nat /\ x = t.pos + i
          BY <1>1, <1>2, <2>0, <3>1
        <4>1. x \in 1 .. L /\ t.pos < x /\ x =< t.pos + m /\ x - t.pos = i
          <5> HIDE DEF x, p, n, m, L
          <5>1. m \in Nat /\ i \in Nat /\ i >= 1 /\ i =< m
            BY <1>1, <4>0
          <5> QED
            BY <1>5, <2>2, <4>0, <5>1
        <4>2. u.data[x] = p[i]
          <5> HIDE DEF x, p, u
          <5> QED
            BY <2>3, <4>1
        <4>3. j - 1 = k
          BY <3>1
        <4> HIDE DEF u
        <4> QED
          BY <3>1, <4>2, <4>3
      <3>2. CASE j # k + 1
        <4>1. j \in 1 .. k /\ j - 1 \in 0 .. n /\ j \in 0 .. n /\ j \in 1 .. n
          BY <1>1, <3>2
        <4>2. g[j] = g[j - 1] + Len(pieces[j])
          <5>1. Lengths(pieces)[j] = Len(pieces[j])
            BY <4>1, LengthsType
          <5>2. g[j] = g[j - 1] + Lengths(pieces)[j]
            BY <1>1, <4>1, SumStep DEF Sums
          <5> QED
            BY <5>1, <5>2
        <4>3. g[j] =< g[k]
          BY <1>1, <1>2, <4>1
        <4> DEFINE x == s.pos + g[j - 1] + i
                   l == Len(pieces[j])
        <4>4. l \in Nat /\ i \in Nat /\ i >= 1 /\ i =< l /\ g[j - 1] \in Nat /\ g[j] \in Nat /\ g[k] \in Nat
          BY <1>1, <1>2, <4>1 DEF ArePieces
        <4>5. x \in 1 .. L /\ x =< t.pos
          <5>3. g[j] = g[j - 1] + l
            BY <4>2
          <5> HIDE DEF p, n, m, L, l
          <5>1. x \in Nat /\ x >= 1 /\ x =< t.pos
            BY <1>5, <2>0, <4>3, <4>4, <5>3
          <5>2. t.pos =< L
            BY <1>1, <1>5, <2>2
          <5> HIDE DEF x, L, m
          <5> QED
            BY <1>5, <5>1, <5>2
        <4>6. t.data[x] = pieces[j][i]
          BY <2>1, <4>1
        <4>7. ~ (t.pos < x)
          <5> HIDE DEF x, L, m
          <5> QED
            BY <1>5, <4>5
        <4> HIDE DEF x, u, p
        <4>8. u.data[x] = t.data[x]
          BY <2>3, <4>5, <4>7
        <4> QED
          BY <4>6, <4>8 DEF x
      <3> QED
        BY <3>1, <3>2
    <2>5. ASSUME NEW i \in 1 .. L, i =< s.pos \/ i > s.pos + g[k + 1] PROVE u.data[i] = s.data[i]
      <3>1. g[k] \in Nat /\ g[k + 1] \in Nat
        BY <1>1, <1>2
      <3> HIDE DEF p, u, n, m, L
      <3>3. t.pos + m = s.pos + g[k + 1] /\ t.pos = s.pos + g[k] /\ m \in Nat /\ i \in Int
        BY <1>1, <1>5, <2>0, <2>2
      <3>4. i =< s.pos \/ i > t.pos + m
        BY <2>5, <3>3
      <3>2. ~ (t.pos < i /\ i =< t.pos + m) /\ (i =< s.pos \/ i > s.pos + g[k])
        BY <1>5, <3>1, <3>3, <3>4
      <3> QED
        BY <2>1, <2>3, <3>2
    <2> QED
      BY <2>0, <2>1, <2>2, <2>3, <2>4, <2>5
  <1> QED
    BY <1>4, <1>6, <1>7 DEF WrittenUpTo

\* The lengths of pieces can be added up.
LEMMA SumsExist == \A pieces : Len(pieces) \in Nat => \E g : Sums(g, pieces)
  <1> SUFFICES ASSUME NEW pieces, Len(pieces) \in Nat PROVE \E g : Sums(g, pieces)
    OBVIOUS
  <1> QED
    BY SummedExists, Zenon DEF Sums

\* Where the pieces begin and end.
LEMMA PieceStep ==
    ASSUME NEW pieces, ArePieces(pieces), NEW g, Sums(g, pieces)
    PROVE  /\ g[0] = 0
           /\ \A k \in 1 .. Len(pieces) :
                g[k] = g[k - 1] + Len(pieces[k]) /\ g[k] \in Nat /\ g[k - 1] \in Nat /\ g[k] =< g[Len(pieces)]
  <1> DEFINE n == Len(pieces)
  <1>1. Summed(g, Lengths(pieces), n) /\ n \in Nat
    BY DEF Sums, ArePieces
  <1>2. \A i \in 1 .. n : Lengths(pieces)[i] = Len(pieces[i]) /\ Lengths(pieces)[i] \in Nat
    BY LengthsType DEF AreNumbers
  <1> HIDE DEF n
  <1>3. g[0] = 0 /\ \A k \in 1 .. n : g[k] = g[k - 1] + Lengths(pieces)[k]
    BY <1>1, SumStep
  <1>4. \A k \in 0 .. n : g[k] \in Nat /\ g[k] =< g[n]
    BY <1>1, <1>2, SumType
  <1>5. \A k \in 1 .. n : k - 1 \in 0 .. n /\ k \in 0 .. n
    BY <1>1
  <1>6. \A k \in 1 .. n : g[k] = g[k - 1] + Len(pieces[k]) /\ g[k] \in Nat /\ g[k - 1] \in Nat /\ g[k] =< g[n]
    BY <1>2, <1>3, <1>4, <1>5, Zenon
  <1> QED
    BY <1>3, <1>6 DEF n

\* Writing pieces writes all of them.
LEMMA AllWritten ==
    ASSUME NEW s \in Streams, NEW pieces, ArePieces(pieces), NEW g, Sums(g, pieces)
    PROVE  WrittenUpTo(s, WriteAll(s, pieces), pieces, g, Len(pieces))
  <1> DEFINE n == Len(pieces)
  <1>1. n \in Nat /\ DOMAIN pieces = 1 .. n /\ g[0] = 0
    BY PieceStep DEF ArePieces
  <1>2. PICK f : Wrote(f, s, pieces, n) /\ WriteAll(s, pieces) = f[n]
    BY <1>1, WriteAllLoop
  <1> DEFINE S == {k \in Nat : k =< n => WrittenUpTo(s, f[k], pieces, g, k)}
  <1> HIDE DEF n
  <1>3. f[0] = s /\ \A k \in 1 .. n : f[k] = WriteRawData(f[k - 1], pieces[k])
    BY <1>1, <1>2 DEF Wrote
  <1>4. 0 \in S
    <2>1. s.pos \in Nat /\ s.pos =< MaxPacketSize
      BY SizesType DEF Streams
    <2>2. s.pos % PacketSizes = s.pos /\ s.pos + 0 = s.pos
      BY <2>1, ModPacketSmall
    <2>3. WrittenUpTo(s, s, pieces, g, 0)
      BY <1>1, <2>1, <2>2 DEF WrittenUpTo
    <2> QED
      BY <1>3, <2>3
  <1>5. ASSUME NEW k \in Nat, k \in S PROVE k + 1 \in S
    <2> SUFFICES ASSUME k + 1 =< n PROVE WrittenUpTo(s, f[k + 1], pieces, g, k + 1)
      OBVIOUS
    <2>1. WrittenUpTo(s, f[k], pieces, g, k)
      BY <1>1, <1>5
    <2>2. k + 1 \in DOMAIN pieces
      BY <1>1
    <2>3. f[k + 1] = WriteRawData(f[k], pieces[k + 1])
      <3>1. f[k + 1] = WriteRawData(f[(k + 1) - 1], pieces[k + 1]) /\ (k + 1) - 1 = k
        BY <1>1, <1>3
      <3> QED
        BY <3>1
    <2> QED
      BY <2>1, <2>2, <2>3, OneMoreWritten
  <1>6. \A k \in Nat : k \in S
    <2> HIDE DEF S
    <2> QED
      BY <1>4, <1>5, NatSet
  <1>7. WrittenUpTo(s, f[n], pieces, g, n)
    BY <1>1, <1>6
  <1> QED
    BY <1>2, <1>7 DEF n

\* Pieces that come in pairs, after the first one.
Pairs(pieces, lengths, m) ==
    /\ ArePieces(pieces) /\ Len(pieces) = 2 * m + 1
    /\ \A i \in 1 .. m : lengths[i] = Len(pieces[2 * i]) + Len(pieces[2 * i + 1])

\* Pieces in pairs, after the first one, take as many bytes as the pairs do.
LEMMA PairsSum ==
    ASSUME NEW pieces, NEW lengths, NEW m \in Nat, Pairs(pieces, lengths, m), NEW g, Sums(g, pieces),
           NEW h, Summed(h, lengths, m)
    PROVE  \A i \in 0 .. m : g[2 * i + 1] = Len(pieces[1]) + h[i]
  <1> DEFINE l(i) == Len(pieces[i])
             S == {k \in Nat : k =< m => g[2 * k + 1] = l(1) + h[k]}
  <1>1. g[0] = 0 /\ \A k \in 1 .. 2 * m + 1 : g[k] = g[k - 1] + l(k) /\ g[k] \in Nat /\ l(k) \in Nat
    <2>1. ArePieces(pieces) /\ Len(pieces) = 2 * m + 1
      BY DEF Pairs
    <2>2. \A k \in 1 .. 2 * m + 1 : pieces[k] \in Seq(Byte)
      BY <2>1 DEF ArePieces
    <2>3. \A k \in 1 .. 2 * m + 1 : Len(pieces[k]) \in Nat
      BY <2>2
    <2>4. g[0] = 0 /\ \A k \in 1 .. 2 * m + 1 : g[k] = g[k - 1] + Len(pieces[k]) /\ g[k] \in Nat
      BY <2>1, PieceStep
    <2> QED
      BY <2>3, <2>4
  <1>2. h[0] = 0 /\ \A k \in 1 .. m : h[k] = h[k - 1] + lengths[k]
    BY SumStep
  <1>4. \A i \in 1 .. m : lengths[i] = l(2 * i) + l(2 * i + 1)
    BY DEF Pairs
  <1>3. \A k \in 0 .. m : h[k] \in Nat
    <2>1. \A i \in 1 .. m : 2 * i \in 1 .. 2 * m + 1 /\ 2 * i + 1 \in 1 .. 2 * m + 1
      OBVIOUS
    <2> HIDE DEF l
    <2>2. \A i \in 1 .. m : lengths[i] \in Nat
      BY <1>1, <1>4, <2>1
    <2> QED
      BY <2>2, SumType
  <1> HIDE DEF l
  <1>5. 0 \in S
    <2>1. 1 \in 1 .. 2 * m + 1 /\ 1 - 1 = 0 /\ 2 * 0 + 1 = 1
      OBVIOUS
    <2>2. g[1] = g[0] + l(1) /\ l(1) \in Nat
      BY <1>1, <2>1
    <2> QED
      BY <1>1, <1>2, <2>1, <2>2
  <1>6. ASSUME NEW k \in Nat, k \in S PROVE k + 1 \in S
    <2> SUFFICES ASSUME k + 1 =< m PROVE g[2 * (k + 1) + 1] = l(1) + h[k + 1]
      OBVIOUS
    <2>1. g[2 * k + 1] = l(1) + h[k] /\ h[k] \in Nat /\ h[k + 1] \in Nat
      BY <1>3, <1>6
    <2>2. h[k + 1] = h[k] + lengths[k + 1]
      <3>1. k + 1 \in 1 .. m /\ (k + 1) - 1 = k
        OBVIOUS
      <3> QED
        BY <1>2, <3>1
    <2>3. lengths[k + 1] = l(2 * (k + 1)) + l(2 * (k + 1) + 1)
      BY <1>4
    <2>4. g[2 * (k + 1)] = g[2 * k + 1] + l(2 * (k + 1)) /\ l(2 * (k + 1)) \in Nat /\ g[2 * (k + 1)] \in Nat
      <3>1. 2 * (k + 1) \in 1 .. 2 * m + 1 /\ 2 * (k + 1) - 1 = 2 * k + 1
        OBVIOUS
      <3> QED
        BY <1>1, <3>1
    <2>5. g[2 * (k + 1) + 1] = g[2 * (k + 1)] + l(2 * (k + 1) + 1) /\ l(2 * (k + 1) + 1) \in Nat
      <3>1. 2 * (k + 1) + 1 \in 1 .. 2 * m + 1 /\ (2 * (k + 1) + 1) - 1 = 2 * (k + 1)
        OBVIOUS
      <3> QED
        BY <1>1, <3>1
    <2>6. l(1) \in Nat
      BY <1>1
    <2> DEFINE a == g[2 * (k + 1) + 1]
               b == g[2 * (k + 1)]
               c == g[2 * k + 1]
               x == l(2 * (k + 1))
               y == l(2 * (k + 1) + 1)
    <2>7. a = b + y /\ b = c + x /\ c = l(1) + h[k] /\ h[k + 1] = h[k] + (x + y) /\ x \in Nat /\ y \in Nat /\ b \in Nat
      BY <2>1, <2>2, <2>3, <2>4, <2>5
    <2> HIDE DEF a, b, c, x, y
    <2>8. a = l(1) + h[k + 1]
      BY <2>1, <2>6, <2>7
    <2> QED
      BY <2>8 DEF a
  <1>7. \A k \in Nat : k \in S
    <2> HIDE DEF S
    <2> QED
      BY <1>5, <1>6, NatSet
  <1> QED
    BY <1>7 DEF l

-----------------------------------------------------------------------------
(* What an item is written as                                              *)

\* Pieces, type by type.
LEMMA PiecesAre ==
    ASSUME NEW item
    PROVE  /\ item.type = "int" => Pieces(item) = <<WriteUnsafe(item.value, item.n)>>
           /\ item.type = "raw" => Pieces(item) = <<item.value>>
           /\ item.type \in StringKinds => Pieces(item) = <<LengthBytes(Len(item.value)), item.value>>
           /\ item.type = "vector" => Pieces(item) = VectorPieces(item.value, item.n)
           /\ item.type = "enumeration" => Pieces(item) = EnumerationPieces(item.value)
           /\ item.type = "params" => Pieces(item) = ParamsPieces(item.value)
  BY DEF Pieces, StringKinds

\* ItemSize, type by type.
LEMMA ItemSizeIs ==
    ASSUME NEW item
    PROVE  /\ item.type = "int" => ItemSize(item) = item.n
           /\ item.type = "raw" => ItemSize(item) = Len(item.value)
           /\ item.type \in StringKinds => ItemSize(item) = LengthWidth + Len(item.value)
           /\ item.type = "vector" => ItemSize(item) = LengthWidth + item.n * Len(item.value)
           /\ item.type = "enumeration" =>
                ItemSize(item) = LengthWidth + Total([i \in 1 .. Len(item.value) |-> LengthWidth + Len(item.value[i])])
           /\ item.type = "params" =>
                ItemSize(item) = LengthWidth + Total([i \in 1 .. Len(item.value) |-> Len(item.value[i]) + 1])
  BY DEF ItemSize, StringKinds

\* IsItem, type by type.
LEMMA ItemIs ==
    ASSUME NEW item, IsItem(item)
    PROVE  /\ item.n \in Nat /\ item.signed \in BOOLEAN
           /\ item.type \in {"int", "raw", "vector", "enumeration", "params"} \cup StringKinds
           /\ item.type = "int" => item.n > 0 /\ IsValue(item.value, item.n, item.signed)
           /\ item.type = "raw" => item.value \in Seq(Byte) /\ item.n = Len(item.value)
           /\ item.type \in StringKinds => item.value \in Seq(Byte)
           /\ item.type = "vector" => /\ item.value \in Seq(Int) /\ item.n > 0
                                      /\ \A i \in DOMAIN item.value : IsValue(item.value[i], item.n, item.signed)
           /\ item.type = "enumeration" => item.value \in Seq(Seq(Byte)) /\ Len(item.value) % 4 = 0
           /\ item.type = "params" => item.value \in Seq(Seq(Byte \ {Separator}))
  BY DEF IsItem, StringKinds

\* A single piece.
LEMMA OnePiece ==
    ASSUME NEW p \in Seq(Byte)
    PROVE  /\ ArePieces(<<p>>) /\ Len(<<p>>) = 1 /\ <<p>>[1] = p
           /\ \A g : Sums(g, <<p>>) => g[0] = 0 /\ g[1] = Len(p)
  <1>1. ArePieces(<<p>>) /\ Len(<<p>>) = 1 /\ <<p>>[1] = p
    BY DEF ArePieces
  <1>2. ASSUME NEW g, Sums(g, <<p>>) PROVE g[0] = 0 /\ g[1] = Len(p)
    <2>1. g[0] = 0 /\ \A k \in 1 .. 1 : g[k] = g[k - 1] + Len(<<p>>[k]) /\ g[k] \in Nat
      BY <1>1, <1>2, PieceStep
    <2>2. g[1] = g[0] + Len(p) /\ Len(p) \in Nat
      <3>1. 1 \in 1 .. 1 /\ 1 - 1 = 0
        OBVIOUS
      <3> QED
        BY <1>1, <2>1, <3>1
    <2> QED
      BY <2>1, <2>2
  <1> QED
    BY <1>1, <1>2

\* Two pieces: a length and what it is the length of.
LEMMA TwoPieces ==
    ASSUME NEW p \in Seq(Byte), NEW q \in Seq(Byte)
    PROVE  /\ ArePieces(<<p, q>>) /\ Len(<<p, q>>) = 2 /\ <<p, q>>[1] = p /\ <<p, q>>[2] = q
           /\ \A g : Sums(g, <<p, q>>) => g[0] = 0 /\ g[1] = Len(p) /\ g[2] = Len(p) + Len(q)
  <1>1. ArePieces(<<p, q>>) /\ Len(<<p, q>>) = 2 /\ <<p, q>>[1] = p /\ <<p, q>>[2] = q
    BY DEF ArePieces
  <1>2. ASSUME NEW g, Sums(g, <<p, q>>) PROVE g[0] = 0 /\ g[1] = Len(p) /\ g[2] = Len(p) + Len(q)
    <2>1. g[0] = 0 /\ \A k \in 1 .. 2 : g[k] = g[k - 1] + Len(<<p, q>>[k])
      BY <1>1, <1>2, PieceStep
    <2>2. g[1] = g[0] + Len(p) /\ g[2] = g[1] + Len(q) /\ Len(p) \in Nat
      <3>1. 1 \in 1 .. 2 /\ 1 - 1 = 0 /\ 2 \in 1 .. 2 /\ 2 - 1 = 1
        OBVIOUS
      <3> QED
        BY <1>1, <2>1, <3>1
    <2>3. g[1] = Len(p)
      BY <2>1, <2>2
    <2> QED
      BY <2>1, <2>2, <2>3
  <1> QED
    BY <1>1, <1>2

\* Three pieces: the header of a packet.
LEMMA ThreePieces ==
    ASSUME NEW p \in Seq(Byte), NEW q \in Seq(Byte), NEW r \in Seq(Byte)
    PROVE  /\ ArePieces(<<p, q, r>>) /\ Len(<<p, q, r>>) = 3
           /\ <<p, q, r>>[1] = p /\ <<p, q, r>>[2] = q /\ <<p, q, r>>[3] = r
           /\ \A g : Sums(g, <<p, q, r>>) =>
                g[0] = 0 /\ g[1] = Len(p) /\ g[2] = g[1] + Len(q) /\ g[3] = g[2] + Len(r)
  <1>1. /\ ArePieces(<<p, q, r>>) /\ Len(<<p, q, r>>) = 3
        /\ <<p, q, r>>[1] = p /\ <<p, q, r>>[2] = q /\ <<p, q, r>>[3] = r
    BY DEF ArePieces
  <1>2. ASSUME NEW g, Sums(g, <<p, q, r>>)
        PROVE  g[0] = 0 /\ g[1] = Len(p) /\ g[2] = g[1] + Len(q) /\ g[3] = g[2] + Len(r)
    <2>1. g[0] = 0 /\ \A k \in 1 .. 3 : g[k] = g[k - 1] + Len(<<p, q, r>>[k])
      BY <1>1, <1>2, PieceStep
    <2>2. g[1] = g[0] + Len(p) /\ g[2] = g[1] + Len(q) /\ g[3] = g[2] + Len(r) /\ Len(p) \in Nat
      <3>1. 1 \in 1 .. 3 /\ 1 - 1 = 0 /\ 2 \in 1 .. 3 /\ 2 - 1 = 1 /\ 3 \in 1 .. 3 /\ 3 - 1 = 2
        OBVIOUS
      <3> QED
        BY <1>1, <2>1, <3>1
    <2> QED
      BY <2>1, <2>2
  <1> QED
    BY <1>1, <1>2

\* A vector: its length, and n bytes for each value.
LEMMA VectorPiecesAre ==
    ASSUME NEW v \in Seq(Int), NEW n \in Nat
    PROVE  LET pieces == VectorPieces(v, n)
           IN  /\ ArePieces(pieces) /\ Len(pieces) = Len(v) + 1
               /\ pieces[1] = LengthBytes(Len(v))
               /\ \A i \in 1 .. Len(v) : pieces[i + 1] = WriteUnsafe(v[i], n)
  <1> DEFINE m == Len(v)
             pieces == VectorPieces(v, n)
  <1>1. m \in Nat /\ \A i \in 1 .. m : v[i] \in Int
    OBVIOUS
  <1>2. pieces = [i \in 1 .. m + 1 |-> IF i = 1 THEN LengthBytes(m) ELSE WriteUnsafe(v[i - 1], n)]
    BY DEF VectorPieces
  <1> HIDE DEF m, pieces
  <1>3. pieces[1] = LengthBytes(m)
    BY <1>1, <1>2
  <1>4. ASSUME NEW i \in 1 .. m PROVE pieces[i + 1] = WriteUnsafe(v[i], n)
    <2>1. i + 1 \in 1 .. m + 1 /\ i + 1 # 1 /\ (i + 1) - 1 = i
      BY <1>1
    <2> QED
      BY <1>2, <2>1
  <1>5. ASSUME NEW i \in 1 .. m + 1 PROVE pieces[i] \in Seq(Byte)
    <2>1. CASE i = 1
      BY <1>1, <1>3, <2>1, LengthType
    <2>2. CASE i # 1
      <3>1. i - 1 \in 1 .. m
        BY <1>1, <2>2
      <3>2. pieces[i] = WriteUnsafe(v[i - 1], n) /\ v[i - 1] \in Int
        BY <1>1, <1>2, <2>2, <3>1
      <3> QED
        BY <3>2, DigitsType
    <2> QED
      BY <2>1, <2>2
  <1>6. Len(pieces) = m + 1 /\ DOMAIN pieces = 1 .. m + 1
    <2>1. pieces = [i \in 1 .. m + 1 |-> pieces[i]]
      BY <1>2
    <2>2. m + 1 \in Nat
      BY <1>1
    <2> QED
      BY <1>5, <2>1, <2>2, SeqOf
  <1>7. ArePieces(pieces)
    BY <1>1, <1>5, <1>6 DEF ArePieces
  <1> QED
    BY <1>3, <1>4, <1>6, <1>7 DEF m, pieces

\* The first k values of a vector take n bytes each.
LEMMA VectorSum ==
    ASSUME NEW v \in Seq(Int), NEW n \in Nat, NEW g, Sums(g, VectorPieces(v, n))
    PROVE  \A k \in 0 .. Len(v) : g[k + 1] = LengthWidth + n * k
  <1> DEFINE m == Len(v)
             pieces == VectorPieces(v, n)
             S == {k \in Nat : k =< m => g[k + 1] = LengthWidth + n * k}
  <1>1. m \in Nat /\ \A i \in 1 .. m : v[i] \in Int
    OBVIOUS
  <1>2. ArePieces(pieces) /\ Len(pieces) = m + 1 /\ pieces[1] = LengthBytes(m)
    BY VectorPiecesAre
  <1>3. g[0] = 0 /\ \A k \in 1 .. m + 1 : g[k] = g[k - 1] + Len(pieces[k])
    <2>1. Sums(g, pieces)
      OBVIOUS
    <2> HIDE DEF pieces, m
    <2>2. g[0] = 0 /\ \A k \in 1 .. Len(pieces) : g[k] = g[k - 1] + Len(pieces[k])
      BY <1>2, <2>1, PieceStep
    <2> QED
      BY <1>2, <2>2
  <1>4. Len(pieces[1]) = LengthWidth
    <2> HIDE DEF pieces, m
    <2> QED
      BY <1>1, <1>2, LengthType
  <1>5. \A i \in 1 .. m : Len(pieces[i + 1]) = n
    <2> SUFFICES ASSUME NEW i \in 1 .. m PROVE Len(pieces[i + 1]) = n
      OBVIOUS
    <2>1. pieces[i + 1] = WriteUnsafe(v[i], n) /\ v[i] \in Int
      BY <1>1, VectorPiecesAre
    <2> QED
      BY <2>1, DigitsType
  <1> HIDE DEF m, pieces
  <1>6. 0 \in S
    <2>1. g[1] = g[0] + LengthWidth
      <3>1. 1 \in 1 .. m + 1 /\ 1 - 1 = 0
        BY <1>1
      <3> QED
        BY <1>3, <1>4, <3>1
    <2> QED
      BY <1>3, <2>1, SizesType
  <1>7. ASSUME NEW k \in Nat, k \in S PROVE k + 1 \in S
    <2> SUFFICES ASSUME k + 1 =< m PROVE g[(k + 1) + 1] = LengthWidth + n * (k + 1)
      OBVIOUS
    <2>1. (k + 1) + 1 \in 1 .. m + 1 /\ ((k + 1) + 1) - 1 = k + 1 /\ k + 1 \in 1 .. m /\ k =< m
      BY <1>1
    <2>2. g[(k + 1) + 1] = g[k + 1] + n
      BY <1>3, <1>5, <2>1
    <2>3. g[k + 1] = LengthWidth + n * k
      BY <1>7, <2>1
    <2> QED
      BY <2>2, <2>3, SizesType
  <1>8. \A k \in Nat : k \in S
    <2> HIDE DEF S
    <2> QED
      BY <1>6, <1>7, NatSet
  <1> QED
    BY <1>8 DEF m

\* Even and odd places.
LEMMA Halves ==
    /\ \A i \in Nat : (2 * i) % 2 = 0 /\ (2 * i) \div 2 = i /\ (2 * i + 1) % 2 = 1 /\ (2 * i + 1) \div 2 = i
    /\ \A i \in Nat : i \div 2 \in Nat /\ i % 2 \in {0, 1} /\ i = 2 * (i \div 2) + (i % 2)
  OBVIOUS

\* Pieces in pairs, after the first one.
PairPieces(first, a, b, m) ==
    [i \in 1 .. 2 * m + 1 |-> IF i = 1 THEN first ELSE IF i % 2 = 0 THEN a[i \div 2] ELSE b[i \div 2]]

ArePaired(pieces, first, a, b, m) ==
    /\ ArePieces(pieces) /\ Len(pieces) = 2 * m + 1 /\ pieces[1] = first
    /\ \A i \in 1 .. m : pieces[2 * i] = a[i] /\ pieces[2 * i + 1] = b[i]

\* What PairPieces has at its even and its odd places.
LEMMA PairPiecesAre ==
    ASSUME NEW m \in Nat, NEW first \in Seq(Byte), NEW a, NEW b, \A i \in 1 .. m : a[i] \in Seq(Byte) /\ b[i] \in Seq(Byte)
    PROVE  ArePaired(PairPieces(first, a, b, m), first, a, b, m)
  <1> DEFINE pieces == PairPieces(first, a, b, m)
  <1>1. pieces = [i \in 1 .. 2 * m + 1 |-> IF i = 1 THEN first ELSE IF i % 2 = 0 THEN a[i \div 2] ELSE b[i \div 2]]
    BY DEF PairPieces
  <1> HIDE DEF pieces
  <1>2. pieces[1] = first
    BY <1>1
  <1>3. ASSUME NEW i \in 1 .. m PROVE pieces[2 * i] = a[i] /\ pieces[2 * i + 1] = b[i]
    <2>1. /\ 2 * i \in 1 .. 2 * m + 1 /\ 2 * i # 1 /\ (2 * i) % 2 = 0 /\ (2 * i) \div 2 = i
          /\ 2 * i + 1 \in 1 .. 2 * m + 1 /\ 2 * i + 1 # 1 /\ (2 * i + 1) % 2 # 0 /\ (2 * i + 1) \div 2 = i
      BY Halves
    <2> QED
      BY <1>1, <2>1, Zenon
  <1>4. ASSUME NEW i \in 1 .. 2 * m + 1 PROVE pieces[i] \in Seq(Byte)
    <2>1. CASE i = 1
      BY <1>2, <2>1
    <2>2. CASE i # 1
      <3> DEFINE j == i \div 2
      <3>1. j \in Nat /\ i % 2 \in {0, 1} /\ i = 2 * j + (i % 2)
        BY Halves
      <3> HIDE DEF j
      <3>2. j \in 1 .. m
        BY <2>2, <3>1
      <3>3. a[j] \in Seq(Byte) /\ b[j] \in Seq(Byte)
        BY <3>2
      <3>4. pieces[i] = IF i % 2 = 0 THEN a[j] ELSE b[j]
        BY <1>1, <2>2, Zenon DEF j
      <3> QED
        BY <3>3, <3>4
    <2> QED
      BY <2>1, <2>2
  <1>5. Len(pieces) = 2 * m + 1 /\ DOMAIN pieces = 1 .. 2 * m + 1
    <2>1. pieces = [i \in 1 .. 2 * m + 1 |-> pieces[i]]
      BY <1>1
    <2>2. 2 * m + 1 \in Nat
      OBVIOUS
    <2> QED
      BY <1>4, <2>1, <2>2, SeqOf
  <1>6. ArePieces(pieces)
    BY <1>4, <1>5 DEF ArePieces
  <1> QED
    BY <1>2, <1>3, <1>5, <1>6 DEF pieces, ArePaired

\* The pieces of an enumeration: the number of procedures, then each string
\* behind its length.
LEMMA EnumerationPiecesAre ==
    ASSUME NEW v \in Seq(Seq(Byte))
    PROVE  LET pieces == EnumerationPieces(v)
           IN  /\ ArePieces(pieces) /\ Len(pieces) = 2 * Len(v) + 1 /\ pieces[1] = LengthBytes(Len(v) \div 4)
               /\ \A i \in 1 .. Len(v) : pieces[2 * i] = LengthBytes(Len(v[i])) /\ pieces[2 * i + 1] = v[i]
  <1> DEFINE m == Len(v)
             a == [i \in 1 .. m |-> LengthBytes(Len(v[i]))]
             first == LengthBytes(m \div 4)
  <1>1. m \in Nat /\ \A i \in 1 .. m : v[i] \in Seq(Byte) /\ Len(v[i]) \in Int
    OBVIOUS
  <1>2. first \in Seq(Byte)
    <2>1. m \div 4 \in Int
      BY <1>1, DivType
    <2> QED
      BY <2>1, LengthType
  <1>3. \A i \in 1 .. m : a[i] \in Seq(Byte) /\ v[i] \in Seq(Byte) /\ a[i] = LengthBytes(Len(v[i]))
    BY <1>1, LengthType
  <1>4. EnumerationPieces(v) = PairPieces(first, a, v, m)
    <2>1. ASSUME NEW i \in 1 .. 2 * m + 1, i # 1, i % 2 = 0 PROVE a[i \div 2] = LengthBytes(Len(v[i \div 2]))
      <3> DEFINE j == i \div 2
      <3>1. j \in Nat /\ i = 2 * j + 0
        BY <1>1, <2>1, Halves
      <3> HIDE DEF j, m
      <3>2. j \in 1 .. m
        BY <1>1, <3>1, <2>1
      <3> QED
        BY <3>2 DEF j
    <2> HIDE DEF a, first
    <2>2. EnumerationPieces(v) =
            [i \in 1 .. 2 * m + 1 |->
               IF i = 1 THEN first
               ELSE IF i % 2 = 0 THEN LengthBytes(Len(v[i \div 2])) ELSE v[i \div 2]]
      BY DEF EnumerationPieces, first
    <2> HIDE DEF m
    <2> QED
      BY <2>1, <2>2, Zenon DEF PairPieces
  <1> HIDE DEF a, first, m
  <1>5. ArePaired(PairPieces(first, a, v, m), first, a, v, m)
    <2>1. \A i \in 1 .. m : a[i] \in Seq(Byte) /\ v[i] \in Seq(Byte)
      BY <1>3, Zenon
    <2>2. m \in Nat
      BY <1>1
    <2> QED
      BY <1>2, <2>1, <2>2, PairPiecesAre
  <1>6. LET pieces == EnumerationPieces(v)
        IN  /\ ArePieces(pieces) /\ Len(pieces) = 2 * m + 1 /\ pieces[1] = first
            /\ \A i \in 1 .. m : pieces[2 * i] = LengthBytes(Len(v[i])) /\ pieces[2 * i + 1] = v[i]
    BY <1>3, <1>4, <1>5 DEF ArePaired
  <1> QED
    BY <1>6 DEF m, first

\* The separator is a byte.
LEMMA SeparatorType == <<Separator>> \in Seq(Byte) /\ Len(<<Separator>>) = 1 /\ <<Separator>>[1] = Separator
  <1>1. Separator \in Byte
    BY SizesType DEF Separator, Byte
  <1> QED
    BY <1>1

\* The names of types are bytes without a separator.
LEMMA NamesType ==
    ASSUME NEW names \in Seq(Seq(Byte \ {Separator}))
    PROVE  /\ Len(names) \in Nat /\ DOMAIN names = 1 .. Len(names)
           /\ \A i \in 1 .. Len(names) :
                /\ names[i] \in Seq(Byte) /\ Len(names[i]) \in Nat /\ DOMAIN names[i] = 1 .. Len(names[i])
                /\ \A j \in 1 .. Len(names[i]) : names[i][j] \in Byte /\ names[i][j] # Separator
  <1>1. ASSUME NEW i \in 1 .. Len(names)
        PROVE  /\ names[i] \in Seq(Byte) /\ Len(names[i]) \in Nat /\ DOMAIN names[i] = 1 .. Len(names[i])
               /\ \A j \in 1 .. Len(names[i]) : names[i][j] \in Byte /\ names[i][j] # Separator
    <2> DEFINE n == names[i]
    <2>1. n \in Seq(Byte \ {Separator})
      OBVIOUS
    <2> HIDE DEF n
    <2>2. Len(n) \in Nat /\ DOMAIN n = 1 .. Len(n) /\ \A j \in 1 .. Len(n) : n[j] \in Byte \ {Separator}
      BY <2>1
    <2>3. n = [j \in 1 .. Len(n) |-> n[j]]
      BY <2>1
    <2>4. n \in Seq(Byte)
      BY <2>2, <2>3, SeqOf
    <2> QED
      BY <2>2, <2>4 DEF n
  <1> QED
    BY <1>1

\* The size written in front of the names is a number.
LEMMA ParamsSizeType == ASSUME NEW names \in Seq(Seq(Byte \ {Separator})) PROVE ParamsSize(names) \in Int
  <1> DEFINE n == Len(names)
             l(i) == Len(names[i])
  <1>1. n \in Nat /\ \A i \in 1 .. n : l(i) \in Nat
    BY NamesType
  <1>2. PICK f : Sized(f, names, n) /\ ParamsSize(names) = f[n]
    BY <1>1, ParamsSizeLoop
  <1>3. f[0] = 0 /\ \A k \in 1 .. n : f[k] = (f[k - 1] + l(k) + 1) % PacketSizes
    <2>1. f = [k \in 0 .. n |-> IF k = 0 THEN 0 ELSE AddTypeSize(f[k - 1], names[k])]
      BY <1>2 DEF Sized
    <2>2. \A k \in 1 .. n : AddTypeSize(f[k - 1], names[k]) = (f[k - 1] + l(k) + 1) % PacketSizes
      BY DEF AddTypeSize
    <2> HIDE DEF n, l
    <2>3. f[0] = 0 /\ \A k \in 1 .. n : f[k] = AddTypeSize(f[k - 1], names[k])
      BY <1>1, <2>1
    <2> QED
      BY <2>2, <2>3
  <1> DEFINE S == {k \in Nat : k =< n => f[k] \in Int}
  <1> HIDE DEF n, l
  <1>4. 0 \in S
    BY <1>3
  <1>5. ASSUME NEW k \in Nat, k \in S PROVE k + 1 \in S
    <2> SUFFICES ASSUME k + 1 =< n PROVE f[k + 1] \in Int
      OBVIOUS
    <2>1. k + 1 \in 1 .. n /\ (k + 1) - 1 = k /\ f[k] \in Int
      BY <1>1, <1>5
    <2>2. f[k + 1] = (f[k] + l(k + 1) + 1) % PacketSizes /\ f[k] + l(k + 1) + 1 \in Int
      BY <1>1, <1>3, <2>1
    <2>3. f[k + 1] \in 0 .. MaxPacketSize
      BY <2>2, ModPacket
    <2> QED
      BY <2>3, SizesType
  <1>6. \A k \in Nat : k \in S
    <2> HIDE DEF S
    <2> QED
      BY <1>4, <1>5, NatSet
  <1> QED
    BY <1>1, <1>2, <1>6

\* The pieces of parameters: the size of all, then each name and a separator.
LEMMA ParamsPiecesAre ==
    ASSUME NEW names \in Seq(Seq(Byte \ {Separator}))
    PROVE  LET pieces == ParamsPieces(names)
           IN  /\ ArePieces(pieces) /\ Len(pieces) = 2 * Len(names) + 1 /\ pieces[1] = LengthBytes(ParamsSize(names))
               /\ \A i \in 1 .. Len(names) : pieces[2 * i] = names[i] /\ pieces[2 * i + 1] = <<Separator>>
  <1> DEFINE m == Len(names)
             b == [i \in 1 .. m |-> <<Separator>>]
             first == LengthBytes(ParamsSize(names))
  <1>1. m \in Nat /\ \A i \in 1 .. m : names[i] \in Seq(Byte)
    BY NamesType
  <1>2. first \in Seq(Byte)
    BY ParamsSizeType, LengthType
  <1>3. \A i \in 1 .. m : names[i] \in Seq(Byte) /\ b[i] \in Seq(Byte) /\ b[i] = <<Separator>>
    BY <1>1, SeparatorType
  <1>4. ParamsPieces(names) = PairPieces(first, names, b, m)
    <2>1. ASSUME NEW i \in 1 .. 2 * m + 1, i # 1, i % 2 # 0 PROVE b[i \div 2] = <<Separator>>
      <3> DEFINE j == i \div 2
      <3>1. j \in Nat /\ i = 2 * j + 1
        BY <1>1, <2>1, Halves
      <3> HIDE DEF j, m
      <3>2. j \in 1 .. m
        BY <1>1, <3>1, <2>1
      <3> QED
        BY <3>2 DEF j
    <2> HIDE DEF b, first
    <2>2. ParamsPieces(names) =
            [i \in 1 .. 2 * m + 1 |->
               IF i = 1 THEN first ELSE IF i % 2 = 0 THEN names[i \div 2] ELSE <<Separator>>]
      BY DEF ParamsPieces, first
    <2> HIDE DEF m
    <2> QED
      BY <2>1, <2>2, Zenon DEF PairPieces
  <1> HIDE DEF b, first, m
  <1>5. ArePaired(PairPieces(first, names, b, m), first, names, b, m)
    <2>1. \A i \in 1 .. m : names[i] \in Seq(Byte) /\ b[i] \in Seq(Byte)
      BY <1>3, Zenon
    <2>2. m \in Nat
      BY <1>1
    <2> QED
      BY <1>2, <2>1, <2>2, PairPiecesAre
  <1>6. LET pieces == ParamsPieces(names)
        IN  /\ ArePieces(pieces) /\ Len(pieces) = 2 * m + 1 /\ pieces[1] = first
            /\ \A i \in 1 .. m : pieces[2 * i] = names[i] /\ pieces[2 * i + 1] = <<Separator>>
    BY <1>3, <1>4, <1>5 DEF ArePaired
  <1> QED
    BY <1>6 DEF m, first

\* Whatever the type of an item, it is written as pieces of bytes.
LEMMA ItemPieces ==
    ASSUME NEW item, IsItem(item)
    PROVE  ArePieces(Pieces(item))
  <1>0. item.type \in {"int", "raw", "vector", "enumeration", "params"} \cup StringKinds /\ item.n \in Nat
    BY ItemIs
  <1>1. CASE item.type = "int"
    <2>1. item.value \in Int
      BY <1>1, ItemIs DEF IsValue
    <2>2. WriteUnsafe(item.value, item.n) \in Seq(Byte)
      BY <1>0, <2>1, DigitsType
    <2>3. Pieces(item) = <<WriteUnsafe(item.value, item.n)>>
      BY <1>1, PiecesAre
    <2>4. ArePieces(<<WriteUnsafe(item.value, item.n)>>)
      BY <2>2, OnePiece
    <2> QED
      BY <2>3, <2>4
  <1>2. CASE item.type = "raw"
    <2>1. item.value \in Seq(Byte) /\ Pieces(item) = <<item.value>>
      BY <1>2, ItemIs, PiecesAre
    <2>2. ArePieces(<<item.value>>)
      BY <2>1, OnePiece
    <2> QED
      BY <2>1, <2>2
  <1>3. CASE item.type \in StringKinds
    <2>1. item.value \in Seq(Byte) /\ Len(item.value) \in Int
      <3>1. item.value \in Seq(Byte)
        BY <1>3, ItemIs
      <3> QED
        BY <3>1
    <2>2. LengthBytes(Len(item.value)) \in Seq(Byte)
      BY <2>1, LengthType
    <2> QED
      BY <1>3, <2>1, <2>2, TwoPieces, PiecesAre
  <1>4. CASE item.type = "vector"
    <2>1. item.value \in Seq(Int)
      BY <1>4, ItemIs
    <2> QED
      BY <1>0, <1>4, <2>1, VectorPiecesAre, PiecesAre
  <1>5. CASE item.type = "enumeration"
    <2>1. item.value \in Seq(Seq(Byte))
      BY <1>5, ItemIs
    <2> QED
      BY <1>5, <2>1, EnumerationPiecesAre, PiecesAre
  <1>6. CASE item.type = "params"
    <2>1. item.value \in Seq(Seq(Byte \ {Separator}))
      BY <1>6, ItemIs
    <2> QED
      BY <1>6, <2>1, ParamsPiecesAre, PiecesAre
  <1> QED
    BY <1>0, <1>1, <1>2, <1>3, <1>4, <1>5, <1>6

\* The pieces of a sequence in pairs have the bytes of the sequence and those
\* of its length.
LEMMA PairsTotal ==
    ASSUME NEW m \in Nat, NEW pieces, NEW lengths, Len(lengths) = m, Pairs(pieces, lengths, m), Len(pieces[1]) = LengthWidth,
           NEW g, Sums(g, pieces)
    PROVE  \E h : /\ Summed(h, lengths, m) /\ Total(lengths) = h[m]
                  /\ \A i \in 0 .. m : g[2 * i + 1] = LengthWidth + h[i]
                  /\ g[Len(pieces)] = LengthWidth + Total(lengths)
  <1>1. PICK h : Summed(h, lengths, m) /\ Total(lengths) = h[m]
    BY TotalLoop
  <1>2. \A i \in 0 .. m : g[2 * i + 1] = LengthWidth + h[i]
    BY <1>1, PairsSum
  <1>3. m \in 0 .. m /\ Len(pieces) = 2 * m + 1
    BY DEF Pairs
  <1>4. g[Len(pieces)] = LengthWidth + h[m]
    BY <1>2, <1>3
  <1> QED
    BY <1>1, <1>2, <1>4

EnumerationLengths(v) == [i \in 1 .. Len(v) |-> LengthWidth + Len(v[i])]
ParamsLengths(names) == [i \in 1 .. Len(names) |-> Len(names[i]) + 1]

\* The pieces of an enumeration take as many bytes as its strings and their
\* lengths.
LEMMA EnumerationSum ==
    ASSUME NEW v \in Seq(Seq(Byte)), NEW g, Sums(g, EnumerationPieces(v))
    PROVE  \E h : /\ Summed(h, EnumerationLengths(v), Len(v)) /\ Total(EnumerationLengths(v)) = h[Len(v)]
                  /\ \A i \in 0 .. Len(v) : g[2 * i + 1] = LengthWidth + h[i]
                  /\ g[Len(EnumerationPieces(v))] = LengthWidth + Total(EnumerationLengths(v))
  <1> DEFINE m == Len(v)
             pieces == EnumerationPieces(v)
             lengths == EnumerationLengths(v)
  <1>1. m \in Nat /\ Len(lengths) = m /\ \A i \in 1 .. m : v[i] \in Seq(Byte) /\ Len(v[i]) \in Int
    BY DEF EnumerationLengths
  <1>2. Pairs(pieces, lengths, m)
    <2>1. ArePieces(pieces) /\ Len(pieces) = 2 * m + 1
      BY EnumerationPiecesAre
    <2>2. ASSUME NEW i \in 1 .. m PROVE lengths[i] = Len(pieces[2 * i]) + Len(pieces[2 * i + 1])
      <3>1. pieces[2 * i] = LengthBytes(Len(v[i])) /\ pieces[2 * i + 1] = v[i]
        BY EnumerationPiecesAre
      <3>2. Len(LengthBytes(Len(v[i]))) = LengthWidth
        BY <1>1, LengthType
      <3>3. lengths[i] = LengthWidth + Len(v[i])
        BY DEF EnumerationLengths
      <3> QED
        BY <3>1, <3>2, <3>3
    <2> QED
      BY <2>1, <2>2 DEF Pairs
  <1>3. Len(pieces[1]) = LengthWidth
    <2>1. Len(v) \div 4 \in Int
      BY <1>1, DivType
    <2>2. pieces[1] = LengthBytes(Len(v) \div 4)
      BY EnumerationPiecesAre
    <2> QED
      BY <2>1, <2>2, LengthType
  <1>4. Sums(g, pieces)
    OBVIOUS
  <1> HIDE DEF m, pieces, lengths
  <1>5. \E h : /\ Summed(h, lengths, m) /\ Total(lengths) = h[m]
               /\ \A i \in 0 .. m : g[2 * i + 1] = LengthWidth + h[i]
               /\ g[Len(pieces)] = LengthWidth + Total(lengths)
    BY <1>1, <1>2, <1>3, <1>4, PairsTotal
  <1> QED
    BY <1>5 DEF m, pieces, lengths

\* The pieces of parameters take as many bytes as the names and separators.
LEMMA ParamsSum ==
    ASSUME NEW names \in Seq(Seq(Byte \ {Separator})), NEW g, Sums(g, ParamsPieces(names))
    PROVE  \E h : /\ Summed(h, ParamsLengths(names), Len(names)) /\ Total(ParamsLengths(names)) = h[Len(names)]
                  /\ \A i \in 0 .. Len(names) : g[2 * i + 1] = LengthWidth + h[i]
                  /\ g[Len(ParamsPieces(names))] = LengthWidth + Total(ParamsLengths(names))
  <1> DEFINE m == Len(names)
             pieces == ParamsPieces(names)
             lengths == ParamsLengths(names)
  <1>1. m \in Nat /\ Len(lengths) = m /\ \A i \in 1 .. m : Len(names[i]) \in Nat
    BY NamesType DEF ParamsLengths
  <1>2. Pairs(pieces, lengths, m)
    <2>1. ArePieces(pieces) /\ Len(pieces) = 2 * m + 1
      BY ParamsPiecesAre
    <2>2. ASSUME NEW i \in 1 .. m PROVE lengths[i] = Len(pieces[2 * i]) + Len(pieces[2 * i + 1])
      <3>1. pieces[2 * i] = names[i] /\ pieces[2 * i + 1] = <<Separator>>
        BY ParamsPiecesAre
      <3>2. Len(<<Separator>>) = 1
        OBVIOUS
      <3>3. lengths[i] = Len(names[i]) + 1
        BY DEF ParamsLengths
      <3> QED
        BY <3>1, <3>2, <3>3
    <2> QED
      BY <2>1, <2>2 DEF Pairs
  <1>3. Len(pieces[1]) = LengthWidth
    <2>1. pieces[1] = LengthBytes(ParamsSize(names))
      BY ParamsPiecesAre
    <2> QED
      BY <2>1, ParamsSizeType, LengthType
  <1>4. Sums(g, pieces)
    OBVIOUS
  <1> HIDE DEF m, pieces, lengths
  <1>5. \E h : /\ Summed(h, lengths, m) /\ Total(lengths) = h[m]
               /\ \A i \in 0 .. m : g[2 * i + 1] = LengthWidth + h[i]
               /\ g[Len(pieces)] = LengthWidth + Total(lengths)
    BY <1>1, <1>2, <1>3, <1>4, PairsTotal
  <1> QED
    BY <1>5 DEF m, pieces, lengths

\* The pieces of an item have as many bytes as its size says.
LEMMA ItemSum ==
    ASSUME NEW item, IsItem(item), NEW g, Sums(g, Pieces(item))
    PROVE  g[Len(Pieces(item))] = ItemSize(item)
  <1>0. item.type \in {"int", "raw", "vector", "enumeration", "params"} \cup StringKinds /\ item.n \in Nat
    BY ItemIs
  <1>1. CASE item.type = "int"
    <2>1. item.value \in Int
      BY <1>1, ItemIs DEF IsValue
    <2> DEFINE p == WriteUnsafe(item.value, item.n)
    <2>2. p \in Seq(Byte) /\ Len(p) = item.n
      BY <1>0, <2>1, DigitsType
    <2>3. Pieces(item) = <<p>> /\ ItemSize(item) = item.n
      BY <1>1, PiecesAre, ItemSizeIs
    <2> HIDE DEF p
    <2>4. Len(<<p>>) = 1 /\ g[1] = Len(p)
      BY <2>2, <2>3, OnePiece
    <2> QED
      BY <2>2, <2>3, <2>4
  <1>2. CASE item.type = "raw"
    <2>1. item.value \in Seq(Byte) /\ Pieces(item) = <<item.value>> /\ ItemSize(item) = Len(item.value)
      BY <1>2, ItemIs, PiecesAre, ItemSizeIs
    <2>2. Len(<<item.value>>) = 1 /\ g[1] = Len(item.value)
      BY <2>1, OnePiece
    <2> QED
      BY <2>1, <2>2
  <1>3. CASE item.type \in StringKinds
    <2> DEFINE p == LengthBytes(Len(item.value))
               q == item.value
    <2>1. q \in Seq(Byte) /\ Len(q) \in Int
      <3>1. item.value \in Seq(Byte)
        BY <1>3, ItemIs
      <3> QED
        BY <3>1
    <2>2. p \in Seq(Byte) /\ Len(p) = LengthWidth
      BY <2>1, LengthType
    <2>3. Pieces(item) = <<p, q>> /\ ItemSize(item) = LengthWidth + Len(q)
      BY <1>3, PiecesAre, ItemSizeIs
    <2>5. Sums(g, <<p, q>>)
      BY <2>3
    <2> HIDE DEF p, q
    <2>4. Len(<<p, q>>) = 2 /\ g[2] = Len(p) + Len(q)
      <3>1. Len(<<p, q>>) = 2 /\ \A f : Sums(f, <<p, q>>) => f[0] = 0 /\ f[1] = Len(p) /\ f[2] = Len(p) + Len(q)
        BY <2>1, <2>2, TwoPieces, Zenon
      <3> QED
        BY <2>5, <3>1, Zenon
    <2> QED
      BY <2>2, <2>3, <2>4
  <1>4. CASE item.type = "vector"
    <2> DEFINE v == item.value
               m == Len(v)
    <2>1. v \in Seq(Int) /\ m \in Nat
      <3>1. item.value \in Seq(Int)
        BY <1>4, ItemIs
      <3> QED
        BY <3>1
    <2>2. Pieces(item) = VectorPieces(v, item.n) /\ ItemSize(item) = LengthWidth + item.n * m
      BY <1>4, PiecesAre, ItemSizeIs
    <2>3. Len(VectorPieces(v, item.n)) = m + 1
      BY <1>0, <2>1, VectorPiecesAre
    <2>4. \A k \in 0 .. m : g[k + 1] = LengthWidth + item.n * k
      BY <1>0, <2>1, <2>2, VectorSum
    <2> HIDE DEF v, m
    <2>5. g[m + 1] = LengthWidth + item.n * m
      BY <2>1, <2>4
    <2> QED
      BY <2>2, <2>3, <2>5
  <1>5. CASE item.type = "enumeration"
    <2>1. item.value \in Seq(Seq(Byte)) /\ Pieces(item) = EnumerationPieces(item.value)
      BY <1>5, ItemIs, PiecesAre
    <2>2. ItemSize(item) = LengthWidth + Total(EnumerationLengths(item.value))
      BY <1>5, ItemSizeIs DEF EnumerationLengths
    <2> QED
      BY <2>1, <2>2, EnumerationSum
  <1>6. CASE item.type = "params"
    <2>1. item.value \in Seq(Seq(Byte \ {Separator})) /\ Pieces(item) = ParamsPieces(item.value)
      BY <1>6, ItemIs, PiecesAre
    <2>2. ItemSize(item) = LengthWidth + Total(ParamsLengths(item.value))
      BY <1>6, ItemSizeIs DEF ParamsLengths
    <2> QED
      BY <2>1, <2>2, ParamsSum
  <1> QED
    BY <1>0, <1>1, <1>2, <1>3, <1>4, <1>5, <1>6

\* The pieces are in data, one after the other.
Holds(data, at, pieces) ==
    \A g : Sums(g, pieces) =>
        \A j \in 1 .. Len(pieces) : \A i \in DOMAIN pieces[j] : data[at + g[j - 1] + i] = pieces[j][i]

\* What writing size bytes has done.
Written(s, t, pieces, size) ==
    /\ t \in Streams /\ t.stored = s.stored /\ Len(t.data) = Len(s.data) /\ size \in Nat
    /\ ~s.stored => t.pos = (s.pos + size) % PacketSizes /\ t.asserted = s.asserted /\ t.spilled = s.spilled
    /\ s.pos + size =< Len(s.data) /\ Len(s.data) =< MaxPacketSize =>
         /\ t.pos = s.pos + size /\ t.asserted = s.asserted /\ t.spilled = s.spilled
         /\ Holds(t.data, s.pos, pieces)
         /\ \A i \in 1 .. Len(s.data) : i =< s.pos \/ i > s.pos + size => t.data[i] = s.data[i]

\* A sequence of writes of known size does what Written says.
LEMMA PiecesWritten ==
    ASSUME NEW s \in Streams, NEW pieces, ArePieces(pieces), NEW size,
           \A g : Sums(g, pieces) => g[Len(pieces)] = size
    PROVE  Written(s, WriteAll(s, pieces), pieces, size)
  <1> DEFINE t == WriteAll(s, pieces)
             n == Len(pieces)
  <1>1. n \in Nat
    BY DEF ArePieces
  <1>2. PICK f : Sums(f, pieces)
    BY <1>1, SumsExist
  <1>3. f[n] = size /\ size \in Nat
    <2>1. f[0] = 0 /\ \A k \in 1 .. n : f[k] \in Nat
      BY <1>2, PieceStep
    <2>2. f[n] = size
      BY <1>2
    <2>3. f[n] \in Nat
      <3> HIDE DEF n
      <3>1. n = 0 \/ n \in 1 .. n
        BY <1>1
      <3> QED
        BY <2>1, <3>1
    <2> QED
      BY <2>2, <2>3
  <1>4. \A g : Sums(g, pieces) => WrittenUpTo(s, t, pieces, g, n) /\ g[n] = size
    BY AllWritten
  <1>5. ASSUME s.pos + size =< Len(s.data), Len(s.data) =< MaxPacketSize PROVE Holds(t.data, s.pos, pieces)
    <2> SUFFICES ASSUME NEW g, Sums(g, pieces)
                 PROVE  \A j \in 1 .. n : \A i \in DOMAIN pieces[j] : t.data[s.pos + g[j - 1] + i] = pieces[j][i]
      BY DEF Holds
    <2>1. WrittenUpTo(s, t, pieces, g, n) /\ g[n] = size
      BY <1>4
    <2> HIDE DEF t
    <2> QED
      BY <1>5, <2>1 DEF WrittenUpTo
  <1>6. WrittenUpTo(s, t, pieces, f, n)
    BY <1>2, <1>4
  <1> HIDE DEF t
  <1>7. Written(s, t, pieces, size)
    BY <1>3, <1>5, <1>6 DEF WrittenUpTo, Written
  <1> QED
    BY <1>7 DEF t

\* operator<< of an item moves the position by ItemSize, whether the stream
\* measures or writes, and puts the pieces of the item into a buffer that has
\* room.
LEMMA ItemWritten ==
    ASSUME NEW s \in Streams, NEW item, IsItem(item)
    PROVE  Written(s, WriteItem(s, item), Pieces(item), ItemSize(item))
  BY ItemPieces, ItemSum, PiecesWritten DEF WriteItem

-----------------------------------------------------------------------------
(* Numbers                                                                 *)

\* What is less by one factor and one remainder.
LEMMA Nested ==
    ASSUME NEW b \in Nat \ {0}, NEW p \in Nat \ {0}, NEW q \in Nat, NEW r \in Nat, q < p, r < b
    PROVE  b * q + r \in 0 .. b * p - 1
  <1>1. b * q + b =< b * p
    <2>1. q + 1 =< p
      OBVIOUS
    <2>2. b * (q + 1) =< b * p
      BY <2>1
    <2> QED
      BY <2>2
  <1>2. b * q \in Nat /\ b * p \in Nat
    OBVIOUS
  <1> DEFINE x == b * q
             y == b * p
  <1>3. x \in Nat /\ y \in Nat /\ x + b =< y
    BY <1>1, <1>2
  <1> HIDE DEF x, y
  <1>4. x + r \in 0 .. y - 1
    BY <1>3
  <1> QED
    BY <1>4 DEF x, y

\* Dividing twice is dividing by the product.
LEMMA DivTwice ==
    ASSUME NEW v \in Int, NEW b \in Nat \ {0}, NEW p \in Nat \ {0}, b * p \in Nat \ {0}
    PROVE  (v \div p) \div b = v \div (b * p)
  <1> DEFINE w == v \div p
             r == v % p
             q == w \div b
             c == w % b
  <1>1. w \in Int /\ r \in 0 .. p - 1 /\ v = p * w + r
    BY DivMod
  <1> HIDE DEF w, r
  <1>2. q \in Int /\ c \in 0 .. b - 1 /\ w = b * q + c
    BY <1>1, DivMod
  <1> HIDE DEF q, c
  <1>3. p * c + r \in 0 .. p * b - 1
    BY <1>1, <1>2, Nested
  <1>4. p * b = b * p
    OBVIOUS
  <1>5. v = (b * p) * q + (p * c + r)
    <2>1. p * (b * q + c) = (b * p) * q + p * c
      BY <1>2
    <2> QED
      BY <1>1, <1>2, <2>1
  <1>6. v \div (b * p) = q
    <2> DEFINE d == b * p
               e == p * c + r
    <2>1. d \in Nat \ {0} /\ e \in 0 .. d - 1 /\ v = d * q + e
      BY <1>3, <1>4, <1>5
    <2> HIDE DEF d, e
    <2>2. v \div d = q
      BY <1>2, <2>1, DivModIs
    <2> QED
      BY <2>2 DEF d
  <1> QED
    BY <1>6 DEF q, w

\* The remainder by a product.
LEMMA ModTwice ==
    ASSUME NEW w \in Int, NEW b \in Nat \ {0}, NEW p \in Nat \ {0}, b * p \in Nat \ {0}
    PROVE  w % (b * p) = b * ((w \div b) % p) + (w % b)
  <1> DEFINE x == w \div b
             c == w % b
             q == x \div p
             r == x % p
  <1>1. x \in Int /\ c \in 0 .. b - 1 /\ w = b * x + c
    BY DivMod
  <1> HIDE DEF x, c
  <1>2. q \in Int /\ r \in 0 .. p - 1 /\ x = p * q + r
    BY <1>1, DivMod
  <1> HIDE DEF q, r
  <1>3. b * r + c \in 0 .. b * p - 1
    BY <1>1, <1>2, Nested
  <1>4. w = (b * p) * q + (b * r + c)
    <2>1. b * (p * q + r) = (b * p) * q + b * r
      BY <1>2
    <2> QED
      BY <1>1, <1>2, <2>1
  <1>5. w % (b * p) = b * r + c
    <2> DEFINE d == b * p
               e == b * r + c
    <2>1. d \in Nat \ {0} /\ e \in 0 .. d - 1 /\ w = d * q + e
      BY <1>3, <1>4
    <2> HIDE DEF d, e
    <2>2. w % d = e
      BY <1>2, <2>1, DivModIs
    <2> QED
      BY <2>2 DEF d, e
  <1> QED
    BY <1>5 DEF r, x, c

\* A number of one more byte has more values.
LEMMA PowerGrows == \A n \in Nat : Power[n + 1] = Base * Power[n] /\ Power[n + 1] \in Nat \ {0} /\ Power[n] =< Power[n + 1]
  <1> SUFFICES ASSUME NEW n \in Nat
               PROVE  Power[n + 1] = Base * Power[n] /\ Power[n + 1] \in Nat \ {0} /\ Power[n] =< Power[n + 1]
    OBVIOUS
  <1>1. Power[n + 1] = Base * Power[n]
    BY PowerIs
  <1>2. Power[n] \in Nat \ {0} /\ Power[n + 1] \in Nat \ {0} /\ Base \in Nat /\ Base > 1
    BY PowerPositive, SizesType
  <1>3. \A x \in Nat, b \in Nat : b > 1 => x =< b * x
    OBVIOUS
  <1> QED
    BY <1>1, <1>2, <1>3

\* A number of more bytes has more values.
LEMMA PowerMonotone == \A n \in Nat : \A k \in 0 .. n : Power[k] =< Power[n]
  <1> DEFINE S == {n \in Nat : \A k \in 0 .. n : Power[k] =< Power[n]}
  <1>1. 0 \in S
    BY PowerPositive
  <1>2. ASSUME NEW n \in Nat, n \in S PROVE n + 1 \in S
    <2> SUFFICES ASSUME NEW k \in 0 .. n + 1 PROVE Power[k] =< Power[n + 1]
      OBVIOUS
    <2>1. Power[n] =< Power[n + 1] /\ Power[n + 1] \in Nat /\ Power[n] \in Nat /\ Power[k] \in Nat
      BY PowerGrows, PowerPositive
    <2>2. CASE k = n + 1
      BY <2>1, <2>2
    <2>3. CASE k # n + 1
      <3>1. Power[k] =< Power[n]
        BY <1>2, <2>3
      <3> QED
        BY <2>1, <3>1
    <2> QED
      BY <2>2, <2>3
  <1> QED
    <2> HIDE DEF S
    <2>1. \A n \in Nat : n \in S
      BY <1>1, <1>2, NatSet
    <2> QED
      BY <2>1 DEF S

\* The bytes shifted in so far are the digits of the number.
LEMMA DigitsAssembled ==
    ASSUME NEW v \in Int, NEW n \in Nat, NEW f, Assembled(f, WriteUnsafe(v, n), n)
    PROVE  f[n] = v % Power[n]
  <1> DEFINE d == WriteUnsafe(v, n)
             S == {k \in Nat : k =< n => f[k] = (v \div Power[n - k]) % Power[k]}
  <1>1. Len(d) = n /\ \A i \in 1 .. n : d[i] = (v \div Power[i - 1]) % Base
    BY DigitsType
  <1> HIDE DEF d
  <1>2. f = [i \in 0 .. n |-> IF i = 0 THEN 0 ELSE (f[i - 1] * Base + d[n - i + 1]) % Power[n]]
    <2>1. f = [i \in 0 .. n |-> IF i = 0 THEN 0 ELSE Shifted(f[i - 1], d, i)]
      BY DEF Assembled, d
    <2>2. \A i \in 0 .. n : Shifted(f[i - 1], d, i) = (f[i - 1] * Base + d[n - i + 1]) % Power[n]
      BY <1>1 DEF Shifted
    <2> QED
      BY <2>1, <2>2
  <1>3. 0 \in S
    <2>1. Power[0] = 1 /\ f[0] = 0 /\ Power[n] \in Nat \ {0}
      BY <1>2, PowerIs, PowerPositive
    <2>2. v \div Power[n] \in Int
      BY <2>1, DivType
    <2>3. (v \div Power[n]) % 1 \in 0 .. 1 - 1
      BY <2>2, ModType
    <2>4. n - 0 = n
      OBVIOUS
    <2> QED
      BY <2>1, <2>3, <2>4
  <1>4. ASSUME NEW k \in Nat, k \in S PROVE k + 1 \in S
    <2> SUFFICES ASSUME k + 1 =< n PROVE f[k + 1] = (v \div Power[n - (k + 1)]) % Power[k + 1]
      OBVIOUS
    <2> DEFINE m == n - (k + 1)
               w == v \div Power[m]
    <2>1. m \in Nat /\ n - k = m + 1 /\ m + 1 \in 1 .. n /\ n - (k + 1) + 1 = m + 1 /\ k =< n
      OBVIOUS
    <2>2. f[k] = (v \div Power[m + 1]) % Power[k]
      BY <1>4, <2>1
    <2>3. f[k + 1] = (f[k] * Base + d[m + 1]) % Power[n]
      <3>1. k + 1 \in 0 .. n /\ k + 1 # 0 /\ (k + 1) - 1 = k
        OBVIOUS
      <3> QED
        BY <1>2, <2>1, <3>1
    <2>4. d[m + 1] = w % Base
      <3>1. (m + 1) - 1 = m
        BY <2>1
      <3> QED
        BY <1>1, <2>1, <3>1
    <2> HIDE DEF m
    <2>5. /\ Power[m] \in Nat \ {0} /\ Power[m + 1] = Base * Power[m] /\ Power[m + 1] \in Nat \ {0}
          /\ Power[k] \in Nat \ {0} /\ Power[k + 1] = Base * Power[k] /\ Power[k + 1] \in Nat \ {0}
          /\ Base \in Nat \ {0} /\ Power[n] \in Nat \ {0}
      BY <2>1, PowerGrows, PowerPositive, SizesType
    <2>6. w \in Int
      BY <2>5, DivType
    <2>7. v \div Power[m + 1] = w \div Base
      BY <2>5, DivTwice
    <2> HIDE DEF w
    <2>8. f[k] = (w \div Base) % Power[k]
      BY <2>2, <2>7
    <2>9. w % Power[k + 1] = Base * f[k] + (w % Base)
      <3>1. Base * Power[k] \in Nat \ {0}
        BY <2>5
      <3>2. w % (Base * Power[k]) = Base * ((w \div Base) % Power[k]) + (w % Base)
        BY <2>5, <2>6, <3>1, ModTwice, Zenon
      <3> QED
        BY <2>5, <2>8, <3>2, Zenon
    <2>10. w % Power[k + 1] \in 0 .. Power[k + 1] - 1
      BY <2>5, <2>6, ModType
    <2>11. Power[k + 1] =< Power[n]
      BY PowerMonotone
    <2>12. Base * f[k] = f[k] * Base
      <3>1. w \div Base \in Int
        BY <2>5, <2>6, DivType
      <3>2. f[k] \in 0 .. Power[k] - 1
        BY <2>5, <2>8, <3>1, ModType
      <3> QED
        BY <2>5, <3>2
    <2> DEFINE x == w % Power[k + 1]
    <2>13. f[k + 1] = x % Power[n]
      BY <2>3, <2>4, <2>9, <2>12
    <2>14. x \in Nat /\ x < Power[n]
      <3> HIDE DEF x
      <3>1. x \in 0 .. Power[k + 1] - 1
        BY <2>10 DEF x
      <3> QED
        BY <2>5, <2>11, <3>1
    <2>15. f[k + 1] = x
      <3> HIDE DEF x
      <3> QED
        BY <2>5, <2>13, <2>14, ModSmall
    <2> QED
      BY <2>15 DEF m, w
  <1>5. n \in S
    <2>1. \A k \in Nat : k \in S
      <3> HIDE DEF S
      <3> QED
        BY <1>3, <1>4, NatSet
    <2> QED
      BY <2>1
  <1>6. f[n] = (v \div 1) % Power[n]
    <2>1. n - n = 0 /\ Power[0] = 1
      BY PowerIs
    <2> QED
      BY <1>5, <2>1
  <1>7. v \div 1 = v
    OBVIOUS
  <1> QED
    BY <1>6, <1>7

\* What was taken apart is put together again.
LEMMA IntegerReassembled ==
    ASSUME NEW v, NEW n \in Nat, NEW signed \in BOOLEAN, IsValue(v, n, signed)
    PROVE  ReadUnsafe(WriteUnsafe(v, n), signed) = v
  <1> DEFINE d == WriteUnsafe(v, n)
             p == Power[n]
  <1>1. v \in Int /\ p \in Nat \ {0}
    BY PowerPositive DEF IsValue
  <1>2. Len(d) = n
    BY <1>1, DigitsType
  <1>3. PICK f : Assembled(f, d, n) /\ ReadUnsafe(d, signed) = Signs(f[n], d, signed)
    <2> HIDE DEF d
    <2> QED
      BY <1>2, ReadUnsafeLoop
  <1>4. f[n] = v % p
    BY <1>1, <1>3, DigitsAssembled
  <1>5. ReadUnsafe(d, signed) = IF signed THEN (IF 2 * f[n] >= p THEN f[n] - p ELSE f[n]) ELSE f[n]
    BY <1>2, <1>3 DEF Signs, Signed
  <1> HIDE DEF d, p
  <1>6. CASE v >= 0
    <2>1. v < p /\ (signed => ~ (2 * v >= p))
      BY <1>1, <1>6 DEF IsValue, p
    <2>2. v % p = v
      BY <1>1, <1>6, <2>1, ModSmall
    <2> QED
      BY <1>4, <1>5, <2>1, <2>2 DEF d
  <1>7. CASE ~ (v >= 0)
    <2>1. signed /\ -p =< 2 * v
      BY <1>1, <1>7 DEF IsValue, p
    <2>2. v + p \in 0 .. p - 1 /\ 2 * (v + p) >= p
      BY <1>1, <1>7, <2>1
    <2>3. v % p = v + p
      <3>1. v = p * (-1) + (v + p)
        BY <1>1
      <3> QED
        BY <1>1, <2>2, <3>1, DivModIs
    <2>4. (v + p) - p = v
      BY <1>1
    <2> QED
      BY <1>4, <1>5, <2>1, <2>2, <2>3, <2>4 DEF d
  <1> QED
    BY <1>6, <1>7

\* Whatever the bytes are, an unsigned number is read.
LEMMA UnsignedType ==
    ASSUME NEW bytes \in Seq(Memory)
    PROVE  ReadUnsafe(bytes, FALSE) \in Nat
  <1> DEFINE n == Len(bytes)
             p == Power[n]
  <1>1. n \in Nat /\ p \in Nat \ {0} /\ Base \in Nat
    BY PowerPositive, SizesType
  <1>2. PICK f : Assembled(f, bytes, n) /\ ReadUnsafe(bytes, FALSE) = Signs(f[n], bytes, FALSE)
    BY <1>1, ReadUnsafeLoop
  <1>3. ReadUnsafe(bytes, FALSE) = f[n]
    BY <1>2 DEF Signs
  <1>4. \A i \in 1 .. n : bytes[i] \in Nat
    BY SizesType DEF Memory
  <1>5. f[0] = 0 /\ \A i \in 1 .. n : f[i] = (f[i - 1] * Base + bytes[n - i + 1]) % p
    <2>1. f = [i \in 0 .. n |-> IF i = 0 THEN 0 ELSE Shifted(f[i - 1], bytes, i)]
      BY <1>2 DEF Assembled
    <2>2. \A i \in 0 .. n : Shifted(f[i - 1], bytes, i) = (f[i - 1] * Base + bytes[n - i + 1]) % p
      BY DEF Shifted
    <2> HIDE DEF n, p
    <2>3. f[0] = 0 /\ \A i \in 1 .. n : f[i] = Shifted(f[i - 1], bytes, i)
      BY <1>1, <2>1
    <2> QED
      BY <2>2, <2>3
  <1> DEFINE S == {k \in Nat : k =< n => f[k] \in Nat}
  <1> HIDE DEF n, p
  <1>6. 0 \in S
    BY <1>5
  <1>7. ASSUME NEW k \in Nat, k \in S PROVE k + 1 \in S
    <2> SUFFICES ASSUME k + 1 =< n PROVE f[k + 1] \in Nat
      OBVIOUS
    <2>1. k + 1 \in 1 .. n /\ (k + 1) - 1 = k /\ n - (k + 1) + 1 \in 1 .. n /\ f[k] \in Nat
      BY <1>1, <1>7
    <2> DEFINE x == f[k] * Base + bytes[n - (k + 1) + 1]
    <2>2. f[k + 1] = x % p
      BY <1>5, <2>1
    <2>3. x \in Int
      <3>1. bytes[n - (k + 1) + 1] \in Int /\ f[k] * Base \in Int
        BY <1>1, <1>4, <2>1
      <3> QED
        BY <3>1
    <2> HIDE DEF x
    <2>4. x % p \in 0 .. p - 1
      BY <1>1, <2>3, ModType
    <2> QED
      BY <1>1, <2>2, <2>4
  <1>8. \A k \in Nat : k \in S
    <2> HIDE DEF S
    <2> QED
      BY <1>6, <1>7, NatSet
  <1>9. f[n] \in Nat
    BY <1>1, <1>8
  <1> QED
    BY <1>3, <1>9

-----------------------------------------------------------------------------
(* What reading returns                                                    *)

\* The bytes are in data.
Here(data, at, bytes) == \A i \in DOMAIN bytes : data[at + i] = bytes[i]

\* What is left to read after reading from r; a read that failed is not forgotten.
Kept(r, x) == Within(x) /\ x.data = r.data /\ (r.asserted => x.asserted)

\* The input after size more bytes.
Skipped(r, size) == [r EXCEPT !.pos = @ + size]

\* ReadRawData stays within the data, and returns the next n bytes if there are
\* that many.
LEMMA RawRead ==
    ASSUME NEW r, Within(r), NEW n \in Nat
    PROVE  /\ Kept(r, ReadRawData(r, n).input)
           /\ ReadRawData(r, n).value \in Seq(Memory) /\ Len(ReadRawData(r, n).value) = n
           /\ r.pos + n =< Len(r.data) =>
                /\ ReadRawData(r, n).input = Skipped(r, n)
                /\ \A i \in 1 .. n : ReadRawData(r, n).value[i] = r.data[r.pos + i]
  <1> DEFINE l == Len(r.data)
             d == r.data
  <1>1. d \in Seq(Memory) /\ r.asserted \in BOOLEAN /\ r.overrun \in BOOLEAN /\ r \in Inputs /\ ~r.overrun
    BY DEF Within, Inputs
  <1>2. l \in Nat /\ DOMAIN d = 1 .. l /\ \A i \in 1 .. l : d[i] \in Memory
    BY <1>1
  <1>3. r.pos \in Nat /\ r.pos =< l /\ l =< MaxPacketSize
    BY DEF Within, Inputs
  <1> HIDE DEF l, d
  <1>4. (l - r.pos) % PacketSizes = l - r.pos
    <2>1. l - r.pos \in Nat /\ l - r.pos =< MaxPacketSize
      BY <1>2, <1>3, SizesType
    <2> QED
      BY <2>1, ModPacketSmall
  <1>5. IsReadAvailable(r, n) <=> r.pos + n =< l
    <2>1. IsReadAvailable(r, n) <=> (l - r.pos) >= n
      BY <1>4 DEF IsReadAvailable, l
    <2> QED
      BY <1>2, <1>3, <2>1
  <1>6. 0 \in Memory
    BY SizesType DEF Memory
  <1>7. CASE r.pos + n =< l
    <2> DEFINE b == [i \in 1 .. n |-> IF r.pos + i \in DOMAIN r.data THEN r.data[r.pos + i] ELSE 0]
               x == [r EXCEPT !.pos = @ + n, !.overrun = @ \/ r.pos + n > Len(r.data)]
    <2>1. ReadRawData(r, n) = [input |-> x, value |-> b]
      BY <1>5, <1>7 DEF ReadRawData
    <2>2. x = Skipped(r, n)
      <3>1. ~ (r.pos + n > l)
        BY <1>2, <1>3, <1>7
      <3>2. (r.overrun \/ r.pos + n > Len(r.data)) = r.overrun
        BY <1>1, <3>1 DEF l
      <3> QED
        BY <1>1, <3>2 DEF Skipped, Inputs
    <2>3. \A i \in 1 .. n : b[i] = r.data[r.pos + i] /\ b[i] \in Memory
      <3>1. \A i \in 1 .. n : r.pos + i \in 1 .. l
        BY <1>2, <1>3, <1>7
      <3> QED
        BY <1>2, <3>1 DEF d
    <2>4. b \in Seq(Memory) /\ Len(b) = n
      <3>1. b = [i \in 1 .. n |-> b[i]]
        OBVIOUS
      <3> HIDE DEF b
      <3> QED
        BY <2>3, <3>1, SeqOf
    <2>5. Kept(r, Skipped(r, n))
      <3>1. r.pos + n \in Nat /\ r.pos + n =< Len(r.data) /\ Len(r.data) =< MaxPacketSize
        BY <1>2, <1>3, <1>7 DEF l
      <3> QED
        BY <1>1, <3>1 DEF Kept, Within, Skipped, Inputs
    <2> HIDE DEF b, x
    <2> QED
      BY <2>1, <2>2, <2>3, <2>4, <2>5
  <1>8. CASE ~ (r.pos + n =< l)
    <2> DEFINE x == [r EXCEPT !.asserted = TRUE]
    <2>1. ReadRawData(r, n) = [input |-> x, value |-> Zeros(n)]
      BY <1>5, <1>8 DEF ReadRawData
    <2>2. Kept(r, x)
      <3>1. Len(r.data) =< MaxPacketSize /\ r.pos =< Len(r.data)
        BY <1>3 DEF l
      <3> QED
        BY <1>1, <3>1 DEF Kept, Within, Inputs
    <2>3. Zeros(n) \in Seq(Memory) /\ Len(Zeros(n)) = n
      BY <1>6, SeqOf DEF Zeros
    <2> HIDE DEF x
    <2> QED
      BY <1>8, <2>1, <2>2, <2>3 DEF l
  <1> QED
    BY <1>7, <1>8

\* Numbers.
LEMMA BytesRead ==
    ASSUME NEW r, Within(r), NEW n \in Nat, NEW signed \in BOOLEAN
    PROVE  /\ Kept(r, ReadBytes(r, n, signed).input)
           /\ ~signed => ReadBytes(r, n, signed).value \in Nat
           /\ \A v : /\ IsValue(v, n, signed) /\ r.pos + n =< Len(r.data)
                     /\ Here(r.data, r.pos, WriteUnsafe(v, n))
                     => ReadBytes(r, n, signed).input = Skipped(r, n) /\ ReadBytes(r, n, signed).value = v
  <1> DEFINE x == ReadRawData(r, n)
  <1>1. ReadBytes(r, n, signed).input = x.input /\ ReadBytes(r, n, signed).value = ReadUnsafe(x.value, signed)
    BY DEF ReadBytes
  <1>2. /\ Kept(r, x.input) /\ x.value \in Seq(Memory) /\ Len(x.value) = n
        /\ r.pos + n =< Len(r.data) =>
             x.input = Skipped(r, n) /\ \A i \in 1 .. n : x.value[i] = r.data[r.pos + i]
    BY RawRead
  <1> HIDE DEF x
  <1>3. ~signed => ReadUnsafe(x.value, signed) \in Nat
    BY <1>2, UnsignedType
  <1>4. ASSUME NEW v, IsValue(v, n, signed), r.pos + n =< Len(r.data),
               Here(r.data, r.pos, WriteUnsafe(v, n))
        PROVE  ReadUnsafe(x.value, signed) = v
    <2> DEFINE w == WriteUnsafe(v, n)
    <2>1. w \in Seq(Byte) /\ Len(w) = n
      <3>1. v \in Int
        BY <1>4 DEF IsValue
      <3> QED
        BY <3>1, DigitsType
    <2>2. \A i \in 1 .. n : x.value[i] = w[i]
      <3>1. \A i \in 1 .. n : r.data[r.pos + i] = w[i]
        BY <1>4, <2>1 DEF Here
      <3> QED
        BY <1>2, <1>4, <3>1
    <2> HIDE DEF w
    <2>3. x.value = w
      BY <1>2, <2>1, <2>2
    <2> QED
      BY <1>4, <2>3, IntegerReassembled DEF w
  <1> QED
    BY <1>1, <1>2, <1>3, <1>4

\* A length that a packet can have.
LEMMA LengthIsValue == \A v \in 0 .. MaxPacketSize : IsValue(v, LengthWidth, FALSE)
  BY SizesType DEF IsValue, PacketSizes

\* A length is read back as written.
LEMMA LengthRead ==
    ASSUME NEW r, Within(r)
    PROVE  /\ Kept(r, ReadLength(r).input) /\ ReadLength(r).value \in Nat
           /\ \A v \in 0 .. MaxPacketSize :
                r.pos + LengthWidth =< Len(r.data) /\ Here(r.data, r.pos, LengthBytes(v)) =>
                    ReadLength(r).input = Skipped(r, LengthWidth) /\ ReadLength(r).value = v
  <1>1. LengthWidth \in Nat /\ FALSE \in BOOLEAN
    BY SizesType
  <1>2. ReadLength(r) = ReadBytes(r, LengthWidth, FALSE)
    BY DEF ReadLength
  <1>3. Kept(r, ReadLength(r).input) /\ ReadLength(r).value \in Nat
    BY <1>1, <1>2, BytesRead
  <1>4. ASSUME NEW v \in 0 .. MaxPacketSize, r.pos + LengthWidth =< Len(r.data), Here(r.data, r.pos, LengthBytes(v))
        PROVE  ReadLength(r).input = Skipped(r, LengthWidth) /\ ReadLength(r).value = v
    <2>1. IsValue(v, LengthWidth, FALSE)
      BY LengthIsValue
    <2>2. Here(r.data, r.pos, WriteUnsafe(v, LengthWidth))
      BY <1>4 DEF LengthBytes
    <2>3. ReadBytes(r, LengthWidth, FALSE).input = Skipped(r, LengthWidth) /\ ReadBytes(r, LengthWidth, FALSE).value = v
      BY <1>1, <1>4, <2>1, <2>2, BytesRead
    <2> QED
      BY <1>2, <2>3
  <1> QED
    BY <1>3, <1>4

\* Two reads, one after the other, stay within the data.
LEMMA KeptTwice ==
    ASSUME NEW r, NEW x, NEW y, Kept(r, x), Kept(x, y)
    PROVE  Kept(r, y)
  BY DEF Kept

\* Reading on moves the position and nothing else.
LEMMA SkippedIs ==
    ASSUME NEW r, Within(r), NEW n \in Nat
    PROVE  /\ Skipped(r, n).data = r.data /\ Skipped(r, n).pos = r.pos + n /\ r.pos \in Nat
           /\ r.pos + n =< Len(r.data) => Within(Skipped(r, n))
           /\ \A m \in Nat : Skipped(Skipped(r, n), m) = Skipped(r, n + m)
  <1>1. r \in Inputs /\ r.pos \in Nat
    BY DEF Within, Inputs
  <1>2. \A m \in Nat : (r.pos + n) + m = r.pos + (n + m)
    BY <1>1
  <1>3. \A m \in Nat : Skipped(Skipped(r, n), m) = Skipped(r, n + m)
    BY <1>1, <1>2 DEF Skipped, Inputs
  <1>4. Skipped(r, n).data = r.data /\ Skipped(r, n).pos = r.pos + n
    BY <1>1 DEF Skipped, Inputs
  <1>5. ASSUME r.pos + n =< Len(r.data) PROVE Within(Skipped(r, n))
    <2>1. r.pos + n \in Nat /\ r.pos + n =< Len(r.data) /\ Len(r.data) =< MaxPacketSize /\ ~r.overrun
      BY <1>1, <1>5 DEF Within
    <2> QED
      BY <1>1, <2>1 DEF Within, Skipped, Inputs
  <1> QED
    BY <1>1, <1>3, <1>4, <1>5

\* Bytes of a packet lie somewhere.
LEMMA BytesLie ==
    ASSUME NEW v \in Seq(Memory)
    PROVE  ~LiesNowhere(v)
  <1>1. \A i \in DOMAIN v : v[i] \in Memory
    OBVIOUS
  <1>2. None \notin Memory
    BY DEF None, Memory
  <1> QED
    BY <1>1, <1>2, Zenon DEF LiesNowhere

\* Strings, copied or not; a name of which bytes lie nowhere was reported.
LEMMA StringRead ==
    ASSUME NEW r, Within(r), NEW kind
    PROVE  /\ Kept(r, ReadString(r, kind).input) /\ Kept(r, ReadName(r).input)
           /\ LiesNowhere(ReadName(r).value) => ReadName(r).input.asserted
           /\ \A v \in Seq(Byte) :
                /\ Len(v) =< MaxPacketSize /\ r.pos + LengthWidth + Len(v) =< Len(r.data)
                /\ Here(r.data, r.pos, LengthBytes(Len(v))) /\ Here(r.data, r.pos + LengthWidth, v)
                => /\ ReadString(r, kind).input = Skipped(r, LengthWidth + Len(v)) /\ ReadString(r, kind).value = v
                   /\ ReadName(r).input = Skipped(r, LengthWidth + Len(v)) /\ ReadName(r).value = v
  <1> DEFINE n == ReadLength(r).value
             x == ReadLength(r).input
             y == ReadRawData(x, n)
  <1>1. Kept(r, x) /\ Within(x) /\ n \in Nat
    BY LengthRead DEF Kept
  <1>2. ReadString(r, kind) = IF kind = "string" /\ ~IsReadAvailable(x, n)
                              THEN [input |-> [x EXCEPT !.asserted = TRUE], value |-> <<>>] ELSE y
    BY DEF ReadString
  <1>7. ReadName(r) = IF IsReadAvailable(x, n) THEN y
                      ELSE [input |-> [x EXCEPT !.asserted = TRUE], value |-> Nowhere(n)]
    BY DEF ReadName
  <1> HIDE DEF n, x
  <1>3. Kept(x, y.input) /\ y.value \in Seq(Memory)
    BY <1>1, RawRead
  <1>4. Kept(x, [x EXCEPT !.asserted = TRUE]) /\ [x EXCEPT !.asserted = TRUE].asserted = TRUE
    BY <1>1 DEF Kept, Within, Inputs
  <1>8. Kept(r, ReadName(r).input)
    <2> HIDE DEF y
    <2>1. ReadName(r).input = y.input \/ ReadName(r).input = [x EXCEPT !.asserted = TRUE]
      BY <1>7
    <2> QED
      BY <1>1, <1>3, <1>4, <2>1, KeptTwice
  <1>9. LiesNowhere(ReadName(r).value) => ReadName(r).input.asserted
    <2> HIDE DEF y
    <2>1. CASE IsReadAvailable(x, n)
      <3>1. ReadName(r).value = y.value
        BY <1>7, <2>1
      <3> QED
        BY <1>3, <3>1, BytesLie
    <2>2. CASE ~IsReadAvailable(x, n)
      <3>1. ReadName(r).input = [x EXCEPT !.asserted = TRUE]
        BY <1>7, <2>2
      <3> QED
        BY <1>4, <3>1
    <2> QED
      BY <2>1, <2>2
  <1>5. Kept(r, ReadString(r, kind).input)
    <2> HIDE DEF y
    <2>1. ReadString(r, kind).input = y.input \/ ReadString(r, kind).input = [x EXCEPT !.asserted = TRUE]
      BY <1>2
    <2> QED
      BY <1>1, <1>3, <1>4, <2>1, KeptTwice
  <1>6. ASSUME NEW v \in Seq(Byte), Len(v) =< MaxPacketSize, r.pos + LengthWidth + Len(v) =< Len(r.data),
               Here(r.data, r.pos, LengthBytes(Len(v))), Here(r.data, r.pos + LengthWidth, v)
        PROVE  /\ ReadString(r, kind).input = Skipped(r, LengthWidth + Len(v)) /\ ReadString(r, kind).value = v
               /\ ReadName(r).input = Skipped(r, LengthWidth + Len(v)) /\ ReadName(r).value = v
    <2> DEFINE m == Len(v)
               l == Len(r.data)
    <2>1. m \in 0 .. MaxPacketSize /\ m \in Nat
      BY <1>6, SizesType
    <2>2. r.pos \in Nat /\ l \in Nat /\ l =< MaxPacketSize
      BY DEF Within, Inputs
    <2>3. r.pos + LengthWidth =< l
      <3>1. r.pos + LengthWidth + m =< l
        BY <1>6
      <3> HIDE DEF m, l
      <3> QED
        BY <2>1, <2>2, <3>1, SizesType
    <2>4. x = Skipped(r, LengthWidth) /\ n = m
      BY <1>6, <2>1, <2>3, LengthRead DEF n, x
    <2>5. x.data = r.data /\ x.pos = r.pos + LengthWidth
      BY <2>4, SkippedIs, SizesType
    <2>6. x.pos + m =< Len(x.data)
      <3>1. r.pos + LengthWidth + m =< l
        BY <1>6
      <3> QED
        BY <2>5, <3>1
    <2>7. y.input = Skipped(x, m) /\ y.value \in Seq(Memory) /\ Len(y.value) = m /\ \A i \in 1 .. m : y.value[i] = x.data[x.pos + i]
      <3> HIDE DEF m
      <3> QED
        BY <1>1, <2>1, <2>4, <2>6, RawRead
    <2>8. IsReadAvailable(x, n)
      <3>1. (Len(x.data) - x.pos) % PacketSizes = Len(x.data) - x.pos /\ Len(x.data) - x.pos >= m
        <4> HIDE DEF m
        <4>1. l - x.pos \in Nat /\ l - x.pos =< MaxPacketSize /\ l - x.pos >= m
          <5> DEFINE xp == x.pos
          <5>1. xp \in Nat /\ xp + m =< l
            BY <2>2, <2>5, <2>6, SizesType
          <5> HIDE DEF xp, l
          <5>2. l - xp \in Nat /\ l - xp =< MaxPacketSize /\ l - xp >= m
            BY <2>1, <2>2, <5>1, SizesType
          <5> QED
            BY <5>2 DEF xp
        <4> QED
          BY <2>5, <4>1, ModPacketSmall
      <3> QED
        BY <2>4, <3>1 DEF IsReadAvailable
    <2>9. ReadString(r, kind) = y /\ ReadName(r) = y
      BY <1>2, <1>7, <2>8
    <2>10. y.value = v
      <3>1. \A i \in 1 .. m : v[i] = r.data[r.pos + LengthWidth + i]
        BY <1>6 DEF Here
      <3>2. DOMAIN v = 1 .. m /\ DOMAIN y.value = 1 .. m
        BY <2>7
      <3>3. \A i \in 1 .. m : y.value[i] = v[i]
        BY <2>5, <2>7, <3>1
      <3> HIDE DEF y
      <3> QED
        BY <2>7, <3>2, <3>3
    <2>11. Skipped(x, m) = Skipped(r, LengthWidth + m)
      BY <2>1, <2>4, SkippedIs, SizesType
    <2> HIDE DEF y
    <2> QED
      BY <2>7, <2>9, <2>10, <2>11
  <1> QED
    BY <1>5, <1>6, <1>8, <1>9

\* Reading one value of a vector, or one string, stays within the data.
LEMMA NextKept ==
    ASSUME NEW r, Within(r.input), NEW item, item.n \in Nat, item.signed \in BOOLEAN
    PROVE  Kept(r.input, ReadNext(r, item).input)
  <1>1. Kept(r.input, ReadBytes(r.input, item.n, item.signed).input)
    BY BytesRead
  <1>2. Kept(r.input, ReadString(r.input, "string").input)
    BY StringRead
  <1> QED
    BY <1>1, <1>2 DEF ReadNext

\* Reading a vector of any announced length stays within the data.
LEMMA SeqKept ==
    ASSUME NEW r, Within(r), NEW item, item.n \in Nat, item.signed \in BOOLEAN, NEW count \in Nat
    PROVE  Kept(r, ReadSeq(r, count, item).input)
  <1>1. PICK f : Filled(f, r, item, count) /\ ReadSeq(r, count, item) = f[count]
    BY ReadSeqLoop
  <1>2. f[0] = [input |-> r, value |-> <<>>] /\ \A k \in 1 .. count : f[k] = ReadNext(f[k - 1], item)
    <2>1. Filled(f, r, item, count)
      BY <1>1
    <2> QED
      BY <2>1 DEF Filled
  <1> DEFINE S == {k \in Nat : k =< count => Kept(r, f[k].input)}
  <1>3. 0 \in S
    BY <1>2 DEF Kept
  <1>4. ASSUME NEW k \in Nat, k \in S PROVE k + 1 \in S
    <2> SUFFICES ASSUME k + 1 =< count PROVE Kept(r, f[k + 1].input)
      OBVIOUS
    <2>1. f[k + 1] = ReadNext(f[k], item)
      <3>1. k + 1 \in 1 .. count /\ (k + 1) - 1 = k
        OBVIOUS
      <3> QED
        BY <1>2, <3>1
    <2>2. Kept(r, f[k].input)
      BY <1>4
    <2>3. Kept(f[k].input, ReadNext(f[k], item).input)
      BY <2>2, NextKept DEF Kept
    <2> QED
      BY <2>1, <2>2, <2>3, KeptTwice
  <1>5. \A k \in Nat : k \in S
    <2> HIDE DEF S
    <2> QED
      BY <1>3, <1>4, NatSet
  <1> QED
    BY <1>1, <1>5

\* Reading stays within the data, whatever is read, and a name of which bytes lie
\* nowhere was reported.
LEMMA ItemKept ==
    ASSUME NEW r, Within(r), NEW item, IsItem(item)
    PROVE  /\ Kept(r, ReadItem(r, item).input)
           /\ IsName(item) /\ LiesNowhere(ReadItem(r, item).value) => ReadItem(r, item).input.asserted
  <1> DEFINE x == ReadLength(r)
  <1>1. /\ item.n \in Nat /\ item.signed \in BOOLEAN
        /\ item.type \in {"int", "raw", "vector", "enumeration", "params"} \cup StringKinds
    BY ItemIs
  <1>0. item.n \in Nat /\ item.signed \in BOOLEAN
    BY <1>1
  <1>2. Kept(r, x.input) /\ Within(x.input) /\ x.value \in Nat
    BY LengthRead DEF Kept
  <1> HIDE DEF x
  <1>9. IsName(item) <=> item.type \in {"RawString", "params"}
    BY DEF IsName
  <1>3. CASE item.type = "int"
    <2>1. ReadItem(r, item) = ReadBytes(r, item.n, item.signed)
      BY <1>3 DEF ReadItem, IsName
    <2>2. Kept(r, ReadBytes(r, item.n, item.signed).input)
      BY <1>0, BytesRead
    <2> QED
      BY <1>3, <1>9, <2>1, <2>2
  <1>4. CASE item.type = "raw"
    <2>1. ReadItem(r, item) = ReadRawData(r, item.n)
      BY <1>4 DEF ReadItem, IsName
    <2>2. Kept(r, ReadRawData(r, item.n).input)
      BY <1>0, RawRead
    <2> QED
      BY <1>4, <1>9, <2>1, <2>2
  <1>5. CASE item.type \in {"string", "QString"}
    <2>1. ReadItem(r, item) = ReadString(r, item.type)
      BY <1>5 DEF ReadItem, IsName
    <2> QED
      BY <1>5, <1>9, <2>1, StringRead
  <1>6. CASE item.type = "vector"
    <2>1. ReadItem(r, item) = ReadSeq(x.input, x.value, item)
      BY <1>6 DEF ReadItem, IsName, x
    <2>2. Kept(x.input, ReadSeq(x.input, x.value, item).input)
      BY <1>1, <1>2, SeqKept
    <2> QED
      BY <1>2, <1>6, <1>9, <2>1, <2>2, KeptTwice
  <1>7. CASE item.type = "enumeration"
    <2>1. ReadItem(r, item) = ReadSeq(x.input, 4 * x.value, item)
      BY <1>7 DEF ReadItem, IsName, x
    <2>2. 4 * x.value \in Nat
      BY <1>2
    <2>3. Kept(x.input, ReadSeq(x.input, 4 * x.value, item).input)
      BY <1>1, <1>2, <2>2, SeqKept
    <2> QED
      BY <1>2, <1>7, <1>9, <2>1, <2>3, KeptTwice
  <1>8. CASE IsName(item)
    <2>1. ReadItem(r, item) = ReadName(r)
      BY <1>8, <1>9 DEF ReadItem, IsName
    <2> QED
      BY <2>1, StringRead
  <1> QED
    BY <1>1, <1>3, <1>4, <1>5, <1>6, <1>7, <1>8, <1>9 DEF StringKinds

\* Two sequences, one behind the other.
LEMMA ConcatIs ==
    ASSUME NEW S, NEW s \in Seq(S), NEW t \in Seq(S)
    PROVE  /\ s \o t \in Seq(S) /\ Len(s \o t) = Len(s) + Len(t)
           /\ \A i \in 1 .. Len(s) : (s \o t)[i] = s[i]
           /\ \A i \in 1 .. Len(t) : (s \o t)[Len(s) + i] = t[i]
  <1>1. s \o t \in Seq(S) /\ Len(s \o t) = Len(s) + Len(t)
    OBVIOUS
  <1>2. ASSUME NEW i \in 1 .. Len(s) PROVE (s \o t)[i] = s[i]
    OBVIOUS
  <1>3. ASSUME NEW i \in 1 .. Len(t) PROVE (s \o t)[Len(s) + i] = t[i]
    OBVIOUS
  <1> QED
    BY <1>1, <1>2, <1>3

\* A name is put behind the string, and a separator.
LEMMA AddTypeIs ==
    ASSUME NEW s \in Seq(Byte), NEW n \in Seq(Byte)
    PROVE  /\ AddType(s, n) \in Seq(Byte) /\ Len(AddType(s, n)) = Len(s) + Len(n) + 1
           /\ \A i \in 1 .. Len(s) : AddType(s, n)[i] = s[i]
           /\ \A i \in 1 .. Len(n) : AddType(s, n)[Len(s) + i] = n[i]
           /\ AddType(s, n)[Len(s) + Len(n) + 1] = Separator
  <1> DEFINE t == s \o n
             u == t \o <<Separator>>
             ls == Len(s)
             ln == Len(n)
  <1>1. t \in Seq(Byte) /\ Len(t) = ls + ln /\ (\A i \in 1 .. ls : t[i] = s[i]) /\ \A i \in 1 .. ln : t[ls + i] = n[i]
    BY ConcatIs
  <1>2. AddType(s, n) = u
    BY DEF AddType
  <1>3. ls \in Nat /\ ln \in Nat
    OBVIOUS
  <1> HIDE DEF t, ls, ln
  <1>4. /\ u \in Seq(Byte) /\ Len(u) = Len(t) + 1
        /\ \A i \in 1 .. Len(t) : u[i] = t[i]
        /\ \A i \in 1 .. 1 : u[Len(t) + i] = <<Separator>>[i]
    BY <1>1, ConcatIs, SeparatorType
  <1> HIDE DEF u
  <1>5. u[Len(t) + 1] = Separator
    BY <1>4, SeparatorType
  <1>6. (\A i \in 1 .. ls : i \in 1 .. ls + ln) /\ \A i \in 1 .. ln : ls + i \in 1 .. ls + ln
    BY <1>3
  <1>7. Len(u) = ls + ln + 1 /\ u[ls + ln + 1] = Separator
    BY <1>1, <1>4, <1>5
  <1>8. (\A i \in 1 .. ls : u[i] = s[i]) /\ \A i \in 1 .. ln : u[ls + i] = n[i]
    BY <1>1, <1>4, <1>6
  <1> QED
    BY <1>2, <1>4, <1>7, <1>8 DEF ls, ln

\* A function on 1 .. n with one more value.
LEMMA AppendIs ==
    ASSUME NEW n \in Nat, NEW s, s = [i \in 1 .. n |-> s[i]], NEW e
    PROVE  Append(s, e) = [i \in 1 .. n + 1 |-> IF i = n + 1 THEN e ELSE s[i]]
  <1> DEFINE S == {s[i] : i \in 1 .. n} \cup {e}
  <1>1. e \in S /\ \A i \in 1 .. n : s[i] \in S
    OBVIOUS
  <1> HIDE DEF S
  <1>2. s \in Seq(S) /\ Len(s) = n
    BY <1>1, SeqOf
  <1>3. Append(s, e) \in Seq(S) /\ Len(Append(s, e)) = n + 1
    BY <1>1, <1>2
  <1>4. ASSUME NEW i \in 1 .. n + 1 PROVE Append(s, e)[i] = IF i = n + 1 THEN e ELSE s[i]
    BY <1>1, <1>2
  <1>5. Append(s, e) = [i \in 1 .. n + 1 |-> Append(s, e)[i]]
    BY <1>3
  <1> QED
    BY <1>4, <1>5

\* The first values of a sequence.
Firsts(v, k) == [i \in 1 .. k |-> v[i]]

\* The first values grow by Append, up to the whole sequence.
LEMMA FirstsIs ==
    ASSUME NEW v
    PROVE  /\ Firsts(v, 0) = <<>>
           /\ \A k \in Nat : Append(Firsts(v, k), v[k + 1]) = Firsts(v, k + 1)
           /\ \A S : v \in Seq(S) => Firsts(v, Len(v)) = v
  <1>1. Firsts(v, 0) = <<>>
    BY DEF Firsts
  <1>2. ASSUME NEW k \in Nat PROVE Append(Firsts(v, k), v[k + 1]) = Firsts(v, k + 1)
    <2> DEFINE s == Firsts(v, k)
    <2>1. s = [i \in 1 .. k |-> v[i]]
      BY DEF Firsts
    <2> HIDE DEF s
    <2>2. s = [i \in 1 .. k |-> s[i]] /\ \A i \in 1 .. k : s[i] = v[i]
      BY <2>1
    <2>3. Append(s, v[k + 1]) = [i \in 1 .. k + 1 |-> IF i = k + 1 THEN v[k + 1] ELSE s[i]]
      BY <2>2, AppendIs
    <2>4. \A i \in 1 .. k + 1 : (IF i = k + 1 THEN v[k + 1] ELSE s[i]) = v[i]
      BY <2>2
    <2> QED
      BY <2>3, <2>4 DEF Firsts, s
  <1>3. ASSUME NEW S, v \in Seq(S) PROVE Firsts(v, Len(v)) = v
    BY <1>3 DEF Firsts
  <1> QED
    BY <1>1, <1>2, <1>3

\* Where the names of parameters begin and end.
NameSums(h, names) == Summed(h, ParamsLengths(names), Len(names))

\* Each name takes its bytes and one for the separator.
LEMMA NamesSum ==
    ASSUME NEW names \in Seq(Seq(Byte \ {Separator})), NEW h, NameSums(h, names)
    PROVE  /\ h[0] = 0
           /\ \A k \in 1 .. Len(names) :
                h[k] = h[k - 1] + Len(names[k]) + 1 /\ h[k] \in Nat /\ h[k - 1] \in Nat /\ h[k] =< h[Len(names)] /\ k =< h[k]
  <1> DEFINE m == Len(names)
             l(i) == Len(names[i])
             L == ParamsLengths(names)
  <1>1. m \in Nat /\ \A i \in 1 .. m : l(i) \in Nat /\ L[i] = l(i) + 1
    BY NamesType DEF ParamsLengths
  <1>2. Summed(h, L, m)
    BY DEF NameSums
  <1> HIDE DEF m, l, L
  <1>3. \A i \in 1 .. m : L[i] \in Nat
    BY <1>1
  <1>4. h[0] = 0 /\ \A k \in 1 .. m : h[k] = h[k - 1] + L[k]
    BY <1>1, <1>2, SumStep
  <1>5. \A k \in 0 .. m : h[k] \in Nat /\ h[k] =< h[m]
    BY <1>1, <1>2, <1>3, SumType
  <1>6. \A k \in 1 .. m : h[k] = h[k - 1] + l(k) + 1 /\ h[k] \in Nat /\ h[k - 1] \in Nat /\ h[k] =< h[m]
    <2> SUFFICES ASSUME NEW k \in 1 .. m
                 PROVE  h[k] = h[k - 1] + l(k) + 1 /\ h[k] \in Nat /\ h[k - 1] \in Nat /\ h[k] =< h[m]
      OBVIOUS
    <2>1. k - 1 \in 0 .. m /\ k \in 0 .. m
      BY <1>1
    <2>2. h[k - 1] \in Nat /\ h[k] \in Nat /\ h[k] =< h[m] /\ h[k] = h[k - 1] + L[k] /\ L[k] = l(k) + 1 /\ l(k) \in Nat
      BY <1>1, <1>4, <1>5, <2>1
    <2> QED
      BY <2>2
  <1> DEFINE S == {k \in Nat : k =< m => k =< h[k]}
  <1>7. 0 \in S
    BY <1>4
  <1>8. ASSUME NEW k \in Nat, k \in S PROVE k + 1 \in S
    <2> SUFFICES ASSUME k + 1 =< m PROVE k + 1 =< h[k + 1]
      OBVIOUS
    <2>1. k + 1 \in 1 .. m /\ (k + 1) - 1 = k /\ k =< h[k]
      BY <1>1, <1>8
    <2>2. h[k + 1] = h[k] + l(k + 1) + 1 /\ h[k] \in Nat /\ l(k + 1) \in Nat
      <3>1. h[k + 1] = h[(k + 1) - 1] + l(k + 1) + 1 /\ h[(k + 1) - 1] \in Nat
        BY <1>6, <2>1
      <3> QED
        BY <1>1, <2>1, <3>1
    <2> QED
      BY <2>1, <2>2
  <1>9. \A k \in Nat : k \in S
    <2> HIDE DEF S
    <2> QED
      BY <1>7, <1>8, NatSet
  <1>10. \A k \in 1 .. m : k =< h[k]
    BY <1>1, <1>9
  <1> QED
    BY <1>4, <1>6, <1>10 DEF m, l

\* The names and their separators, one after the other, are the string.
NamesUpTo(data, at, names, h, k) ==
    \A j \in 1 .. k : Here(data, at + h[j - 1], names[j]) /\ data[at + h[j]] = Separator

\* ParamsString is the names, each with its separator behind it: where those
\* are in a packet, it is.
LEMMA StringHere ==
    ASSUME NEW names \in Seq(Seq(Byte \ {Separator})), NEW h, NameSums(h, names)
    PROVE  /\ ParamsString(names) \in Seq(Byte) /\ Len(ParamsString(names)) = h[Len(names)]
           /\ NamesUpTo(ParamsString(names), 0, names, h, Len(names))
           /\ \A data : \A at \in Nat : NamesUpTo(data, at, names, h, Len(names)) => Here(data, at, ParamsString(names))
  <1> DEFINE m == Len(names)
             l(i) == Len(names[i])
  <1>1. m \in Nat /\ \A i \in 1 .. m : l(i) \in Nat /\ names[i] \in Seq(Byte) /\ DOMAIN names[i] = 1 .. l(i)
    BY NamesType
  <1>2. h[0] = 0 /\ \A k \in 1 .. m : h[k] = h[k - 1] + l(k) + 1 /\ h[k] \in Nat /\ h[k - 1] \in Nat
    BY NamesSum
  <1>3. PICK f : Strung(f, names, m) /\ ParamsString(names) = f[m]
    BY <1>1, ParamsStringLoop
  <1>4. f[0] = <<>> /\ \A k \in 1 .. m : f[k] = AddType(f[k - 1], names[k])
    <2> HIDE DEF m
    <2> QED
      BY <1>1, <1>3 DEF Strung
  <1> DEFINE S == {k \in Nat : k =< m =>
                     /\ f[k] \in Seq(Byte) /\ Len(f[k]) = h[k] /\ NamesUpTo(f[k], 0, names, h, k)
                     /\ \A data : \A at \in Nat : NamesUpTo(data, at, names, h, k) => Here(data, at, f[k])}
  <1>5. 0 \in S
    <2>1. f[0] \in Seq(Byte) /\ Len(f[0]) = 0 /\ DOMAIN f[0] = {}
      BY <1>4
    <2>2. \A data : \A at \in Nat : Here(data, at, f[0])
      BY <2>1 DEF Here
    <2>3. NamesUpTo(f[0], 0, names, h, 0)
      BY DEF NamesUpTo
    <2> QED
      BY <1>2, <2>1, <2>2, <2>3
  <1>6. ASSUME NEW k \in Nat, k \in S PROVE k + 1 \in S
    <2> HIDE DEF m, l
    <2> SUFFICES ASSUME k + 1 =< m
                 PROVE  /\ f[k + 1] \in Seq(Byte) /\ Len(f[k + 1]) = h[k + 1] /\ NamesUpTo(f[k + 1], 0, names, h, k + 1)
                        /\ \A data : \A at \in Nat : NamesUpTo(data, at, names, h, k + 1) => Here(data, at, f[k + 1])
      OBVIOUS
    <2> DEFINE s == f[k]
               n == names[k + 1]
               u == f[k + 1]
               a == h[k]
               b == l(k + 1)
    <2>1. s \in Seq(Byte) /\ Len(s) = a /\ NamesUpTo(s, 0, names, h, k) /\ \A data : \A at \in Nat : NamesUpTo(data, at, names, h, k) => Here(data, at, s)
      <3>1. k =< m
        BY <1>1
      <3> QED
        BY <1>6, <3>1
    <2>2. u = AddType(s, n)
      <3>1. k + 1 \in 1 .. m /\ (k + 1) - 1 = k
        OBVIOUS
      <3> QED
        BY <1>4, <3>1
    <2>3. n \in Seq(Byte) /\ Len(n) = b /\ b \in Nat /\ DOMAIN n = 1 .. b
      BY <1>1
    <2>4. h[k + 1] = a + b + 1 /\ a \in Nat
      <3>1. k + 1 \in 1 .. m /\ (k + 1) - 1 = k
        OBVIOUS
      <3>2. h[k + 1] = h[(k + 1) - 1] + l(k + 1) + 1 /\ h[(k + 1) - 1] \in Nat
        BY <1>2, <3>1
      <3> QED
        BY <3>1, <3>2
    <2>9. b \in Nat
      BY <2>3
    <2> HIDE DEF s, n, u, b
    <2>5. /\ u \in Seq(Byte) /\ Len(u) = a + b + 1
          /\ \A i \in 1 .. a : u[i] = s[i]
          /\ \A i \in 1 .. b : u[a + i] = n[i]
          /\ u[a + b + 1] = Separator
      <3>1. /\ AddType(s, n) \in Seq(Byte) /\ Len(AddType(s, n)) = Len(s) + Len(n) + 1
            /\ \A i \in 1 .. Len(s) : AddType(s, n)[i] = s[i]
            /\ \A i \in 1 .. Len(n) : AddType(s, n)[Len(s) + i] = n[i]
            /\ AddType(s, n)[Len(s) + Len(n) + 1] = Separator
        BY <2>1, <2>3, AddTypeIs
      <3>2. Len(s) = a /\ Len(n) = b
        BY <2>1, <2>3
      <3> QED
        BY <2>2, <3>1, <3>2
    <2>6. \A j \in 1 .. k : h[j] \in Nat /\ h[j] =< a /\ h[j - 1] \in Nat /\ h[j] = h[j - 1] + l(j) + 1 /\ DOMAIN names[j] = 1 .. l(j) /\ l(j) \in Nat
      <3> SUFFICES ASSUME NEW j \in 1 .. k
                   PROVE h[j] \in Nat /\ h[j] =< a /\ h[j - 1] \in Nat /\ h[j] = h[j - 1] + l(j) + 1 /\ DOMAIN names[j] = 1 .. l(j) /\ l(j) \in Nat
        OBVIOUS
      <3>1. j \in 1 .. m
        BY <1>1
      <3>2. h[j] =< h[k]
        <4> DEFINE L == ParamsLengths(names)
        <4>1. \A i \in 1 .. m : L[i] \in Nat
          BY <1>1 DEF ParamsLengths, m, l
        <4>2. Summed(h, L, m)
          BY DEF NameSums, m
        <4> HIDE DEF L, m
        <4>3. \A x \in 0 .. m : h[x] \in Nat /\ h[x] =< h[m] /\ \A y \in 0 .. x : h[y] =< h[x]
          BY <1>1, <4>1, <4>2, SumType
        <4>4. k \in 0 .. m /\ j \in 0 .. k
          BY <1>1
        <4> QED
          BY <4>3, <4>4
      <3> QED
        BY <1>1, <1>2, <3>1, <3>2
    <2>7. NamesUpTo(u, 0, names, h, k + 1)
      <3> SUFFICES ASSUME NEW j \in 1 .. k + 1 PROVE Here(u, 0 + h[j - 1], names[j]) /\ u[0 + h[j]] = Separator
        BY DEF NamesUpTo
      <3>1. CASE j = k + 1
        <4>5. j - 1 = k /\ h[j - 1] = a /\ h[j] = h[k + 1] /\ names[j] = n
          BY <3>1 DEF n
        <4>1. 0 + h[j - 1] = a /\ 0 + h[j] = a + b + 1 /\ names[j] = n
          <5> HIDE DEF a
          <5>1. 0 + a = a /\ 0 + (a + b + 1) = a + b + 1
            BY <2>4, <2>9
          <5> QED
            BY <2>4, <4>5, <5>1
        <4>2. Here(u, a, n) /\ u[a + b + 1] = Separator
          <5>1. \A i \in DOMAIN n : u[a + i] = n[i]
            BY <2>3, <2>5, Zenon
          <5> QED
            BY <2>5, <5>1 DEF Here
        <4>3. Here(u, 0 + h[j - 1], names[j])
          BY <4>1, <4>2, Zenon
        <4>4. u[0 + h[j]] = Separator
          BY <4>1, <4>2, Zenon
        <4> QED
          BY <4>3, <4>4
      <3>2. CASE j # k + 1
        <4>1. j \in 1 .. k
          BY <3>2
        <4>2. Here(s, 0 + h[j - 1], names[j]) /\ s[0 + h[j]] = Separator
          BY <2>1, <4>1 DEF NamesUpTo
        <4>3. /\ h[j] \in Nat /\ h[j] =< a /\ h[j - 1] \in Nat /\ h[j] = h[j - 1] + l(j) + 1
              /\ DOMAIN names[j] = 1 .. l(j) /\ l(j) \in Nat
          BY <2>6, <4>1
        <4> DEFINE lj == l(j)
                   x == h[j - 1]
                   y == h[j]
        <4>4. y \in 1 .. a /\ 0 + y = y /\ \A i \in 1 .. lj : 0 + x + i \in 1 .. a
          <5>1. y \in Nat /\ y =< a /\ x \in Nat /\ y = x + lj + 1 /\ lj \in Nat
            BY <4>3
          <5> HIDE DEF x, y, lj
          <5> QED
            BY <2>4, <5>1
        <4> HIDE DEF lj
        <4>5. \A i \in 1 .. lj : u[0 + h[j - 1] + i] = names[j][i]
          BY <2>5, <4>2, <4>3, <4>4 DEF Here, lj
        <4>6. u[0 + h[j]] = Separator
          BY <2>5, <4>2, <4>4
        <4> QED
          BY <4>3, <4>5, <4>6 DEF Here, lj
      <3> QED
        BY <3>1, <3>2
    <2>8. ASSUME NEW data, NEW at \in Nat, NamesUpTo(data, at, names, h, k + 1) PROVE Here(data, at, u)
      <3>1. Here(data, at, s)
        <4>1. NamesUpTo(data, at, names, h, k)
          BY <2>8 DEF NamesUpTo
        <4> QED
          BY <2>1, <4>1
      <3>2. \A i \in 1 .. a : data[at + i] = s[i]
        BY <2>1, <3>1 DEF Here
      <3>3. Here(data, at + h[(k + 1) - 1], names[k + 1]) /\ data[at + h[k + 1]] = Separator
        BY <2>8 DEF NamesUpTo
      <3>4. (\A i \in 1 .. b : data[at + a + i] = n[i]) /\ data[at + a + b + 1] = Separator
        <4>1. (k + 1) - 1 = k /\ at + h[k + 1] = at + a + b + 1
          BY <2>3, <2>4
        <4>2. Here(data, at + a, n) /\ data[at + a + b + 1] = Separator
          BY <3>3, <4>1 DEF n
        <4>3. \A i \in DOMAIN n : data[at + a + i] = n[i]
          BY <4>2 DEF Here
        <4>4. DOMAIN n = 1 .. b
          BY <2>3
        <4>5. \A i \in 1 .. b : data[at + a + i] = n[i]
          BY <4>3, <4>4
        <4> QED
          BY <4>2, <4>5
      <3>5. ASSUME NEW i \in 1 .. a + b + 1 PROVE data[at + i] = u[i]
        <4>1. CASE i =< a
          <5>1. i \in 1 .. a
            BY <2>4, <4>1
          <5>2. u[i] = s[i] /\ data[at + i] = s[i]
            BY <2>5, <3>2, <5>1, Zenon
          <5> QED
            BY <5>2
        <4>2. CASE i > a /\ i =< a + b
          <5>1. i - a \in 1 .. b /\ a + (i - a) = i /\ at + a + (i - a) = at + i
            BY <2>4, <2>9, <4>2
          <5> QED
            BY <2>5, <3>4, <5>1
        <4>3. CASE i > a + b
          <5> HIDE DEF a
          <5>2. i \in Int /\ a \in Nat /\ b \in Nat /\ i =< a + b + 1
            BY <2>4, <2>9 DEF a
          <5>3. i = a + b + 1
            BY <4>3, <5>2
          <5>1. i = a + b + 1 /\ at + i = at + a + b + 1
            BY <5>2, <5>3
          <5> QED
            BY <2>5, <3>4, <5>1
        <4> QED
          BY <2>4, <2>9, <4>1, <4>2, <4>3
      <3>6. DOMAIN u = 1 .. a + b + 1
        BY <2>5
      <3> QED
        BY <3>5, <3>6 DEF Here
    <2> QED
      BY <2>4, <2>5, <2>7, <2>8 DEF u
  <1>7. \A k \in Nat : k \in S
    <2> HIDE DEF S
    <2> QED
      BY <1>5, <1>6, NatSet
  <1>8. m \in S
    BY <1>1, <1>7
  <1> QED
    BY <1>1, <1>3, <1>8

\* Each piece lies behind the sums of those before it.
LEMMA HoldsHere ==
    ASSUME NEW pieces, NEW data, NEW at, Holds(data, at, pieces), NEW g, Sums(g, pieces), NEW j \in 1 .. Len(pieces)
    PROVE  Here(data, at + g[j - 1], pieces[j])
  BY DEF Holds, Here

\* A sequence that is read item by item, where one ends and the next begins
\* given by p.
ReadsOn(r, item, v, m, p) ==
    \A k \in 0 .. m - 1 :
        ReadNext([input |-> Skipped(r, p[k]), value |-> Firsts(v, k)], item) =
            [input |-> Skipped(r, p[k + 1]), value |-> Firsts(v, k + 1)]

\* A sequence each of whose values is read back is read back.
LEMMA SeqRead ==
    ASSUME NEW r, NEW item, NEW v, NEW m \in Nat, NEW p, ReadsOn(r, item, v, m, p)
    PROVE  ReadSeq(Skipped(r, p[0]), m, item) = [input |-> Skipped(r, p[m]), value |-> Firsts(v, m)]
  <1> DEFINE x == Skipped(r, p[0])
             y(k) == [input |-> Skipped(r, p[k]), value |-> Firsts(v, k)]
  <1>1. PICK f : Filled(f, x, item, m) /\ ReadSeq(x, m, item) = f[m]
    BY ReadSeqLoop
  <1>2. f[0] = [input |-> x, value |-> <<>>] /\ \A k \in 1 .. m : f[k] = ReadNext(f[k - 1], item)
    <2>1. Filled(f, x, item, m)
      BY <1>1
    <2> QED
      BY <2>1 DEF Filled
  <1>3. [input |-> x, value |-> <<>>] = y(0)
    BY FirstsIs
  <1>4. \A k \in 0 .. m - 1 : ReadNext(y(k), item) = y(k + 1)
    BY DEF ReadsOn
  <1> HIDE DEF x, y
  <1> DEFINE S == {k \in Nat : k =< m => f[k] = y(k)}
  <1>5. 0 \in S
    BY <1>2, <1>3
  <1>6. ASSUME NEW k \in Nat, k \in S PROVE k + 1 \in S
    <2> SUFFICES ASSUME k + 1 =< m PROVE f[k + 1] = y(k + 1)
      OBVIOUS
    <2>1. k + 1 \in 1 .. m /\ (k + 1) - 1 = k /\ k \in 0 .. m - 1 /\ f[k] = y(k)
      BY <1>6
    <2>2. f[k + 1] = ReadNext(f[k], item)
      BY <1>2, <2>1
    <2> QED
      BY <1>4, <2>1, <2>2
  <1>7. \A k \in Nat : k \in S
    <2> HIDE DEF S
    <2> QED
      BY <1>5, <1>6, NatSet
  <1>8. f[m] = y(m)
    BY <1>7
  <1> QED
    BY <1>1, <1>8 DEF x, y

\* What has been read of an item is the item.
ReadBack(r, item) ==
    ReadItem(r, item).input = Skipped(r, ItemSize(item)) /\ ReadItem(r, item).value = Received(item)

\* An item lies where the input is.
Ready(r, item) == Within(r) /\ Holds(r.data, r.pos, Pieces(item)) /\ r.pos + ItemSize(item) =< Len(r.data)

\* What an item lying in front of the input means.
LEMMA ReadyIs ==
    ASSUME NEW r, NEW item, Ready(r, item)
    PROVE  /\ Within(r) /\ r.pos \in Nat /\ Len(r.data) \in Nat /\ Len(r.data) =< MaxPacketSize
           /\ Holds(r.data, r.pos, Pieces(item)) /\ r.pos + ItemSize(item) =< Len(r.data)
  BY DEF Ready, Within, Inputs

\* An integer of any width and sign is read back as written.
LEMMA IntBack ==
    ASSUME NEW r, NEW item, IsItem(item), Ready(r, item), item.type = "int"
    PROVE  ReadBack(r, item)
  <1> DEFINE p == WriteUnsafe(item.value, item.n)
  <1>1. item.n \in Nat /\ item.signed \in BOOLEAN /\ IsValue(item.value, item.n, item.signed)
    BY ItemIs
  <1>2. p \in Seq(Byte)
    <2>1. item.value \in Int
      BY <1>1 DEF IsValue
    <2> QED
      BY <1>1, <2>1, DigitsType
  <1>3. Pieces(item) = <<p>> /\ ItemSize(item) = item.n /\ Received(item) = item.value
    BY PiecesAre, ItemSizeIs DEF Received
  <1>4. Here(r.data, r.pos, p)
    <2> HIDE DEF p
    <2>1. ArePieces(<<p>>) /\ Len(<<p>>) = 1 /\ <<p>>[1] = p
      BY <1>2, OnePiece
    <2>2. PICK g : Sums(g, <<p>>)
      BY <2>1, SumsExist
    <2>3. g[0] = 0
      BY <2>1, <2>2, PieceStep
    <2>4. Holds(r.data, r.pos, <<p>>) /\ r.pos \in Nat
      BY <1>3, ReadyIs
    <2>5. 1 \in 1 .. Len(<<p>>) /\ r.pos + g[1 - 1] = r.pos
      BY <2>1, <2>3, <2>4
    <2> QED
      BY <2>1, <2>2, <2>4, <2>5, HoldsHere
  <1>5. ReadItem(r, item) = ReadBytes(r, item.n, item.signed)
    BY DEF ReadItem, IsName
  <1>6. Within(r) /\ r.pos + item.n =< Len(r.data)
    BY <1>3, ReadyIs
  <1>7. ReadBytes(r, item.n, item.signed).input = Skipped(r, item.n) /\ ReadBytes(r, item.n, item.signed).value = item.value
    BY <1>1, <1>4, <1>6, BytesRead
  <1> QED
    BY <1>3, <1>5, <1>7 DEF ReadBack

\* Bytes copied from memory are read back as written.
LEMMA RawBack ==
    ASSUME NEW r, NEW item, IsItem(item), Ready(r, item), item.type = "raw"
    PROVE  ReadBack(r, item)
  <1> DEFINE p == item.value
             x == ReadRawData(r, item.n)
  <1>1. p \in Seq(Byte) /\ item.n = Len(p) /\ item.n \in Nat
    BY ItemIs
  <1>2. Pieces(item) = <<p>> /\ ItemSize(item) = item.n /\ Received(item) = p
    BY <1>1, PiecesAre, ItemSizeIs DEF Received
  <1>3. Here(r.data, r.pos, p)
    <2> HIDE DEF p
    <2>1. ArePieces(<<p>>) /\ Len(<<p>>) = 1 /\ <<p>>[1] = p
      BY <1>1, OnePiece
    <2>2. PICK g : Sums(g, <<p>>)
      BY <2>1, SumsExist
    <2>3. g[0] = 0
      BY <2>1, <2>2, PieceStep
    <2>4. Holds(r.data, r.pos, <<p>>) /\ r.pos \in Nat
      BY <1>2, ReadyIs
    <2>5. 1 \in 1 .. Len(<<p>>) /\ r.pos + g[1 - 1] = r.pos
      BY <2>1, <2>3, <2>4
    <2> QED
      BY <2>1, <2>2, <2>4, <2>5, HoldsHere
  <1>4. ReadItem(r, item) = x
    BY DEF ReadItem, IsName
  <1>5. Within(r) /\ r.pos + item.n =< Len(r.data)
    BY <1>2, ReadyIs
  <1>6. /\ x.value \in Seq(Memory) /\ Len(x.value) = item.n /\ x.input = Skipped(r, item.n)
        /\ \A i \in 1 .. item.n : x.value[i] = r.data[r.pos + i]
    BY <1>1, <1>5, RawRead
  <1> HIDE DEF x, p
  <1>7. DOMAIN p = 1 .. item.n /\ DOMAIN x.value = 1 .. item.n
    BY <1>1, <1>6
  <1>8. \A i \in 1 .. item.n : x.value[i] = p[i]
    BY <1>3, <1>6, <1>7 DEF Here
  <1>9. x.value = p
    BY <1>1, <1>6, <1>7, <1>8
  <1> QED
    BY <1>2, <1>4, <1>6, <1>9 DEF ReadBack

\* What a packet can hold has a length that can be written.
LEMMA StringBack ==
    ASSUME NEW r, NEW item, IsItem(item), Ready(r, item), item.type \in StringKinds
    PROVE  ReadBack(r, item)
  <1> DEFINE q == item.value
             m == Len(q)
             p == LengthBytes(m)
             l == Len(r.data)
  <1>1. q \in Seq(Byte)
    BY ItemIs
  <1>2. m \in Nat
    BY <1>1
  <1>3. Pieces(item) = <<p, q>> /\ ItemSize(item) = LengthWidth + m
    BY PiecesAre, ItemSizeIs
  <1>4. Received(item) = q
    BY DEF Received, StringKinds
  <1>5. Within(r) /\ r.pos \in Nat /\ l \in Nat /\ l =< MaxPacketSize /\ r.pos + (LengthWidth + m) =< l /\ Holds(r.data, r.pos, <<p, q>>)
    BY <1>3, ReadyIs
  <1>6. ReadItem(r, item) = ReadString(r, item.type) \/ ReadItem(r, item) = ReadName(r)
    BY DEF ReadItem, StringKinds, IsName
  <1>7. p \in Seq(Byte) /\ Len(p) = LengthWidth
    BY <1>2, LengthType
  <1> HIDE DEF q, m, p, l
  <1>8. ArePieces(<<p, q>>) /\ Len(<<p, q>>) = 2 /\ <<p, q>>[1] = p /\ <<p, q>>[2] = q
    BY <1>1, <1>7, TwoPieces
  <1>9. PICK g : Sums(g, <<p, q>>)
    BY <1>8, SumsExist
  <1>10. g[0] = 0 /\ g[1] = LengthWidth
    BY <1>1, <1>7, <1>9, TwoPieces
  <1>11. Here(r.data, r.pos, p)
    <2>1. 1 \in 1 .. Len(<<p, q>>) /\ r.pos + g[1 - 1] = r.pos
      BY <1>5, <1>8, <1>10
    <2> QED
      BY <1>5, <1>8, <1>9, <2>1, HoldsHere
  <1>12. Here(r.data, r.pos + LengthWidth, q)
    <2>1. 2 \in 1 .. Len(<<p, q>>) /\ r.pos + g[2 - 1] = r.pos + LengthWidth
      BY <1>5, <1>8, <1>10
    <2> QED
      BY <1>5, <1>8, <1>9, <2>1, HoldsHere
  <1>13. m =< MaxPacketSize /\ r.pos + LengthWidth + m =< l
    BY <1>2, <1>5, SizesType
  <1>14. /\ ReadString(r, item.type).input = Skipped(r, LengthWidth + m) /\ ReadString(r, item.type).value = q
         /\ ReadName(r).input = Skipped(r, LengthWidth + m) /\ ReadName(r).value = q
    BY <1>1, <1>5, <1>11, <1>12, <1>13, StringRead DEF p, m, l
  <1> QED
    BY <1>3, <1>4, <1>6, <1>14 DEF ReadBack

\* A vector is read back as written.
LEMMA VectorBack ==
    ASSUME NEW r, NEW item, IsItem(item), Ready(r, item), item.type = "vector"
    PROVE  ReadBack(r, item)
  <1> DEFINE v == item.value
             m == Len(v)
             n == item.n
             pieces == VectorPieces(v, n)
             l == Len(r.data)
             p == [k \in 0 .. m |-> LengthWidth + n * k]
  <1>1. v \in Seq(Int) /\ n \in Nat /\ n > 0 /\ item.signed \in BOOLEAN
    BY ItemIs
  <1>2. m \in Nat /\ DOMAIN v = 1 .. m
    BY <1>1
  <1>3. \A i \in 1 .. m : v[i] \in Int /\ IsValue(v[i], n, item.signed)
    <2>1. \A i \in DOMAIN v : IsValue(v[i], n, item.signed)
      BY ItemIs
    <2>2. \A i \in 1 .. m : v[i] \in Int
      BY <1>1
    <2> QED
      BY <1>2, <2>1, <2>2
  <1>4. Pieces(item) = pieces /\ ItemSize(item) = LengthWidth + n * m /\ Received(item) = v
    BY PiecesAre, ItemSizeIs DEF Received
  <1>5. /\ Within(r) /\ r.pos \in Nat /\ l \in Nat /\ l =< MaxPacketSize
        /\ r.pos + (LengthWidth + n * m) =< l /\ Holds(r.data, r.pos, pieces)
    BY <1>4, ReadyIs
  <1>6. ReadItem(r, item) = ReadSeq(ReadLength(r).input, ReadLength(r).value, item)
    BY DEF ReadItem, IsName
  <1>7. /\ ArePieces(pieces) /\ Len(pieces) = m + 1 /\ pieces[1] = LengthBytes(m)
        /\ \A i \in 1 .. m : pieces[i + 1] = WriteUnsafe(v[i], n)
    BY <1>1, VectorPiecesAre
  <1>8. PICK g : Sums(g, pieces)
    BY <1>2, <1>7, SumsExist
  <1>9. g[0] = 0 /\ \A k \in 0 .. m : g[k + 1] = LengthWidth + n * k
    <2>1. g[0] = 0
      BY <1>7, <1>8, PieceStep
    <2> QED
      BY <1>1, <1>8, <2>1, VectorSum
  <1> HIDE DEF m, pieces, l, n, v
  <1>10. \A k \in 0 .. m : p[k] = LengthWidth + n * k /\ p[k] \in Nat /\ p[k] =< LengthWidth + n * m
    <2> SUFFICES ASSUME NEW k \in 0 .. m PROVE LengthWidth + n * k \in Nat /\ LengthWidth + n * k =< LengthWidth + n * m
      OBVIOUS
    <2>1. n * k \in Nat /\ n * m \in Nat /\ n * k =< n * m
      BY <1>1, <1>2
    <2> QED
      BY <2>1, SizesType
  <1>11. \A k \in 0 .. m - 1 : p[k + 1] = p[k] + n
    <2> SUFFICES ASSUME NEW k \in 0 .. m - 1 PROVE LengthWidth + n * (k + 1) = LengthWidth + n * k + n
      BY <1>2, <1>10
    <2>1. n * (k + 1) = n * k + n
      BY <1>1, <1>2
    <2> QED
      BY <1>1, <2>1, SizesType
  <1>12. \A k \in 0 .. m : r.pos + p[k] =< l /\ Within(Skipped(r, p[k])) /\ Skipped(r, p[k]).data = r.data /\ Skipped(r, p[k]).pos = r.pos + p[k]
    <2> SUFFICES ASSUME NEW k \in 0 .. m
                 PROVE  r.pos + p[k] =< l /\ Within(Skipped(r, p[k])) /\ Skipped(r, p[k]).data = r.data /\ Skipped(r, p[k]).pos = r.pos + p[k]
      OBVIOUS
    <2> DEFINE x == p[k]
               y == LengthWidth + n * m
    <2>1. x \in Nat /\ x =< y /\ y \in Nat
      BY <1>1, <1>2, <1>10, SizesType
    <2>2. r.pos + x =< l
      <3>1. r.pos + y =< l
        BY <1>5
      <3> HIDE DEF x, y
      <3> QED
        BY <1>5, <2>1, <3>1
    <2> HIDE DEF x, y
    <2>3. Within(Skipped(r, x)) /\ Skipped(r, x).data = r.data /\ Skipped(r, x).pos = r.pos + x
      BY <1>5, <2>1, <2>2, SkippedIs DEF l
    <2> QED
      BY <2>2, <2>3 DEF x
  <1>13. ASSUME NEW k \in 0 .. m - 1
         PROVE  ReadNext([input |-> Skipped(r, p[k]), value |-> Firsts(v, k)], item) =
                    [input |-> Skipped(r, p[k + 1]), value |-> Firsts(v, k + 1)]
    <2> DEFINE x == Skipped(r, p[k])
    <2>1. k \in 0 .. m /\ k + 1 \in 0 .. m /\ k + 1 \in 1 .. m /\ k + 1 + 1 \in 1 .. m + 1 /\ k \in Nat /\ k + 1 + 1 - 1 = k + 1
      BY <1>2
    <2>2. /\ Within(x) /\ x.data = r.data /\ x.pos = r.pos + p[k] /\ r.pos + p[k + 1] =< l
          /\ p[k + 1] = p[k] + n /\ p[k] \in Nat /\ p[k] = LengthWidth + n * k
      BY <1>10, <1>11, <1>12, <2>1
    <2>3. Here(r.data, r.pos + p[k], WriteUnsafe(v[k + 1], n))
      <3>1. Here(r.data, r.pos + g[k + 1 + 1 - 1], pieces[k + 1 + 1])
        BY <1>5, <1>7, <1>8, <2>1, HoldsHere
      <3>2. g[k + 1 + 1 - 1] = p[k] /\ pieces[k + 1 + 1] = WriteUnsafe(v[k + 1], n)
        BY <1>7, <1>9, <2>1, <2>2
      <3> QED
        BY <3>1, <3>2
    <2>4. x.pos + n =< Len(x.data)
      <3>1. x.pos + n = r.pos + p[k + 1]
        BY <1>1, <1>5, <2>2
      <3> QED
        BY <2>2, <3>1 DEF l
    <2> HIDE DEF x, p
    <2>5. ReadBytes(x, n, item.signed).input = Skipped(x, n) /\ ReadBytes(x, n, item.signed).value = v[k + 1]
      BY <1>1, <1>3, <2>1, <2>2, <2>3, <2>4, BytesRead
    <2>6. Skipped(x, n) = Skipped(r, p[k + 1])
      BY <1>1, <1>5, <2>2, SkippedIs DEF x
    <2>7. Append(Firsts(v, k), v[k + 1]) = Firsts(v, k + 1)
      BY <2>1, FirstsIs
    <2> QED
      BY <2>5, <2>6, <2>7 DEF ReadNext, x, n
  <1>14. ReadLength(r).input = Skipped(r, LengthWidth) /\ ReadLength(r).value = m
    <2>1. m \in 0 .. MaxPacketSize
      <3>1. m =< n * m
        BY <1>1, <1>2
      <3> DEFINE y == n * m
      <3>2. y \in Nat /\ m =< y /\ r.pos + (LengthWidth + y) =< l
        BY <1>1, <1>2, <1>5, <3>1
      <3> HIDE DEF y
      <3> QED
        BY <1>2, <1>5, <3>2, SizesType
    <2>2. Here(r.data, r.pos, LengthBytes(m))
      <3>1. 1 \in 1 .. Len(pieces) /\ r.pos + g[1 - 1] = r.pos
        BY <1>2, <1>5, <1>7, <1>9
      <3> QED
        BY <1>5, <1>7, <1>8, <3>1, HoldsHere
    <2>3. r.pos + LengthWidth =< Len(r.data)
      <3>1. 0 \in 0 .. m /\ n * 0 = 0
        BY <1>1, <1>2
      <3>2. p[0] = LengthWidth
        BY <1>10, <3>1, SizesType
      <3> QED
        BY <1>12, <3>1, <3>2 DEF l
    <2> QED
      BY <1>5, <2>1, <2>2, <2>3, LengthRead
  <1>15. p[0] = LengthWidth /\ p[m] = LengthWidth + n * m
    <2>1. 0 \in 0 .. m /\ m \in 0 .. m /\ n * 0 = 0
      BY <1>1, <1>2
    <2> QED
      BY <1>10, <2>1, SizesType
  <1> HIDE DEF p
  <1>16. ReadSeq(Skipped(r, p[0]), m, item) = [input |-> Skipped(r, p[m]), value |-> Firsts(v, m)]
    <2>1. ReadsOn(r, item, v, m, p)
      BY <1>13 DEF ReadsOn
    <2> QED
      BY <1>2, <2>1, SeqRead
  <1>17. Firsts(v, m) = v
    BY <1>1, FirstsIs DEF m
  <1> QED
    BY <1>4, <1>6, <1>14, <1>15, <1>16, <1>17 DEF ReadBack

\* Two steps forward.
LEMMA SkippedTwice ==
    ASSUME NEW r, NEW n \in Nat, NEW m \in Nat, Within(r)
    PROVE  Skipped(Skipped(r, n), m) = Skipped(r, n + m)
  BY SkippedIs

\* An enumeration is read back as written.
LEMMA EnumerationBack ==
    ASSUME NEW r, NEW item, IsItem(item), Ready(r, item), item.type = "enumeration"
    PROVE  ReadBack(r, item)
  <1> DEFINE v == item.value
             m == Len(v)
             pieces == EnumerationPieces(v)
             lengths == EnumerationLengths(v)
             l == Len(r.data)
             len(i) == Len(v[i])
  <1>1. v \in Seq(Seq(Byte)) /\ m % 4 = 0
    BY ItemIs
  <1>2. m \in Nat /\ \A i \in 1 .. m : v[i] \in Seq(Byte) /\ len(i) \in Nat /\ lengths[i] = LengthWidth + len(i)
    BY <1>1 DEF EnumerationLengths
  <1>3. Pieces(item) = pieces /\ ItemSize(item) = LengthWidth + Total(lengths) /\ Received(item) = v
    BY PiecesAre, ItemSizeIs DEF Received, EnumerationLengths
  <1>4. /\ Within(r) /\ r.pos \in Nat /\ l \in Nat /\ l =< MaxPacketSize
        /\ r.pos + ItemSize(item) =< l /\ Holds(r.data, r.pos, pieces)
    BY <1>3, ReadyIs
  <1>5. /\ ArePieces(pieces) /\ Len(pieces) = 2 * m + 1 /\ pieces[1] = LengthBytes(m \div 4)
        /\ \A i \in 1 .. m : pieces[2 * i] = LengthBytes(len(i)) /\ pieces[2 * i + 1] = v[i]
    BY <1>1, EnumerationPiecesAre
  <1>6. PICK g : Sums(g, pieces)
    BY <1>2, <1>5, SumsExist
  <1>7. PICK h : Summed(h, lengths, m) /\ Total(lengths) = h[m] /\ \A i \in 0 .. m : g[2 * i + 1] = LengthWidth + h[i]
    BY <1>1, <1>6, EnumerationSum
  <1>8. ReadItem(r, item) = ReadSeq(ReadLength(r).input, 4 * ReadLength(r).value, item)
    BY DEF ReadItem, IsName
  <1> HIDE DEF v, m, pieces, lengths, l, len
  <1>9. \A i \in 1 .. m : lengths[i] \in Nat
    BY <1>2, SizesType
  <1>10. h[0] = 0 /\ \A k \in 1 .. m : h[k] = h[k - 1] + lengths[k]
    BY <1>2, <1>7, SumStep
  <1>11. \A k \in 0 .. m : h[k] \in Nat /\ h[k] =< h[m]
    BY <1>2, <1>7, <1>9, SumType
  <1> DEFINE p == [k \in 0 .. m |-> LengthWidth + h[k]]
  <1>12. r.pos + (LengthWidth + h[m]) =< l /\ h[m] \in Nat
    <2>1. m \in 0 .. m
      BY <1>2
    <2> QED
      BY <1>3, <1>4, <1>7, <1>11, <2>1
  <1>13. \A k \in 0 .. m : p[k] = LengthWidth + h[k] /\ p[k] \in Nat /\ r.pos + p[k] =< l
    <2> SUFFICES ASSUME NEW k \in 0 .. m PROVE LengthWidth + h[k] \in Nat /\ r.pos + (LengthWidth + h[k]) =< l
      OBVIOUS
    <2>1. h[k] \in Nat /\ h[k] =< h[m]
      BY <1>11
    <2> QED
      BY <1>4, <1>12, <2>1, SizesType
  <1>14. \A k \in 0 .. m - 1 : p[k + 1] = p[k] + (LengthWidth + len(k + 1))
    <2> SUFFICES ASSUME NEW k \in 0 .. m - 1 PROVE LengthWidth + h[k + 1] = (LengthWidth + h[k]) + (LengthWidth + len(k + 1))
      BY <1>2
    <2>1. k + 1 \in 1 .. m /\ (k + 1) - 1 = k /\ k \in 0 .. m
      BY <1>2
    <2>2. h[k + 1] = h[k] + lengths[k + 1] /\ lengths[k + 1] = LengthWidth + len(k + 1) /\ len(k + 1) \in Nat /\ h[k] \in Nat
      BY <1>2, <1>10, <1>11, <2>1
    <2> QED
      BY <2>2, SizesType
  <1> HIDE DEF p
  <1>15. \A k \in 0 .. m : Within(Skipped(r, p[k])) /\ Skipped(r, p[k]).data = r.data /\ Skipped(r, p[k]).pos = r.pos + p[k]
    BY <1>4, <1>13, SkippedIs DEF l
  <1>16. ASSUME NEW k \in 0 .. m - 1
         PROVE  ReadNext([input |-> Skipped(r, p[k]), value |-> Firsts(v, k)], item) =
                    [input |-> Skipped(r, p[k + 1]), value |-> Firsts(v, k + 1)]
    <2> DEFINE x == Skipped(r, p[k])
               q == v[k + 1]
               n == len(k + 1)
               j == 2 * (k + 1)
    <2>1. /\ k \in 0 .. m /\ k + 1 \in 0 .. m /\ k + 1 \in 1 .. m /\ k \in Nat
          /\ j \in 1 .. 2 * m + 1 /\ j + 1 \in 1 .. 2 * m + 1 /\ j - 1 = 2 * k + 1 /\ (j + 1) - 1 = j
      BY <1>2
    <2>2. q \in Seq(Byte) /\ n \in Nat /\ pieces[j] = LengthBytes(n) /\ pieces[j + 1] = q
      BY <1>2, <1>5, <2>1
    <2>3. n = Len(q)
      BY DEF len
    <2>4. /\ Within(x) /\ x.data = r.data /\ x.pos = r.pos + p[k] /\ r.pos + p[k + 1] =< l
          /\ p[k + 1] = p[k] + (LengthWidth + n) /\ p[k] \in Nat /\ p[k] = LengthWidth + h[k]
      BY <1>13, <1>14, <1>15, <2>1
    <2> HIDE DEF x, q, n, j
    <2>5. g[j - 1] = p[k] /\ g[(j + 1) - 1] = p[k] + LengthWidth
      <3>1. g[2 * k + 1] = LengthWidth + h[k]
        BY <1>7, <2>1
      <3>5. j - 1 = 2 * k + 1 /\ p[k] = LengthWidth + h[k]
        BY <2>1, <2>4
      <3>6. g[j - 1] = g[2 * k + 1]
        BY <3>5
      <3>4. g[j - 1] = p[k]
        BY <3>1, <3>5, <3>6
      <3>7. Len(pieces) = 2 * m + 1 /\ ArePieces(pieces)
        BY <1>5
      <3>8. j \in 1 .. Len(pieces)
        BY <2>1, <3>7, Zenon
      <3>2. g[j] = g[j - 1] + Len(pieces[j])
        BY <1>6, <3>7, <3>8, PieceStep
      <3>3. Len(pieces[j]) = LengthWidth
        BY <2>2, LengthType
      <3> QED
        BY <2>1, <3>4, <3>2, <3>3
    <2>6. Here(x.data, x.pos, LengthBytes(n))
      <3>1. Here(r.data, r.pos + g[j - 1], pieces[j])
        BY <1>4, <1>5, <1>6, <2>1, HoldsHere
      <3> QED
        BY <2>2, <2>4, <2>5, <3>1
    <2>7. Here(x.data, x.pos + LengthWidth, q)
      <3>1. Here(r.data, r.pos + g[(j + 1) - 1], pieces[j + 1])
        BY <1>4, <1>5, <1>6, <2>1, HoldsHere
      <3>2. r.pos + (p[k] + LengthWidth) = r.pos + p[k] + LengthWidth
        BY <1>4, <2>4, SizesType
      <3> QED
        BY <2>2, <2>4, <2>5, <3>1, <3>2
    <2>8. x.pos + LengthWidth + n =< l /\ n =< MaxPacketSize
      BY <1>4, <2>2, <2>4, SizesType
    <2>9. ReadString(x, "string").input = Skipped(x, LengthWidth + n) /\ ReadString(x, "string").value = q
      <3>1. Len(q) =< MaxPacketSize /\ x.pos + LengthWidth + Len(q) =< Len(x.data)
        BY <2>3, <2>4, <2>8 DEF l
      <3>2. Here(x.data, x.pos, LengthBytes(Len(q)))
        BY <2>3, <2>6
      <3>3. ReadString(x, "string").input = Skipped(x, LengthWidth + Len(q)) /\ ReadString(x, "string").value = q
        BY <2>2, <2>4, <2>7, <3>1, <3>2, StringRead
      <3> QED
        BY <2>3, <3>3
    <2>10. Skipped(x, LengthWidth + n) = Skipped(r, p[k + 1])
      <3>1. LengthWidth + n \in Nat
        BY <2>2, SizesType
      <3>2. Skipped(Skipped(r, p[k]), LengthWidth + n) = Skipped(r, p[k] + (LengthWidth + n))
        BY <1>4, <2>4, <3>1, SkippedTwice
      <3> QED
        BY <2>4, <3>2, Zenon DEF x
    <2>11. Append(Firsts(v, k), q) = Firsts(v, k + 1)
      BY <2>1, FirstsIs DEF q
    <2> QED
      BY <2>9, <2>10, <2>11 DEF ReadNext, x
  <1>17. m \div 4 \in Nat /\ 4 * (m \div 4) = m
    BY <1>1, <1>2
  <1>18. ReadLength(r).input = Skipped(r, LengthWidth) /\ ReadLength(r).value = m \div 4
    <2>1. m =< h[m]
      <3> DEFINE S == {k \in Nat : k =< m => k =< h[k]}
      <3>1. 0 \in S
        BY <1>10
      <3>2. ASSUME NEW k \in Nat, k \in S PROVE k + 1 \in S
        <4> SUFFICES ASSUME k + 1 =< m PROVE k + 1 =< h[k + 1]
          OBVIOUS
        <4>1. k + 1 \in 1 .. m /\ (k + 1) - 1 = k /\ k =< h[k] /\ k \in 0 .. m
          BY <1>2, <3>2
        <4>2. h[k + 1] = h[k] + lengths[k + 1] /\ lengths[k + 1] = LengthWidth + len(k + 1) /\ len(k + 1) \in Nat /\ h[k] \in Nat
          BY <1>2, <1>10, <1>11, <4>1
        <4> QED
          BY <4>1, <4>2, SizesType
      <3>3. \A k \in Nat : k \in S
        <4> HIDE DEF S
        <4> QED
          BY <3>1, <3>2, NatSet
      <3> QED
        BY <1>2, <3>3
    <2>2. m \div 4 \in 0 .. MaxPacketSize
      <3> DEFINE d == m \div 4
      <3>1. d \in Nat /\ 4 * d = m
        BY <1>17
      <3> HIDE DEF d
      <3>2. d \in 0 .. MaxPacketSize
        BY <1>2, <1>4, <1>12, <2>1, <3>1, SizesType
      <3> QED
        BY <3>2 DEF d
    <2>3. Here(r.data, r.pos, LengthBytes(m \div 4))
      <3>1. g[0] = 0
        BY <1>5, <1>6, PieceStep
      <3>2. 1 \in 1 .. Len(pieces) /\ r.pos + g[1 - 1] = r.pos
        BY <1>2, <1>4, <1>5, <3>1
      <3> QED
        BY <1>4, <1>5, <1>6, <3>2, HoldsHere
    <2>4. r.pos + LengthWidth =< Len(r.data)
      <3>1. r.pos + LengthWidth =< l
        BY <1>4, <1>12, SizesType
      <3> QED
        BY <3>1 DEF l
    <2> QED
      BY <1>4, <2>2, <2>3, <2>4, LengthRead
  <1>19. p[0] = LengthWidth /\ p[m] = LengthWidth + h[m]
    <2>1. 0 \in 0 .. m /\ m \in 0 .. m
      BY <1>2
    <2> QED
      BY <1>10, <1>13, <2>1, SizesType
  <1>20. ReadSeq(Skipped(r, p[0]), m, item) = [input |-> Skipped(r, p[m]), value |-> Firsts(v, m)]
    <2>1. ReadsOn(r, item, v, m, p)
      BY <1>16 DEF ReadsOn
    <2> QED
      BY <1>2, <2>1, SeqRead
  <1>21. Firsts(v, m) = v
    BY <1>1, FirstsIs DEF m
  <1>22. ReadItem(r, item) = [input |-> Skipped(r, LengthWidth + h[m]), value |-> v]
    BY <1>8, <1>17, <1>18, <1>19, <1>20, <1>21
  <1> QED
    BY <1>3, <1>7, <1>22 DEF ReadBack

\* The size that ParamsTypeHolder_PacketSize adds up is that of the string, if
\* it fits into a packet.
LEMMA SizeIs ==
    ASSUME NEW names \in Seq(Seq(Byte \ {Separator})), NEW h, NameSums(h, names), h[Len(names)] =< MaxPacketSize
    PROVE  ParamsSize(names) = h[Len(names)]
  <1> DEFINE m == Len(names)
             l(i) == Len(names[i])
  <1>1. m \in Nat /\ \A i \in 1 .. m : l(i) \in Nat
    BY NamesType
  <1>2. h[0] = 0 /\ \A k \in 1 .. m : h[k] = h[k - 1] + l(k) + 1 /\ h[k] \in Nat /\ h[k - 1] \in Nat /\ h[k] =< h[m]
    BY NamesSum
  <1>3. PICK f : Sized(f, names, m) /\ ParamsSize(names) = f[m]
    BY <1>1, ParamsSizeLoop
  <1>4. h[m] =< MaxPacketSize
    OBVIOUS
  <1>5. \A k \in 1 .. m : AddTypeSize(f[k - 1], names[k]) = (f[k - 1] + l(k) + 1) % PacketSizes
    BY DEF AddTypeSize
  <1> HIDE DEF m, l
  <1>6. f[0] = 0 /\ \A k \in 1 .. m : f[k] = AddTypeSize(f[k - 1], names[k])
    BY <1>1, <1>3 DEF Sized
  <1> DEFINE S == {k \in Nat : k =< m => f[k] = h[k]}
  <1>7. 0 \in S
    BY <1>2, <1>6
  <1>8. ASSUME NEW k \in Nat, k \in S PROVE k + 1 \in S
    <2> SUFFICES ASSUME k + 1 =< m PROVE f[k + 1] = h[k + 1]
      OBVIOUS
    <2>1. k + 1 \in 1 .. m /\ (k + 1) - 1 = k /\ f[k] = h[k]
      BY <1>1, <1>8
    <2>2. h[k + 1] = h[(k + 1) - 1] + l(k + 1) + 1 /\ h[k + 1] \in Nat /\ h[k + 1] =< h[m]
      BY <1>2, <2>1
    <2>3. f[k + 1] = (f[(k + 1) - 1] + l(k + 1) + 1) % PacketSizes
      BY <1>5, <1>6, <2>1
    <2>4. f[(k + 1) - 1] = h[(k + 1) - 1]
      BY <2>1
    <2>5. f[k + 1] = h[k + 1] % PacketSizes
      BY <2>2, <2>3, <2>4
    <2>6. h[m] \in Nat /\ h[k + 1] =< MaxPacketSize
      <3>1. m \in 1 .. m
        BY <1>1, <2>1
      <3>2. h[m] \in Nat
        BY <1>2, <3>1
      <3> QED
        BY <1>4, <2>2, <3>2, SizesType
    <2> QED
      BY <2>2, <2>5, <2>6, ModPacketSmall
  <1>9. \A k \in Nat : k \in S
    <2> HIDE DEF S
    <2> QED
      BY <1>7, <1>8, NatSet
  <1> QED
    <2>1. f[m] = h[m]
      BY <1>1, <1>9
    <2> QED
      BY <1>3, <2>1 DEF m

\* The types of parameters are read back as the string that
\* ParamsTypeHolder_string makes of them.
LEMMA ParamsBack ==
    ASSUME NEW r, NEW item, IsItem(item), Ready(r, item), item.type = "params"
    PROVE  ReadBack(r, item)
  <1> DEFINE v == item.value
             m == Len(v)
             pieces == ParamsPieces(v)
             lengths == ParamsLengths(v)
             l == Len(r.data)
             len(i) == Len(v[i])
             string == ParamsString(v)
             at == r.pos + LengthWidth
  <1>1. v \in Seq(Seq(Byte \ {Separator}))
    BY ItemIs
  <1>2. m \in Nat /\ \A i \in 1 .. m : v[i] \in Seq(Byte) /\ len(i) \in Nat
    BY <1>1, NamesType
  <1>3. Pieces(item) = pieces /\ ItemSize(item) = LengthWidth + Total(lengths) /\ Received(item) = string
    BY PiecesAre, ItemSizeIs DEF Received, ParamsLengths
  <1>4. /\ Within(r) /\ r.pos \in Nat /\ l \in Nat /\ l =< MaxPacketSize
        /\ r.pos + ItemSize(item) =< l /\ Holds(r.data, r.pos, pieces)
    BY <1>3, ReadyIs
  <1>5. /\ ArePieces(pieces) /\ Len(pieces) = 2 * m + 1 /\ pieces[1] = LengthBytes(ParamsSize(v))
        /\ \A i \in 1 .. m : pieces[2 * i] = v[i] /\ pieces[2 * i + 1] = <<Separator>>
    BY <1>1, ParamsPiecesAre
  <1>6. PICK g : Sums(g, pieces)
    BY <1>2, <1>5, SumsExist
  <1>7. PICK h : Summed(h, lengths, m) /\ Total(lengths) = h[m] /\ \A i \in 0 .. m : g[2 * i + 1] = LengthWidth + h[i]
    BY <1>1, <1>6, ParamsSum
  <1>8. NameSums(h, v)
    BY <1>7 DEF NameSums
  <1>9. /\ string \in Seq(Byte) /\ Len(string) = h[m]
        /\ \A a \in Nat : NamesUpTo(r.data, a, v, h, m) => Here(r.data, a, string)
    BY <1>1, <1>8, StringHere
  <1>10. h[0] = 0 /\ \A k \in 1 .. m : h[k] = h[k - 1] + len(k) + 1 /\ h[k] \in Nat /\ h[k - 1] \in Nat /\ h[k] =< h[m]
    BY <1>1, <1>8, NamesSum
  <1>11. ReadItem(r, item) = ReadName(r)
    BY DEF ReadItem, IsName
  <1>12. /\ Len(string) =< MaxPacketSize /\ r.pos + LengthWidth + Len(string) =< Len(r.data)
         /\ Here(r.data, r.pos, LengthBytes(Len(string))) /\ Here(r.data, r.pos + LengthWidth, string)
         =>
         ReadName(r).input = Skipped(r, LengthWidth + Len(string)) /\ ReadName(r).value = string
    BY <1>4, <1>9, StringRead
  <1>13. h[m] \in Nat
    <2> HIDE DEF m, len
    <2>1. m = 0 \/ m \in 1 .. m
      BY <1>2
    <2> QED
      BY <1>10, <2>1
  <1>14. h[m] =< MaxPacketSize /\ at + h[m] =< l /\ at \in Nat
    <2> HIDE DEF m, l, lengths
    <2> QED
      BY <1>3, <1>4, <1>7, <1>13, SizesType
  <1>15. ParamsSize(v) = h[m]
    BY <1>1, <1>8, <1>14, SizeIs
  <1>16. Here(r.data, r.pos, LengthBytes(h[m]))
    <2>1. 1 \in 1 .. Len(pieces) /\ 1 - 1 = 0
      <3>1. 1 \in 1 .. 2 * m + 1
        BY <1>2
      <3>2. 1 \in 1 .. Len(pieces)
        BY <1>5, <3>1, Zenon
      <3> QED
        BY <3>2
    <2>2. g[0] = 0
      BY <1>5, <1>6, PieceStep
    <2>3. Here(r.data, r.pos + g[1 - 1], pieces[1])
      BY <1>4, <1>6, <2>1, HoldsHere
    <2>4. r.pos + g[1 - 1] = r.pos
      BY <1>4, <2>2
    <2> QED
      BY <1>5, <1>15, <2>3, <2>4
  <1>17. NamesUpTo(r.data, at, v, h, m)
    <2> SUFFICES ASSUME NEW j \in 1 .. m
                 PROVE  Here(r.data, at + h[j - 1], v[j]) /\ r.data[at + h[j]] = Separator
      BY DEF NamesUpTo
    <2> DEFINE i == 2 * j
               n == len(j)
    <2>1. i \in 1 .. 2 * m + 1 /\ i + 1 \in 1 .. 2 * m + 1 /\ i - 1 = 2 * (j - 1) + 1 /\ (i + 1) - 1 = i /\ j - 1 \in 0 .. m
      BY <1>2
    <2>2. pieces[i] = v[j] /\ pieces[i + 1] = <<Separator>> /\ n \in Nat /\ Len(v[j]) = n
      BY <1>2, <1>5
    <2>3. i \in 1 .. Len(pieces) /\ i + 1 \in 1 .. Len(pieces)
      BY <1>5, <2>1, Zenon
    <2>4. h[j] = h[j - 1] + n + 1 /\ h[j] \in Nat /\ h[j - 1] \in Nat
      BY <1>10
    <2>5. g[2 * (j - 1) + 1] = LengthWidth + h[j - 1]
      BY <1>7, <2>1
    <2> HIDE DEF i, n, at
    <2>6. g[i - 1] = LengthWidth + h[j - 1]
      BY <2>1, <2>5
    <2>7. g[i] = g[i - 1] + Len(pieces[i])
      BY <1>5, <1>6, <2>3, PieceStep
    <2>8. g[i] = g[i - 1] + n
      BY <2>2, <2>7
    <2>9. Here(r.data, r.pos + g[i - 1], v[j])
      BY <1>4, <1>6, <2>2, <2>3, HoldsHere
    <2>10. Here(r.data, r.pos + g[(i + 1) - 1], <<Separator>>)
      <3>1. Here(r.data, r.pos + g[(i + 1) - 1], pieces[i + 1])
        BY <1>4, <1>6, <2>3, HoldsHere
      <3> QED
        BY <2>2, <3>1
    <2>11. r.pos + g[i - 1] = at + h[j - 1] /\ r.pos + g[(i + 1) - 1] + 1 = at + h[j]
      <3> HIDE DEF m, l, len
      <3>1. at = r.pos + LengthWidth
        BY DEF at
      <3>2. g[(i + 1) - 1] = g[i]
        BY <2>1
      <3> QED
        <4>1. n \in Nat
          BY <2>2
        <4>2. r.pos \in Nat
          BY <1>4
        <4> QED
          BY <2>4, <2>6, <2>8, <3>1, <3>2, <4>1, <4>2, SizesType
    <2>12. r.data[r.pos + g[(i + 1) - 1] + 1] = Separator
      <3>1. 1 \in DOMAIN <<Separator>> /\ <<Separator>>[1] = Separator
        OBVIOUS
      <3> QED
        BY <2>10, <3>1 DEF Here
    <2> QED
      <3>1. Here(r.data, at + h[j - 1], v[j])
        BY <2>9, <2>11
      <3>2. r.data[at + h[j]] = Separator
        BY <2>11, <2>12
      <3> QED
        BY <3>1, <3>2
  <1>18. Here(r.data, at, string)
    BY <1>9, <1>14, <1>17
  <1>19. Len(string) =< MaxPacketSize /\ r.pos + LengthWidth + Len(string) =< Len(r.data)
    BY <1>9, <1>14
  <1>20. LengthWidth + Len(string) = ItemSize(item)
    BY <1>3, <1>7, <1>9
  <1>21. Here(r.data, r.pos, LengthBytes(Len(string)))
    BY <1>9, <1>16
  <1>22. ReadName(r).input = Skipped(r, LengthWidth + Len(string)) /\ ReadName(r).value = string
    BY <1>12, <1>18, <1>19, <1>21
  <1> QED
    <2>1. ReadName(r).input = Skipped(r, ItemSize(item))
      BY <1>20, <1>22
    <2> QED
      BY <1>3, <1>11, <1>22, <2>1 DEF ReadBack

\* Whatever its type, an item is read back as written.
LEMMA ItemBack ==
    ASSUME NEW r, NEW item, IsItem(item), Ready(r, item)
    PROVE  ReadBack(r, item)
  BY ItemIs, IntBack, RawBack, StringBack, VectorBack, EnumerationBack, ParamsBack

\* Where a name ends is where its separator is.
LEMMA SameName ==
    ASSUME NEW s, NEW a \in Nat, NEW x \in Seq(Byte \ {Separator}), NEW y \in Seq(Byte \ {Separator}),
           Here(s, a, x), s[a + (Len(x) + 1)] = Separator, Here(s, a, y), s[a + (Len(y) + 1)] = Separator
    PROVE  x = y
  <1> DEFINE n == Len(x)
             o == Len(y)
  <1>1. /\ n \in Nat /\ x = [i \in 1 .. n |-> x[i]] /\ o \in Nat /\ y = [i \in 1 .. o |-> y[i]]
        /\ \A i \in 1 .. n : s[a + i] = x[i] /\ x[i] # Separator
        /\ \A i \in 1 .. o : s[a + i] = y[i] /\ y[i] # Separator
        /\ s[a + (n + 1)] = Separator /\ s[a + (o + 1)] = Separator
    BY DEF Here
  <1> HIDE DEF n, o
  <1>2. n = o
    <2>1. ASSUME n < o PROVE FALSE
      <3>1. n + 1 \in 1 .. o
        BY <1>1, <2>1
      <3> QED
        BY <1>1, <3>1
    <2>2. ASSUME o < n PROVE FALSE
      <3>1. o + 1 \in 1 .. n
        BY <1>1, <2>2
      <3> QED
        BY <1>1, <3>1
    <2> QED
      BY <1>1, <2>1, <2>2
  <1>3. \A i \in 1 .. n : x[i] = y[i]
    BY <1>1, <1>2
  <1>4. [i \in 1 .. n |-> x[i]] = [i \in 1 .. n |-> y[i]]
    BY <1>3
  <1> QED
    BY <1>1, <1>2, <1>4, Zenon

\* ParamsString is injective: without a separator in a name, the separators
\* tell where each name ends.
LEMMA SameNames ==
    ASSUME NEW names \in Seq(Seq(Byte \ {Separator})), NEW other \in Seq(Seq(Byte \ {Separator})),
           ParamsString(names) = ParamsString(other)
    PROVE  names = other
  <1> DEFINE s == ParamsString(names)
             m == Len(names)
             p == Len(other)
             l(i) == Len(names[i])
             o(i) == Len(other[i])
  <1>1. /\ m \in Nat /\ p \in Nat /\ names = [i \in 1 .. m |-> names[i]] /\ other = [i \in 1 .. p |-> other[i]]
        /\ \A i \in 1 .. m : names[i] \in Seq(Byte \ {Separator}) /\ l(i) \in Nat
        /\ \A i \in 1 .. p : other[i] \in Seq(Byte \ {Separator}) /\ o(i) \in Nat
    OBVIOUS
  <1>2. PICK h : NameSums(h, names)
    <2>1. ParamsLengths(names) = [i \in 1 .. m |-> l(i) + 1]
      BY DEF ParamsLengths
    <2> QED
      BY <1>1, SummedExists DEF NameSums
  <1>3. PICK e : NameSums(e, other)
    BY <1>1, SummedExists DEF NameSums
  <1>4. h[0] = 0 /\ \A k \in 1 .. m : h[k] = h[k - 1] + l(k) + 1 /\ h[k] \in Nat /\ h[k - 1] \in Nat /\ h[k] =< h[m]
    BY <1>2, NamesSum
  <1>5. e[0] = 0 /\ \A k \in 1 .. p : e[k] = e[k - 1] + o(k) + 1 /\ e[k] \in Nat /\ e[k - 1] \in Nat /\ e[k] =< e[p]
    BY <1>3, NamesSum
  <1>6. NamesUpTo(s, 0, names, h, m) /\ Len(s) = h[m]
    BY <1>2, StringHere
  <1>7. NamesUpTo(s, 0, other, e, p) /\ Len(s) = e[p]
    BY <1>3, StringHere
  <1>8. h[m] = e[p]
    BY <1>6, <1>7
  <1>9. \A k \in 1 .. m : Here(s, 0 + h[k - 1], names[k]) /\ s[0 + h[k]] = Separator
    BY <1>6 DEF NamesUpTo
  <1>10. \A k \in 1 .. p : Here(s, 0 + e[k - 1], other[k]) /\ s[0 + e[k]] = Separator
    BY <1>7 DEF NamesUpTo
  <1> HIDE DEF s
  <1> DEFINE S == {k \in Nat : k =< m => k =< p /\ h[k] = e[k] /\ \A i \in 1 .. k : names[i] = other[i]}
  <1>11. 0 \in S
    BY <1>1, <1>4, <1>5
  <1>12. ASSUME NEW k \in Nat, k \in S PROVE k + 1 \in S
    <2> HIDE DEF m, p
    <2> SUFFICES ASSUME k + 1 =< m
                 PROVE  k + 1 =< p /\ h[k + 1] = e[k + 1] /\ \A i \in 1 .. k + 1 : names[i] = other[i]
      OBVIOUS
    <2> DEFINE a == h[k]
               x == names[k + 1]
               y == other[k + 1]
               n == l(k + 1)
               q == o(k + 1)
    <2>1. k + 1 \in 1 .. m /\ (k + 1) - 1 = k /\ k =< p /\ a = e[k] /\ \A i \in 1 .. k : names[i] = other[i]
      <3>1. k + 1 \in 1 .. m /\ (k + 1) - 1 = k /\ k =< m
        BY <1>1
      <3>2. k =< m => k =< p /\ h[k] = e[k] /\ \A i \in 1 .. k : names[i] = other[i]
        BY <1>12, Zenon
      <3> QED
        BY <3>1, <3>2
    <2>2. h[k + 1] = h[(k + 1) - 1] + n + 1 /\ h[k + 1] =< h[m] /\ h[(k + 1) - 1] \in Nat /\ h[k + 1] \in Nat
      BY <1>4, <2>1
    <2>3. x \in Seq(Byte \ {Separator}) /\ n \in Nat /\ Len(x) = n
      BY <1>1, <2>1
    <2> HIDE DEF l, x, n
    <2>4. h[k + 1] = a + n + 1 /\ a \in Nat /\ a < h[k + 1]
      BY <2>1, <2>2, <2>3
    <2>5. k + 1 =< p
      <3> SUFFICES ASSUME k = p PROVE FALSE
        BY <1>1, <2>1
      <3>1. a = h[m]
        BY <1>8, <2>1
      <3>2. h[m] \in Nat
        BY <2>4, <3>1
      <3> QED
        BY <2>2, <2>4, <3>1, <3>2
    <2>6. k + 1 \in 1 .. p
      BY <1>1, <2>5
    <2>7. e[k + 1] = e[(k + 1) - 1] + q + 1 /\ e[(k + 1) - 1] \in Nat
      BY <1>5, <2>6
    <2>8. y \in Seq(Byte \ {Separator}) /\ q \in Nat /\ Len(y) = q
      BY <1>1, <2>6
    <2> HIDE DEF o, y, q
    <2>9. e[k + 1] = a + q + 1
      BY <2>1, <2>7
    <2>10. Here(s, 0 + h[(k + 1) - 1], x) /\ s[0 + h[k + 1]] = Separator
      BY <1>9, <2>1 DEF x
    <2>11. Here(s, 0 + e[(k + 1) - 1], y) /\ s[0 + e[k + 1]] = Separator
      BY <1>10, <2>6 DEF y
    <2>12. 0 + h[(k + 1) - 1] = a /\ 0 + e[(k + 1) - 1] = a /\ 0 + h[k + 1] = a + (n + 1) /\ 0 + e[k + 1] = a + (q + 1)
      BY <2>1, <2>3, <2>4, <2>8, <2>9
    <2>13. x = y
      <3>1. Here(s, a, x) /\ s[a + (n + 1)] = Separator
        BY <2>10, <2>12
      <3>2. Here(s, a, y) /\ s[a + (q + 1)] = Separator
        BY <2>11, <2>12
      <3>3. s[a + (Len(x) + 1)] = Separator /\ s[a + (Len(y) + 1)] = Separator
        BY <2>3, <2>8, <3>1, <3>2
      <3> QED
        BY <2>3, <2>4, <2>8, <3>1, <3>2, <3>3, SameName
    <2>14. n = q
      BY <2>3, <2>8, <2>13
    <2>15. \A i \in 1 .. k + 1 : names[i] = other[i]
      <3> SUFFICES ASSUME NEW i \in 1 .. k + 1 PROVE names[i] = other[i]
        OBVIOUS
      <3>1. i \in 1 .. k \/ i = k + 1
        OBVIOUS
      <3> QED
        BY <2>1, <2>13, <3>1 DEF x, y
    <2> QED
      BY <2>4, <2>5, <2>9, <2>14, <2>15
  <1>13. \A k \in Nat : k \in S
    <2> HIDE DEF S
    <2> QED
      BY <1>11, <1>12, NatSet
  <1>14. m =< p /\ h[m] = e[m] /\ \A i \in 1 .. m : names[i] = other[i]
    <2> HIDE DEF m, p
    <2>1. m =< m
      BY <1>1
    <2>2. m =< m => m =< p /\ h[m] = e[m] /\ \A i \in 1 .. m : names[i] = other[i]
      <3>1. m \in S
        <4> HIDE DEF S
        <4> QED
          BY <1>1, <1>13, Zenon
      <3> QED
        BY <3>1, Zenon
    <2> QED
      BY <2>1, <2>2
  <1>15. m = p
    <2> HIDE DEF m, p
    <2> SUFFICES ASSUME m < p PROVE FALSE
      BY <1>1, <1>14
    <2>1. m + 1 \in 1 .. p /\ (m + 1) - 1 = m
      BY <1>1
    <2>2. e[m + 1] = e[(m + 1) - 1] + o(m + 1) + 1 /\ e[m + 1] \in Nat /\ e[(m + 1) - 1] \in Nat /\ e[m + 1] =< e[p]
      BY <1>5, <2>1
    <2>3. o(m + 1) \in Nat
      BY <1>1, <2>1
    <2> HIDE DEF o
    <2>4. e[(m + 1) - 1] = e[p]
      BY <1>8, <1>14, <2>1
    <2> QED
      BY <2>2, <2>3, <2>4
  <1>16. [i \in 1 .. m |-> names[i]] = [i \in 1 .. m |-> other[i]]
    BY <1>14
  <1> QED
    <2> HIDE DEF m, p
    <2> QED
      BY <1>1, <1>15, <1>16, Zenon

-----------------------------------------------------------------------------
(* The inductive invariant                                                 *)

\* How many bytes the items of a message take, and those before each of them.
Sizes(m) == [i \in 1 .. Len(m) |-> ItemSize(m[i])]

Before(m) == [k \in 0 .. Len(m) |-> Total([i \in 1 .. k |-> ItemSize(m[i])])]

\* The first n items of a message are in data from a place on.
Contains(data, at, m, n) == \A k \in 1 .. n : Holds(data, at + Before(m)[k - 1], Pieces(m[k]))

\* What the peer makes of a message.
Answers(m) == [i \in 1 .. Len(m) |-> Received(m[i])]

\* What every state has, whatever is sent and read.
Steady ==
    /\ message \in Messages /\ schema \in {message} \cup Schemas
    /\ inplace \in Shortfalls \cup {None}
    /\ phase \in {"measure", "write", "read", "lookup", "done"} /\ nth \in Nat \ {0}
    /\ stream \in Streams /\ Len(stream.data) =< MaxPacketSize
    /\ measured \in 0 .. MaxPacketSize /\ Within(input)

\* The measuring stream counts the items that it took.
Measuring ==
    phase = "measure" =>
        /\ ~stream.stored /\ nth =< Len(message) + 1
        /\ Fits => stream.pos = Before(message)[nth - 1]

\* The writing stream has the header and the items that it took, and room for
\* exactly the rest.
Writing ==
    phase = "write" =>
        /\ nth =< Len(message) + 1
        /\ Fits /\ stream.stored =>
             /\ measured = MessageSize /\ Len(stream.data) = CallHeaderSize + MessageSize
             /\ ~stream.asserted /\ stream.pos = CallHeaderSize + Before(message)[nth - 1]
             /\ Here(stream.data, 0, LengthBytes(MessageSize))
             /\ Contains(stream.data, CallHeaderSize, message, nth - 1)
             /\ \A i \in 1 .. stream.pos : stream.data[i] # Uninitialized

\* The packet that was sent has every item, and nothing else.
Arrived ==
    phase \in {"read", "lookup", "done"} /\ Fits /\ stream.stored =>
        /\ measured = MessageSize /\ ~stream.asserted
        /\ stream.pos = CallHeaderSize + measured
        /\ \A i \in 1 .. stream.pos : stream.data[i] # Uninitialized
        /\ Len(input.data) = MessageSize /\ Contains(input.data, 0, message, Len(message))

\* A peer that takes the message for what it is has read the items before nth.
Reading ==
    phase \in {"read", "lookup", "done"} /\ Fits /\ stream.stored /\ schema = message =>
        /\ nth =< Len(message) + 1 /\ (phase = "done" => nth = Len(message) + 1)
        /\ ~input.asserted /\ input.pos = Before(message)[nth - 1]
        /\ values = Firsts(Answers(message), nth - 1)

\* Nothing is received before a packet is, and no packet without a buffer.
Unread ==
    /\ phase \in {"read", "lookup"} => stream.stored
    /\ phase \in {"measure", "write"} \/ ~stream.stored => values = <<>>

\* A name of which bytes lie nowhere was reported when it was read, before the
\* lookup comes upon it.
Reported ==
    /\ phase \in {"read", "lookup"} =>
          /\ values = Firsts(values, nth - 1)
          /\ \A i \in 1 .. nth - 1 : IsName(schema[i]) /\ LiesNowhere(values[i]) => input.asserted
    /\ phase = "lookup" => IsCall(schema) /\ nth = 5
    /\ astray \in BOOLEAN
    /\ astray => phase \notin {"measure", "write"} /\ stream.stored /\ input.asserted

IInv == Steady /\ Measuring /\ Writing /\ Arrived /\ Reading /\ Unread /\ Reported

AreItems(m) == Len(m) \in Nat /\ DOMAIN m = 1 .. Len(m) /\ \A i \in 1 .. Len(m) : IsItem(m[i])

\* Messages and what they may be taken for are sequences of items.
LEMMA MessagesAre ==
    ASSUME NEW m \in Messages \cup Schemas
    PROVE  AreItems(m)
  BY DataStreamItems DEF AreItems

\* An item takes a natural number of bytes.
LEMMA ItemSizeType ==
    ASSUME NEW item, IsItem(item)
    PROVE  ItemSize(item) \in Nat
  <1>1. ArePieces(Pieces(item))
    BY ItemPieces
  <1>2. Len(Pieces(item)) \in Nat
    BY <1>1 DEF ArePieces
  <1>3. PICK g : Sums(g, Pieces(item))
    BY <1>2, SumsExist
  <1>4. g[Len(Pieces(item))] = ItemSize(item)
    BY <1>3, ItemSum
  <1>5. g[0] = 0 /\ \A k \in 1 .. Len(Pieces(item)) : g[k] \in Nat
    BY <1>1, <1>3, PieceStep
  <1>6. Len(Pieces(item)) = 0 \/ Len(Pieces(item)) \in 1 .. Len(Pieces(item))
    BY <1>2
  <1> QED
    BY <1>4, <1>5, <1>6

\* The sums of a part of a sequence are the first sums of all.
LEMMA SummedPart ==
    ASSUME NEW lengths, NEW n \in Nat, NEW h, Summed(h, lengths, n), NEW k \in 0 .. n,
           NEW part, part = [i \in 1 .. k |-> lengths[i]]
    PROVE  Total(part) = h[k]
  <1>1. k \in Nat /\ Len(part) = k
    OBVIOUS
  <1> DEFINE g == [i \in 0 .. k |-> h[i]]
  <1>2. h[0] = 0 /\ \A i \in 1 .. n : h[i] = h[i - 1] + lengths[i]
    BY SumStep
  <1>3. g = [i \in 0 .. k |-> IF i = 0 THEN 0 ELSE g[i - 1] + part[i]]
    <2> SUFFICES ASSUME NEW i \in 0 .. k PROVE h[i] = IF i = 0 THEN 0 ELSE g[i - 1] + part[i]
      OBVIOUS
    <2>1. CASE i = 0
      BY <1>2, <2>1
    <2>2. CASE i # 0
      <3>1. i \in 1 .. n /\ i \in 1 .. k /\ i - 1 \in 0 .. k
        BY <1>1, <2>2
      <3>2. part[i] = lengths[i] /\ g[i - 1] = h[i - 1]
        BY <3>1
      <3>3. h[i] = h[i - 1] + lengths[i]
        BY <1>2, <3>1
      <3> QED
        BY <2>2, <3>2, <3>3
    <2> QED
      BY <2>1, <2>2
  <1>4. Summed(g, part, k)
    BY <1>3 DEF Summed
  <1> HIDE DEF g
  <1>5. Total(part) = g[Len(part)]
    BY <1>1, <1>4, TotalIs
  <1>6. g[k] = h[k]
    BY DEF g
  <1> QED
    BY <1>1, <1>5, <1>6

\* The items of a message lie one behind the other.
LEMMA BeforeIs ==
    ASSUME NEW m, AreItems(m)
    PROVE  /\ Before(m)[0] = 0 /\ Before(m)[Len(m)] = Total(Sizes(m))
           /\ \A k \in 1 .. Len(m) : Before(m)[k] = Before(m)[k - 1] + ItemSize(m[k]) /\ ItemSize(m[k]) \in Nat
           /\ \A k \in 0 .. Len(m) : Before(m)[k] \in Nat /\ Before(m)[k] =< Before(m)[Len(m)]
           /\ \A k \in 0 .. Len(m) : \A j \in 0 .. k : Before(m)[j] =< Before(m)[k]
  <1> DEFINE n == Len(m)
             sizes == Sizes(m)
  <1>1. n \in Nat /\ \A i \in 1 .. n : IsItem(m[i])
    BY DEF AreItems
  <1>2. Len(sizes) = n /\ sizes = [i \in 1 .. n |-> ItemSize(m[i])]
    BY <1>1 DEF Sizes
  <1>3. Before(m) = [k \in 0 .. n |-> Total([i \in 1 .. k |-> ItemSize(m[i])])]
    BY DEF Before
  <1> HIDE DEF n, sizes
  <1>4. PICK h : Summed(h, sizes, n)
    BY <1>1, SummedExists
  <1>5. \A i \in 1 .. n : sizes[i] = ItemSize(m[i]) /\ sizes[i] \in Nat
    BY <1>1, <1>2, ItemSizeType
  <1>6. h[0] = 0 /\ \A k \in 1 .. n : h[k] = h[k - 1] + sizes[k]
    BY <1>1, <1>4, SumStep
  <1>7. \A k \in 0 .. n : h[k] \in Nat /\ h[k] =< h[n] /\ \A j \in 0 .. k : h[j] =< h[k]
    BY <1>1, <1>4, <1>5, SumType
  <1>8. ASSUME NEW k \in 0 .. n PROVE Before(m)[k] = h[k]
    <2> DEFINE part == [i \in 1 .. k |-> ItemSize(m[i])]
    <2>1. part = [i \in 1 .. k |-> sizes[i]]
      BY <1>1, <1>5
    <2>2. Before(m)[k] = Total(part)
      BY <1>3
    <2> HIDE DEF part
    <2> QED
      BY <1>1, <1>4, <2>1, <2>2, SummedPart
  <1>9. Total(sizes) = h[n]
    <2>1. sizes = [i \in 1 .. n |-> sizes[i]] /\ n \in 0 .. n
      BY <1>1, <1>2
    <2> QED
      BY <1>1, <1>4, <2>1, SummedPart
  <1>10. 0 \in 0 .. n /\ n \in 0 .. n /\ \A k \in 1 .. n : k \in 0 .. n /\ k - 1 \in 0 .. n
    BY <1>1
  <1>11. Before(m)[0] = 0 /\ Before(m)[n] = Total(sizes)
    BY <1>6, <1>8, <1>9, <1>10
  <1>12. \A k \in 1 .. n : Before(m)[k] = Before(m)[k - 1] + ItemSize(m[k]) /\ ItemSize(m[k]) \in Nat
    BY <1>5, <1>6, <1>8, <1>10
  <1>13. \A k \in 0 .. n : Before(m)[k] \in Nat /\ Before(m)[k] =< Before(m)[n]
    BY <1>7, <1>8, <1>10
  <1>14. \A k \in 0 .. n : \A j \in 0 .. k : Before(m)[j] =< Before(m)[k]
    <2> SUFFICES ASSUME NEW k \in 0 .. n, NEW j \in 0 .. k PROVE Before(m)[j] =< Before(m)[k]
      OBVIOUS
    <2>1. j \in 0 .. n
      BY <1>1
    <2>2. Before(m)[j] = h[j] /\ Before(m)[k] = h[k]
      BY <1>8, <2>1
    <2> QED
      BY <1>7, <2>2
  <1> QED
    BY <1>11, <1>12, <1>13, <1>14 DEF n, sizes

\* Every byte belongs to a piece.
LEMMA Covered ==
    ASSUME NEW pieces, ArePieces(pieces), NEW g, Sums(g, pieces), NEW i \in 1 .. g[Len(pieces)]
    PROVE  \E j \in 1 .. Len(pieces) : g[j - 1] < i /\ i =< g[j]
  <1> DEFINE n == Len(pieces)
  <1>1. n \in Nat
    BY DEF ArePieces
  <1>2. g[0] = 0 /\ \A k \in 1 .. n : g[k] \in Nat /\ g[k - 1] \in Nat
    BY PieceStep
  <1>3. i \in 1 .. g[n]
    OBVIOUS
  <1> HIDE DEF n
  <1> DEFINE S == {k \in Nat : k =< n /\ i =< g[k] => \E j \in 1 .. n : g[j - 1] < i /\ i =< g[j]}
  <1>4. 0 \in S
    BY <1>2
  <1>5. ASSUME NEW k \in Nat, k \in S PROVE k + 1 \in S
    <2> SUFFICES ASSUME k + 1 =< n, i =< g[k + 1] PROVE \E j \in 1 .. n : g[j - 1] < i /\ i =< g[j]
      OBVIOUS
    <2>1. k + 1 \in 1 .. n /\ (k + 1) - 1 = k /\ k =< n
      BY <1>1
    <2>2. g[k] \in Nat
      BY <1>2, <2>1
    <2>3. CASE i =< g[k]
      BY <1>5, <2>1, <2>3
    <2>4. CASE g[k] < i
      BY <2>1, <2>4
    <2> QED
      BY <2>2, <2>3, <2>4
  <1>6. \A k \in Nat : k \in S
    <2> HIDE DEF S
    <2> QED
      BY <1>4, <1>5, NatSet
  <1>7. n \in S
    <2> HIDE DEF S
    <2> QED
      BY <1>1, <1>6
  <1>8. n =< n /\ i =< g[n]
    <2>1. g[n] \in Int
      <3>1. n = 0 \/ n \in 1 .. n
        BY <1>1
      <3> QED
        BY <1>2, <3>1
    <2> QED
      BY <1>1, <1>3, <2>1
  <1> QED
    <2>1. \E j \in 1 .. n : g[j - 1] < i /\ i =< g[j]
      BY <1>7, <1>8
    <2> QED
      BY <2>1 DEF n

\* What pieces take.
Take(pieces, size) == ArePieces(pieces) /\ \A g : Sums(g, pieces) => g[Len(pieces)] = size

\* ItemSize is the sum of the pieces of an item.
LEMMA ItemTakes ==
    ASSUME NEW item, IsItem(item)
    PROVE  Take(Pieces(item), ItemSize(item))
  BY ItemPieces, ItemSum DEF Take

\* Where pieces are there are bytes: nothing is left uninitialized.
LEMMA HoldsBytes ==
    ASSUME NEW pieces, NEW size, Take(pieces, size), NEW data, NEW at \in Nat, Holds(data, at, pieces),
           NEW i \in 1 .. size
    PROVE  data[at + i] \in Byte
  <1>1. ArePieces(pieces) /\ Len(pieces) \in Nat
    BY DEF Take, ArePieces
  <1>2. PICK g : Sums(g, pieces)
    BY <1>1, SumsExist
  <1>3. g[Len(pieces)] = size
    BY <1>2 DEF Take
  <1>4. PICK j \in 1 .. Len(pieces) : g[j - 1] < i /\ i =< g[j]
    BY <1>1, <1>2, <1>3, Covered
  <1> DEFINE n == Len(pieces[j])
             x == i - g[j - 1]
             p == pieces[j]
  <1>5. g[j] = g[j - 1] + n /\ g[j - 1] \in Nat
    BY <1>1, <1>2, PieceStep
  <1>6. p \in Seq(Byte) /\ n \in Nat /\ DOMAIN p = 1 .. n
    BY <1>1 DEF ArePieces
  <1>7. Here(data, at + g[j - 1], p)
    BY <1>2, HoldsHere
  <1> HIDE DEF n, p
  <1>8. x \in 1 .. n /\ i = g[j - 1] + x
    BY <1>4, <1>5, <1>6
  <1>9. at + i = at + g[j - 1] + x
    BY <1>5, <1>8
  <1>10. data[at + g[j - 1] + x] = p[x]
    BY <1>6, <1>7, <1>8 DEF Here
  <1>11. p[x] \in Byte
    BY <1>6, <1>8
  <1> QED
    BY <1>9, <1>10, <1>11

\* Pieces that are copied are there as well.
LEMMA HoldsSame ==
    ASSUME NEW pieces, NEW size, Take(pieces, size), NEW data, NEW at \in Nat, Holds(data, at, pieces),
           NEW other, NEW b \in Nat, \A i \in 1 .. size : other[b + i] = data[at + i]
    PROVE  Holds(other, b, pieces)
  <1>1. ArePieces(pieces)
    BY DEF Take
  <1>2. SUFFICES ASSUME NEW g, Sums(g, pieces), NEW j \in 1 .. Len(pieces), NEW i \in DOMAIN pieces[j]
                 PROVE  other[b + g[j - 1] + i] = pieces[j][i]
    BY DEF Holds
  <1> DEFINE n == Len(pieces[j])
             k == g[j - 1] + i
             p == pieces[j]
  <1>3. g[j] = g[j - 1] + n /\ g[j - 1] \in Nat /\ g[j] \in Nat /\ g[j] =< g[Len(pieces)]
    BY <1>1, <1>2, PieceStep
  <1>4. n \in Nat /\ i \in 1 .. n
    BY <1>1, <1>2 DEF ArePieces
  <1>5. g[Len(pieces)] = size
    BY <1>2 DEF Take
  <1>6. Here(data, at + g[j - 1], p)
    BY <1>2, HoldsHere
  <1>7. data[at + g[j - 1] + i] = p[i]
    BY <1>2, <1>6 DEF Here
  <1>13. size \in Int
    <2>1. Len(pieces) \in 1 .. Len(pieces)
      BY <1>1 DEF ArePieces
    <2> QED
      BY <1>1, <1>2, <1>5, <2>1, PieceStep
  <1>14. g[j] =< size
    BY <1>3, <1>5
  <1> HIDE DEF n, p
  <1>8. k \in 1 .. size
    BY <1>3, <1>4, <1>13, <1>14
  <1>9. at + k = at + g[j - 1] + i /\ b + k = b + g[j - 1] + i
    BY <1>3, <1>4
  <1>10. other[b + k] = data[at + k]
    BY <1>8
  <1> QED
    BY <1>7, <1>9, <1>10 DEF p

\* The items of the message that is sent, and where each begins.
LEMMA MessageIs ==
    ASSUME message \in Messages
    PROVE  /\ AreItems(message) /\ Len(message) \in Nat
           /\ MessageSize \in Nat /\ MessageSize = Before(message)[Len(message)] /\ Before(message)[0] = 0
           /\ \A k \in 1 .. Len(message) :
                /\ Before(message)[k] = Before(message)[k - 1] + ItemSize(message[k]) /\ ItemSize(message[k]) \in Nat
                /\ IsItem(message[k])
           /\ \A k \in 0 .. Len(message) :
                /\ Before(message)[k] \in Nat /\ Before(message)[k] =< MessageSize
                /\ \A j \in 0 .. k : Before(message)[j] =< Before(message)[k]
           /\ Fits <=> CallHeaderSize + MessageSize =< MaxPacketSize
  <1> DEFINE n == Len(message)
             b == Before(message)
  <1>1. AreItems(message)
    BY MessagesAre
  <1>2. n \in Nat /\ \A k \in 1 .. n : IsItem(message[k])
    BY <1>1 DEF AreItems
  <1>3. MessageSize = Total(Sizes(message))
    BY DEF MessageSize, Sizes
  <1>4. /\ b[0] = 0 /\ b[n] = Total(Sizes(message))
        /\ \A k \in 1 .. n : b[k] = b[k - 1] + ItemSize(message[k]) /\ ItemSize(message[k]) \in Nat
        /\ \A k \in 0 .. n : b[k] \in Nat /\ b[k] =< b[n]
        /\ \A k \in 0 .. n : \A j \in 0 .. k : b[j] =< b[k]
    BY <1>1, BeforeIs
  <1> HIDE DEF n, b
  <1>5. n \in 0 .. n
    BY <1>2
  <1>6. MessageSize \in Nat /\ MessageSize = b[n]
    BY <1>3, <1>4, <1>5
  <1>7. \A k \in 0 .. n : b[k] \in Nat /\ b[k] =< MessageSize /\ \A j \in 0 .. k : b[j] =< b[k]
    BY <1>4, <1>6
  <1> QED
    BY <1>1, <1>2, <1>4, <1>6, <1>7 DEF n, b, Fits

\* A new stream, with a buffer or without.
LEMMA NewStreamIs ==
    ASSUME NEW stored \in BOOLEAN, NEW size \in 0 .. MaxPacketSize
    PROVE  LET s == NewStream(stored, size)
           IN  /\ s \in Streams /\ s.stored = stored /\ Len(s.data) = size /\ s.pos = 0 /\ ~s.asserted /\ ~s.spilled
               /\ [s EXCEPT !.asserted = TRUE] \in Streams /\ [s EXCEPT !.asserted = TRUE].stored = stored
               /\ [s EXCEPT !.asserted = TRUE].data = s.data
  <1> DEFINE d == [i \in 1 .. size |-> Uninitialized]
  <1>1. size \in Nat
    BY SizesType
  <1>2. d \in Seq(Memory) /\ Len(d) = size
    BY <1>1, SizesType DEF Memory, Uninitialized
  <1>3. 0 \in 0 .. MaxPacketSize
    BY SizesType
  <1> HIDE DEF d
  <1>4. NewStream(stored, size) = [stored |-> stored, data |-> d, pos |-> 0, asserted |-> FALSE, spilled |-> FALSE]
    BY DEF NewStream, d
  <1> DEFINE s == [stored |-> stored, data |-> d, pos |-> 0, asserted |-> FALSE, spilled |-> FALSE]
  <1>5. d \in Seq(Memory)
    BY <1>2
  <1>6. s \in Streams
    BY <1>3, <1>5 DEF Streams
  <1>7. s.stored = stored /\ s.data = d /\ s.pos = 0 /\ ~s.asserted /\ ~s.spilled
    OBVIOUS
  <1> HIDE DEF s
  <1>9. [s EXCEPT !.asserted = TRUE] \in Streams
    BY <1>6 DEF Streams
  <1>10. [s EXCEPT !.asserted = TRUE].stored = stored /\ [s EXCEPT !.asserted = TRUE].data = d
    BY <1>6, <1>7 DEF Streams
  <1>11. Len(d) = size
    BY <1>2
  <1> QED
    BY <1>4, <1>6, <1>7, <1>9, <1>10, <1>11 DEF s

\* The stream a packet is read from.
LEMMA NewInputIs ==
    ASSUME NEW data \in Seq(Memory), Len(data) =< MaxPacketSize
    PROVE  Within(NewInput(data)) /\ NewInput(data).data = data /\ NewInput(data).pos = 0 /\ ~NewInput(data).asserted
  BY DEF Within, NewInput, Inputs

\* The streams at the start.
LEMMA EmptyIs ==
    /\ NewStream(FALSE, 0) \in Streams /\ ~NewStream(FALSE, 0).stored /\ NewStream(FALSE, 0).pos = 0
    /\ Len(NewStream(FALSE, 0).data) = 0 /\ Within(NewInput(<<>>))
  <1>1. 0 \in 0 .. MaxPacketSize
    BY SizesType
  <1>2. <<>> \in Seq(Memory) /\ Len(<<>>) = 0
    OBVIOUS
  <1>3. Len(<<>>) =< MaxPacketSize
    BY <1>2, SizesType
  <1> QED
    BY <1>1, <1>2, <1>3, NewStreamIs, NewInputIs

\* An item that there is room for.
LEMMA ItemStored ==
    ASSUME NEW s \in Streams, NEW item, IsItem(item), s.stored,
           s.pos + ItemSize(item) =< Len(s.data), Len(s.data) =< MaxPacketSize
    PROVE  LET t == WriteItem(s, item)
           IN  /\ t \in Streams /\ t.stored /\ Len(t.data) = Len(s.data)
               /\ t.pos = s.pos + ItemSize(item) /\ t.asserted = s.asserted
               /\ Holds(t.data, s.pos, Pieces(item))
               /\ \A i \in 1 .. s.pos : t.data[i] = s.data[i]
               /\ \A i \in 1 .. ItemSize(item) : t.data[s.pos + i] \in Byte
  <1> DEFINE t == WriteItem(s, item)
             l == Len(s.data)
             size == ItemSize(item)
  <1>1. Written(s, t, Pieces(item), size)
    BY ItemWritten
  <1>2. /\ t \in Streams /\ t.stored /\ Len(t.data) = l /\ t.pos = s.pos + size /\ t.asserted = s.asserted
        /\ Holds(t.data, s.pos, Pieces(item))
        /\ \A i \in 1 .. l : i =< s.pos \/ i > s.pos + size => t.data[i] = s.data[i]
    BY <1>1 DEF Written
  <1>3. size \in Nat /\ s.pos \in Nat /\ l \in Nat /\ s.pos + size =< l
    BY ItemSizeType, SizesType DEF Streams
  <1> HIDE DEF t, l, size
  <1>4. \A i \in 1 .. s.pos : t.data[i] = s.data[i]
    <2> SUFFICES ASSUME NEW i \in 1 .. s.pos PROVE t.data[i] = s.data[i]
      OBVIOUS
    <2>1. i \in 1 .. l /\ i =< s.pos
      BY <1>3
    <2> QED
      BY <1>2, <2>1
  <1>5. \A i \in 1 .. size : t.data[s.pos + i] \in Byte
    <2>1. Take(Pieces(item), size)
      BY ItemTakes DEF size
    <2> QED
      BY <1>2, <1>3, <2>1, HoldsBytes
  <1> QED
    BY <1>2, <1>4, <1>5 DEF t, l, size

\* The header of a packet.
LEMMA HeaderStored ==
    ASSUME NEW n \in Nat, NEW buffer \in 0 .. MaxPacketSize
    PROVE  LET t == PacketHeaderWrite(NewStream(TRUE, buffer), n)
           IN  /\ t \in Streams /\ t.stored /\ Len(t.data) = buffer
               /\ CallHeaderSize =< buffer =>
                    /\ t.pos = CallHeaderSize /\ ~t.asserted /\ Here(t.data, 0, LengthBytes(n))
                    /\ \A i \in 1 .. CallHeaderSize : t.data[i] \in Byte
  <1> DEFINE s == NewStream(TRUE, buffer)
             pieces == <<LengthBytes(n), LengthBytes(2), LengthBytes(1)>>
             t == WriteAll(s, pieces)
  <1>1. s \in Streams /\ s.stored /\ Len(s.data) = buffer /\ s.pos = 0 /\ ~s.asserted
    BY NewStreamIs
  <1>2. \A v \in Nat : LengthBytes(v) \in Seq(Byte) /\ Len(LengthBytes(v)) = LengthWidth
    BY LengthType
  <1>3. n \in Nat /\ 2 \in Nat /\ 1 \in Nat
    OBVIOUS
  <1>4. /\ ArePieces(pieces) /\ Len(pieces) = 3 /\ pieces[1] = LengthBytes(n)
        /\ \A g : Sums(g, pieces) =>
                g[0] = 0 /\ g[1] = LengthWidth /\ g[2] = g[1] + LengthWidth /\ g[3] = g[2] + LengthWidth
    BY <1>2, <1>3, ThreePieces
  <1> HIDE DEF s, pieces, t
  <1>5. \A g : Sums(g, pieces) => g[3] = CallHeaderSize
    BY <1>4, SizesType
  <1>6. \A g : Sums(g, pieces) => g[Len(pieces)] = CallHeaderSize
    BY <1>4, <1>5
  <1>7. Written(s, t, pieces, CallHeaderSize)
    BY <1>1, <1>4, <1>6, PiecesWritten DEF t
  <1>8. Take(pieces, CallHeaderSize)
    BY <1>4, <1>6 DEF Take
  <1>9. t \in Streams /\ t.stored /\ Len(t.data) = buffer
    BY <1>1, <1>7 DEF Written
  <1>10. ASSUME CallHeaderSize =< buffer
         PROVE  /\ t.pos = CallHeaderSize /\ ~t.asserted /\ Here(t.data, 0, LengthBytes(n))
                /\ \A i \in 1 .. CallHeaderSize : t.data[i] \in Byte
    <2>1. 0 + CallHeaderSize =< buffer /\ buffer =< MaxPacketSize /\ 0 + CallHeaderSize = CallHeaderSize
      BY <1>10, SizesType
    <2>2. t.pos = 0 + CallHeaderSize /\ t.asserted = s.asserted /\ Holds(t.data, 0, pieces)
      BY <1>1, <1>7, <2>1 DEF Written
    <2>3. Here(t.data, 0, LengthBytes(n))
      <3>1. PICK g : Sums(g, pieces)
        BY <1>4, SumsExist
      <3>2. 1 \in 1 .. Len(pieces) /\ 0 + g[1 - 1] = 0
        <4>1. g[0] = 0 /\ 1 \in 1 .. 3
          BY <1>4, <3>1
        <4>2. 1 \in 1 .. Len(pieces)
          BY <1>4, <4>1, Zenon
        <4> QED
          BY <4>1, <4>2
      <3>3. Here(t.data, 0 + g[1 - 1], pieces[1])
        BY <2>2, <3>1, <3>2, HoldsHere
      <3> QED
        BY <1>4, <3>2, <3>3
    <2>4. \A i \in 1 .. CallHeaderSize : t.data[i] \in Byte
      <3> SUFFICES ASSUME NEW i \in 1 .. CallHeaderSize PROVE t.data[i] \in Byte
        OBVIOUS
      <3>1. t.data[0 + i] \in Byte
        BY <1>8, <2>2, HoldsBytes
      <3> QED
        BY <3>1, SizesType
    <2> QED
      BY <1>1, <2>1, <2>2, <2>3, <2>4
  <1>11. PacketHeaderWrite(NewStream(TRUE, buffer), n) = t
    BY DEF PacketHeaderWrite, t, s, pieces
  <1> QED
    BY <1>9, <1>10, <1>11

\* A part of a sequence.
LEMMA PartIs ==
    ASSUME NEW S, NEW d \in Seq(S), NEW a \in Nat, NEW b \in Nat, a =< b, b =< Len(d)
    PROVE  /\ SubSeq(d, a + 1, b) \in Seq(S) /\ Len(SubSeq(d, a + 1, b)) = b - a
           /\ \A i \in 1 .. b - a : SubSeq(d, a + 1, b)[i] = d[a + i]
  <1> DEFINE l == Len(d)
             p == SubSeq(d, a + 1, b)
  <1>1. l \in Nat /\ b =< l /\ \A i \in 1 .. l : d[i] \in S
    OBVIOUS
  <1>2. p = [i \in 1 .. (1 + b - (a + 1)) |-> d[i + (a + 1) - 1]]
    BY DEF SubSeq
  <1>3. 1 + b - (a + 1) = b - a /\ b - a \in Nat
    OBVIOUS
  <1> HIDE DEF p, l
  <1>4. p = [i \in 1 .. b - a |-> d[i + (a + 1) - 1]]
    BY <1>2, <1>3
  <1>5. \A i \in 1 .. b - a : i + (a + 1) - 1 = a + i /\ a + i \in 1 .. l
    BY <1>1
  <1>6. \A i \in 1 .. b - a : p[i] = d[a + i] /\ p[i] \in S
    BY <1>1, <1>4, <1>5
  <1>7. p = [i \in 1 .. b - a |-> p[i]]
    BY <1>4
  <1>8. p \in Seq(S) /\ Len(p) = b - a
    BY <1>3, <1>6, <1>7, SeqOf
  <1> QED
    BY <1>6, <1>8 DEF p

\* The data of a packet without its header.
SentSize(d) == ReadUnsafe(SubSeq(d, 1, LengthWidth), FALSE)

SentEnd(d) == IF CallHeaderSize + SentSize(d) =< Len(d) THEN CallHeaderSize + SentSize(d) ELSE Len(d)

SentData(d) == SubSeq(d, CallHeaderSize + 1, SentEnd(d))

\* The peer gets what is behind the header, all of it if the size in the header
\* is right.
LEMMA SentIs ==
    ASSUME NEW d \in Seq(Memory), Len(d) =< MaxPacketSize, CallHeaderSize =< Len(d)
    PROVE  /\ SentData(d) \in Seq(Memory) /\ Len(SentData(d)) =< MaxPacketSize
           /\ \A n \in 0 .. MaxPacketSize :
                CallHeaderSize + n = Len(d) /\ Here(d, 0, LengthBytes(n)) =>
                    /\ Len(SentData(d)) = n
                    /\ \A i \in 1 .. n : SentData(d)[i] = d[CallHeaderSize + i]
  <1> DEFINE l == Len(d)
             length == SubSeq(d, 0 + 1, LengthWidth)
             size == SentSize(d)
             end == SentEnd(d)
             data == SubSeq(d, CallHeaderSize + 1, end)
  <1>1. l \in Nat /\ l =< MaxPacketSize /\ CallHeaderSize =< l
    OBVIOUS
  <1>2. end = IF CallHeaderSize + size =< l THEN CallHeaderSize + size ELSE l
    BY DEF SentEnd
  <1>3. SentData(d) = data
    BY DEF SentData
  <1>4. size = ReadUnsafe(length, FALSE)
    BY DEF SentSize
  <1>5. 0 \in Nat /\ LengthWidth \in Nat /\ 0 =< LengthWidth /\ LengthWidth =< l /\ LengthWidth - 0 = LengthWidth
    <2> HIDE DEF l
    <2> QED
      BY <1>1, SizesType
  <1>6. LengthWidth =< Len(d)
    BY <1>5
  <1> HIDE DEF size, end
  <1>7. /\ length \in Seq(Memory) /\ Len(length) = LengthWidth
        /\ \A i \in 1 .. LengthWidth : length[i] = d[0 + i]
    <2> HIDE DEF length, l
    <2>1. /\ SubSeq(d, 0 + 1, LengthWidth) \in Seq(Memory) /\ Len(SubSeq(d, 0 + 1, LengthWidth)) = LengthWidth - 0
          /\ \A i \in 1 .. LengthWidth - 0 : SubSeq(d, 0 + 1, LengthWidth)[i] = d[0 + i]
      BY <1>5, <1>6, PartIs
    <2> QED
      BY <1>5, <2>1 DEF length
  <1>8. size \in Nat
    <2> HIDE DEF length
    <2> QED
      BY <1>4, <1>7, UnsignedType
  <1>9. end \in Nat /\ CallHeaderSize =< end /\ end =< l /\ end - CallHeaderSize \in Nat /\ end - CallHeaderSize =< MaxPacketSize
    <2> HIDE DEF l, length
    <2> QED
      BY <1>1, <1>2, <1>8, SizesType
  <1>10. end =< Len(d) /\ CallHeaderSize \in Nat
    BY <1>9, SizesType
  <1>11. /\ data \in Seq(Memory) /\ Len(data) = end - CallHeaderSize
         /\ \A i \in 1 .. end - CallHeaderSize : data[i] = d[CallHeaderSize + i]
    BY <1>9, <1>10, PartIs
  <1> HIDE DEF data
  <1>12. ASSUME NEW n \in 0 .. MaxPacketSize, CallHeaderSize + n = l, Here(d, 0, LengthBytes(n))
         PROVE  end - CallHeaderSize = n
    <2>1. n \in Nat /\ n \in Int
      BY SizesType
    <2>2. LengthBytes(n) \in Seq(Byte) /\ Len(LengthBytes(n)) = LengthWidth
      BY <2>1, LengthType
    <2> DEFINE bytes == LengthBytes(n)
    <2>3. /\ bytes = [i \in 1 .. LengthWidth |-> bytes[i]] /\ DOMAIN bytes = 1 .. LengthWidth
          /\ length = [i \in 1 .. LengthWidth |-> length[i]]
      <3> HIDE DEF bytes, length
      <3> QED
        BY <1>7, <2>2 DEF bytes
    <2> HIDE DEF bytes, length
    <2>4. \A i \in 1 .. LengthWidth : length[i] = bytes[i]
      BY <1>7, <1>12, <2>3 DEF Here, bytes
    <2>5. length = bytes
      <3>1. [i \in 1 .. LengthWidth |-> bytes[i]] = [i \in 1 .. LengthWidth |-> length[i]]
        BY <2>4
      <3> QED
        BY <2>3, <3>1, Zenon
    <2>6. IsValue(n, LengthWidth, FALSE)
      BY LengthIsValue
    <2>7. ReadUnsafe(WriteUnsafe(n, LengthWidth), FALSE) = n
      BY <1>5, <2>6, IntegerReassembled
    <2>8. size = n
      BY <1>4, <2>5, <2>7 DEF bytes, LengthBytes
    <2> HIDE DEF l
    <2> QED
      BY <1>1, <1>2, <1>12, <2>1, <2>8, SizesType
  <1>13. ASSUME NEW n \in 0 .. MaxPacketSize, CallHeaderSize + n = Len(d), Here(d, 0, LengthBytes(n))
         PROVE  Len(data) = n /\ \A i \in 1 .. n : data[i] = d[CallHeaderSize + i]
    <2>1. end - CallHeaderSize = n
      BY <1>12, <1>13
    <2> QED
      BY <1>11, <2>1
  <1>14. data \in Seq(Memory) /\ Len(data) =< MaxPacketSize
    BY <1>9, <1>11
  <1> QED
    BY <1>3, <1>13, <1>14

\* Sizes depend on the message only.
LEMMA SameMessage ==
    ASSUME message' = message
    PROVE  MessageSize' = MessageSize /\ Fits' = Fits
  BY DEF MessageSize, Fits

\* The invariant holds at the start.
LEMMA InitHolds == StreamInit => IInv
  <1> SUFFICES ASSUME StreamInit PROVE IInv
    OBVIOUS
  <1>1. /\ message \in Messages /\ schema \in {message} \cup Schemas /\ inplace \in Shortfalls \cup {None}
        /\ phase = "measure" /\ nth = 1 /\ stream = NewStream(FALSE, 0) /\ measured = 0
        /\ input = NewInput(<<>>) /\ values = <<>>
    BY DEF StreamInit
  <1>2. Steady
    <2>1. stream \in Streams /\ Len(stream.data) = 0 /\ Within(input)
      BY <1>1, EmptyIs
    <2>2. 0 \in 0 .. MaxPacketSize /\ 0 =< MaxPacketSize
      BY SizesType
    <2>3. Len(stream.data) =< MaxPacketSize
      BY <2>1, <2>2
    <2>4. phase \in {"measure", "write", "read", "lookup", "done"} /\ nth \in Nat \ {0} /\ measured \in 0 .. MaxPacketSize
      BY <1>1, <2>2
    <2>5. message \in Messages /\ schema \in {message} \cup Schemas /\ inplace \in Shortfalls \cup {None}
      BY <1>1
    <2>6. stream \in Streams /\ Within(input)
      BY <2>1
    <2> QED
      BY <2>3, <2>4, <2>5, <2>6, Zenon DEF Steady
  <1>3. Measuring
    <2>1. ~stream.stored /\ stream.pos = 0
      BY <1>1, EmptyIs
    <2>2. Len(message) \in Nat /\ Before(message)[0] = 0
      BY <1>1, MessageIs
    <2>3. nth =< Len(message) + 1
      <3> DEFINE n == Len(message)
      <3> HIDE DEF n
      <3>1. n \in Nat => 1 =< n + 1
        OBVIOUS
      <3> QED
        BY <1>1, <2>2, <3>1 DEF n
    <2>4. nth - 1 = 0
      BY <1>1
    <2> QED
      BY <2>1, <2>2, <2>3, <2>4 DEF Measuring
  <1>4. Reported
    BY <1>1, Zenon DEF StreamInit, Reported
  <1> QED
    BY <1>1, <1>2, <1>3, <1>4 DEF IInv, Writing, Arrived, Reading, Unread

\* Measuring an item keeps the invariant.
LEMMA MeasureHolds == IInv /\ Measure => IInv'
  <1> SUFFICES ASSUME IInv, Measure PROVE IInv'
    OBVIOUS
  <1> DEFINE n == Len(message)
             size == ItemSize(message[nth])
             b == Before(message)
  <1>1. /\ phase = "measure" /\ nth =< n /\ stream' = WriteItem(stream, message[nth]) /\ nth' = nth + 1
        /\ message' = message /\ schema' = schema /\ inplace' = inplace /\ phase' = phase
        /\ measured' = measured /\ input' = input /\ values' = values
        /\ astray' = astray
    BY DEF Measure
  <1>2. Steady /\ Measuring /\ Unread /\ Reported
    BY DEF IInv
  <1>3. message \in Messages /\ nth \in Nat \ {0} /\ stream \in Streams /\ Len(stream.data) =< MaxPacketSize
    BY <1>2 DEF Steady
  <1>4. n \in Nat /\ MessageSize \in Nat
    BY <1>3, MessageIs
  <1>5. nth \in 1 .. n
    <2> HIDE DEF n
    <2> QED
      BY <1>1, <1>3, <1>4
  <1>6. IsItem(message[nth]) /\ b[nth] = b[nth - 1] + size /\ b[nth] \in Nat /\ b[nth] =< MessageSize
    <2>1. nth \in 0 .. n
      BY <1>4, <1>5
    <2> QED
      BY <1>3, <1>5, <2>1, MessageIs
  <1>7. Written(stream, stream', Pieces(message[nth]), size)
    BY <1>1, <1>3, <1>6, ItemWritten
  <1>8. ~stream.stored /\ (Fits => stream.pos = b[nth - 1])
    BY <1>1, <1>2 DEF Measuring
  <1>9. /\ stream' \in Streams /\ ~stream'.stored /\ Len(stream'.data) = Len(stream.data)
        /\ stream'.pos = (stream.pos + size) % PacketSizes
    BY <1>7, <1>8 DEF Written
  <1>10. nth' \in Nat \ {0} /\ nth' - 1 = nth
    BY <1>1, <1>3
  <1>11. nth' =< n + 1
    <2> HIDE DEF n
    <2> QED
      BY <1>1, <1>4, <1>5
  <1>12. Steady'
    <2>1. Len(stream'.data) =< MaxPacketSize
      BY <1>3, <1>9
    <2>2. /\ schema \in {message} \cup Schemas /\ inplace \in Shortfalls \cup {None}
          /\ measured \in 0 .. MaxPacketSize /\ Within(input)
      BY <1>2 DEF Steady
    <2> QED
      BY <1>1, <1>3, <1>9, <1>10, <2>1, <2>2 DEF Steady, Within, Inputs
  <1>13. ASSUME Fits PROVE stream'.pos = b[nth]
    <2>1. stream.pos + size = b[nth]
      BY <1>6, <1>8, <1>13
    <2>2. b[nth] =< MaxPacketSize
      <3>1. CallHeaderSize + MessageSize =< MaxPacketSize
        BY <1>3, <1>13, MessageIs
      <3> HIDE DEF b, size, n
      <3> QED
        BY <1>4, <1>6, <3>1, SizesType
    <2> QED
      BY <1>6, <1>9, <2>1, <2>2, ModPacketSmall
  <1>14. Measuring'
    <2>1. Fits' = Fits
      BY <1>1, SameMessage
    <2>2. nth' =< Len(message') + 1
      BY <1>1, <1>11
    <2>3. Before(message')[nth' - 1] = b[nth]
      BY <1>1, <1>10
    <2> QED
      BY <1>9, <1>13, <2>1, <2>2, <2>3 DEF Measuring
  <1>15. Unread'
    BY <1>1, <1>2 DEF Unread
  <1>16. Reported'
    BY <1>1, <1>2 DEF Reported
  <1> QED
    BY <1>1, <1>12, <1>14, <1>15, <1>16 DEF IInv, Writing, Arrived, Reading

\* Creating the buffer, and writing the header into it, keeps the invariant.
LEMMA CreateHolds == IInv /\ CreateDataStream => IInv'
  <1> SUFFICES ASSUME IInv, CreateDataStream PROVE IInv'
    OBVIOUS
  <1> DEFINE n == Len(message)
             size == PacketSize(stream.pos)
             buffer == IF inplace = None THEN size ELSE size - inplace
             b == Before(message)
  <1>1. /\ phase = "measure" /\ nth > n /\ measured' = stream.pos
        /\ stream' = IF buffer < size THEN [NewStream(FALSE, 0) EXCEPT !.asserted = TRUE]
                     ELSE PacketHeaderWrite(NewStream(TRUE, buffer), stream.pos)
        /\ phase' = "write" /\ nth' = 1
        /\ message' = message /\ schema' = schema /\ inplace' = inplace /\ input' = input /\ values' = values
        /\ astray' = astray
    BY DEF CreateDataStream
  <1>2. Steady /\ Measuring /\ Unread /\ Reported
    BY DEF IInv
  <1>3. /\ message \in Messages /\ nth \in Nat \ {0} /\ stream \in Streams /\ inplace \in Shortfalls \cup {None}
        /\ schema \in {message} \cup Schemas /\ Within(input)
    BY <1>2 DEF Steady
  <1>4. n \in Nat /\ MessageSize \in Nat /\ b[0] = 0 /\ b[n] = MessageSize
    BY <1>3, MessageIs
  <1>5. stream.pos \in 0 .. MaxPacketSize /\ stream.pos \in Nat
    BY <1>3, SizesType DEF Streams
  <1>6. size \in 0 .. MaxPacketSize
    <2>1. stream.pos + CallHeaderSize \in Int
      BY <1>5, SizesType
    <2> QED
      BY <2>1, ModPacket DEF PacketSize
  <1>7. Fits => stream.pos = MessageSize /\ size = CallHeaderSize + MessageSize
    <2> SUFFICES ASSUME Fits PROVE stream.pos = MessageSize /\ size = CallHeaderSize + MessageSize
      OBVIOUS
    <2>1. nth =< n + 1 /\ stream.pos = b[nth - 1]
      BY <1>1, <1>2 DEF Measuring
    <2> HIDE DEF n, b
    <2>2. nth - 1 = n
      BY <1>1, <1>3, <1>4, <2>1
    <2>3. stream.pos = MessageSize
      BY <1>4, <2>1, <2>2
    <2>4. CallHeaderSize + MessageSize =< MaxPacketSize
      BY <1>3, MessageIs
    <2>5. MessageSize + CallHeaderSize = CallHeaderSize + MessageSize /\ MessageSize + CallHeaderSize \in Nat
      BY <1>4, SizesType
    <2>6. size = (MessageSize + CallHeaderSize) % PacketSizes
      BY <2>3 DEF PacketSize
    <2> HIDE DEF size
    <2> QED
      BY <2>3, <2>4, <2>5, <2>6, ModPacketSmall
  <1> HIDE DEF size
  <1>8. ~(buffer < size) => buffer = size
    <2>1. inplace = None \/ inplace \in Nat
      BY <1>3, DataStreamConstants
    <2> QED
      BY <1>6, <2>1, SizesType
  <1> HIDE DEF buffer
  <1>9. buffer < size => stream' \in Streams /\ ~stream'.stored /\ Len(stream'.data) = 0
    <2>1. 0 \in 0 .. MaxPacketSize
      BY SizesType
    <2> QED
      BY <1>1, <2>1, NewStreamIs
  <1>10. ~(buffer < size) =>
            /\ stream' \in Streams /\ stream'.stored /\ Len(stream'.data) = size
            /\ CallHeaderSize =< size =>
                 /\ stream'.pos = CallHeaderSize /\ ~stream'.asserted /\ Here(stream'.data, 0, LengthBytes(stream.pos))
                 /\ \A i \in 1 .. CallHeaderSize : stream'.data[i] \in Byte
    <2> SUFFICES ASSUME ~(buffer < size)
                 PROVE  /\ stream' \in Streams /\ stream'.stored /\ Len(stream'.data) = size
                        /\ CallHeaderSize =< size =>
                             /\ stream'.pos = CallHeaderSize /\ ~stream'.asserted
                             /\ Here(stream'.data, 0, LengthBytes(stream.pos))
                             /\ \A i \in 1 .. CallHeaderSize : stream'.data[i] \in Byte
      OBVIOUS
    <2>1. stream' = PacketHeaderWrite(NewStream(TRUE, size), stream.pos)
      BY <1>1, <1>8
    <2> QED
      BY <1>5, <1>6, <2>1, HeaderStored
  <1>11. Steady'
    <2>1. stream' \in Streams
      BY <1>9, <1>10
    <2>2. Len(stream'.data) =< MaxPacketSize
      <3> DEFINE l == Len(stream'.data)
      <3>1. l = 0 \/ l = size
        BY <1>9, <1>10
      <3> HIDE DEF l
      <3>2. l =< MaxPacketSize
        BY <1>6, <3>1, SizesType
      <3> QED
        BY <3>2 DEF l
    <2>3. /\ message' \in Messages /\ schema' \in {message'} \cup Schemas /\ inplace' \in Shortfalls \cup {None}
          /\ phase' \in {"measure", "write", "read", "lookup", "done"} /\ nth' \in Nat \ {0}
          /\ measured' \in 0 .. MaxPacketSize /\ input' = input
      BY <1>1, <1>3, <1>5
    <2>4. Within(input')
      BY <1>3, <2>3
    <2> QED
      BY <2>1, <2>2, <2>3, <2>4, Zenon DEF Steady
  <1>12. Writing'
    <2>1. nth' =< Len(message') + 1
      <3>1. nth' =< n + 1
        <4> HIDE DEF n
        <4> QED
          BY <1>1, <1>4
      <3> QED
        BY <1>1, <3>1
    <2>2. ASSUME Fits, stream'.stored
          PROVE  /\ measured' = MessageSize /\ Len(stream'.data) = CallHeaderSize + MessageSize
                 /\ ~stream'.asserted /\ stream'.pos = CallHeaderSize + Before(message)[1 - 1]
                 /\ Here(stream'.data, 0, LengthBytes(MessageSize))
                 /\ Contains(stream'.data, CallHeaderSize, message, 1 - 1)
                 /\ \A i \in 1 .. stream'.pos : stream'.data[i] # Uninitialized
      <3>1. stream.pos = MessageSize /\ size = CallHeaderSize + MessageSize
        BY <1>7, <2>2
      <3>2. ~(buffer < size)
        BY <1>9, <2>2
      <3>3. CallHeaderSize =< size
        BY <1>4, <3>1, SizesType
      <3>4. /\ Len(stream'.data) = size /\ stream'.pos = CallHeaderSize /\ ~stream'.asserted
            /\ Here(stream'.data, 0, LengthBytes(MessageSize))
            /\ \A i \in 1 .. CallHeaderSize : stream'.data[i] \in Byte
        BY <1>10, <3>1, <3>2, <3>3
      <3>5. Contains(stream'.data, CallHeaderSize, message, 1 - 1)
        BY DEF Contains
      <3>6. CallHeaderSize + Before(message)[1 - 1] = CallHeaderSize
        <4>1. b[1 - 1] = 0
          BY <1>4
        <4> QED
          BY <4>1, SizesType
      <3>7. \A x \in Byte : x # Uninitialized
        BY SizesType DEF Byte, Uninitialized
      <3>8. \A i \in 1 .. stream'.pos : stream'.data[i] # Uninitialized
        BY <3>4, <3>7
      <3>9. measured' = MessageSize
        BY <1>1, <3>1
      <3>10. Len(stream'.data) = CallHeaderSize + MessageSize
        BY <3>1, <3>4
      <3> QED
        BY <3>4, <3>5, <3>6, <3>8, <3>9, <3>10
    <2>3. Fits' = Fits /\ MessageSize' = MessageSize
      BY <1>1, SameMessage
    <2> QED
      BY <1>1, <2>1, <2>2, <2>3 DEF Writing
  <1>13. Unread'
    BY <1>1, <1>2 DEF Unread
  <1>14. Reported'
    BY <1>1, <1>2 DEF Reported
  <1> QED
    BY <1>1, <1>11, <1>12, <1>13, <1>14 DEF IInv, Measuring, Arrived, Reading

\* Writing an item keeps the invariant.
LEMMA SerializeHolds == IInv /\ Serialize => IInv'
  <1> SUFFICES ASSUME IInv, Serialize PROVE IInv'
    OBVIOUS
  <1> DEFINE n == Len(message)
             item == message[nth]
             size == ItemSize(item)
             b == Before(message)
             l == Len(stream.data)
  <1>1. /\ phase = "write" /\ nth =< n /\ stream' = WriteItem(stream, item) /\ nth' = nth + 1
        /\ message' = message /\ schema' = schema /\ inplace' = inplace /\ phase' = phase
        /\ measured' = measured /\ input' = input /\ values' = values
        /\ astray' = astray
    BY DEF Serialize
  <1>2. Steady /\ Writing /\ Unread /\ Reported
    BY DEF IInv
  <1>3. /\ message \in Messages /\ nth \in Nat \ {0} /\ stream \in Streams /\ l =< MaxPacketSize
        /\ schema \in {message} \cup Schemas /\ inplace \in Shortfalls \cup {None} /\ Within(input)
        /\ measured \in 0 .. MaxPacketSize
    BY <1>2 DEF Steady
  <1>4. n \in Nat /\ MessageSize \in Nat /\ l \in Nat
    BY <1>3, MessageIs DEF Streams
  <1>5. nth \in 1 .. n /\ nth \in 0 .. n /\ nth - 1 \in 0 .. n
    <2> HIDE DEF n
    <2> QED
      BY <1>1, <1>3, <1>4
  <1>6. /\ IsItem(item) /\ b[nth] = b[nth - 1] + size /\ size \in Nat /\ b[nth] \in Nat /\ b[nth] =< MessageSize
        /\ b[nth - 1] \in Nat
    BY <1>3, <1>5, MessageIs
  <1>7. Written(stream, stream', Pieces(item), size)
    BY <1>1, <1>3, <1>6, ItemWritten
  <1>8. stream' \in Streams /\ stream'.stored = stream.stored /\ Len(stream'.data) = l
    BY <1>7 DEF Written
  <1>9. nth' \in Nat \ {0} /\ nth' - 1 = nth
    BY <1>1, <1>3
  <1>10. nth' =< n + 1
    <2> HIDE DEF n
    <2> QED
      BY <1>1, <1>4, <1>5
  <1>11. Steady'
    <2>1. Len(stream'.data) =< MaxPacketSize
      BY <1>3, <1>8
    <2>2. /\ message' \in Messages /\ schema' \in {message'} \cup Schemas /\ inplace' \in Shortfalls \cup {None}
          /\ phase' \in {"measure", "write", "read", "lookup", "done"} /\ measured' \in 0 .. MaxPacketSize /\ input' = input
      BY <1>1, <1>3
    <2>3. Within(input')
      BY <1>3, <2>2
    <2> QED
      BY <1>8, <1>9, <2>1, <2>2, <2>3, Zenon DEF Steady
  <1>12. ASSUME Fits, stream.stored
         PROVE  /\ measured = MessageSize /\ Len(stream'.data) = CallHeaderSize + MessageSize
                /\ ~stream'.asserted /\ stream'.pos = CallHeaderSize + b[nth]
                /\ Here(stream'.data, 0, LengthBytes(MessageSize))
                /\ Contains(stream'.data, CallHeaderSize, message, nth)
                /\ \A i \in 1 .. stream'.pos : stream'.data[i] # Uninitialized
    <2> DEFINE pos == stream.pos
               d == stream.data
               e == stream'.data
    <2>1. /\ measured = MessageSize /\ l = CallHeaderSize + MessageSize
          /\ ~stream.asserted /\ pos = CallHeaderSize + b[nth - 1]
          /\ Here(d, 0, LengthBytes(MessageSize))
          /\ Contains(d, CallHeaderSize, message, nth - 1)
          /\ \A i \in 1 .. pos : d[i] # Uninitialized
      BY <1>1, <1>2, <1>12 DEF Writing
    <2>2. pos + size =< l /\ pos \in Nat /\ pos + size = CallHeaderSize + b[nth]
      <3> HIDE DEF l, pos, size, b
      <3>1. pos = CallHeaderSize + b[nth - 1] /\ l = CallHeaderSize + MessageSize
        BY <2>1
      <3> QED
        BY <1>4, <1>6, <3>1, SizesType
    <2>3. /\ stream'.pos = pos + size /\ stream'.asserted = stream.asserted
          /\ Holds(e, pos, Pieces(item))
          /\ \A i \in 1 .. pos : e[i] = d[i]
          /\ \A i \in 1 .. size : e[pos + i] \in Byte
      BY <1>1, <1>3, <1>6, <1>12, <2>2, ItemStored
    <2> HIDE DEF pos, d, e, l, n, item, size, b
    <2>4. Here(e, 0, LengthBytes(MessageSize))
      <3>1. LengthBytes(MessageSize) \in Seq(Byte) /\ Len(LengthBytes(MessageSize)) = LengthWidth
        <4>1. MessageSize \in Int
          BY <1>4
        <4> QED
          BY <4>1, LengthType
      <3>2. DOMAIN LengthBytes(MessageSize) = 1 .. LengthWidth
        BY <3>1
      <3>3. \A i \in 1 .. LengthWidth : 0 + i \in 1 .. pos
        BY <1>6, <2>1, SizesType
      <3> QED
        BY <2>1, <2>3, <3>2, <3>3 DEF Here
    <2>5. \A i \in 1 .. stream'.pos : e[i] # Uninitialized
      <3> SUFFICES ASSUME NEW i \in 1 .. pos + size PROVE e[i] # Uninitialized
        BY <2>3
      <3>1. CASE i \in 1 .. pos
        BY <2>1, <2>3, <3>1
      <3>2. CASE i \notin 1 .. pos
        <4>1. i - pos \in 1 .. size /\ pos + (i - pos) = i
          BY <1>6, <2>2, <3>2
        <4>2. e[i] \in Byte
          BY <2>3, <4>1
        <4> QED
          BY <4>2, SizesType DEF Byte, Uninitialized
      <3> QED
        BY <3>1, <3>2
    <2>6. Contains(e, CallHeaderSize, message, nth)
      <3> SUFFICES ASSUME NEW k \in 1 .. nth PROVE Holds(e, CallHeaderSize + b[k - 1], Pieces(message[k]))
        BY DEF Contains, b
      <3>1. CASE k = nth
        BY <2>1, <2>3, <3>1 DEF item
      <3>2. CASE k # nth
        <4> DEFINE at == CallHeaderSize + b[k - 1]
                   s == ItemSize(message[k])
        <4>1. k \in 1 .. nth - 1 /\ k \in 1 .. n /\ k \in 0 .. n /\ k - 1 \in 0 .. n /\ k \in 0 .. nth - 1
          BY <1>3, <1>4, <1>5, <3>2
        <4>2. IsItem(message[k]) /\ b[k] = b[k - 1] + s /\ s \in Nat /\ b[k - 1] \in Nat /\ b[k] \in Nat
          BY <1>3, <4>1, MessageIs DEF b, n
        <4>3. b[k] =< b[nth - 1]
          BY <1>3, <1>5, <4>1, MessageIs DEF b, n
        <4> HIDE DEF s
        <4>4. at \in Nat /\ at + s =< pos
          BY <1>6, <2>1, <4>2, <4>3, SizesType
        <4>5. Holds(d, at, Pieces(message[k]))
          BY <2>1, <4>1 DEF Contains, b
        <4>6. Take(Pieces(message[k]), s)
          BY <4>2, ItemTakes DEF s
        <4> HIDE DEF at
        <4>7. \A i \in 1 .. s : e[at + i] = d[at + i]
          <5> SUFFICES ASSUME NEW i \in 1 .. s PROVE e[at + i] = d[at + i]
            OBVIOUS
          <5>1. at + i \in 1 .. pos
            BY <2>2, <4>2, <4>4
          <5> QED
            BY <2>3, <5>1
        <4>8. Holds(e, at, Pieces(message[k]))
          BY <4>4, <4>5, <4>6, <4>7, HoldsSame
        <4> QED
          BY <4>8 DEF at
      <3> QED
        BY <3>1, <3>2
    <2>7. Len(stream'.data) = CallHeaderSize + MessageSize
      BY <1>8, <2>1
    <2>8. stream'.pos = CallHeaderSize + b[nth] /\ ~stream'.asserted /\ measured = MessageSize
      BY <2>1, <2>2, <2>3
    <2> QED
      BY <2>4, <2>5, <2>6, <2>7, <2>8 DEF e
  <1>13. Writing'
    <2>1. nth' =< Len(message') + 1
      BY <1>1, <1>10
    <2>2. Fits' = Fits /\ MessageSize' = MessageSize
      BY <1>1, SameMessage
    <2> HIDE DEF n, item, size, l
    <2> QED
      BY <1>1, <1>8, <1>9, <1>12, <2>1, <2>2 DEF Writing
  <1>14. Unread'
    BY <1>1, <1>2 DEF Unread
  <1>15. Reported'
    BY <1>1, <1>2 DEF Reported
  <1> QED
    BY <1>1, <1>11, <1>13, <1>14, <1>15 DEF IInv, Measuring, Arrived, Reading

\* Detaching and receiving the packet keeps the invariant.
LEMMA SendHolds == IInv /\ Send => IInv'
  <1> SUFFICES ASSUME IInv, Send PROVE IInv'
    OBVIOUS
  <1> DEFINE n == Len(message)
             b == Before(message)
             d == stream.data
             l == Len(d)
             whole == stream.stored /\ l >= CallHeaderSize
  <1>1. /\ phase = "write" /\ nth > n
        /\ IF whole THEN input' = NewInput(SentData(d)) /\ phase' = "read"
           ELSE phase' = "done" /\ input' = input
        /\ nth' = 1
        /\ message' = message /\ schema' = schema /\ inplace' = inplace /\ stream' = stream
        /\ measured' = measured /\ values' = values /\ astray' = astray
    BY DEF Send, SentData, SentEnd, SentSize
  <1>2. Steady /\ Writing /\ Unread /\ Reported
    BY DEF IInv
  <1>3. /\ message \in Messages /\ nth \in Nat \ {0} /\ stream \in Streams /\ l =< MaxPacketSize
        /\ schema \in {message} \cup Schemas /\ inplace \in Shortfalls \cup {None} /\ Within(input)
        /\ measured \in 0 .. MaxPacketSize
    BY <1>2 DEF Steady
  <1>4. n \in Nat /\ MessageSize \in Nat /\ b[0] = 0 /\ b[n] = MessageSize
    BY <1>3, MessageIs
  <1>5. d \in Seq(Memory) /\ l \in Nat
    BY <1>3 DEF Streams
  <1>6. l >= CallHeaderSize <=> CallHeaderSize =< l
    <2> HIDE DEF l
    <2> QED
      BY <1>5, SizesType
  <1>7. whole =>
          /\ SentData(d) \in Seq(Memory) /\ Len(SentData(d)) =< MaxPacketSize
          /\ \A k \in 0 .. MaxPacketSize :
               CallHeaderSize + k = l /\ Here(d, 0, LengthBytes(k)) =>
                   Len(SentData(d)) = k /\ \A i \in 1 .. k : SentData(d)[i] = d[CallHeaderSize + i]
    <2> SUFFICES ASSUME whole
                 PROVE  /\ SentData(d) \in Seq(Memory) /\ Len(SentData(d)) =< MaxPacketSize
                        /\ \A k \in 0 .. MaxPacketSize :
                             CallHeaderSize + k = l /\ Here(d, 0, LengthBytes(k)) =>
                                 Len(SentData(d)) = k /\ \A i \in 1 .. k : SentData(d)[i] = d[CallHeaderSize + i]
      OBVIOUS
    <2>1. CallHeaderSize =< Len(d)
      BY <1>6
    <2> QED
      BY <1>3, <1>5, <2>1, SentIs
  <1>8. whole => Within(input') /\ input'.data = SentData(d) /\ input'.pos = 0 /\ ~input'.asserted
    BY <1>1, <1>7, NewInputIs
  <1>9. Steady'
    <2>1. Within(input')
      BY <1>1, <1>3, <1>8
    <2>2. /\ message' \in Messages /\ schema' \in {message'} \cup Schemas /\ inplace' \in Shortfalls \cup {None}
          /\ phase' \in {"measure", "write", "read", "lookup", "done"} /\ measured' \in 0 .. MaxPacketSize
          /\ nth' \in Nat \ {0} /\ stream' \in Streams
      BY <1>1, <1>3
    <2>3. Len(stream'.data) =< MaxPacketSize
      BY <1>1, <1>3
    <2> QED
      BY <2>1, <2>2, <2>3, Zenon DEF Steady
  <1>10. ASSUME Fits, stream.stored
         PROVE  /\ whole /\ measured = MessageSize /\ ~stream.asserted
                /\ stream.pos = CallHeaderSize + measured
                /\ \A i \in 1 .. stream.pos : d[i] # Uninitialized
                /\ Len(SentData(d)) = MessageSize /\ Contains(SentData(d), 0, message, n)
    <2>1. /\ nth =< n + 1 /\ measured = MessageSize /\ l = CallHeaderSize + MessageSize
          /\ ~stream.asserted /\ stream.pos = CallHeaderSize + b[nth - 1]
          /\ Here(d, 0, LengthBytes(MessageSize))
          /\ Contains(d, CallHeaderSize, message, nth - 1)
          /\ \A i \in 1 .. stream.pos : d[i] # Uninitialized
      BY <1>1, <1>2, <1>10 DEF Writing
    <2>2. nth - 1 = n
      <3> HIDE DEF n
      <3> QED
        BY <1>1, <1>3, <1>4, <2>1
    <2>3. whole /\ MessageSize \in 0 .. MaxPacketSize /\ CallHeaderSize + MessageSize = l
      <3>1. CallHeaderSize + MessageSize =< MaxPacketSize
        BY <1>3, <1>10, MessageIs
      <3>2. l = CallHeaderSize + MessageSize
        BY <2>1
      <3> HIDE DEF l
      <3>3. CallHeaderSize =< l /\ MessageSize \in 0 .. MaxPacketSize
        BY <1>4, <3>1, <3>2, SizesType
      <3> QED
        BY <1>6, <1>10, <3>2, <3>3
    <2> DEFINE e == SentData(d)
    <2>4. Len(e) = MessageSize /\ \A i \in 1 .. MessageSize : e[i] = d[CallHeaderSize + i]
      BY <1>7, <2>1, <2>3
    <2>5. Contains(d, CallHeaderSize, message, n)
      BY <2>1, <2>2
    <2> HIDE DEF d, e, l, n, b, whole
    <2>6. Contains(e, 0, message, n)
      <3> SUFFICES ASSUME NEW k \in 1 .. n PROVE Holds(e, 0 + b[k - 1], Pieces(message[k]))
        BY DEF Contains, b
      <3> DEFINE s == ItemSize(message[k])
                 at == CallHeaderSize + b[k - 1]
                 to == 0 + b[k - 1]
      <3>1. k \in 0 .. n /\ k - 1 \in 0 .. n
        BY <1>4
      <3>2. /\ IsItem(message[k]) /\ b[k] = b[k - 1] + s /\ s \in Nat /\ b[k - 1] \in Nat /\ b[k] \in Nat
            /\ b[k] =< MessageSize
        BY <1>3, <3>1, MessageIs DEF b, n
      <3>3. Holds(d, at, Pieces(message[k]))
        BY <2>5 DEF Contains, b
      <3>4. Take(Pieces(message[k]), s)
        BY <3>2, ItemTakes
      <3> HIDE DEF s
      <3>5. at \in Nat /\ to \in Nat
        BY <3>2, SizesType
      <3>6. \A i \in 1 .. s : e[to + i] = d[at + i]
        <4> SUFFICES ASSUME NEW i \in 1 .. s PROVE e[to + i] = d[at + i]
          OBVIOUS
        <4>1. to + i \in 1 .. MessageSize /\ CallHeaderSize + (to + i) = at + i
          BY <1>4, <3>2, SizesType
        <4> QED
          BY <2>4, <4>1
      <3> HIDE DEF at, to
      <3>7. Holds(e, to, Pieces(message[k]))
        BY <3>3, <3>4, <3>5, <3>6, HoldsSame
      <3> QED
        BY <3>7 DEF to
    <2>7. stream.pos = CallHeaderSize + measured
      BY <1>4, <2>1, <2>2
    <2> QED
      BY <2>1, <2>3, <2>4, <2>6, <2>7 DEF e
  <1>11. Fits' = Fits /\ MessageSize' = MessageSize
    BY <1>1, SameMessage
  <1> HIDE DEF d, l, whole, b, n
  <1>12. Arrived'
    <2> SUFFICES ASSUME Fits, stream.stored
                 PROVE  /\ measured = MessageSize /\ ~stream.asserted
                        /\ stream.pos = CallHeaderSize + measured
                        /\ \A i \in 1 .. stream.pos : stream.data[i] # Uninitialized
                        /\ Len(input'.data) = MessageSize /\ Contains(input'.data, 0, message, Len(message))
      BY <1>1, <1>11 DEF Arrived
    <2> QED
      BY <1>8, <1>10 DEF d, n
  <1>13. Reading'
    <2> SUFFICES ASSUME Fits, stream.stored
                 PROVE  /\ 1 =< Len(message) + 1 /\ phase' = "read"
                        /\ ~input'.asserted /\ input'.pos = Before(message)[1 - 1]
                        /\ values = Firsts(Answers(message), 1 - 1)
      BY <1>1, <1>11 DEF Reading
    <2>1. whole
      BY <1>10
    <2>2. 1 =< n + 1
      BY <1>4
    <2>3. Before(message)[1 - 1] = 0
      BY <1>4 DEF b
    <2>4. values = <<>>
      BY <1>1, <1>2 DEF Unread
    <2>5. Firsts(Answers(message), 1 - 1) = <<>>
      BY FirstsIs
    <2> QED
      BY <1>1, <1>8, <2>1, <2>2, <2>3, <2>4, <2>5 DEF n
  <1>14. Unread'
    <2>1. values = <<>>
      BY <1>1, <1>2 DEF Unread
    <2> QED
      BY <1>1, <2>1 DEF Unread, whole
  <1>15. Reported'
    <2>1. ~astray' /\ phase' \in {"read", "done"} /\ astray' \in BOOLEAN
      BY <1>1, <1>2 DEF Reported
    <2>2. nth' - 1 = 0 /\ values' = <<>>
      BY <1>1, <1>2 DEF Unread
    <2>3. values' = Firsts(values', nth' - 1)
      BY <2>2, FirstsIs
    <2> QED
      BY <2>1, <2>2, <2>3 DEF Reported
  <1> QED
    BY <1>1, <1>9, <1>12, <1>13, <1>14, <1>15 DEF IInv, Measuring, Writing

\* Reading an item, of whatever type, keeps the invariant.
LEMMA DeserializeHolds == IInv /\ Deserialize => IInv'
  <1> SUFFICES ASSUME IInv, Deserialize PROVE IInv'
    OBVIOUS
  <1> DEFINE n == Len(message)
             b == Before(message)
             item == schema[nth]
             one == ReadItem(input, item)
             size == ItemSize(item)
             answers == Answers(message)
  <1>1. /\ phase = "read" /\ nth =< Len(schema) /\ input' = one.input /\ values' = Append(values, one.value)
        /\ nth' = nth + 1 /\ phase' = (IF IsCall(schema) /\ nth = 4 THEN "lookup" ELSE "read")
        /\ message' = message /\ schema' = schema /\ inplace' = inplace /\ stream' = stream
        /\ measured' = measured /\ astray' = astray
    BY DEF Deserialize
  <1>2. Steady /\ Arrived /\ Reading /\ Unread /\ Reported
    BY DEF IInv
  <1>3. /\ message \in Messages /\ nth \in Nat \ {0} /\ stream \in Streams /\ Len(stream.data) =< MaxPacketSize
        /\ schema \in {message} \cup Schemas /\ inplace \in Shortfalls \cup {None} /\ Within(input)
        /\ measured \in 0 .. MaxPacketSize
    BY <1>2 DEF Steady
  <1>4. n \in Nat /\ MessageSize \in Nat
    BY <1>3, MessageIs
  <1>5. IsItem(item)
    <2>1. AreItems(schema)
      BY <1>3, MessagesAre
    <2>2. nth \in 1 .. Len(schema)
      <3> DEFINE m == Len(schema)
      <3>1. m \in Nat /\ nth =< m
        BY <1>1, <2>1 DEF AreItems
      <3> HIDE DEF m
      <3>2. nth \in 1 .. m
        BY <1>3, <3>1
      <3> QED
        BY <3>2 DEF m
    <2> QED
      BY <2>1, <2>2 DEF AreItems
  <1>6. Kept(input, input') /\ (IsName(item) /\ LiesNowhere(one.value) => input'.asserted)
    BY <1>1, <1>3, <1>5, ItemKept
  <1>15. phase' \in {"read", "lookup"} /\ phase' # "done"
    BY <1>1
  <1>7. Within(input') /\ input'.data = input.data /\ (input.asserted => input'.asserted)
    BY <1>6 DEF Kept
  <1>8. nth' \in Nat \ {0} /\ nth' - 1 = nth
    BY <1>1, <1>3
  <1>9. Steady'
    <2>1. /\ message' \in Messages /\ schema' \in {message'} \cup Schemas /\ inplace' \in Shortfalls \cup {None}
          /\ phase' \in {"measure", "write", "read", "lookup", "done"} /\ measured' \in 0 .. MaxPacketSize
          /\ stream' \in Streams
      BY <1>1, <1>3, <1>15
    <2>2. Len(stream'.data) =< MaxPacketSize
      BY <1>1, <1>3
    <2> QED
      BY <1>7, <1>8, <2>1, <2>2, Zenon DEF Steady
  <1>10. Fits' = Fits /\ MessageSize' = MessageSize
    BY <1>1, SameMessage
  <1>11. Arrived'
    BY <1>1, <1>2, <1>7, <1>10, <1>15 DEF Arrived
  <1>12. ASSUME Fits, stream.stored, schema = message
         PROVE  /\ nth' =< n + 1 /\ ~input'.asserted /\ input'.pos = b[nth]
                /\ values' = Firsts(answers, nth)
    <2>1. /\ ~input.asserted /\ input.pos = b[nth - 1] /\ values = Firsts(answers, nth - 1)
          /\ Len(input.data) = MessageSize /\ Contains(input.data, 0, message, n)
      BY <1>1, <1>2, <1>12 DEF Arrived, Reading
    <2>2. item = message[nth] /\ nth =< n
      BY <1>1, <1>12
    <2> HIDE DEF n, b, item, one, size, answers
    <2>3. nth \in 1 .. n /\ nth \in 0 .. n /\ nth - 1 \in 0 .. n /\ nth' =< n + 1 /\ nth - 1 \in Nat /\ (nth - 1) + 1 = nth
      BY <1>1, <1>3, <1>4, <2>2
    <2>4. b[nth] = b[nth - 1] + size /\ size \in Nat /\ b[nth] =< MessageSize /\ b[nth - 1] \in Nat
      BY <1>3, <2>2, <2>3, MessageIs DEF n, b, size
    <2>5. Ready(input, item)
      <3>1. input.pos + ItemSize(item) =< Len(input.data)
        <4>1. input.pos + size =< MessageSize
          BY <2>1, <2>4
        <4> QED
          BY <2>1, <4>1 DEF size
      <3>2. Holds(input.data, 0 + b[nth - 1], Pieces(item))
        BY <2>1, <2>2, <2>3 DEF Contains, b
      <3>3. Holds(input.data, input.pos, Pieces(item))
        <4>1. 0 + b[nth - 1] = input.pos
          BY <2>1, <2>4
        <4> QED
          BY <3>2, <4>1
      <3> QED
        BY <1>3, <3>1, <3>3 DEF Ready
    <2>6. one.input = Skipped(input, size) /\ one.value = Received(item)
      BY <1>5, <2>5, ItemBack DEF ReadBack, one, size
    <2>7. input'.pos = b[nth] /\ ~input'.asserted
      <3>1. input' = [input EXCEPT !.pos = @ + size] /\ input \in Inputs
        BY <1>1, <1>3, <2>6 DEF Skipped, Within
      <3>2. input'.pos = input.pos + size /\ input'.asserted = input.asserted
        BY <3>1 DEF Inputs
      <3> QED
        BY <2>1, <2>4, <3>2
    <2>8. one.value = answers[nth]
      BY <2>2, <2>3, <2>6 DEF Answers, answers, n
    <2>9. values' = Firsts(answers, nth)
      <3>1. Append(Firsts(answers, nth - 1), answers[(nth - 1) + 1]) = Firsts(answers, (nth - 1) + 1)
        BY <2>3, FirstsIs
      <3>2. values' = Append(Firsts(answers, nth - 1), answers[nth])
        BY <1>1, <2>1, <2>8
      <3> QED
        BY <2>3, <3>1, <3>2, Zenon
    <2> QED
      BY <2>3, <2>7, <2>9
  <1>13. Reading'
    <2> HIDE DEF n, b, answers
    <2> SUFFICES ASSUME Fits, stream.stored, schema = message
                 PROVE  /\ nth' =< Len(message) + 1 /\ phase' # "done"
                        /\ ~input'.asserted /\ input'.pos = Before(message)[nth' - 1]
                        /\ values' = Firsts(Answers(message), nth' - 1)
      BY <1>1, <1>10, <1>15 DEF Reading
    <2> QED
      BY <1>1, <1>8, <1>12, <1>15 DEF n, b, answers
  <1>14. Unread'
    BY <1>1, <1>2, <1>15 DEF Unread
  <1>16. Reported'
    <2> DEFINE k == nth - 1
               e == one.value
    <2>1. /\ values = Firsts(values, k)
          /\ \A i \in 1 .. k : IsName(schema[i]) /\ LiesNowhere(values[i]) => input.asserted
      BY <1>1, <1>2 DEF Reported
    <2>2. k \in Nat /\ k + 1 = nth
      BY <1>3
    <2> HIDE DEF k, e, one
    <2>3. values = [i \in 1 .. k |-> values[i]]
      BY <2>1 DEF Firsts
    <2>4. Append(values, e) = [i \in 1 .. k + 1 |-> IF i = k + 1 THEN e ELSE values[i]]
      BY <2>2, <2>3, AppendIs
    <2>5. values' = [i \in 1 .. nth |-> IF i = nth THEN e ELSE values[i]]
      BY <1>1, <2>2, <2>4 DEF e
    <2>6. values' = Firsts(values', nth' - 1)
      BY <1>8, <2>5 DEF Firsts
    <2>7. \A i \in 1 .. nth : IsName(schema[i]) /\ LiesNowhere(values'[i]) => input'.asserted
      <3> TAKE i \in 1 .. nth
      <3>1. CASE i = nth
        BY <1>6, <2>5, <3>1 DEF e
      <3>2. CASE i # nth
        <4>1. i \in 1 .. k /\ values'[i] = values[i]
          BY <2>2, <2>5, <3>2
        <4> QED
          BY <1>7, <2>1, <4>1
      <3> QED
        BY <3>1, <3>2
    <2>8. phase' = "lookup" => IsCall(schema) /\ nth' = 5
      BY <1>1
    <2>9. astray' \in BOOLEAN /\ (astray' => phase' \notin {"measure", "write"} /\ stream'.stored /\ input'.asserted)
      BY <1>1, <1>2, <1>7, <1>15 DEF Reported
    <2> QED
      BY <1>1, <1>8, <2>6, <2>7, <2>8, <2>9 DEF Reported
  <1> QED
    BY <1>1, <1>9, <1>11, <1>13, <1>14, <1>15, <1>16 DEF IInv, Measuring, Writing

\* Looking the handler of a call up keeps the invariant: one that has the
\* signature the call was written with is found.
LEMMA FindHolds == IInv /\ FindCallInfo => IInv'
  <1> SUFFICES ASSUME IInv, FindCallInfo PROVE IInv'
    OBVIOUS
  <1> DEFINE found == /\ values[1] = schema[1].value /\ values[4] = ParamsString(schema[4].value)
                      /\ values[3] \in {<<>>, schema[3].value}
             strays == \E i \in {1, 3, 4} : LiesNowhere(values[i])
  <1>1. /\ phase = "lookup" /\ astray' = strays /\ phase' = IF found THEN "read" ELSE "done"
        /\ message' = message /\ schema' = schema /\ inplace' = inplace /\ nth' = nth /\ stream' = stream
        /\ measured' = measured /\ input' = input /\ values' = values
    BY DEF FindCallInfo
  <1>2. Steady /\ Arrived /\ Reading /\ Unread /\ Reported
    BY DEF IInv
  <1>3. Fits' = Fits /\ MessageSize' = MessageSize
    BY <1>1, SameMessage
  <1>4. /\ IsCall(schema) /\ nth = 5 /\ stream.stored /\ values = Firsts(values, nth - 1)
        /\ \A i \in 1 .. nth - 1 : IsName(schema[i]) /\ LiesNowhere(values[i]) => input.asserted
    BY <1>1, <1>2 DEF Reported, Unread
  <1>5. /\ Len(schema) >= 4 /\ schema[1].type = "RawString" /\ schema[3].type = "RawString"
        /\ schema[4].type = "params"
    BY <1>4 DEF IsCall
  <1>6. strays => input.asserted
    <2>1. \A i \in {1, 3, 4} : i \in 1 .. nth - 1 /\ IsName(schema[i])
      BY <1>4, <1>5 DEF IsName
    <2> QED
      BY <1>4, <2>1
  <1>7. ASSUME Fits, schema = message PROVE found /\ nth =< Len(message) + 1
    <2>1. values = Firsts(Answers(message), nth - 1) /\ nth =< Len(message) + 1
      BY <1>1, <1>2, <1>4, <1>7 DEF Reading
    <2>2. \A i \in 1 .. 4 : values[i] = Answers(message)[i]
      BY <1>4, <2>1 DEF Firsts
    <2>3. Len(message) \in Nat
      BY <1>2, MessageIs DEF Steady
    <2>4. \A i \in 1 .. 4 : Answers(message)[i] = Received(message[i])
      <3> DEFINE n == Len(message)
      <3>1. n \in Nat /\ n >= 4
        BY <1>5, <1>7, <2>3
      <3> HIDE DEF n
      <3>2. \A i \in 1 .. 4 : i \in 1 .. n
        BY <3>1
      <3> QED
        BY <3>2 DEF Answers, n
    <2>5. values[1] = message[1].value /\ values[3] = message[3].value
      BY <1>5, <1>7, <2>2, <2>4 DEF Received
    <2>6. values[4] = ParamsString(message[4].value)
      BY <1>5, <1>7, <2>2, <2>4 DEF Received
    <2> QED
      BY <1>7, <2>1, <2>5, <2>6
  <1> HIDE DEF found, strays
  <1>8. phase' \in {"read", "done"}
    BY <1>1
  <1>9. Steady'
    BY <1>1, <1>2, <1>8 DEF Steady, Within, Inputs
  <1>10. Arrived' /\ Unread'
    BY <1>1, <1>2, <1>3, <1>4, <1>8 DEF Arrived, Unread
  <1>11. Reading'
    <2> SUFFICES ASSUME Fits, stream.stored, schema = message
                 PROVE  /\ nth =< Len(message) + 1 /\ phase' # "done"
                        /\ ~input.asserted /\ input.pos = Before(message)[nth - 1]
                        /\ values = Firsts(Answers(message), nth - 1)
      BY <1>1, <1>3 DEF Reading
    <2>1. phase' # "done"
      BY <1>1, <1>7
    <2> QED
      BY <1>1, <1>2, <2>1 DEF Reading
  <1>12. Reported'
    <2>1. astray' \in BOOLEAN
      BY <1>1 DEF strays
    <2>2. astray' => input'.asserted
      BY <1>1, <1>6
    <2> QED
      BY <1>1, <1>4, <1>8, <2>1, <2>2 DEF Reported
  <1> QED
    BY <1>1, <1>9, <1>10, <1>11, <1>12 DEF IInv, Measuring, Writing

\* The end of the message keeps the invariant.
LEMMA FinishHolds == IInv /\ Finish => IInv'
  <1> SUFFICES ASSUME IInv, Finish PROVE IInv'
    OBVIOUS
  <1>1. /\ phase = "read" /\ nth > Len(schema) /\ phase' = "done"
        /\ message' = message /\ schema' = schema /\ inplace' = inplace /\ nth' = nth /\ stream' = stream
        /\ measured' = measured /\ input' = input /\ values' = values /\ astray' = astray
    BY DEF Finish
  <1>2. Steady /\ Arrived /\ Reading /\ Unread /\ Reported
    BY DEF IInv
  <1>3. Fits' = Fits /\ MessageSize' = MessageSize
    BY <1>1, SameMessage
  <1>4. message \in Messages /\ nth \in Nat \ {0}
    BY <1>2 DEF Steady
  <1>5. Len(message) \in Nat
    BY <1>4, MessageIs
  <1>6. Steady'
    BY <1>1, <1>2 DEF Steady, Within, Inputs
  <1>7. Arrived'
    BY <1>1, <1>2, <1>3 DEF Arrived
  <1>8. schema = message /\ nth =< Len(message) + 1 => nth = Len(message) + 1
    <2> DEFINE n == Len(message)
    <2>1. schema = message => nth > n
      BY <1>1
    <2>2. n \in Nat
      BY <1>5
    <2> HIDE DEF n
    <2>3. schema = message /\ nth =< n + 1 => nth = n + 1
      BY <1>4, <2>1, <2>2
    <2> QED
      BY <2>3 DEF n
  <1>9. Reading'
    BY <1>1, <1>2, <1>3, <1>8 DEF Reading
  <1>10. Unread'
    BY <1>1, <1>2 DEF Unread
  <1>11. Reported'
    BY <1>1, <1>2 DEF Reported
  <1> QED
    BY <1>1, <1>6, <1>7, <1>9, <1>10, <1>11 DEF IInv, Measuring, Writing

\* Every step keeps the invariant.
LEMMA StepHolds == IInv /\ [StreamNext]_data_stream_vars => IInv'
  <1> SUFFICES ASSUME IInv, [StreamNext]_data_stream_vars PROVE IInv'
    OBVIOUS
  <1>1. CASE StreamNext
    BY <1>1, MeasureHolds, CreateHolds, SerializeHolds, SendHolds, DeserializeHolds, FindHolds, FinishHolds DEF StreamNext
  <1>2. CASE UNCHANGED data_stream_vars
    <2>1. /\ message' = message /\ schema' = schema /\ inplace' = inplace /\ phase' = phase /\ nth' = nth
          /\ stream' = stream /\ measured' = measured /\ input' = input /\ values' = values /\ astray' = astray
      BY <1>2 DEF data_stream_vars
    <2>2. Fits' = Fits /\ MessageSize' = MessageSize
      BY <2>1, SameMessage
    <2>3. Steady' /\ Unread'
      BY <2>1 DEF IInv, Steady, Unread, Within, Inputs
    <2>4. Measuring' /\ Writing'
      BY <2>1, <2>2 DEF IInv, Measuring, Writing
    <2>5. Arrived' /\ Reading'
      BY <2>1, <2>2 DEF IInv, Arrived, Reading
    <2>6. Reported'
      BY <2>1 DEF IInv, Reported
    <2> QED
      BY <2>3, <2>4, <2>5, <2>6 DEF IInv
  <1> QED
    BY <1>1, <1>2

\* The invariant holds in every state.
LEMMA IInvAlways == StreamSpec => []IInv
  BY InitHolds, StepHolds, PTL DEF StreamSpec

\* The invariant bounds the positions.
LEMMA TypeHolds == IInv => StreamTypeOK
  <1> SUFFICES ASSUME IInv PROVE StreamTypeOK
    OBVIOUS
  <1>1. /\ phase \in {"measure", "write", "read", "lookup", "done"} /\ stream \in Streams
        /\ measured \in 0 .. MaxPacketSize /\ Within(input) /\ astray \in BOOLEAN
    BY DEF IInv, Steady, Reported
  <1>2. stream.data \in Seq(Memory) /\ stream.pos \in 0 .. MaxPacketSize
    BY <1>1 DEF Streams
  <1>3. \A i \in DOMAIN stream.data : stream.data[i] \in 0 .. Base
    <2>1. \A d \in Seq(Memory) : \A i \in DOMAIN d : d[i] \in Memory
      OBVIOUS
    <2>2. \A i \in DOMAIN stream.data : stream.data[i] \in Memory
      BY <1>2, <2>1, Zenon
    <2> QED
      BY <2>2 DEF Memory
  <1>4. input.pos \in 0 .. MaxPacketSize
    <2> DEFINE l == Len(input.data)
    <2>1. input.pos \in Nat /\ l \in Nat /\ input.pos =< l /\ l =< MaxPacketSize
      BY <1>1 DEF Within, Inputs
    <2> HIDE DEF l
    <2> QED
      BY <2>1, SizesType
  <1> QED
    BY <1>1, <1>2, <1>3, <1>4 DEF StreamTypeOK

\* The invariant says at the end that the message was read back.
LEMMA RoundTripHolds == IInv => RoundTrip
  <1> SUFFICES ASSUME IInv, phase = "done", stream.stored, Fits, schema = message
               PROVE  /\ values = [i \in DOMAIN message |-> Received(message[i])]
                      /\ input.pos = Len(input.data) /\ ~input.asserted
    BY DEF RoundTrip
  <1> DEFINE n == Len(message)
  <1>1. message \in Messages
    BY DEF IInv, Steady
  <1>2. AreItems(message) /\ n \in Nat /\ Before(message)[n] = MessageSize
    BY <1>1, MessageIs
  <1>3. /\ nth = n + 1 /\ ~input.asserted /\ input.pos = Before(message)[nth - 1]
        /\ values = Firsts(Answers(message), nth - 1) /\ Len(input.data) = MessageSize
    BY DEF IInv, Arrived, Reading
  <1>4. DOMAIN message = 1 .. n
    BY <1>2 DEF AreItems
  <1> HIDE DEF n
  <1>5. nth - 1 = n
    BY <1>2, <1>3
  <1>6. values = [i \in 1 .. n |-> Answers(message)[i]]
    BY <1>3, <1>5 DEF Firsts
  <1>7. \A i \in 1 .. n : Answers(message)[i] = Received(message[i])
    BY DEF Answers, n
  <1>8. values = [i \in DOMAIN message |-> Received(message[i])]
    BY <1>4, <1>6, <1>7
  <1>9. input.pos = Len(input.data)
    BY <1>2, <1>3, <1>5
  <1> QED
    BY <1>3, <1>8, <1>9

\* The invariant and the injectivity of ParamsString say that parameters are
\* told apart.
LEMMA DistinguishHolds == IInv => ParamsDistinguish
  <1> SUFFICES ASSUME IInv, NEW i \in DOMAIN values, Fits, schema = message, i \in DOMAIN message,
                      message[i].type = "params", NEW other \in Messages, NEW j \in DOMAIN other, other[j].type = "params"
               PROVE  values[i] = ParamsString(other[j].value) <=> other[j].value = message[i].value
    BY DEF ParamsDistinguish
  <1> DEFINE n == Len(message)
  <1>1. message \in Messages /\ phase \in {"measure", "write", "read", "lookup", "done"} /\ nth \in Nat \ {0}
    BY DEF IInv, Steady
  <1>2. AreItems(message) /\ AreItems(other) /\ n \in Nat
    BY <1>1, MessagesAre, MessageIs
  <1>3. IsItem(message[i]) /\ IsItem(other[j]) /\ i \in 1 .. n
    BY <1>2 DEF AreItems
  <1>4. values # <<>>
    OBVIOUS
  <1>5. phase \in {"read", "lookup", "done"} /\ stream.stored
    BY <1>1, <1>4 DEF IInv, Unread
  <1>6. values = Firsts(Answers(message), nth - 1)
    BY <1>5 DEF IInv, Reading
  <1>7. values[i] = Answers(message)[i]
    <2>1. DOMAIN values = 1 .. nth - 1 /\ i \in 1 .. nth - 1
      BY <1>6 DEF Firsts
    <2> QED
      BY <1>6, <2>1 DEF Firsts
  <1>8. values[i] = ParamsString(message[i].value)
    BY <1>3, <1>7 DEF Answers, Received
  <1>9. message[i].value \in Seq(Seq(Byte \ {Separator})) /\ other[j].value \in Seq(Seq(Byte \ {Separator}))
    BY <1>3, ItemIs
  <1>10. ParamsString(message[i].value) = ParamsString(other[j].value) => message[i].value = other[j].value
    BY <1>9, SameNames
  <1> QED
    BY <1>8, <1>10

\* Positions stay PacketSize values and buffers hold bytes, however the sizes
\* wrap around and whatever the peer takes a message for.
THEOREM StreamTypeAlwaysOK == StreamSpec => []StreamTypeOK
  BY IInvAlways, TypeHolds, PTL

\* ReadRawData never goes beyond the data of a packet, with any schema: what
\* IsReadAvailable is for.  FindCallInfo and ReportError_FindCallInfo do only with
\* a name that RawString::Read found cut short, which was reported then, and
\* never for a message that fits and is taken for what it is.
THEOREM ReadsAlwaysInBounds == StreamSpec => []ReadsInBounds
  <1>1. IInv => ReadsInBounds
    <2> SUFFICES ASSUME IInv PROVE ReadsInBounds
      OBVIOUS
    <2>1. ~input.overrun /\ input.pos =< Len(input.data)
      BY DEF IInv, Steady, Within
    <2>2. ASSUME astray PROVE input.asserted /\ ~(Fits /\ schema = message)
      <3>1. phase \in {"read", "lookup", "done"} /\ stream.stored /\ input.asserted
        BY <2>2 DEF IInv, Steady, Reported
      <3> QED
        BY <3>1 DEF IInv, Reading
    <2> QED
      BY <2>1, <2>2 DEF ReadsInBounds
  <1> QED
    BY <1>1, IInvAlways, PTL

\* What CalcCallSize measures is what the second pass writes, and what was
\* written is read back item by item, with nothing left over.
THEOREM MessagesAlwaysSurvive == StreamSpec => []MessagesSurvive
  <1>1. IInv => MeasuredExactly
    BY DEF IInv, Arrived, MeasuredExactly
  <1>2. IInv => MessagesSurvive
    BY <1>1, TypeHolds, RoundTripHolds DEF MessagesSurvive
  <1> QED
    BY <1>2, IInvAlways, PTL

\* FindCallInfo compares the types of a call's parameters as one string: two
\* lists of names are written as the same string only if they are the same.
THEOREM ParamsAlwaysDistinguish == StreamSpec => []ParamsDistinguish
  BY IInvAlways, DistinguishHolds, PTL
=============================================================================
