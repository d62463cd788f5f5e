----------------------------- MODULE DataStream -----------------------------
(***************************************************************************)
(* MAssIpc_DataStream and how calls and returns are made of it: a message   *)
(* is measured by a stream without storage, a buffer of that size is        *)
(* created, the message is written a second time into it, and the peer      *)
(* reads it back value by value, and looks the handler of a call up.        *)
(*                                                                         *)
(* A byte has Base values and a PacketSize has LengthWidth bytes: 256 and 4 *)
(* in the code.  A smaller instance has the same overflows sooner.  A       *)
(* message is a sequence of items; an item is a value of one of the types   *)
(* the stream has operators for.                                            *)
(***************************************************************************)
EXTENDS Integers, Sequences

CONSTANTS Base, LengthWidth,
          Messages,         \* what is sent: sequences of items
          Schemas,          \* what the peer may take a message for, besides what it is
          Shortfalls        \* how much smaller than CalcCallSize a buffer of the caller may be

\* How many values n bytes have.
Power[n \in Nat] == IF n = 0 THEN 1 ELSE Base * Power[n - 1]

PacketSizes == Power[LengthWidth]
MaxPacketSize == PacketSizes - 1          \* numeric_limits<PacketSize>::max()
CallHeaderSize == 3 * LengthWidth         \* c_net_call_packet_header_size
Separator == 0                            \* a byte no type name has
Uninitialized == Base                     \* what new uint8_t[size] holds: no byte
None == -1

ASSUME DataStreamConstants ==
    /\ Base \in Nat /\ Base > 1 /\ LengthWidth \in Nat \ {0}
    /\ Shortfalls \subseteq Nat

Byte == 0 .. Base - 1
StringKinds == {"string", "RawString", "QString"}

\* A value that an integer type of n bytes has.
IsValue(v, n, signed) ==
    v \in Int /\ (IF signed THEN -Power[n] =< 2 * v /\ 2 * v < Power[n] ELSE 0 =< v /\ v < Power[n])

\* A value that one of the types the stream has operators for has.
IsItem(item) ==
    /\ item.n \in Nat /\ item.signed \in BOOLEAN
    /\ \/ item.type = "int" /\ item.n > 0 /\ IsValue(item.value, item.n, item.signed)
       \/ item.type = "raw" /\ item.value \in Seq(Byte) /\ item.n = Len(item.value)
       \/ item.type \in StringKinds /\ item.value \in Seq(Byte)
       \/ item.type = "vector" /\ item.n > 0 /\ item.value \in Seq(Int)
             /\ \A i \in DOMAIN item.value : IsValue(item.value[i], item.n, item.signed)
       \/ item.type = "enumeration" /\ item.value \in Seq(Seq(Byte)) /\ Len(item.value) % 4 = 0
       \/ item.type = "params" /\ item.value \in Seq(Seq(Byte \ {Separator}))

ASSUME DataStreamItems ==
    \A m \in Messages \cup Schemas :
        Len(m) \in Nat /\ DOMAIN m = 1 .. Len(m) /\ \A i \in 1 .. Len(m) : IsItem(m[i])

VARIABLES
    message,                \* the items
    schema,                 \* the types the peer reads
    inplace,                \* InvokeSetting::inplace_send_buffer: how much it is too small, or None
    phase, nth,             \* what is done, and with which item
    stream,                 \* the stream written to
    measured,               \* GetWritePos of the measuring stream
    input, values,          \* the stream read from and what was read
    astray                  \* whether the lookup read bytes that lie nowhere

data_stream_vars == <<message, schema, inplace, phase, nth, stream, measured, input, values, astray>>

-----------------------------------------------------------------------------
(* Conversions                                                             *)

\* WriteUnsafe: the least significant byte first; >> keeps the sign.
WriteUnsafe(v, n) == [i \in 1 .. n |-> (v \div Power[i - 1]) % Base]

\* Variant: a negative value is read as a positive one.
Signed_Never(v, n) == v

\* Two's complement.
Signed(v, n) == IF 2 * v >= Power[n] THEN v - Power[n] ELSE v

\* ReadUnsafe: shifted in from the last byte on.
ReadUnsafe(bytes, signed) ==
    LET n == Len(bytes)
        t[i \in 0 .. n] == IF i = 0 THEN 0 ELSE (t[i - 1] * Base + bytes[n - i + 1]) % Power[n]
    IN  IF signed THEN Signed(t[n], n) ELSE t[n]

-----------------------------------------------------------------------------
(* Writing                                                                 *)

\* A stream with a buffer, or one that measures; pos is m_write_pos.
NewStream(stored, size) ==
    [stored |-> stored, data |-> [i \in 1 .. size |-> Uninitialized], pos |-> 0,
     asserted |-> FALSE, spilled |-> FALSE]

\* The assertion of WriteRawData and WriteBytes.
Refused(s, n) == s.stored /\ s.pos < MaxPacketSize - n /\ Len(s.data) < s.pos + n

\* The necessary size is calculated even without storage.
Advance(s, n) == (s.pos + n) % PacketSizes

WriteRawData(s, bytes) ==
    LET n == Len(bytes)
    IN  IF Refused(s, n) THEN [s EXCEPT !.asserted = TRUE]
        ELSE [s EXCEPT !.data = [i \in DOMAIN s.data |->
                                    IF i \in s.pos + 1 .. s.pos + n THEN bytes[i - s.pos] ELSE s.data[i]],
                       !.spilled = @ \/ (s.stored /\ s.pos + n > Len(s.data)),
                       !.pos = Advance(s, n)]

\* The calls of WriteRawData and WriteBytes that an operator<< makes.
WriteAll(s, pieces) ==
    LET wrote[i \in 0 .. Len(pieces)] == IF i = 0 THEN s ELSE WriteRawData(wrote[i - 1], pieces[i])
    IN  wrote[Len(pieces)]

LengthBytes(n) == WriteUnsafe(n, LengthWidth)

Integer(n, signed, v) == [type |-> "int", n |-> n, signed |-> signed, value |-> v]

\* bool, float and double are copied as they are in memory.
Raw(bytes) == [type |-> "raw", n |-> Len(bytes), signed |-> FALSE, value |-> bytes]

\* std::string, RawString, QString and QByteArray: the length and the bytes.
String(kind, bytes) == [type |-> kind, n |-> 0, signed |-> FALSE, value |-> bytes]

\* std::vector of integers: how many there are, and each of them.
Vector(n, signed, v) == [type |-> "vector", n |-> n, signed |-> signed, value |-> v]

\* MAssIpcCall_EnumerateData: how many procedures, and four strings for each.
Enumeration(v) == [type |-> "enumeration", n |-> 4, signed |-> FALSE, value |-> v]

\* The names of the types of a procedure's parameters.
Params(names) == [type |-> "params", n |-> 0, signed |-> FALSE, value |-> names]

\* RawString::Write.
Name(bytes) == String("RawString", bytes)

\* Variant: nothing is put after the first name.
AddType_Bare(string, name) == IF string = <<>> THEN name ELSE string \o name \o <<Separator>>

\* ParamsTypeHolder_string.
AddType(string, name) == string \o name \o <<Separator>>

ParamsString(names) ==
    LET string[i \in 0 .. Len(names)] == IF i = 0 THEN <<>> ELSE AddType(string[i - 1], names[i])
    IN  string[Len(names)]

\* ParamsTypeHolder_PacketSize.
AddTypeSize(size, name) == (size + Len(name) + 1) % PacketSizes

ParamsSize(names) ==
    LET size[i \in 0 .. Len(names)] == IF i = 0 THEN 0 ELSE AddTypeSize(size[i - 1], names[i])
    IN  size[Len(names)]

VectorPieces(v, n) ==
    [i \in 1 .. Len(v) + 1 |-> IF i = 1 THEN LengthBytes(Len(v)) ELSE WriteUnsafe(v[i - 1], n)]

EnumerationPieces(v) ==
    [i \in 1 .. 2 * Len(v) + 1 |->
        IF i = 1 THEN LengthBytes(Len(v) \div 4)
        ELSE IF i % 2 = 0 THEN LengthBytes(Len(v[i \div 2])) ELSE v[i \div 2]]

\* ParamsTypeHolder_MAssIpcCallDataStream.
ParamsPieces(names) ==
    [i \in 1 .. 2 * Len(names) + 1 |->
        IF i = 1 THEN LengthBytes(ParamsSize(names)) ELSE IF i % 2 = 0 THEN names[i \div 2] ELSE <<Separator>>]

\* operator<<.
Pieces(item) ==
    CASE item.type = "int" -> <<WriteUnsafe(item.value, item.n)>>
      [] item.type = "raw" -> <<item.value>>
      [] item.type \in StringKinds -> <<LengthBytes(Len(item.value)), item.value>>
      [] item.type = "vector" -> VectorPieces(item.value, item.n)
      [] item.type = "enumeration" -> EnumerationPieces(item.value)
      [] item.type = "params" -> ParamsPieces(item.value)

WriteItem(s, item) == WriteAll(s, Pieces(item))

-----------------------------------------------------------------------------
(* Reading                                                                 *)

\* The data of a packet without its header; pos is m_read_pos.
NewInput(data) == [data |-> data, pos |-> 0, asserted |-> FALSE, overrun |-> FALSE]

\* Variant: the position is left out of account.
IsReadAvailable_Whole(r, n) == Len(r.data) >= n

\* Unsigned: a position beyond the data would make everything available.
IsReadAvailable(r, n) == (Len(r.data) - r.pos) % PacketSizes >= n

Zeros(n) == [i \in 1 .. n |-> 0]

\* ReadRawData, which returns the bytes or nullptr, and the copy of them, which
\* is filled with zeros when there are too few.
ReadRawData(r, n) ==
    IF IsReadAvailable(r, n)
    THEN [input |-> [r EXCEPT !.pos = @ + n, !.overrun = @ \/ r.pos + n > Len(r.data)],
          value |-> [i \in 1 .. n |-> IF r.pos + i \in DOMAIN r.data THEN r.data[r.pos + i] ELSE 0]]
    ELSE [input |-> [r EXCEPT !.asserted = TRUE], value |-> Zeros(n)]

\* ReadBytes into a variable that is zero before.
ReadBytes(r, n, signed) ==
    LET raw == ReadRawData(r, n)
    IN  [input |-> raw.input, value |-> ReadUnsafe(raw.value, signed)]

ReadLength(r) == ReadBytes(r, LengthWidth, FALSE)

\* std::string keeps its old value; QString and QByteArray are resized first and
\* what there is copied into them.
ReadString(r, kind) ==
    LET length == ReadLength(r)
        n == length.value
    IN  IF kind = "string" /\ ~IsReadAvailable(length.input, n)
        THEN [input |-> [length.input EXCEPT !.asserted = TRUE], value |-> <<>>]
        ELSE ReadRawData(length.input, n)

\* n bytes behind a null pointer.
Nowhere(n) == [i \in 1 .. n |-> None]

\* RawString::Read: nothing is copied, and a name that is cut short has its
\* length all the same.
ReadName(r) ==
    LET length == ReadLength(r)
        n == length.value
    IN  IF IsReadAvailable(length.input, n) THEN ReadRawData(length.input, n)
        ELSE [input |-> [length.input EXCEPT !.asserted = TRUE], value |-> Nowhere(n)]

\* What is read as a RawString.
IsName(item) == item.type \in {"RawString", "params"}

\* The next integer of a vector, or the next string of an enumeration.
ReadNext(r, item) ==
    LET one == IF item.type = "vector" THEN ReadBytes(r.input, item.n, item.signed)
               ELSE ReadString(r.input, "string")
    IN  [value |-> Append(r.value, one.value), input |-> one.input]

\* A vector is resized to the length it was sent with and filled item by item.
ReadSeq(r, count, item) ==
    LET filled[n \in 0 .. count] ==
            IF n = 0 THEN [input |-> r, value |-> <<>>] ELSE ReadNext(filled[n - 1], item)
    IN  filled[count]

\* operator>>, into a value of the type of item.
ReadItem(r, item) ==
    LET length == ReadLength(r)
    IN  CASE item.type = "int" -> ReadBytes(r, item.n, item.signed)
          [] item.type = "raw" -> ReadRawData(r, item.n)
          [] item.type \in {"string", "QString"} -> ReadString(r, item.type)
          [] item.type = "vector" -> ReadSeq(length.input, length.value, item)
          [] item.type = "enumeration" -> ReadSeq(length.input, 4 * length.value, item)
          [] IsName(item) -> ReadName(r)

-----------------------------------------------------------------------------
(* Calls and returns                                                       *)

\* SerializeCall: the signature, then the arguments.
SerializeCall(name, send_return, return_type, types, args) ==
    <<Name(name), Raw(<<send_return>>), Name(return_type), Params(types)>> \o args

\* The items are those of a call, of the handler that would take it.
IsCall(items) ==
    Len(items) >= 4 /\ \A i \in 1 .. 4 : items[i].type = <<"RawString", "raw", "RawString", "params">>[i]

StreamInit ==
    /\ message \in Messages /\ schema \in {message} \cup Schemas
    /\ inplace \in Shortfalls \cup {None}
    /\ phase = "measure" /\ nth = 1
    /\ stream = NewStream(FALSE, 0) /\ measured = 0
    /\ input = NewInput(<<>>) /\ values = <<>> /\ astray = FALSE

\* The measuring stream takes the next item.
Measure ==
    /\ phase = "measure" /\ nth =< Len(message)
    /\ stream' = WriteItem(stream, message[nth])
    /\ nth' = nth + 1
    /\ UNCHANGED <<message, schema, inplace, phase, measured, input, values, astray>>

\* PacketHeaderWrite: the size, the type and the id of a call.
PacketHeaderWrite(s, size) == WriteAll(s, <<LengthBytes(size), LengthBytes(2), LengthBytes(1)>>)

\* The size asked of the transport, and CalcCallSize.
PacketSize(no_header_size) == (no_header_size + CallHeaderSize) % PacketSizes

\* CreateDataStream, or CreateDataStreamInplace with the buffer of the caller.
\* A stream without a buffer goes on measuring.
CreateDataStream ==
    LET size == PacketSize(stream.pos)
        buffer == IF inplace = None THEN size ELSE size - inplace
    IN  /\ phase = "measure" /\ nth > Len(message)
        /\ measured' = stream.pos
        /\ stream' = IF buffer < size THEN [NewStream(FALSE, 0) EXCEPT !.asserted = TRUE]
                     ELSE PacketHeaderWrite(NewStream(TRUE, buffer), stream.pos)
        /\ phase' = "write" /\ nth' = 1
        /\ UNCHANGED <<message, schema, inplace, input, values, astray>>

\* The message is written a second time.
Serialize ==
    /\ phase = "write" /\ nth =< Len(message)
    /\ stream' = WriteItem(stream, message[nth])
    /\ nth' = nth + 1
    /\ UNCHANGED <<message, schema, inplace, phase, measured, input, values, astray>>

\* The buffer is detached and sent; the peer finds the size in the header, if
\* the size of the packet did not wrap around below that of a header.
Send ==
    LET whole == stream.stored /\ Len(stream.data) >= CallHeaderSize
        size == ReadUnsafe(SubSeq(stream.data, 1, LengthWidth), FALSE)
        end == IF CallHeaderSize + size =< Len(stream.data) THEN CallHeaderSize + size ELSE Len(stream.data)
    IN  /\ phase = "write" /\ nth > Len(message)
        /\ IF whole
           THEN input' = NewInput(SubSeq(stream.data, CallHeaderSize + 1, end)) /\ phase' = "read"
           ELSE phase' = "done" /\ UNCHANGED input
        /\ nth' = 1
        /\ UNCHANGED <<message, schema, inplace, stream, measured, values, astray>>

\* DeserializeNameSignature and DeserializeArgs: the peer reads the next item,
\* and after the signature of a call looks for the handler.
Deserialize ==
    LET one == ReadItem(input, schema[nth])
    IN  /\ phase = "read" /\ nth =< Len(schema)
        /\ input' = one.input /\ values' = Append(values, one.value)
        /\ nth' = nth + 1 /\ phase' = IF IsCall(schema) /\ nth = 4 THEN "lookup" ELSE "read"
        /\ UNCHANGED <<message, schema, inplace, stream, measured, astray>>

\* Some of the bytes of a name lie nowhere.
LiesNowhere(name) == \E i \in DOMAIN name : name[i] = None

\* FindCallInfo and the comparison of the return type, by the only handler there
\* is; without a match ReportError_FindCallInfo puts the three names into a
\* message.  Either way all their bytes are read.
FindCallInfo ==
    LET found == /\ values[1] = schema[1].value /\ values[4] = ParamsString(schema[4].value)
                 /\ values[3] \in {<<>>, schema[3].value}
    IN  /\ phase = "lookup"
        /\ astray' = \E i \in {1, 3, 4} : LiesNowhere(values[i])
        /\ phase' = IF found THEN "read" ELSE "done"
        /\ UNCHANGED <<message, schema, inplace, nth, stream, measured, input, values>>

Finish ==
    /\ phase = "read" /\ nth > Len(schema) /\ phase' = "done"
    /\ UNCHANGED <<message, schema, inplace, nth, stream, measured, input, values, astray>>

StreamNext == Measure \/ CreateDataStream \/ Serialize \/ Send \/ Deserialize \/ FindCallInfo \/ Finish

StreamSpec == StreamInit /\ [][StreamNext]_data_stream_vars

-----------------------------------------------------------------------------
\* Positions are PacketSize values and buffers hold bytes.
StreamTypeOK ==
    /\ phase \in {"measure", "write", "read", "lookup", "done"} /\ astray \in BOOLEAN
    /\ stream.pos \in 0 .. MaxPacketSize /\ measured \in 0 .. MaxPacketSize
    /\ \A i \in DOMAIN stream.data : stream.data[i] \in 0 .. Base
    /\ input.pos \in 0 .. MaxPacketSize

\* The sum of a sequence of numbers.
Total(lengths) ==
    LET sum[i \in 0 .. Len(lengths)] == IF i = 0 THEN 0 ELSE sum[i - 1] + lengths[i]
    IN  sum[Len(lengths)]

\* How many bytes an item takes, and a message.
ItemSize(item) ==
    CASE item.type = "int" -> item.n
      [] item.type = "raw" -> Len(item.value)
      [] item.type \in StringKinds -> LengthWidth + Len(item.value)
      [] item.type = "vector" -> LengthWidth + item.n * Len(item.value)
      [] item.type = "enumeration" ->
            LengthWidth + Total([i \in 1 .. Len(item.value) |-> LengthWidth + Len(item.value[i])])
      [] item.type = "params" -> LengthWidth + Total([i \in 1 .. Len(item.value) |-> Len(item.value[i]) + 1])

MessageSize == Total([i \in 1 .. Len(message) |-> ItemSize(message[i])])

\* The size of the packet can be written in its header.
Fits == CallHeaderSize + MessageSize =< MaxPacketSize

Received(item) == IF item.type = "params" THEN ParamsString(item.value) ELSE item.value

\* A message read with the types it was written with is what was written, to
\* the last byte and with nothing left over: integers of every width and sign,
\* strings, vectors and the signature of a call.
RoundTrip ==
    (phase = "done" /\ stream.stored /\ Fits /\ schema = message) =>
        /\ values = [i \in DOMAIN message |-> Received(message[i])]
        /\ input.pos = Len(input.data) /\ ~input.asserted

\* What the first pass measures is what the second one needs: no assertion
\* fails and every byte of the packet is written.
MeasuredExactly ==
    (Fits /\ phase \in {"read", "lookup", "done"} /\ stream.stored) =>
        /\ measured = MessageSize /\ ~stream.asserted
        /\ stream.pos = CallHeaderSize + measured
        /\ \A i \in 1 .. stream.pos : stream.data[i] # Uninitialized

\* The parameters a call is sent with are found to be those of a handler if and
\* only if they are the same, type by type (the comparison in FindCallInfo of
\* what the caller's types are written as with what the handler's are kept as).
ParamsDistinguish ==
    \A i \in DOMAIN values : Fits /\ schema = message /\ i \in DOMAIN message /\ message[i].type = "params" =>
        \A other \in Messages : \A j \in DOMAIN other : other[j].type = "params" =>
            (values[i] = ParamsString(other[j].value) <=> other[j].value = message[i].value)

\* No write goes beyond the buffer: what the assertions of WriteRawData and
\* WriteBytes are for.
WritesInBounds == ~stream.spilled

\* No read of the stream goes beyond the data, whatever the peer takes them for.
\* What is read afterwards does so in one case, which the assertion of ReadRawData
\* has reported: a name cut short is compared and put into an error message
\* though nothing was there.  That never happens to a message whose size fits
\* into the header and that is read with the types it was written with.
ReadsInBounds ==
    /\ ~input.overrun /\ input.pos =< Len(input.data)
    /\ astray => input.asserted /\ ~(Fits /\ schema = message)

\* A message that fits into a packet is measured, written and read back without
\* loss (the two passes of MAssIpc_DataStream and the reading one).
MessagesSurvive == StreamTypeOK /\ MeasuredExactly /\ RoundTrip
=============================================================================
