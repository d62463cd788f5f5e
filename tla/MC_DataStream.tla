---------------------------- MODULE MC_DataStream ----------------------------
(* Instances of DataStream for TLC: a byte has 4 values, a length 2 or    *)
(* 3 bytes.                                                                *)
EXTENDS DataStream

\* Integers of every width: zero, one, the largest and the smallest, and all
\* values of one and two bytes.
Edges(n) == {0, 1, Base ^ n - 1, Base ^ n \div 2, Base ^ n \div 2 - 1}
SignedEdges(n) == {0, 1, -1, Base ^ n \div 2 - 1, -(Base ^ n \div 2)}
MC_Integers ==
    {<<Integer(n, FALSE, v)>> : n \in {1}, v \in 0 .. Base - 1}
    \cup {<<Integer(2, FALSE, v)>> : v \in 0 .. Base ^ 2 - 1}
    \cup {<<Integer(2, TRUE, v)>> : v \in -(Base ^ 2 \div 2) .. Base ^ 2 \div 2 - 1}
    \cup UNION {{<<Integer(n, FALSE, v)>> : v \in Edges(n)} \cup {<<Integer(n, TRUE, v)>> : v \in SignedEdges(n)} : n \in {1, 4, 8}}

Letters(n) == [1 .. n -> 1 .. 2]
Strings == UNION {Letters(n) : n \in 0 .. 2}

\* Strings, vectors and what is copied from memory, in pairs.
MC_Values ==
    LET items == {String(k, s) : k \in StringKinds, s \in Strings}
                 \cup {Vector(1, FALSE, s) : s \in Strings} \cup {Vector(2, TRUE, <<-1>>), Raw(<<1>>), Raw(<<1, 2, 3, 0>>)}
    IN  {<<a, b>> : a, b \in items}

\* Calls: a name, whether an answer is wanted, a return type, the types of the
\* parameters and an argument.
TypeNames == {<<1>>, <<2>>, <<1, 2>>}
TypeLists == {<<>>} \cup {<<a>> : a \in TypeNames} \cup {<<a, b>> : a, b \in TypeNames}
MC_Calls ==
    {SerializeCall(<<1>>, b, <<>>, types, args) : b \in {0, 1}, types \in TypeLists, args \in {<<>>, <<Integer(2, TRUE, -3)>>}}
    \cup {SerializeCall(<<1>>, 1, <<2>>, types, <<>>) : types \in TypeLists}

\* The answer to an enumeration.
MC_Enumerations ==
    {<<Enumeration(v)>> : v \in {<<>>, <<<<1>>, <<>>, <<2, 1>>, <<>>>>, <<<<1>>, <<>>, <<>>, <<>>, <<2>>, <<1>>, <<>>, <<3>>>>}}

\* Messages up to and beyond what a length can say.
MC_Long == {<<String("string", [i \in 1 .. n |-> 1]), Integer(w, FALSE, 1), Integer(1, FALSE, 2)>> : n \in 0 .. 2 * PacketSizes, w \in {1, 2, 4}}

MC_Sent == MC_Long \cup MC_Integers \cup MC_Values \cup MC_Calls \cup MC_Enumerations

\* What a peer of another version may take a message for.
MC_Foreign == {<<Integer(4, TRUE, 0), String("string", <<>>)>>, <<Integer(2, FALSE, 0), Vector(2, FALSE, <<>>), Integer(8, FALSE, 0)>>,
               <<String("QString", <<>>), String("RawString", <<>>), Integer(1, FALSE, 0)>>, <<Raw(<<0>>), Vector(1, TRUE, <<>>)>>,
               SerializeCall(<<1>>, 0, <<>>, <<<<1>>>>, <<Integer(2, TRUE, 0)>>), SerializeCall(<<1>>, 1, <<1>>, <<>>, <<>>)}
MC_NoSchemas == {}
=============================================================================
