------------------------ MODULE EndpointPair_proofs ------------------------
(***************************************************************************)
(* PacketsKept and OnlyLaterLeaves of EndpointPair, for any number of calls  *)
(* and any depth of call-backs.                                             *)
(***************************************************************************)
EXTENDS EndpointPair, FiniteSetTheorems, TLAPS

IncomingPacket == {p \in Packet : p.type \in IncomingType}

\* A run of ProcessTransportResponse only ever runs incoming calls.
RunFrame ==
    [wait_response_id : Ids \cup {c_invalid_id}, process_incoming_calls : BOOLEAN,
     call : IncomingPacket \cup {NoCall}]

-----------------------------------------------------------------------------
(* Sequences and the counts of packets in them                             *)

\* What a sequence becomes when an element is appended.
LEMMA Appended ==
  ASSUME NEW T, NEW s \in Seq(T), NEW x \in T
  PROVE  /\ Append(s, x) \in Seq(T)
         /\ Len(s) \in Nat /\ Len(Append(s, x)) = Len(s) + 1
         /\ DOMAIN s = 1 .. Len(s) /\ DOMAIN Append(s, x) = 1 .. Len(s) + 1
         /\ \A i \in DOMAIN s : Append(s, x)[i] = s[i]
         /\ Append(s, x)[Len(s) + 1] = x
OBVIOUS

\* What a sequence becomes when its first element is taken.
LEMMA Taken ==
  ASSUME NEW T, NEW s \in Seq(T), s # <<>>
  PROVE  /\ Tail(s) \in Seq(T) /\ Head(s) = s[1] /\ Head(s) \in T
         /\ Len(s) \in Nat \ {0} /\ DOMAIN s = 1 .. Len(s) /\ DOMAIN Tail(s) = 1 .. Len(s) - 1
         /\ \A i \in 1 .. Len(s) - 1 : Tail(s)[i] = s[i + 1]
OBVIOUS

\* What a sequence becomes when its last element is dropped.
LEMMA Dropped ==
  ASSUME NEW T, NEW s \in Seq(T), s # <<>>, NEW u, u = SubSeq(s, 1, Len(s) - 1)
  PROVE  /\ u \in Seq(T)
         /\ Len(s) \in Nat \ {0} /\ DOMAIN s = 1 .. Len(s) /\ DOMAIN u = 1 .. Len(s) - 1
         /\ \A i \in DOMAIN u : u[i] = s[i]
OBVIOUS

\* The places in a sequence at which something holds can be counted.
LEMMA Countable ==
  ASSUME NEW T, NEW s \in Seq(T), NEW I, I \subseteq DOMAIN s
  PROVE  IsFiniteSet(I) /\ Cardinality(I) \in Nat
<1>1. DOMAIN s = 1 .. Len(s) /\ Len(s) \in Nat
  OBVIOUS
<1>2. IsFiniteSet(DOMAIN s)
  BY <1>1, FS_Interval
<1>3. QED
  BY <1>2, FS_Subset, FS_CardinalityType

One(b) == IF b THEN 1 ELSE 0

Matches(packet, types, id) == packet.type \in types /\ packet.id = id

\* How often an id occurs is a number.
LEMMA TimesNat ==
  ASSUME NEW T, NEW s \in Seq(T), NEW types, NEW id
  PROVE  Times(s, types, id) \in Nat
BY Countable DEF Times

\* A packet that is in a sequence is counted.
LEMMA TimesPositive ==
  ASSUME NEW T, NEW s \in Seq(T), NEW types, NEW id, NEW i \in DOMAIN s, Matches(s[i], types, id)
  PROVE  Times(s, types, id) >= 1
<1> DEFINE I == {j \in DOMAIN s : s[j].type \in types /\ s[j].id = id}
<1>1. I \subseteq DOMAIN s /\ i \in I
  BY DEF Matches
<1>2. IsFiniteSet(I) /\ Cardinality(I) \in Nat
  BY <1>1, Countable
<1>3. Cardinality(I) # 0
  BY <1>1, <1>2, FS_EmptySet
<1>4. QED
  BY <1>2, <1>3 DEF Times

\* What is counted is in the sequence.
LEMMA TimesWitness ==
  ASSUME NEW T, NEW s \in Seq(T), NEW types, NEW id, Times(s, types, id) # 0
  PROVE  \E i \in DOMAIN s : Matches(s[i], types, id)
<1> DEFINE I == {j \in DOMAIN s : s[j].type \in types /\ s[j].id = id}
<1>1. I # {}
  BY FS_EmptySet DEF Times
<1>2. QED
  BY <1>1 DEF Matches

\* Nothing occurs in an empty sequence.
LEMMA TimesEmpty == \A types, id : Times(<<>>, types, id) = 0
<1>1. ASSUME NEW types, NEW id PROVE Times(<<>>, types, id) = 0
  <2>1. {i \in DOMAIN <<>> : <<>>[i].type \in types /\ <<>>[i].id = id} = {}
    OBVIOUS
  <2>2. QED
    BY <2>1, FS_EmptySet DEF Times
<1>2. QED
  BY <1>1

\* A packet that is appended counts once more.
LEMMA TimesAppend ==
  ASSUME NEW T, NEW s \in Seq(T), NEW x \in T, NEW types, NEW id
  PROVE  Times(Append(s, x), types, id) = Times(s, types, id) + One(Matches(x, types, id))
<1> DEFINE I(u) == {j \in DOMAIN u : u[j].type \in types /\ u[j].id = id}
           n == Len(s) + 1
<1>1. I(s) \subseteq DOMAIN s /\ n \notin I(s)
  BY Appended
<1>2. IsFiniteSet(I(s)) /\ Cardinality(I(s)) \in Nat
  BY <1>1, Countable
<1>3. I(Append(s, x)) = IF Matches(x, types, id) THEN I(s) \cup {n} ELSE I(s)
  <2>1. DOMAIN Append(s, x) = DOMAIN s \cup {n}
    BY Appended
  <2>2. QED
    BY <2>1, <1>1, Appended DEF Matches
<1>4. Cardinality(I(s) \cup {n}) = Cardinality(I(s)) + 1
  BY <1>1, <1>2, FS_AddElement
<1>5. Times(s, types, id) = Cardinality(I(s)) /\ Times(Append(s, x), types, id) = Cardinality(I(Append(s, x)))
  BY DEF Times
<1> HIDE DEF I
<1>6. QED
  BY <1>2, <1>3, <1>4, <1>5 DEF One

\* A packet that is taken counts once less.
LEMMA TimesTail ==
  ASSUME NEW T, NEW s \in Seq(T), s # <<>>, NEW types, NEW id
  PROVE  Times(s, types, id) = Times(Tail(s), types, id) + One(Matches(Head(s), types, id))
<1> DEFINE I(u) == {j \in DOMAIN u : u[j].type \in types /\ u[j].id = id}
           J == I(s) \ {1}
           F == [j \in I(Tail(s)) |-> j + 1]
<1>1. I(s) \subseteq DOMAIN s /\ J \subseteq DOMAIN s /\ I(Tail(s)) \subseteq DOMAIN Tail(s)
  OBVIOUS
<1>2. IsFiniteSet(J) /\ Cardinality(J) \in Nat
  BY <1>1, Countable
<1>3. IsFiniteSet(I(Tail(s))) /\ Cardinality(I(Tail(s))) \in Nat
  BY <1>1, Countable, Taken
<1>4. \A j \in I(Tail(s)) : j \in Nat /\ j + 1 \in J
  BY Taken
<1>5. \A j \in J : j - 1 \in I(Tail(s)) /\ (j - 1) + 1 = j
  BY Taken
<1>6. F \in Bijection(I(Tail(s)), J)
  <2>1. F \in [I(Tail(s)) -> J]
    BY <1>4
  <2>2. \A i, j \in I(Tail(s)) : F[i] = F[j] => i = j
    BY <1>4
  <2>3. \A j \in J : \E i \in I(Tail(s)) : F[i] = j
    BY <1>5
  <2> HIDE DEF F, I, J
  <2>4. QED
    BY <2>1, <2>2, <2>3 DEF Bijection, Injection, Surjection, IsInjective
<1>7. Cardinality(J) = Cardinality(I(Tail(s)))
  BY <1>3, <1>6, FS_Bijection DEF ExistsBijection
<1>8. I(s) = IF Matches(Head(s), types, id) THEN J \cup {1} ELSE J
  BY Taken DEF Matches
<1>9. Cardinality(J \cup {1}) = Cardinality(J) + 1
  BY <1>2, FS_AddElement
<1>10. Times(s, types, id) = Cardinality(I(s)) /\ Times(Tail(s), types, id) = Cardinality(I(Tail(s)))
  BY DEF Times
<1> HIDE DEF I, J
<1>11. QED
  BY <1>2, <1>3, <1>7, <1>8, <1>9, <1>10 DEF One

-----------------------------------------------------------------------------
(* Stacks of a thread                                                      *)

Runs(frames) == [i \in DOMAIN frames |-> frames[i].call]

Runnable == IncomingPacket \cup {NoCall}

\* The calls that the frames of a stack run, frame by frame.
LEMMA RunsType ==
  ASSUME NEW s \in Seq(RunFrame)
  PROVE  Runs(s) \in Seq(Runnable) /\ DOMAIN Runs(s) = DOMAIN s /\ \A i \in DOMAIN s : Runs(s)[i] = s[i].call
<1>1. DOMAIN s = 1 .. Len(s) /\ Len(s) \in Nat
  OBVIOUS
<1>2. \A i \in DOMAIN s : s[i].call \in Runnable
  <2>1. \A i \in DOMAIN s : s[i] \in RunFrame
    OBVIOUS
  <2>2. QED
    BY <2>1 DEF RunFrame, Runnable
<1>3. Runs(s) \in [1 .. Len(s) -> Runnable]
  BY <1>1, <1>2 DEF Runs
<1>4. QED
  BY <1>1, <1>3 DEF Runs

\* A new frame adds its call to the calls that run.
LEMMA RunsAppend ==
  ASSUME NEW s \in Seq(RunFrame), NEW f \in RunFrame
  PROVE  Runs(Append(s, f)) = Append(Runs(s), f.call)
<1>1. DOMAIN Append(s, f) = 1 .. Len(s) + 1 /\ DOMAIN s = 1 .. Len(s) /\ Len(s) \in Nat
  OBVIOUS
<1>2. f.call \in Runnable
  BY DEF RunFrame, Runnable
<1>3. Runs(s) \in Seq(Runnable) /\ Len(Runs(s)) = Len(s)
  BY RunsType, <1>1
<1>4. \A i \in 1 .. Len(s) + 1 : Runs(Append(s, f))[i] = Append(Runs(s), f.call)[i]
  BY <1>1, <1>3, RunsType, Appended DEF Runs
<1>5. DOMAIN Append(Runs(s), f.call) = 1 .. Len(s) + 1
  BY <1>2, <1>3, Appended
<1>6. Append(Runs(s), f.call) \in Seq(Runnable)
  BY <1>2, <1>3
<1>7. Append(s, f) \in Seq(RunFrame)
  OBVIOUS
<1>8. Runs(Append(s, f)) \in Seq(Runnable) /\ DOMAIN Runs(Append(s, f)) = 1 .. Len(s) + 1
  BY <1>1, <1>7, RunsType
<1>9. QED
  BY <1>4, <1>5, <1>6, <1>8

\* The calls of a stack are those below its top and that of the top.
LEMMA RunsSplit ==
  ASSUME NEW s \in Seq(RunFrame), s # <<>>, NEW u, u = SubSeq(s, 1, Len(s) - 1)
  PROVE  u \in Seq(RunFrame) /\ s[Len(s)] \in RunFrame /\ Runs(s) = Append(Runs(u), s[Len(s)].call)
<1>1. u \in Seq(RunFrame) /\ s[Len(s)] \in RunFrame
  OBVIOUS
<1>2. s = Append(u, s[Len(s)])
  OBVIOUS
<1>3. QED
  BY <1>1, <1>2, RunsAppend

\* How often a stack runs incoming calls with an id.
TimesRun(frames, id) == Times(Runs(frames), IncomingType, id)

IsCall(call, id) == Matches(call, IncomingType, id)

\* A frame that runs no handler has no call to be counted.
LEMMA NoCallMatches == \A types, id : types \in {IncomingType, ResponseType} => ~Matches(NoCall, types, id)
BY DEF Matches, NoCall, IncomingType, ResponseType

\* How often a call is run is a number.
LEMMA TimesRunNat ==
  ASSUME NEW s \in Seq(RunFrame), NEW id
  PROVE  TimesRun(s, id) \in Nat
BY RunsType, TimesNat DEF TimesRun

\* A wait that begins runs nothing yet.
LEMMA TimesRunPush ==
  ASSUME NEW s \in Seq(RunFrame), NEW f \in RunFrame, f.call = NoCall, NEW id
  PROVE  TimesRun(Append(s, f), id) = TimesRun(s, id)
<1>1. Runs(s) \in Seq(Runnable) /\ NoCall \in Runnable
  BY RunsType DEF Runnable
<1>2. TimesRun(Append(s, f), id) = TimesRun(s, id) + One(IsCall(NoCall, id))
  <2>1. Times(Append(Runs(s), NoCall), IncomingType, id)
            = Times(Runs(s), IncomingType, id) + One(Matches(NoCall, IncomingType, id))
    BY <1>1, TimesAppend
  <2>2. QED
    BY <2>1, RunsAppend DEF TimesRun, IsCall
<1>3. QED
  BY <1>2, NoCallMatches, TimesRunNat DEF One, IsCall

\* A run that returns takes its own call with it.
LEMMA TimesRunPop ==
  ASSUME NEW s \in Seq(RunFrame), s # <<>>, NEW u, u = SubSeq(s, 1, Len(s) - 1), NEW id
  PROVE  /\ u \in Seq(RunFrame)
         /\ TimesRun(s, id) = TimesRun(u, id) + One(IsCall(s[Len(s)].call, id))
<1>1. Runs(u) \in Seq(Runnable) /\ s[Len(s)].call \in Runnable
  BY RunsSplit, RunsType DEF RunFrame, Runnable
<1>2. Times(Append(Runs(u), s[Len(s)].call), IncomingType, id)
          = Times(Runs(u), IncomingType, id) + One(Matches(s[Len(s)].call, IncomingType, id))
  BY <1>1, TimesAppend
<1>3. QED
  BY <1>2, RunsSplit DEF TimesRun, IsCall

\* Two stacks that differ at the top only.
LEMMA TimesRunTop ==
  ASSUME NEW s \in Seq(RunFrame), NEW v \in Seq(RunFrame), s # <<>>, v # <<>>, Len(v) = Len(s),
         \A i \in 1 .. Len(s) - 1 : v[i] = s[i], NEW id
  PROVE  TimesRun(v, id) + One(IsCall(s[Len(s)].call, id)) = TimesRun(s, id) + One(IsCall(v[Len(v)].call, id))
<1>1. PICK u : u = SubSeq(s, 1, Len(s) - 1)
  OBVIOUS
<1>2. PICK w : w = SubSeq(v, 1, Len(v) - 1)
  OBVIOUS
<1>3. u \in Seq(RunFrame) /\ TimesRun(s, id) = TimesRun(u, id) + One(IsCall(s[Len(s)].call, id))
  BY <1>1, TimesRunPop
<1>4. w \in Seq(RunFrame) /\ TimesRun(v, id) = TimesRun(w, id) + One(IsCall(v[Len(v)].call, id))
  BY <1>2, TimesRunPop
<1>5. w = u
  <2>1. w \in Seq(RunFrame) /\ DOMAIN w = 1 .. Len(v) - 1 /\ \A i \in DOMAIN w : w[i] = v[i]
    BY <1>2, Dropped
  <2>2. u \in Seq(RunFrame) /\ DOMAIN u = 1 .. Len(s) - 1 /\ \A i \in DOMAIN u : u[i] = s[i]
    BY <1>1, Dropped
  <2>3. \A i \in 1 .. Len(s) - 1 : w[i] = u[i]
    BY <2>1, <2>2
  <2>4. Len(s) \in Nat \ {0}
    OBVIOUS
  <2>5. QED
    BY <2>1, <2>2, <2>3, <2>4
<1>6. TimesRun(u, id) \in Nat
  BY <1>3, TimesRunNat
<1>7. QED
  BY <1>3, <1>4, <1>5, <1>6 DEF One

\* The call at the top of a stack is replaced.
PutTop(frames, frame) == [frames EXCEPT ![Len(frames)] = frame]
WithCall(frames, call) == [frames EXCEPT ![Len(frames)].call = call]

\* What replacing the top frame leaves alone.
LEMMA TopPut ==
  ASSUME NEW s \in Seq(RunFrame), s # <<>>, NEW f \in RunFrame
  PROVE  /\ PutTop(s, f) \in Seq(RunFrame) /\ PutTop(s, f) # <<>>
         /\ Len(PutTop(s, f)) = Len(s) /\ DOMAIN PutTop(s, f) = DOMAIN s
         /\ PutTop(s, f)[Len(s)] = f
         /\ \A i \in DOMAIN s : i # Len(s) => PutTop(s, f)[i] = s[i]
BY DEF PutTop

\* What a handler that begins or returns in the top frame changes.
LEMMA TimesRunSet ==
  ASSUME NEW s \in Seq(RunFrame), s # <<>>, NEW call \in Runnable
  PROVE  /\ WithCall(s, call) \in Seq(RunFrame) /\ WithCall(s, call) # <<>>
         /\ Len(WithCall(s, call)) = Len(s) /\ DOMAIN WithCall(s, call) = DOMAIN s
         /\ \A i \in DOMAIN s : i # Len(s) => WithCall(s, call)[i] = s[i]
         /\ WithCall(s, call)[Len(s)] = [s[Len(s)] EXCEPT !.call = call]
         /\ \A id : TimesRun(WithCall(s, call), id) + One(IsCall(s[Len(s)].call, id))
                        = TimesRun(s, id) + One(IsCall(call, id))
<1> DEFINE n == Len(s)
           f == [s[n] EXCEPT !.call = call]
           v == PutTop(s, f)
<1>1. n \in Nat \ {0} /\ DOMAIN s = 1 .. n /\ \A i \in 1 .. n : s[i] \in RunFrame
  OBVIOUS
<1>2. f \in RunFrame /\ f.call = call
  BY <1>1 DEF RunFrame, Runnable
<1>3. WithCall(s, call) = v
  BY DEF WithCall, PutTop
<1> HIDE DEF f
<1>4. /\ v \in Seq(RunFrame) /\ v # <<>> /\ Len(v) = n /\ DOMAIN v = DOMAIN s /\ v[n] = f
      /\ \A i \in DOMAIN s : i # n => v[i] = s[i]
  BY <1>2, TopPut
<1> HIDE DEF v
<1>5. \A i \in 1 .. Len(s) - 1 : v[i] = s[i]
  BY <1>1, <1>4
<1>6. ASSUME NEW id
      PROVE  TimesRun(v, id) + One(IsCall(s[n].call, id)) = TimesRun(s, id) + One(IsCall(call, id))
  <2>1. TimesRun(v, id) + One(IsCall(s[Len(s)].call, id)) = TimesRun(s, id) + One(IsCall(v[Len(v)].call, id))
    BY <1>4, <1>5, TimesRunTop
  <2>2. QED
    BY <2>1, <1>2, <1>4
<1>7. v[n] = [s[n] EXCEPT !.call = call]
  BY <1>4 DEF f
<1>8. QED
  BY <1>3, <1>4, <1>6, <1>7

-----------------------------------------------------------------------------
(* The two ends                                                            *)

\* Each of the two endpoints has the other one as its peer.
LEMMA Peers ==
  ASSUME NEW e \in Endpoint
  PROVE  /\ Peer(e) \in Endpoint /\ Peer(e) # e /\ Peer(Peer(e)) = e
         /\ \A f \in Endpoint : f = e \/ f = Peer(e)
<1>1. PICK a, b : a # b /\ Endpoint = {a, b}
  BY PairConstants
<1>2. \A f \in Endpoint : \E p \in Endpoint : p # f
  BY <1>1
<1>3. \A f \in Endpoint : Peer(f) \in Endpoint /\ Peer(f) # f
  BY <1>2 DEF Peer
<1>4. QED
  BY <1>1, <1>3

-----------------------------------------------------------------------------
(* The invariant behind PacketsKept                                        *)

PairTypes ==
    /\ stack \in [Endpoint -> Seq(RunFrame)]
    /\ inbox \in [Endpoint -> Seq(Packet)]
    /\ m_data_incoming_call \in [Endpoint -> Seq(IncomingPacket)]
    /\ m_id_data_return \in [Endpoint -> SUBSET Ids]
    /\ m_incremental_id \in [Endpoint -> 0 .. MaxCalls]
    /\ cancel_wait_respond \in [Endpoint -> BOOLEAN] /\ left \in [Endpoint -> BOOLEAN]

\* The places of the call id of an endpoint: on its way to the peer, queued
\* there, in a handler of the peer, and as an answer on its way or stored.
Sent(e, id) == Times(inbox[Peer(e)], IncomingType, id)
Queued(e, id) == Times(m_data_incoming_call[Peer(e)], IncomingType, id)
Running(e, id) == TimesRun(stack[Peer(e)], id)
Replied(e, id) == Times(inbox[e], ResponseType, id)
Kept(e, id) == One(id \in m_id_data_return[e])

Places(e, id) == Sent(e, id) + Queued(e, id) + Running(e, id) + Replied(e, id) + Kept(e, id)

Awaits(e, id) == \E i \in DOMAIN stack[e] : stack[e][i].wait_response_id = id /\ id # c_invalid_id

\* A call that is waited for is at one place; InOnePlace says the same.
AtOnePlace == \A e \in Endpoint : \A id \in Ids : Awaits(e, id) => Places(e, id) = 1

\* No two runs of a thread wait for one answer.
AwaitedOnce ==
    \A e \in Endpoint : \A i, j \in DOMAIN stack[e] :
        i # j /\ stack[e][i].wait_response_id = stack[e][j].wait_response_id
            => stack[e][i].wait_response_id = c_invalid_id

\* Ids that were not given out yet are nowhere.
FreshIds ==
    \A e \in Endpoint : \A id \in Ids :
        id > m_incremental_id[e] => Places(e, id) = 0 /\ ~Awaits(e, id)

\* The calls an endpoint has been sent and has not answered, and the answers on
\* their way to it.
HasCall(p, c) ==
    /\ c \in IncomingPacket
    /\ \/ \E i \in DOMAIN inbox[p] : inbox[p][i] = c
       \/ \E i \in DOMAIN m_data_incoming_call[p] : m_data_incoming_call[p][i] = c
       \/ \E i \in DOMAIN stack[p] : stack[p][i].call = c
HasAnswer(e, id) == \E i \in DOMAIN inbox[e] : inbox[e][i].type \in ResponseType /\ inbox[e][i].id = id

\* What is waited for is answered, and nothing else is, but for waits that were
\* cancelled.
CallsAnswered ==
    \A e \in Endpoint : \A c \in IncomingPacket :
        HasCall(Peer(e), c) =>
            /\ Awaits(e, c.id) => c.send_return
            /\ c.send_return /\ ~cancel_wait_respond[e] => Awaits(e, c.id)
            /\ c.type = "pt_enumerate" => c.send_return
AnswersAwaited ==
    \A e \in Endpoint : \A id \in Ids :
        /\ HasAnswer(e, id) /\ ~cancel_wait_respond[e] => Awaits(e, id)
        /\ id \in m_id_data_return[e] => Awaits(e, id)

PairInv == PairTypes /\ AtOnePlace /\ AwaitedOnce /\ FreshIds /\ CallsAnswered /\ AnswersAwaited

\* The places are counted.
LEMMA PlacesNat ==
  ASSUME PairTypes, NEW e \in Endpoint, NEW id
  PROVE  /\ Sent(e, id) \in Nat /\ Queued(e, id) \in Nat /\ Running(e, id) \in Nat
         /\ Replied(e, id) \in Nat /\ Kept(e, id) \in 0 .. 1
         /\ Places(e, id) \in Nat
<1>1. /\ inbox[e] \in Seq(Packet) /\ inbox[Peer(e)] \in Seq(Packet)
      /\ m_data_incoming_call[Peer(e)] \in Seq(IncomingPacket) /\ stack[Peer(e)] \in Seq(RunFrame)
  BY Peers DEF PairTypes
<1>2. /\ Sent(e, id) \in Nat /\ Queued(e, id) \in Nat /\ Running(e, id) \in Nat /\ Replied(e, id) \in Nat
  BY <1>1, TimesNat, TimesRunNat DEF Sent, Queued, Running, Replied
<1>3. Kept(e, id) \in 0 .. 1
  BY DEF Kept, One
<1>4. QED
  BY <1>2, <1>3 DEF Places

\* The packets a handler runs are counted among those it runs.
LEMMA RunningPositive ==
  ASSUME NEW s \in Seq(RunFrame), NEW i \in DOMAIN s, s[i].call \in IncomingPacket
  PROVE  TimesRun(s, s[i].call.id) >= 1
<1>1. Runs(s) \in Seq(Runnable) /\ i \in DOMAIN Runs(s) /\ Runs(s)[i] = s[i].call
  BY RunsType
<1>2. Matches(Runs(s)[i], IncomingType, s[i].call.id)
  BY <1>1 DEF Matches, IncomingPacket
<1>3. QED
  BY <1>1, <1>2, TimesPositive DEF TimesRun

\* A call or an answer that is somewhere has a place.
LEMMA PlacesPositive ==
  ASSUME PairTypes, NEW e \in Endpoint
  PROVE  /\ \A c : HasCall(Peer(e), c) => Sent(e, c.id) + Queued(e, c.id) + Running(e, c.id) >= 1
         /\ \A id : HasAnswer(e, id) => Replied(e, id) >= 1
<1> DEFINE p == Peer(e)
<1>1. /\ inbox[e] \in Seq(Packet) /\ inbox[p] \in Seq(Packet)
      /\ m_data_incoming_call[p] \in Seq(IncomingPacket) /\ stack[p] \in Seq(RunFrame)
  BY Peers DEF PairTypes
<1>2. ASSUME NEW c, HasCall(p, c)
      PROVE  Sent(e, c.id) + Queued(e, c.id) + Running(e, c.id) >= 1
  <2>1. c \in IncomingPacket /\ Matches(c, IncomingType, c.id)
    BY <1>2 DEF HasCall, Matches, IncomingPacket
  <2>2. ASSUME NEW i \in DOMAIN inbox[p], inbox[p][i] = c PROVE Sent(e, c.id) >= 1
    BY <1>1, <2>1, <2>2, TimesPositive DEF Sent
  <2>3. ASSUME NEW i \in DOMAIN m_data_incoming_call[p], m_data_incoming_call[p][i] = c PROVE Queued(e, c.id) >= 1
    BY <1>1, <2>1, <2>3, TimesPositive DEF Queued
  <2>4. ASSUME NEW i \in DOMAIN stack[p], stack[p][i].call = c PROVE Running(e, c.id) >= 1
    BY <1>1, <2>1, <2>4, RunningPositive DEF Running
  <2>5. Sent(e, c.id) \in Nat /\ Queued(e, c.id) \in Nat /\ Running(e, c.id) \in Nat
    BY PlacesNat
  <2>6. Sent(e, c.id) >= 1 \/ Queued(e, c.id) >= 1 \/ Running(e, c.id) >= 1
    BY <1>2, <2>2, <2>3, <2>4 DEF HasCall
  <2>7. QED
    BY <2>5, <2>6
<1>3. ASSUME NEW id, HasAnswer(e, id)
      PROVE  Replied(e, id) >= 1
  <2>1. PICK i \in DOMAIN inbox[e] : Matches(inbox[e][i], ResponseType, id)
    BY <1>3 DEF HasAnswer, Matches
  <2>2. QED
    BY <1>1, <2>1, TimesPositive DEF Replied
<1>4. QED
  BY <1>2, <1>3

\* A step that hands out no id keeps PairInv if it keeps the places of what is
\* still waited for, runs and answers only calls that were there, and ends at
\* most the wait for id w of f: because its answer is stored or f is cancelled.
LEMMA StepKeeps ==
  ASSUME PairInv, PairTypes', NEW f \in Endpoint, NEW w,
         m_incremental_id' = m_incremental_id,
         \A e \in Endpoint : \A i \in DOMAIN stack'[e] :
             \/ stack'[e][i].wait_response_id = c_invalid_id
             \/ i \in DOMAIN stack[e] /\ stack'[e][i].wait_response_id = stack[e][i].wait_response_id,
         \A e \in Endpoint : \A id \in Ids : Awaits(e, id) => Awaits(e, id)' \/ (e = f /\ id = w),
         w \in m_id_data_return[f] \/ cancel_wait_respond[f] \/ w \notin Ids,
         w \notin m_id_data_return'[f],
         \A e \in Endpoint : cancel_wait_respond[e] => cancel_wait_respond'[e],
         \A e \in Endpoint : \A id \in Ids :
             Places(e, id)' =< Places(e, id) /\ (Awaits(e, id)' => Places(e, id)' = Places(e, id)),
         \A e \in Endpoint : \A c : HasCall(e, c)' => HasCall(e, c),
         \A e \in Endpoint : \A id \in Ids :
             HasAnswer(e, id)' => \/ HasAnswer(e, id)
                                  \/ \E c : HasCall(Peer(e), c) /\ c.id = id /\ c.send_return,
         \A e \in Endpoint : \A id \in Ids :
             id \in m_id_data_return'[e] =>
                 id \in m_id_data_return[e] \/ (HasAnswer(e, id) /\ ~cancel_wait_respond[e])
  PROVE  PairInv'
<1>1. \A e \in Endpoint : \A id \in Ids : Awaits(e, id)' => Awaits(e, id)
  BY DEF Awaits
<1>2. \A e \in Endpoint : \A id \in Ids : Places(e, id) \in Nat /\ Places(e, id)' \in Nat
  <2>1. \A e \in Endpoint : \A id : Places(e, id) \in Nat
    BY PlacesNat DEF PairInv
  <2>2. ASSUME NEW e \in Endpoint, NEW id \in Ids PROVE Places(e, id)' \in Nat
    <3>1. /\ inbox'[e] \in Seq(Packet) /\ inbox'[Peer(e)] \in Seq(Packet)
          /\ m_data_incoming_call'[Peer(e)] \in Seq(IncomingPacket) /\ stack'[Peer(e)] \in Seq(RunFrame)
      BY Peers DEF PairTypes
    <3>2. /\ Sent(e, id)' \in Nat /\ Queued(e, id)' \in Nat /\ Running(e, id)' \in Nat /\ Replied(e, id)' \in Nat
      BY <3>1, TimesNat, TimesRunNat DEF Sent, Queued, Running, Replied
    <3>3. Kept(e, id)' \in 0 .. 1
      BY DEF Kept, One
    <3>4. QED
      BY <3>2, <3>3 DEF Places
  <2>3. QED
    BY <2>1, <2>2
<1>3. AtOnePlace'
  BY <1>1 DEF AtOnePlace, PairInv
<1>4. AwaitedOnce'
  BY DEF AwaitedOnce, PairInv
<1>5. FreshIds'
  <2>1. ASSUME NEW e \in Endpoint, NEW id \in Ids, id > m_incremental_id[e]
        PROVE  Places(e, id)' = 0 /\ ~Awaits(e, id)'
    <3>1. Places(e, id) = 0 /\ ~Awaits(e, id)
      BY <2>1 DEF PairInv, FreshIds
    <3>2. QED
      BY <3>1, <1>1, <1>2
  <2>2. QED
    BY <2>1 DEF FreshIds
\* Of a wait that has its answer nothing else is left.
<1>6. ASSUME w \in Ids, Awaits(f, w), ~cancel_wait_respond[f]
      PROVE  (\A c : HasCall(Peer(f), c) => c.id # w) /\ ~HasAnswer(f, w)
  <2>1. Places(f, w) = 1 /\ Kept(f, w) = 1
    BY <1>6 DEF PairInv, AtOnePlace, Kept, One
  <2>2. /\ Sent(f, w) \in Nat /\ Queued(f, w) \in Nat /\ Running(f, w) \in Nat /\ Replied(f, w) \in Nat
    BY PlacesNat DEF PairInv
  <2>3. Sent(f, w) + Queued(f, w) + Running(f, w) = 0 /\ Replied(f, w) = 0
    BY <2>1, <2>2 DEF Places
  <2>4. \A c : HasCall(Peer(f), c) => Sent(f, c.id) + Queued(f, c.id) + Running(f, c.id) >= 1
    BY PlacesPositive DEF PairInv
  <2>5. HasAnswer(f, w) => Replied(f, w) >= 1
    BY PlacesPositive DEF PairInv
  <2>6. QED
    BY <2>3, <2>4, <2>5
<1>7. \A c : c \in IncomingPacket => c.id \in Ids
  BY DEF IncomingPacket, Packet
<1>8. CallsAnswered'
  <2>1. ASSUME NEW e \in Endpoint, NEW c \in IncomingPacket, HasCall(Peer(e), c)'
        PROVE  /\ Awaits(e, c.id)' => c.send_return
               /\ c.send_return /\ ~cancel_wait_respond'[e] => Awaits(e, c.id)'
               /\ c.type = "pt_enumerate" => c.send_return
    <3>1. HasCall(Peer(e), c) /\ c.id \in Ids
      BY <2>1, <1>7, Peers
    <3>2. /\ Awaits(e, c.id) => c.send_return
          /\ c.send_return /\ ~cancel_wait_respond[e] => Awaits(e, c.id)
          /\ c.type = "pt_enumerate" => c.send_return
      BY <3>1 DEF PairInv, CallsAnswered
    <3>3. ASSUME Awaits(e, c.id), ~cancel_wait_respond[e] PROVE Awaits(e, c.id)'
      BY <3>1, <3>3, <1>6
    <3>4. QED
      BY <3>1, <3>2, <3>3, <1>1
  <2>2. QED
    BY <2>1 DEF CallsAnswered
<1>9. AnswersAwaited'
  <2>1. ASSUME NEW e \in Endpoint, NEW id \in Ids, HasAnswer(e, id)', ~cancel_wait_respond'[e]
        PROVE  Awaits(e, id)'
    <3>1. ~cancel_wait_respond[e]
      BY <2>1
    <3>2. CASE HasAnswer(e, id)
      <4>1. Awaits(e, id)
        BY <3>1, <3>2 DEF PairInv, AnswersAwaited
      <4>2. QED
        BY <4>1, <3>1, <3>2, <1>6
    <3>3. CASE \E c : HasCall(Peer(e), c) /\ c.id = id /\ c.send_return
      <4>1. PICK c : HasCall(Peer(e), c) /\ c.id = id /\ c.send_return
        BY <3>3
      <4>2. c \in IncomingPacket
        BY <4>1 DEF HasCall
      <4>3. Awaits(e, id)
        BY <3>1, <4>1, <4>2 DEF PairInv, CallsAnswered
      <4>4. QED
        BY <4>1, <4>3, <3>1, <1>6
    <3>4. QED
      BY <2>1, <3>2, <3>3
  <2>2. ASSUME NEW e \in Endpoint, NEW id \in Ids, id \in m_id_data_return'[e]
        PROVE  Awaits(e, id)'
    <3>1. Awaits(e, id)
      BY <2>2 DEF PairInv, AnswersAwaited
    <3>2. e # f \/ id # w
      BY <2>2
    <3>3. QED
      BY <3>1, <3>2
  <2>3. QED
    BY <2>1, <2>2 DEF AnswersAwaited
<1>10. QED
  BY <1>3, <1>4, <1>5, <1>8, <1>9 DEF PairInv

-----------------------------------------------------------------------------
(* What the actions do to the stacks                                       *)

\* A thread that is in a run of ProcessTransportResponse.
LEMMA TopFrame ==
  ASSUME PairTypes, NEW f \in Endpoint, ~Idle(f)
  PROVE  /\ stack[f] \in Seq(RunFrame) /\ stack[f] # <<>> /\ Len(stack[f]) \in Nat \ {0}
         /\ DOMAIN stack[f] = 1 .. Len(stack[f]) /\ Len(stack[f]) \in DOMAIN stack[f]
         /\ Top(f) \in RunFrame
         /\ Top(f).wait_response_id \in Ids \cup {c_invalid_id} /\ Top(f).process_incoming_calls \in BOOLEAN
         /\ Top(f).call \in Runnable
<1>1. stack[f] \in Seq(RunFrame) /\ stack[f] # <<>>
  BY DEF PairTypes, Idle
<1>2. Top(f) \in RunFrame
  BY <1>1 DEF Top
<1>3. QED
  BY <1>1, <1>2 DEF RunFrame, Runnable

\* A run that returns ends no wait but its own, and no handler.
LEMMA StackReturn ==
  ASSUME PairInv, NEW f \in Endpoint, InWait(f), Return(f)
  PROVE  /\ stack' \in [Endpoint -> Seq(RunFrame)]
         /\ \A e \in Endpoint : \A id : TimesRun(stack'[e], id) = TimesRun(stack[e], id)
         /\ \A e \in Endpoint : \A i \in DOMAIN stack'[e] : i \in DOMAIN stack[e] /\ stack'[e][i] = stack[e][i]
         /\ \A e \in Endpoint : \A id \in Ids :
                Awaits(e, id) => Awaits(e, id)' \/ (e = f /\ id = Top(f).wait_response_id)
         /\ \A id : id = Top(f).wait_response_id => ~Awaits(f, id)'
<1> DEFINE s == stack[f]
           n == Len(s)
<1>1. s \in Seq(RunFrame) /\ s # <<>> /\ n \in Nat \ {0} /\ DOMAIN s = 1 .. n
      /\ s[n].call = NoCall /\ Top(f) = s[n] /\ PairTypes
  BY TopFrame DEF PairInv, InWait, Top
<1>2. PICK u : u = SubSeq(s, 1, Len(s) - 1)
  OBVIOUS
<1>3. stack' = [stack EXCEPT ![f] = u]
  BY <1>2 DEF Return
<1>4. /\ u \in Seq(RunFrame) /\ DOMAIN u = 1 .. n - 1 /\ \A i \in DOMAIN u : u[i] = s[i]
  BY <1>1, <1>2, Dropped
<1>5. \A id : TimesRun(s, id) = TimesRun(u, id)
  <2>1. ASSUME NEW id PROVE TimesRun(s, id) = TimesRun(u, id)
    <3>1. TimesRun(s, id) = TimesRun(u, id) + One(IsCall(s[Len(s)].call, id)) /\ TimesRun(u, id) \in Nat
      BY <1>1, <1>2, <1>4, TimesRunPop, TimesRunNat
    <3>2. One(IsCall(s[Len(s)].call, id)) = 0
      BY <1>1, NoCallMatches DEF One, IsCall
    <3>3. QED
      BY <3>1, <3>2
  <2>2. QED
    BY <2>1
<1>6. /\ stack' \in [Endpoint -> Seq(RunFrame)] /\ stack'[f] = u
      /\ \A e \in Endpoint : e # f => stack'[e] = stack[e]
  BY <1>1, <1>3, <1>4 DEF PairTypes
<1>7. \A e \in Endpoint : \A id : TimesRun(stack'[e], id) = TimesRun(stack[e], id)
  BY <1>5, <1>6
<1>8. \A e \in Endpoint : \A i \in DOMAIN stack'[e] : i \in DOMAIN stack[e] /\ stack'[e][i] = stack[e][i]
  BY <1>1, <1>4, <1>6
<1>9. ASSUME NEW e \in Endpoint, NEW id \in Ids, Awaits(e, id), ~(e = f /\ id = Top(f).wait_response_id)
      PROVE  Awaits(e, id)'
  <2>1. CASE e # f
    BY <2>1, <1>6, <1>9 DEF Awaits
  <2>2. CASE e = f
    <3>1. PICK i \in DOMAIN s : s[i].wait_response_id = id /\ id # c_invalid_id
      BY <2>2, <1>9 DEF Awaits
    <3>2. i # n
      BY <2>2, <3>1, <1>1, <1>9
    <3>3. i \in DOMAIN u
      BY <3>2, <1>1, <1>4
    <3>4. QED
      BY <2>2, <3>1, <3>3, <1>4, <1>6 DEF Awaits
  <2>3. QED
    BY <2>1, <2>2
<1>10. \A id : id = Top(f).wait_response_id => ~Awaits(f, id)'
  <2>1. ASSUME NEW i \in DOMAIN u, u[i].wait_response_id = s[n].wait_response_id,
               s[n].wait_response_id # c_invalid_id
        PROVE  FALSE
    <3>1. i \in DOMAIN s /\ n \in DOMAIN s /\ i # n /\ s[i].wait_response_id = s[n].wait_response_id
      BY <1>1, <1>4, <2>1
    <3>2. AwaitedOnce
      BY DEF PairInv
    <3>3. QED
      BY <3>1, <3>2, <2>1 DEF AwaitedOnce
  <2>2. QED
    BY <2>1, <1>1, <1>6 DEF Awaits
<1>11. QED
  BY <1>6, <1>7, <1>8, <1>9, <1>10

\* Setting the call of the top frame leaves all waits alone.
LEMMA StackSetCall ==
  ASSUME PairTypes, NEW f \in Endpoint, ~Idle(f), NEW call \in Runnable, SetCall(f, call)
  PROVE  /\ stack' \in [Endpoint -> Seq(RunFrame)]
         /\ \A e \in Endpoint : e # f => stack'[e] = stack[e]
         /\ stack'[f] # <<>> /\ Len(stack'[f]) = Len(stack[f])
         /\ \A e \in Endpoint : DOMAIN stack'[e] = DOMAIN stack[e]
         /\ \A e \in Endpoint : \A i \in DOMAIN stack[e] :
                /\ stack'[e][i].wait_response_id = stack[e][i].wait_response_id
                /\ stack'[e][i].process_incoming_calls = stack[e][i].process_incoming_calls
                /\ e = f /\ i = Len(stack[f]) => stack'[e][i].call = call
                /\ ~(e = f /\ i = Len(stack[f])) => stack'[e][i] = stack[e][i]
         /\ \A id : TimesRun(stack'[f], id) + One(IsCall(Top(f).call, id))
                        = TimesRun(stack[f], id) + One(IsCall(call, id))
         /\ \A e \in Endpoint : \A id : Awaits(e, id)' <=> Awaits(e, id)
<1>1. PICK s : s = stack[f]
  OBVIOUS
<1> DEFINE n == Len(s)
<1>2. s \in Seq(RunFrame) /\ s # <<>> /\ n \in Nat \ {0} /\ DOMAIN s = 1 .. n
      /\ Top(f) = s[n] /\ Top(f) \in RunFrame
  BY <1>1, TopFrame DEF Top
<1>3. PICK v : v = WithCall(s, call)
  OBVIOUS
<1>4. stack' = [stack EXCEPT ![f] = v]
  BY <1>1, <1>3 DEF SetCall, WithCall
<1>5. /\ v \in Seq(RunFrame) /\ v # <<>> /\ Len(v) = Len(s) /\ DOMAIN v = DOMAIN s
      /\ \A i \in DOMAIN s : i # Len(s) => v[i] = s[i]
      /\ v[Len(s)] = [s[Len(s)] EXCEPT !.call = call]
      /\ \A id : TimesRun(v, id) + One(IsCall(s[Len(s)].call, id)) = TimesRun(s, id) + One(IsCall(call, id))
  BY <1>2, <1>3, TimesRunSet
<1>6. /\ stack' \in [Endpoint -> Seq(RunFrame)] /\ stack'[f] = v
      /\ \A e \in Endpoint : e # f => stack'[e] = stack[e]
  BY <1>2, <1>4, <1>5 DEF PairTypes
<1>7. /\ v[n].wait_response_id = s[n].wait_response_id
      /\ v[n].process_incoming_calls = s[n].process_incoming_calls
      /\ v[n].call = call
  BY <1>2, <1>5 DEF RunFrame
<1>8. \A e \in Endpoint : DOMAIN stack'[e] = DOMAIN stack[e]
  BY <1>1, <1>5, <1>6
<1>9. \A e \in Endpoint : \A i \in DOMAIN stack[e] :
          /\ stack'[e][i].wait_response_id = stack[e][i].wait_response_id
          /\ stack'[e][i].process_incoming_calls = stack[e][i].process_incoming_calls
          /\ e = f /\ i = Len(stack[f]) => stack'[e][i].call = call
          /\ ~(e = f /\ i = Len(stack[f])) => stack'[e][i] = stack[e][i]
  BY <1>1, <1>5, <1>6, <1>7
<1>10. \A e \in Endpoint : \A id : Awaits(e, id)' <=> Awaits(e, id)
  BY <1>8, <1>9 DEF Awaits
<1>11. QED
  BY <1>1, <1>2, <1>5, <1>6, <1>8, <1>9, <1>10

-----------------------------------------------------------------------------
(* PairInv and the actions of a run                                        *)

\* A run ends: its wait is over, if it waited.
LEMMA RunEnds ==
  ASSUME PairInv, NEW f \in Endpoint, InWait(f), Return(f),
         UNCHANGED <<inbox, m_data_incoming_call, m_incremental_id, cancel_wait_respond, left>>,
         \/ m_id_data_return' = [m_id_data_return EXCEPT ![f] = @ \ {Top(f).wait_response_id}]
            /\ Top(f).wait_response_id \in m_id_data_return[f]
         \/ m_id_data_return' = m_id_data_return /\ Top(f).wait_response_id \notin m_id_data_return[f]
            /\ (Top(f).wait_response_id = c_invalid_id \/ cancel_wait_respond[f])
  PROVE  PairInv'
<1>1. PICK w : w = Top(f).wait_response_id
  OBVIOUS
<1>2. PairTypes /\ w \in Ids \cup {c_invalid_id}
  BY <1>1, TopFrame DEF PairInv, InWait
<1>3. /\ stack' \in [Endpoint -> Seq(RunFrame)]
      /\ \A e \in Endpoint : \A id : TimesRun(stack'[e], id) = TimesRun(stack[e], id)
      /\ \A e \in Endpoint : \A i \in DOMAIN stack'[e] : i \in DOMAIN stack[e] /\ stack'[e][i] = stack[e][i]
      /\ \A e \in Endpoint : \A id \in Ids : Awaits(e, id) => Awaits(e, id)' \/ (e = f /\ id = w)
      /\ ~Awaits(f, w)'
  BY <1>1, StackReturn
<1>4. /\ m_id_data_return' \in [Endpoint -> SUBSET Ids] /\ w \notin m_id_data_return'[f]
      /\ \A e \in Endpoint : m_id_data_return'[e] \subseteq m_id_data_return[e]
      /\ \A e \in Endpoint : \A id \in Ids : id \in m_id_data_return[e] /\ Awaits(e, id)' => id \in m_id_data_return'[e]
      /\ w \in m_id_data_return[f] \/ cancel_wait_respond[f] \/ w \notin Ids
  <2>1. c_invalid_id \notin Ids
    BY DEF Ids, c_invalid_id
  <2>2. CASE m_id_data_return' = [m_id_data_return EXCEPT ![f] = @ \ {w}] /\ w \in m_id_data_return[f]
    BY <2>2, <1>2, <1>3 DEF PairTypes
  <2>3. CASE /\ m_id_data_return' = m_id_data_return /\ w \notin m_id_data_return[f]
             /\ w = c_invalid_id \/ cancel_wait_respond[f]
    BY <2>1, <2>3, <1>2 DEF PairTypes
  <2>4. QED
    BY <2>2, <2>3, <1>1
<1>5. PairTypes'
  BY <1>2, <1>3, <1>4 DEF PairTypes
<1>6. ASSUME NEW e \in Endpoint, NEW id \in Ids
      PROVE  Places(e, id)' =< Places(e, id) /\ (Awaits(e, id)' => Places(e, id)' = Places(e, id))
  <2>1. /\ Sent(e, id)' = Sent(e, id) /\ Queued(e, id)' = Queued(e, id) /\ Replied(e, id)' = Replied(e, id)
        /\ Running(e, id)' = Running(e, id)
    BY <1>3, Peers DEF Sent, Queued, Replied, Running
  <2>2. Kept(e, id)' =< Kept(e, id) /\ (Awaits(e, id)' => Kept(e, id)' = Kept(e, id))
        /\ Kept(e, id)' \in 0 .. 1 /\ Kept(e, id) \in 0 .. 1
    BY <1>4 DEF Kept, One
  <2>3. /\ Sent(e, id) \in Nat /\ Queued(e, id) \in Nat /\ Running(e, id) \in Nat /\ Replied(e, id) \in Nat
    BY <1>2, PlacesNat
  <2>4. QED
    BY <2>1, <2>2, <2>3 DEF Places
<1>7. \A e \in Endpoint : \A c : HasCall(e, c)' => HasCall(e, c)
  BY <1>3 DEF HasCall
<1>8. \A e \in Endpoint : \A id \in Ids : HasAnswer(e, id)' => HasAnswer(e, id)
  BY DEF HasAnswer
<1>9. QED
  BY <1>3, <1>4, <1>5, <1>6, <1>7, <1>8, StepKeeps

\* A wait that finds its answer ends, and the answer is erased with it.
LEMMA PairTakeResponse ==
  ASSUME PairInv, NEW f \in Endpoint, TakeResponse(f)
  PROVE  PairInv'
BY RunEnds DEF TakeResponse, Erase, Stored

\* A run of ProcessTransport that finds nothing more to read returns.
LEMMA PairReadNothing ==
  ASSUME PairInv, NEW f \in Endpoint, ReadNothing(f)
  PROVE  PairInv'
BY RunEnds DEF ReadNothing, Reads, Stored, queues

\* A cancelled wait returns without its answer.
LEMMA PairReadCancelled ==
  ASSUME PairInv, NEW f \in Endpoint, ReadCancelled(f)
  PROVE  PairInv'
BY RunEnds DEF ReadCancelled, Reads, Cancelled, Stored, queues

\* A wait is begun.
LEMMA StackPush ==
  ASSUME PairTypes, NEW f \in Endpoint, NEW id \in Ids \cup {c_invalid_id}, NEW process \in BOOLEAN,
         Push(f, Waits(id, process))
  PROVE  /\ stack' \in [Endpoint -> Seq(RunFrame)]
         /\ \A e \in Endpoint : e # f => stack'[e] = stack[e]
         /\ Len(stack'[f]) = Len(stack[f]) + 1 /\ stack'[f][Len(stack[f]) + 1] = Waits(id, process)
         /\ Len(stack[f]) \in Nat
         /\ \A e \in Endpoint : \A n : TimesRun(stack'[e], n) = TimesRun(stack[e], n)
         /\ \A e \in Endpoint : \A i \in DOMAIN stack[e] : i \in DOMAIN stack'[e] /\ stack'[e][i] = stack[e][i]
         /\ \A e \in Endpoint : \A i \in DOMAIN stack'[e] :
                i \in DOMAIN stack[e] \/ (e = f /\ i = Len(stack[f]) + 1)
         /\ \A e \in Endpoint : \A n : Awaits(e, n)' <=> Awaits(e, n) \/ (e = f /\ n = id /\ id # c_invalid_id)
<1>1. PICK s : s = stack[f]
  OBVIOUS
<1>2. PICK fr : fr = Waits(id, process)
  OBVIOUS
<1>3. fr \in RunFrame /\ fr.call = NoCall /\ fr.wait_response_id = id
  BY <1>2 DEF Waits, RunFrame
<1>4. s \in Seq(RunFrame) /\ Len(s) \in Nat /\ DOMAIN s = 1 .. Len(s)
  BY <1>1 DEF PairTypes
<1>5. PICK v : v = Append(s, fr)
  OBVIOUS
<1>6. /\ v \in Seq(RunFrame) /\ Len(v) = Len(s) + 1 /\ DOMAIN v = 1 .. Len(s) + 1 /\ v[Len(s) + 1] = fr
      /\ \A i \in DOMAIN s : v[i] = s[i]
  BY <1>3, <1>4, <1>5, Appended
<1>7. \A n : TimesRun(v, n) = TimesRun(s, n)
  BY <1>3, <1>4, <1>5, TimesRunPush
<1>8. stack' = [stack EXCEPT ![f] = v]
  BY <1>1, <1>2, <1>5 DEF Push
<1>9. /\ stack' \in [Endpoint -> Seq(RunFrame)] /\ stack'[f] = v
      /\ \A e \in Endpoint : e # f => stack'[e] = stack[e]
  BY <1>6, <1>8 DEF PairTypes
<1>10. \A e \in Endpoint : \A n : TimesRun(stack'[e], n) = TimesRun(stack[e], n)
  BY <1>1, <1>7, <1>9
<1>11. \A e \in Endpoint : \A i \in DOMAIN stack[e] : i \in DOMAIN stack'[e] /\ stack'[e][i] = stack[e][i]
  BY <1>1, <1>4, <1>6, <1>9
<1>12. \A e \in Endpoint : \A i \in DOMAIN stack'[e] : i \in DOMAIN stack[e] \/ (e = f /\ i = Len(stack[f]) + 1)
  BY <1>1, <1>4, <1>6, <1>9
<1>13. Len(s) + 1 \in DOMAIN v
  BY <1>4, <1>6
<1>14. ASSUME NEW e \in Endpoint, NEW n, Awaits(e, n)'
       PROVE  Awaits(e, n) \/ (e = f /\ n = id /\ id # c_invalid_id)
  <2>1. PICK i \in DOMAIN stack'[e] : stack'[e][i].wait_response_id = n /\ n # c_invalid_id
    BY <1>14 DEF Awaits
  <2>2. CASE i \in DOMAIN stack[e]
    BY <2>1, <2>2, <1>11 DEF Awaits
  <2>3. CASE e = f /\ i = Len(stack[f]) + 1
    BY <2>1, <2>3, <1>1, <1>3, <1>6, <1>9
  <2>4. QED
    BY <2>1, <2>2, <2>3, <1>12
<1>15. ASSUME NEW e \in Endpoint, NEW n, Awaits(e, n) \/ (e = f /\ n = id /\ id # c_invalid_id)
       PROVE  Awaits(e, n)'
  <2>1. CASE Awaits(e, n)
    BY <2>1, <1>11 DEF Awaits
  <2>2. CASE e = f /\ n = id /\ id # c_invalid_id
    BY <2>2, <1>3, <1>6, <1>9, <1>13 DEF Awaits
  <2>3. QED
    BY <1>15, <2>1, <2>2
<1>16. QED
  BY <1>1, <1>2, <1>4, <1>6, <1>9, <1>10, <1>11, <1>12, <1>14, <1>15

\* ProcessTransport begins a run that waits for no answer.
LEMMA PairProcessTransport ==
  ASSUME PairInv, NEW f \in Endpoint, ProcessTransport(f)
  PROVE  PairInv'
<1>1. /\ Push(f, Waits(c_invalid_id, TRUE))
      /\ UNCHANGED <<inbox, m_data_incoming_call, m_id_data_return, m_incremental_id, cancel_wait_respond, left>>
  BY DEF ProcessTransport, queues
<1>2. /\ stack' \in [Endpoint -> Seq(RunFrame)]
      /\ stack'[f][Len(stack[f]) + 1] = Waits(c_invalid_id, TRUE)
      /\ \A e \in Endpoint : \A n : TimesRun(stack'[e], n) = TimesRun(stack[e], n)
      /\ \A e \in Endpoint : \A i \in DOMAIN stack[e] : i \in DOMAIN stack'[e] /\ stack'[e][i] = stack[e][i]
      /\ \A e \in Endpoint : \A i \in DOMAIN stack'[e] :
             i \in DOMAIN stack[e] \/ (e = f /\ i = Len(stack[f]) + 1)
      /\ \A e \in Endpoint : \A n : Awaits(e, n)' <=> Awaits(e, n)
  BY <1>1, StackPush DEF PairInv
<1>3. PairTypes'
  BY <1>1, <1>2 DEF PairInv, PairTypes
<1>4. \A e \in Endpoint : \A i \in DOMAIN stack'[e] :
          \/ stack'[e][i].wait_response_id = c_invalid_id
          \/ i \in DOMAIN stack[e] /\ stack'[e][i].wait_response_id = stack[e][i].wait_response_id
  BY <1>2 DEF Waits
<1>5. ASSUME NEW e \in Endpoint, NEW id \in Ids
      PROVE  Places(e, id)' = Places(e, id) /\ Places(e, id) \in Nat
  <2>1. /\ Sent(e, id)' = Sent(e, id) /\ Queued(e, id)' = Queued(e, id) /\ Replied(e, id)' = Replied(e, id)
        /\ Running(e, id)' = Running(e, id) /\ Kept(e, id)' = Kept(e, id)
    BY <1>1, <1>2, Peers DEF Sent, Queued, Replied, Running, Kept
  <2>2. Places(e, id) \in Nat
    BY PlacesNat DEF PairInv
  <2>3. QED
    BY <2>1, <2>2 DEF Places
<1>6. \A e \in Endpoint : \A c : HasCall(e, c)' => HasCall(e, c)
  <2>1. NoCall \notin IncomingPacket
    BY DEF NoCall, IncomingPacket, IncomingType
  <2>2. \A e \in Endpoint : \A i \in DOMAIN stack'[e] :
            stack'[e][i].call = NoCall \/ (i \in DOMAIN stack[e] /\ stack'[e][i] = stack[e][i])
    BY <1>2 DEF Waits
  <2>3. QED
    BY <2>1, <2>2, <1>1 DEF HasCall
<1>7. \A e \in Endpoint : \A id \in Ids : HasAnswer(e, id)' => HasAnswer(e, id)
  BY <1>1 DEF HasAnswer
<1>8. c_invalid_id \notin Ids /\ c_invalid_id \notin m_id_data_return'[f]
  BY <1>3 DEF PairTypes, Ids, c_invalid_id
<1>9. QED
  BY <1>1, <1>2, <1>3, <1>4, <1>5, <1>6, <1>7, <1>8, StepKeeps

\* CancelWaitRespond only sets the flag.
LEMMA PairCancelWaitRespond ==
  ASSUME PairInv, NEW f \in Endpoint, CancelWaitRespond(f)
  PROVE  PairInv'
<1>1. /\ UNCHANGED <<stack, inbox, m_data_incoming_call, m_id_data_return, m_incremental_id, left>>
      /\ cancel_wait_respond' = [cancel_wait_respond EXCEPT ![f] = TRUE]
  BY DEF CancelWaitRespond, queues
<1>2. PairTypes' /\ \A e \in Endpoint : cancel_wait_respond[e] => cancel_wait_respond'[e]
  BY <1>1 DEF PairInv, PairTypes
<1>3. \A e \in Endpoint : \A id \in Ids : Awaits(e, id)' <=> Awaits(e, id)
  BY <1>1 DEF Awaits
<1>4. \A e \in Endpoint : \A id \in Ids : Places(e, id)' = Places(e, id)
  BY <1>1 DEF Places, Sent, Queued, Running, Replied, Kept
<1>5. AtOnePlace' /\ AwaitedOnce' /\ FreshIds'
  BY <1>1, <1>3, <1>4 DEF PairInv, AtOnePlace, AwaitedOnce, FreshIds
<1>6. \A e \in Endpoint : \A c : HasCall(e, c)' <=> HasCall(e, c)
  BY <1>1 DEF HasCall
<1>7. \A e \in Endpoint : \A id \in Ids : HasAnswer(e, id)' <=> HasAnswer(e, id)
  BY <1>1 DEF HasAnswer
<1>8. \A c \in IncomingPacket : c.id \in Ids
  BY DEF IncomingPacket, Packet
<1>9. CallsAnswered' /\ AnswersAwaited'
  BY <1>1, <1>2, <1>3, <1>6, <1>7, <1>8, Peers DEF PairInv, CallsAnswered, AnswersAwaited
<1>10. QED
  BY <1>2, <1>5, <1>9 DEF PairInv

-----------------------------------------------------------------------------
(* What the actions do to the queues of packets                            *)

AppendAt(queue, p, packet) == [queue EXCEPT ![p] = Append(@, packet)]
TailAt(queue, p) == [queue EXCEPT ![p] = Tail(@)]

\* One endpoint is sent one packet more.
LEMMA AppendedAt ==
  ASSUME NEW T, NEW q \in [Endpoint -> Seq(T)], NEW p \in Endpoint, NEW x \in T
  PROVE  /\ AppendAt(q, p, x) \in [Endpoint -> Seq(T)]
         /\ \A e \in Endpoint : e # p => AppendAt(q, p, x)[e] = q[e]
         /\ \A types, id : Times(AppendAt(q, p, x)[p], types, id) = Times(q[p], types, id) + One(Matches(x, types, id))
         /\ \A types, id : Times(q[p], types, id) \in Nat
         /\ \A e \in Endpoint : \A i \in DOMAIN q[e] :
                i \in DOMAIN AppendAt(q, p, x)[e] /\ AppendAt(q, p, x)[e][i] = q[e][i]
         /\ \A e \in Endpoint : \A i \in DOMAIN AppendAt(q, p, x)[e] :
                (i \in DOMAIN q[e] /\ AppendAt(q, p, x)[e][i] = q[e][i]) \/ (e = p /\ AppendAt(q, p, x)[e][i] = x)
<1>1. /\ AppendAt(q, p, x) \in [Endpoint -> Seq(T)] /\ AppendAt(q, p, x)[p] = Append(q[p], x)
      /\ \A e \in Endpoint : e # p => AppendAt(q, p, x)[e] = q[e]
  BY DEF AppendAt
<1>2. \A types, id : Times(Append(q[p], x), types, id) = Times(q[p], types, id) + One(Matches(x, types, id))
  BY TimesAppend
<1>3. \A types, id : Times(q[p], types, id) \in Nat
  BY TimesNat
<1>4. /\ Len(q[p]) \in Nat
      /\ DOMAIN q[p] = 1 .. Len(q[p]) /\ DOMAIN Append(q[p], x) = 1 .. Len(q[p]) + 1
      /\ \A i \in DOMAIN q[p] : Append(q[p], x)[i] = q[p][i]
      /\ Append(q[p], x)[Len(q[p]) + 1] = x
  BY Appended
<1>5. ASSUME NEW e \in Endpoint, NEW i \in DOMAIN q[e]
      PROVE  i \in DOMAIN AppendAt(q, p, x)[e] /\ AppendAt(q, p, x)[e][i] = q[e][i]
  <2>1. CASE e # p
    BY <1>1, <2>1
  <2>2. CASE e = p
    <3>1. i \in DOMAIN q[p] /\ i \in 1 .. Len(q[p]) + 1
      BY <1>4, <2>2
    <3>2. QED
      BY <1>1, <1>4, <2>2, <3>1
  <2>3. QED
    BY <2>1, <2>2
<1>6. ASSUME NEW e \in Endpoint, NEW i \in DOMAIN AppendAt(q, p, x)[e], ~(e = p /\ AppendAt(q, p, x)[e][i] = x)
      PROVE  i \in DOMAIN q[e] /\ AppendAt(q, p, x)[e][i] = q[e][i]
  <2>1. CASE e # p
    BY <1>1, <2>1
  <2>2. CASE e = p
    <3>1. i \in 1 .. Len(q[p]) + 1 /\ i # Len(q[p]) + 1
      BY <1>1, <1>4, <1>6, <2>2
    <3>2. i \in DOMAIN q[p]
      BY <1>4, <3>1
    <3>3. QED
      BY <1>1, <1>4, <2>2, <3>2
  <2>3. QED
    BY <2>1, <2>2
<1>7. QED
  BY <1>1, <1>2, <1>3, <1>5, <1>6

\* One endpoint takes the first packet of its queue.
LEMMA TookAt ==
  ASSUME NEW T, NEW q \in [Endpoint -> Seq(T)], NEW p \in Endpoint, q[p] # <<>>
  PROVE  /\ TailAt(q, p) \in [Endpoint -> Seq(T)] /\ Head(q[p]) \in T
         /\ \A e \in Endpoint : e # p => TailAt(q, p)[e] = q[e]
         /\ \A types, id : Times(q[p], types, id) = Times(TailAt(q, p)[p], types, id) + One(Matches(Head(q[p]), types, id))
         /\ \A types, id : Times(TailAt(q, p)[p], types, id) \in Nat
         /\ \E i \in DOMAIN q[p] : q[p][i] = Head(q[p])
         /\ \A e \in Endpoint : \A i \in DOMAIN TailAt(q, p)[e] :
                \E j \in DOMAIN q[e] : TailAt(q, p)[e][i] = q[e][j]
<1>1. /\ Tail(q[p]) \in Seq(T) /\ Head(q[p]) = q[p][1] /\ Head(q[p]) \in T
      /\ Len(q[p]) \in Nat \ {0} /\ DOMAIN q[p] = 1 .. Len(q[p]) /\ DOMAIN Tail(q[p]) = 1 .. Len(q[p]) - 1
      /\ \A i \in 1 .. Len(q[p]) - 1 : Tail(q[p])[i] = q[p][i + 1]
  BY Taken
<1>2. /\ TailAt(q, p) \in [Endpoint -> Seq(T)] /\ TailAt(q, p)[p] = Tail(q[p])
      /\ \A e \in Endpoint : e # p => TailAt(q, p)[e] = q[e]
  BY <1>1 DEF TailAt
<1>3. \A types, id : Times(q[p], types, id) = Times(Tail(q[p]), types, id) + One(Matches(Head(q[p]), types, id))
  BY TimesTail
<1>4. \A types, id : Times(Tail(q[p]), types, id) \in Nat
  BY <1>1, TimesNat
<1>5. \E i \in DOMAIN q[p] : q[p][i] = Head(q[p])
  BY <1>1
<1>6. \A i \in DOMAIN Tail(q[p]) : i + 1 \in DOMAIN q[p] /\ Tail(q[p])[i] = q[p][i + 1]
  BY <1>1
<1>7. \A e \in Endpoint : \A i \in DOMAIN TailAt(q, p)[e] : \E j \in DOMAIN q[e] : TailAt(q, p)[e][i] = q[e][j]
  BY <1>2, <1>6
<1>8. QED
  BY <1>1, <1>2, <1>3, <1>4, <1>5, <1>7

\* The answer to a call.
Answer(type, id) == [type |-> type, id |-> id, send_return |-> FALSE, depth |-> 0]

\* An answer counts for its id among the answers and nowhere else.
LEMMA AnswerFacts ==
  ASSUME NEW type \in ResponseType, NEW id \in Ids
  PROVE  /\ Answer(type, id) \in Packet /\ Answer(type, id) \notin IncomingPacket
         /\ Answer(type, id).id = id /\ Answer(type, id).type \in ResponseType
         /\ \A n : Matches(Answer(type, id), ResponseType, n) <=> n = id
         /\ \A n : ~Matches(Answer(type, id), IncomingType, n)
<1>1. MaxDepth \in Nat
  BY PairConstants
<1>2. Answer(type, id) \in Packet
  BY <1>1 DEF Answer, Packet
<1>3. type \notin IncomingType
  BY DEF IncomingType, ResponseType
<1>4. QED
  BY <1>2, <1>3 DEF Answer, IncomingPacket, Matches

\* A call counts for its id among the calls and nowhere else.
LEMMA IncomingFacts ==
  ASSUME NEW c \in IncomingPacket
  PROVE  /\ c \in Packet /\ c.id \in Ids /\ c # NoCall /\ c \in Runnable /\ c.type \in IncomingType
         /\ \A n : IsCall(c, n) <=> n = c.id
         /\ \A n : Matches(c, IncomingType, n) <=> n = c.id
         /\ \A n : ~Matches(c, ResponseType, n)
BY DEF IncomingPacket, Packet, NoCall, Runnable, IsCall, Matches, IncomingType, ResponseType

\* The answer to a call of the peer is written.
LEMMA AnswerWritten ==
  ASSUME PairInv, NEW f \in Endpoint, NEW c \in IncomingPacket, NEW type \in ResponseType,
         HasCall(f, c), c.send_return, Write(f, Answer(type, c.id))
  PROVE  /\ inbox' \in [Endpoint -> Seq(Packet)]
         /\ \A e \in Endpoint : \A id : Sent(e, id)' = Sent(e, id)
         /\ \A id : Replied(f, id)' = Replied(f, id)
         /\ \A id : Replied(Peer(f), id)' = Replied(Peer(f), id) + One(id = c.id)
         /\ \A e \in Endpoint : \A x \in IncomingPacket :
                (\E i \in DOMAIN inbox'[e] : inbox'[e][i] = x) => HasCall(e, x)
         /\ \A e \in Endpoint : \A id \in Ids :
                HasAnswer(e, id)' => \/ HasAnswer(e, id)
                                     \/ \E x : HasCall(Peer(e), x) /\ x.id = id /\ x.send_return
<1>1. PICK r : r = Answer(type, c.id)
  OBVIOUS
<1>2. /\ r \in Packet /\ r \notin IncomingPacket /\ r.id = c.id /\ r.type \in ResponseType
      /\ \A n : Matches(r, ResponseType, n) <=> n = c.id
      /\ \A n : ~Matches(r, IncomingType, n)
  BY <1>1, AnswerFacts, IncomingFacts
<1>3. inbox' = AppendAt(inbox, Peer(f), r) /\ inbox \in [Endpoint -> Seq(Packet)]
  BY <1>1 DEF Write, AppendAt, PairInv, PairTypes
<1>4. Peer(f) \in Endpoint /\ Peer(f) # f /\ Peer(Peer(f)) = f /\ \A e \in Endpoint : e = f \/ e = Peer(f)
  BY Peers
<1>5. /\ inbox' \in [Endpoint -> Seq(Packet)]
      /\ \A e \in Endpoint : e # Peer(f) => inbox'[e] = inbox[e]
      /\ \A types, id : Times(inbox'[Peer(f)], types, id) = Times(inbox[Peer(f)], types, id) + One(Matches(r, types, id))
      /\ \A types, id : Times(inbox[Peer(f)], types, id) \in Nat
      /\ \A e \in Endpoint : \A i \in DOMAIN inbox'[e] :
             (i \in DOMAIN inbox[e] /\ inbox'[e][i] = inbox[e][i]) \/ (e = Peer(f) /\ inbox'[e][i] = r)
  <2>1. PICK q, p : q = inbox /\ p = Peer(f)
    OBVIOUS
  <2>2. inbox' = AppendAt(q, p, r) /\ q \in [Endpoint -> Seq(Packet)] /\ p \in Endpoint
    BY <1>3, <1>4, <2>1
  <2>3. /\ AppendAt(q, p, r) \in [Endpoint -> Seq(Packet)]
        /\ \A e \in Endpoint : e # p => AppendAt(q, p, r)[e] = q[e]
        /\ \A types, id : Times(AppendAt(q, p, r)[p], types, id) = Times(q[p], types, id) + One(Matches(r, types, id))
        /\ \A types, id : Times(q[p], types, id) \in Nat
        /\ \A e \in Endpoint : \A i \in DOMAIN AppendAt(q, p, r)[e] :
               (i \in DOMAIN q[e] /\ AppendAt(q, p, r)[e][i] = q[e][i]) \/ (e = p /\ AppendAt(q, p, r)[e][i] = r)
    <3>1. r \in Packet
      BY <1>2
    <3>2. AppendAt(q, p, r) \in [Endpoint -> Seq(Packet)]
      BY <3>1, <2>2, AppendedAt
    <3>3. \A e \in Endpoint : e # p => AppendAt(q, p, r)[e] = q[e]
      BY <3>1, <2>2, AppendedAt
    <3>4. \A types, id : Times(AppendAt(q, p, r)[p], types, id) = Times(q[p], types, id) + One(Matches(r, types, id))
      BY <3>1, <2>2, AppendedAt
    <3>5. \A types, id : Times(q[p], types, id) \in Nat
      BY <3>1, <2>2, AppendedAt
    <3>6. \A e \in Endpoint : \A i \in DOMAIN AppendAt(q, p, r)[e] :
              (i \in DOMAIN q[e] /\ AppendAt(q, p, r)[e][i] = q[e][i]) \/ (e = p /\ AppendAt(q, p, r)[e][i] = r)
      BY <3>1, <2>2, AppendedAt
    <3>7. QED
      BY <3>2, <3>3, <3>4, <3>5, <3>6
  <2>4. QED
    BY <2>1, <2>2, <2>3
<1>6. ASSUME NEW e \in Endpoint, NEW id PROVE Sent(e, id)' = Sent(e, id)
  <2>1. CASE e = Peer(f)
    BY <2>1, <1>4, <1>5 DEF Sent
  <2>2. CASE e = f
    <3>1. One(Matches(r, IncomingType, id)) = 0
      BY <1>2 DEF One
    <3>2. QED
      BY <2>2, <3>1, <1>5 DEF Sent
  <2>3. QED
    BY <2>1, <2>2, <1>4
<1>7. \A id : Replied(f, id)' = Replied(f, id)
  BY <1>4, <1>5 DEF Replied
<1>8. ASSUME NEW id PROVE Replied(Peer(f), id)' = Replied(Peer(f), id) + One(id = c.id)
  <2>1. One(Matches(r, ResponseType, id)) = One(id = c.id)
    BY <1>2 DEF One
  <2>2. QED
    BY <2>1, <1>5 DEF Replied
<1>9. \A e \in Endpoint : \A x \in IncomingPacket : (\E i \in DOMAIN inbox'[e] : inbox'[e][i] = x) => HasCall(e, x)
  BY <1>2, <1>5 DEF HasCall
<1>10. ASSUME NEW e \in Endpoint, NEW id \in Ids, HasAnswer(e, id)', ~HasAnswer(e, id)
       PROVE  \E x : HasCall(Peer(e), x) /\ x.id = id /\ x.send_return
  <2>1. PICK i \in DOMAIN inbox'[e] : inbox'[e][i].type \in ResponseType /\ inbox'[e][i].id = id
    BY <1>10 DEF HasAnswer
  <2>2. e = Peer(f) /\ inbox'[e][i] = r
    BY <2>1, <1>5, <1>10 DEF HasAnswer
  <2>3. QED
    BY <2>1, <2>2, <1>2, <1>4
<1>11. QED
  BY <1>5, <1>6, <1>7, <1>8, <1>9, <1>10

\* The call that is queued first is run or, an enumeration, answered.
LEMMA PairTakeIncoming ==
  ASSUME PairInv, NEW f \in Endpoint, TakeIncoming(f)
  PROVE  PairInv'
<1>1. PICK c : c = Head(m_data_incoming_call[f])
  OBVIOUS
<1>2. /\ InWait(f) /\ m_data_incoming_call[f] # <<>>
      /\ m_data_incoming_call' = TailAt(m_data_incoming_call, f)
      /\ UNCHANGED <<m_id_data_return, m_incremental_id, cancel_wait_respond, left>>
      /\ \/ c.type = "pt_enumerate" /\ Write(f, Answer("pt_return_enumerate", c.id)) /\ UNCHANGED stack
         \/ c.type # "pt_enumerate" /\ SetCall(f, c) /\ UNCHANGED inbox
  BY <1>1 DEF TakeIncoming, CallQueued, TailAt, Answer
<1>3. PairTypes /\ m_data_incoming_call \in [Endpoint -> Seq(IncomingPacket)]
  BY DEF PairInv, PairTypes
<1>4. Peer(f) \in Endpoint /\ Peer(f) # f /\ Peer(Peer(f)) = f /\ \A e \in Endpoint : e = f \/ e = Peer(f)
  BY Peers
<1>5. /\ m_data_incoming_call' \in [Endpoint -> Seq(IncomingPacket)] /\ c \in IncomingPacket
      /\ \A e \in Endpoint : e # f => m_data_incoming_call'[e] = m_data_incoming_call[e]
      /\ \A types, id : Times(m_data_incoming_call[f], types, id)
                            = Times(m_data_incoming_call'[f], types, id) + One(Matches(c, types, id))
      /\ \A types, id : Times(m_data_incoming_call'[f], types, id) \in Nat
      /\ \E i \in DOMAIN m_data_incoming_call[f] : m_data_incoming_call[f][i] = c
      /\ \A e \in Endpoint : \A i \in DOMAIN m_data_incoming_call'[e] :
             \E j \in DOMAIN m_data_incoming_call[e] : m_data_incoming_call'[e][i] = m_data_incoming_call[e][j]
  <2>1. PICK q : q = m_data_incoming_call
    OBVIOUS
  <2>2. m_data_incoming_call' = TailAt(q, f) /\ q \in [Endpoint -> Seq(IncomingPacket)] /\ q[f] # <<>>
    BY <1>2, <1>3, <2>1
  <2>3. /\ TailAt(q, f) \in [Endpoint -> Seq(IncomingPacket)] /\ Head(q[f]) \in IncomingPacket
        /\ \A e \in Endpoint : e # f => TailAt(q, f)[e] = q[e]
        /\ \A types, id : Times(q[f], types, id) = Times(TailAt(q, f)[f], types, id) + One(Matches(Head(q[f]), types, id))
        /\ \A types, id : Times(TailAt(q, f)[f], types, id) \in Nat
        /\ \E i \in DOMAIN q[f] : q[f][i] = Head(q[f])
        /\ \A e \in Endpoint : \A i \in DOMAIN TailAt(q, f)[e] : \E j \in DOMAIN q[e] : TailAt(q, f)[e][i] = q[e][j]
    BY <2>2, TookAt
  <2>4. QED
    BY <1>1, <2>1, <2>2, <2>3
<1>6. HasCall(f, c) /\ c.id \in Ids /\ c # NoCall /\ c \in Runnable
  BY <1>5, IncomingFacts DEF HasCall
<1>7. \A id : Queued(f, id)' = Queued(f, id)
  BY <1>4, <1>5 DEF Queued
<1>8. ASSUME NEW id PROVE Queued(Peer(f), id) = Queued(Peer(f), id)' + One(id = c.id)
  <2>1. One(Matches(c, IncomingType, id)) = One(id = c.id)
    BY <1>5, IncomingFacts DEF One
  <2>2. QED
    BY <2>1, <1>4, <1>5 DEF Queued
<1>9. \A e \in Endpoint : \A x \in IncomingPacket :
          (\E i \in DOMAIN m_data_incoming_call'[e] : m_data_incoming_call'[e][i] = x) => HasCall(e, x)
  BY <1>5 DEF HasCall
<1>10. \A e \in Endpoint : \A id : Kept(e, id)' = Kept(e, id) /\ Kept(e, id) \in 0 .. 1
  BY <1>2 DEF Kept, One
<1>11. c_invalid_id \notin Ids /\ \A e \in Endpoint : c_invalid_id \notin m_id_data_return[e]
  BY <1>3 DEF PairTypes, Ids, c_invalid_id
<1>12. \A e \in Endpoint : \A id \in Ids : Places(e, id) \in Nat
  BY PlacesNat DEF PairInv
<1>13. CASE c.type = "pt_enumerate" /\ Write(f, Answer("pt_return_enumerate", c.id)) /\ UNCHANGED stack
  <2>1. c.send_return
    BY <1>4, <1>5, <1>6, <1>13 DEF PairInv, CallsAnswered
  <2>2. "pt_return_enumerate" \in ResponseType
    BY DEF ResponseType
  <2>3. /\ inbox' \in [Endpoint -> Seq(Packet)]
        /\ \A e \in Endpoint : \A id : Sent(e, id)' = Sent(e, id)
        /\ \A id : Replied(f, id)' = Replied(f, id)
        /\ \A id : Replied(Peer(f), id)' = Replied(Peer(f), id) + One(id = c.id)
        /\ \A e \in Endpoint : \A x \in IncomingPacket :
               (\E i \in DOMAIN inbox'[e] : inbox'[e][i] = x) => HasCall(e, x)
        /\ \A e \in Endpoint : \A id \in Ids :
               HasAnswer(e, id)' => \/ HasAnswer(e, id)
                                    \/ \E x : HasCall(Peer(e), x) /\ x.id = id /\ x.send_return
    BY <1>5, <1>6, <1>13, <2>1, <2>2, AnswerWritten
  <2>4. PairTypes'
    BY <1>2, <1>3, <1>5, <1>13, <2>3 DEF PairTypes
  <2>5. ASSUME NEW e \in Endpoint, NEW id \in Ids PROVE Places(e, id)' = Places(e, id)
    <3>1. Running(e, id)' = Running(e, id)
      BY <1>13 DEF Running
    <3>2. /\ Sent(e, id) \in Nat /\ Queued(e, id) \in Nat /\ Running(e, id) \in Nat /\ Replied(e, id) \in Nat
      BY <1>3, PlacesNat
    <3>3. CASE e = f
      BY <3>1, <3>3, <1>7, <1>10, <2>3 DEF Places
    <3>4. CASE e = Peer(f)
      <4>1. Queued(e, id)' \in Nat
        BY <1>4, <1>5, <3>4 DEF Queued
      <4>2. One(id = c.id) \in 0 .. 1
        BY DEF One
      <4>3. QED
        BY <3>1, <3>2, <3>4, <4>1, <4>2, <1>8, <1>10, <2>3 DEF Places
    <3>5. QED
      BY <3>3, <3>4, <1>4
  <2>6. \A e \in Endpoint : \A x : HasCall(e, x)' => HasCall(e, x)
    BY <1>9, <1>13, <2>3 DEF HasCall
  <2>7. \A e \in Endpoint : \A id : Awaits(e, id)' <=> Awaits(e, id)
    BY <1>13 DEF Awaits
  <2>8. QED
    BY <1>2, <1>11, <1>12, <1>13, <2>3, <2>4, <2>5, <2>6, <2>7, StepKeeps
<1>14. CASE SetCall(f, c) /\ UNCHANGED inbox
  <2>1. ~Idle(f) /\ Top(f).call = NoCall
    BY <1>2 DEF InWait
  <2>2. /\ stack' \in [Endpoint -> Seq(RunFrame)]
        /\ \A e \in Endpoint : e # f => stack'[e] = stack[e]
        /\ \A e \in Endpoint : DOMAIN stack'[e] = DOMAIN stack[e]
        /\ \A e \in Endpoint : \A i \in DOMAIN stack[e] :
               /\ stack'[e][i].wait_response_id = stack[e][i].wait_response_id
               /\ e = f /\ i = Len(stack[f]) => stack'[e][i].call = c
               /\ ~(e = f /\ i = Len(stack[f])) => stack'[e][i] = stack[e][i]
        /\ \A id : TimesRun(stack'[f], id) + One(IsCall(Top(f).call, id)) = TimesRun(stack[f], id) + One(IsCall(c, id))
        /\ \A e \in Endpoint : \A id : Awaits(e, id)' <=> Awaits(e, id)
    BY <1>3, <1>6, <1>14, <2>1, StackSetCall
  <2>3. PairTypes'
    BY <1>2, <1>3, <1>5, <1>14, <2>2 DEF PairTypes
  <2>4. ASSUME NEW e \in Endpoint, NEW id \in Ids PROVE Places(e, id)' = Places(e, id)
    <3>1. /\ Sent(e, id) \in Nat /\ Queued(e, id) \in Nat /\ Running(e, id) \in Nat /\ Replied(e, id) \in Nat
      BY <1>3, PlacesNat
    <3>2. Sent(e, id)' = Sent(e, id) /\ Replied(e, id)' = Replied(e, id)
      BY <1>14 DEF Sent, Replied
    <3>3. CASE e = f
      <4>1. Running(e, id)' = Running(e, id)
        BY <1>4, <2>2, <3>3 DEF Running
      <4>2. QED
        BY <3>2, <3>3, <4>1, <1>7, <1>10 DEF Places
    <3>4. CASE e = Peer(f)
      <4>1. Queued(e, id)' \in Nat
        BY <1>4, <1>5, <3>4 DEF Queued
      <4>2. One(IsCall(c, id)) = One(id = c.id) /\ One(IsCall(Top(f).call, id)) = 0 /\ One(id = c.id) \in 0 .. 1
        BY <1>5, <2>1, IncomingFacts, NoCallMatches DEF One, IsCall
      <4>3. TimesRun(stack'[f], id) \in Nat
        BY <2>2, TimesRunNat
      <4>4. Running(e, id)' = Running(e, id) + One(id = c.id)
        BY <1>4, <2>2, <3>1, <3>4, <4>2, <4>3 DEF Running
      <4>5. QED
        BY <3>1, <3>2, <3>4, <4>1, <4>2, <4>4, <1>8, <1>10 DEF Places
    <3>5. QED
      BY <3>3, <3>4, <1>4
  <2>5. \A e \in Endpoint : \A x \in IncomingPacket : (\E i \in DOMAIN stack'[e] : stack'[e][i].call = x) => HasCall(e, x)
    BY <1>6, <2>2 DEF HasCall
  <2>6. \A e \in Endpoint : \A x : HasCall(e, x)' => HasCall(e, x)
    BY <1>9, <1>14, <2>5 DEF HasCall
  <2>7. \A e \in Endpoint : \A id : HasAnswer(e, id)' => HasAnswer(e, id)
    BY <1>14 DEF HasAnswer
  <2>8. QED
    BY <1>2, <1>11, <1>12, <2>2, <2>3, <2>4, <2>6, <2>7, StepKeeps
<1>15. QED
  BY <1>2, <1>13, <1>14

\* A handler returns; its call is answered if it is to be.
LEMMA PairHandlerReturns ==
  ASSUME PairInv, NEW f \in Endpoint, HandlerReturns(f)
  PROVE  PairInv'
<1>1. PICK c : c = Top(f).call
  OBVIOUS
<1>2. /\ ~Idle(f) /\ c # NoCall /\ SetCall(f, NoCall)
      /\ UNCHANGED <<m_data_incoming_call, m_id_data_return, m_incremental_id, cancel_wait_respond, left>>
      /\ \/ c.send_return /\ Write(f, Answer("pt_return", c.id))
         \/ ~c.send_return /\ UNCHANGED inbox
  BY <1>1 DEF HandlerReturns, InHandler, SendsReturn, Answer, queues
<1>3. PairTypes
  BY DEF PairInv
<1>4. Peer(f) \in Endpoint /\ Peer(f) # f /\ Peer(Peer(f)) = f /\ \A e \in Endpoint : e = f \/ e = Peer(f)
  BY Peers
<1>5. c \in IncomingPacket /\ HasCall(f, c)
  <2>1. c \in IncomingPacket
    BY <1>1, <1>2, <1>3, TopFrame DEF Runnable
  <2>2. Len(stack[f]) \in DOMAIN stack[f] /\ stack[f][Len(stack[f])].call = c
    BY <1>1, <1>2, <1>3, TopFrame DEF Top
  <2>3. QED
    BY <2>1, <2>2 DEF HasCall
<1>6. /\ stack' \in [Endpoint -> Seq(RunFrame)]
      /\ \A e \in Endpoint : e # f => stack'[e] = stack[e]
      /\ \A e \in Endpoint : DOMAIN stack'[e] = DOMAIN stack[e]
      /\ \A e \in Endpoint : \A i \in DOMAIN stack[e] :
             /\ stack'[e][i].wait_response_id = stack[e][i].wait_response_id
             /\ e = f /\ i = Len(stack[f]) => stack'[e][i].call = NoCall
             /\ ~(e = f /\ i = Len(stack[f])) => stack'[e][i] = stack[e][i]
      /\ \A id : TimesRun(stack'[f], id) + One(IsCall(Top(f).call, id)) = TimesRun(stack[f], id) + One(IsCall(NoCall, id))
      /\ \A e \in Endpoint : \A id : Awaits(e, id)' <=> Awaits(e, id)
  <2>1. NoCall \in Runnable
    BY DEF Runnable
  <2>2. QED
    BY <1>2, <1>3, <2>1, StackSetCall
<1>7. "pt_return" \in ResponseType
  BY DEF ResponseType
<1>8. /\ inbox' \in [Endpoint -> Seq(Packet)]
      /\ \A e \in Endpoint : \A id : Sent(e, id)' = Sent(e, id)
      /\ \A id : Replied(f, id)' = Replied(f, id)
      /\ \A id : Replied(Peer(f), id)' = Replied(Peer(f), id) + One(c.send_return /\ id = c.id)
      /\ \A e \in Endpoint : \A x \in IncomingPacket :
             (\E i \in DOMAIN inbox'[e] : inbox'[e][i] = x) => HasCall(e, x)
      /\ \A e \in Endpoint : \A id \in Ids :
             HasAnswer(e, id)' => \/ HasAnswer(e, id)
                                  \/ \E x : HasCall(Peer(e), x) /\ x.id = id /\ x.send_return
  <2>1. CASE c.send_return /\ Write(f, Answer("pt_return", c.id))
    <3>1. /\ inbox' \in [Endpoint -> Seq(Packet)]
          /\ \A e \in Endpoint : \A id : Sent(e, id)' = Sent(e, id)
          /\ \A id : Replied(f, id)' = Replied(f, id)
          /\ \A id : Replied(Peer(f), id)' = Replied(Peer(f), id) + One(id = c.id)
          /\ \A e \in Endpoint : \A x \in IncomingPacket :
                 (\E i \in DOMAIN inbox'[e] : inbox'[e][i] = x) => HasCall(e, x)
          /\ \A e \in Endpoint : \A id \in Ids :
                 HasAnswer(e, id)' => \/ HasAnswer(e, id)
                                      \/ \E x : HasCall(Peer(e), x) /\ x.id = id /\ x.send_return
      BY <1>5, <1>7, <2>1, AnswerWritten
    <3>2. \A id : One(c.send_return /\ id = c.id) = One(id = c.id)
      BY <2>1 DEF One
    <3>3. QED
      BY <3>1, <3>2
  <2>2. CASE ~c.send_return /\ UNCHANGED inbox
    <3>1. \A id : One(c.send_return /\ id = c.id) = 0
      BY <2>2 DEF One
    <3>2. \A id : Replied(Peer(f), id) \in Nat
      BY <1>3, <1>4, PlacesNat
    <3>3. inbox' = inbox /\ inbox \in [Endpoint -> Seq(Packet)]
      BY <1>3, <2>2 DEF PairTypes
    <3>4. \A e \in Endpoint : \A id : Sent(e, id)' = Sent(e, id) /\ Replied(e, id)' = Replied(e, id)
      BY <3>3 DEF Sent, Replied
    <3>5. \A id : Replied(Peer(f), id)' = Replied(Peer(f), id) + One(c.send_return /\ id = c.id)
      BY <1>4, <3>1, <3>2, <3>4
    <3>6. \A e \in Endpoint : \A x \in IncomingPacket :
              (\E i \in DOMAIN inbox'[e] : inbox'[e][i] = x) => HasCall(e, x)
      BY <3>3 DEF HasCall
    <3>7. \A e \in Endpoint : \A id : HasAnswer(e, id)' => HasAnswer(e, id)
      BY <3>3 DEF HasAnswer
    <3>8. QED
      BY <3>3, <3>4, <3>5, <3>6, <3>7
  <2>3. QED
    BY <1>2, <2>1, <2>2
<1>9. PairTypes'
  BY <1>2, <1>3, <1>6, <1>8 DEF PairTypes
<1>10. ASSUME NEW e \in Endpoint, NEW id \in Ids
       PROVE  Places(e, id)' =< Places(e, id) /\ (Awaits(e, id)' => Places(e, id)' = Places(e, id))
  <2>1. /\ Sent(e, id) \in Nat /\ Queued(e, id) \in Nat /\ Running(e, id) \in Nat /\ Replied(e, id) \in Nat
        /\ Kept(e, id) \in 0 .. 1
    BY <1>3, PlacesNat
  <2>2. Sent(e, id)' = Sent(e, id) /\ Queued(e, id)' = Queued(e, id) /\ Kept(e, id)' = Kept(e, id)
    BY <1>2, <1>8 DEF Queued, Kept
  <2>3. CASE e = f
    <3>1. Running(e, id)' = Running(e, id) /\ Replied(e, id)' = Replied(e, id)
      BY <1>4, <1>6, <1>8, <2>3 DEF Running
    <3>2. QED
      BY <2>1, <2>2, <3>1 DEF Places
  <2>4. CASE e = Peer(f)
    <3>1. One(IsCall(Top(f).call, id)) = One(id = c.id) /\ One(IsCall(NoCall, id)) = 0
      BY <1>1, <1>5, IncomingFacts, NoCallMatches DEF One, IsCall
    <3>2. Running(e, id)' \in Nat /\ Running(e, id)' + One(id = c.id) = Running(e, id)
      <4>1. TimesRun(stack'[f], id) \in Nat /\ TimesRun(stack[f], id) \in Nat
        BY <1>3, <1>6, TimesRunNat DEF PairTypes
      <4>2. QED
        BY <1>4, <1>6, <2>4, <3>1, <4>1 DEF Running
    <3>3. Replied(e, id)' = Replied(e, id) + One(c.send_return /\ id = c.id)
      BY <1>8, <2>4
    <3>4. /\ One(id = c.id) \in 0 .. 1 /\ One(c.send_return /\ id = c.id) \in 0 .. 1
          /\ One(c.send_return /\ id = c.id) =< One(id = c.id)
      BY DEF One
    <3>5. Awaits(e, id)' => One(c.send_return /\ id = c.id) = One(id = c.id)
      <4>1. Awaits(e, id)' /\ id = c.id => c.send_return
        BY <1>4, <1>5, <1>6, <2>4 DEF PairInv, CallsAnswered
      <4>2. QED
        BY <4>1 DEF One
    <3>6. QED
      BY <2>1, <2>2, <3>2, <3>3, <3>4, <3>5 DEF Places
  <2>5. QED
    BY <2>3, <2>4, <1>4
<1>11. \A e \in Endpoint : \A x : HasCall(e, x)' => HasCall(e, x)
  <2>1. NoCall \notin IncomingPacket
    BY DEF NoCall, IncomingPacket, IncomingType
  <2>2. \A e \in Endpoint : \A x \in IncomingPacket :
            (\E i \in DOMAIN stack'[e] : stack'[e][i].call = x) => HasCall(e, x)
    BY <1>6, <2>1 DEF HasCall
  <2>3. QED
    BY <1>2, <1>8, <2>2 DEF HasCall
<1>12. c_invalid_id \notin Ids /\ \A e \in Endpoint : c_invalid_id \notin m_id_data_return[e]
  BY <1>3 DEF PairTypes, Ids, c_invalid_id
<1>13. \A e \in Endpoint : \A i \in DOMAIN stack'[e] :
           i \in DOMAIN stack[e] /\ stack'[e][i].wait_response_id = stack[e][i].wait_response_id
  BY <1>6
<1>14. /\ c_invalid_id \notin m_id_data_return'[f] /\ m_incremental_id' = m_incremental_id
       /\ \A e \in Endpoint : cancel_wait_respond[e] => cancel_wait_respond'[e]
       /\ \A e \in Endpoint : \A id \in Ids : id \in m_id_data_return'[e] => id \in m_id_data_return[e]
       /\ \A e \in Endpoint : \A id \in Ids : Awaits(e, id) => Awaits(e, id)'
  BY <1>2, <1>6, <1>12
<1>15. QED
  BY <1>8, <1>9, <1>10, <1>11, <1>12, <1>13, <1>14, StepKeeps

\* A read leaves the stack as it is or ends a run that waits for nothing.
LEMMA ReadStack ==
  ASSUME PairInv, NEW f \in Endpoint, InWait(f),
         UNCHANGED stack \/ (Return(f) /\ Top(f).wait_response_id = c_invalid_id)
  PROVE  /\ stack' \in [Endpoint -> Seq(RunFrame)]
         /\ \A e \in Endpoint : \A id : TimesRun(stack'[e], id) = TimesRun(stack[e], id)
         /\ \A e \in Endpoint : \A i \in DOMAIN stack'[e] : i \in DOMAIN stack[e] /\ stack'[e][i] = stack[e][i]
         /\ \A e \in Endpoint : \A id \in Ids : Awaits(e, id)' <=> Awaits(e, id)
<1>1. CASE UNCHANGED stack
  BY <1>1 DEF PairInv, PairTypes, Awaits
<1>2. CASE Return(f) /\ Top(f).wait_response_id = c_invalid_id
  <2>1. /\ stack' \in [Endpoint -> Seq(RunFrame)]
        /\ \A e \in Endpoint : \A id : TimesRun(stack'[e], id) = TimesRun(stack[e], id)
        /\ \A e \in Endpoint : \A i \in DOMAIN stack'[e] : i \in DOMAIN stack[e] /\ stack'[e][i] = stack[e][i]
        /\ \A e \in Endpoint : \A id \in Ids :
               Awaits(e, id) => Awaits(e, id)' \/ (e = f /\ id = Top(f).wait_response_id)
    BY <1>2, StackReturn
  <2>2. \A e \in Endpoint : \A id \in Ids : Awaits(e, id)' => Awaits(e, id)
    BY <2>1 DEF Awaits
  <2>3. c_invalid_id \notin Ids
    BY DEF Ids, c_invalid_id
  <2>4. QED
    BY <1>2, <2>1, <2>2, <2>3
<1>3. QED
  BY <1>1, <1>2

\* The first packet leaves the transport.
LEMMA InboxRead ==
  ASSUME PairTypes, NEW f \in Endpoint, inbox[f] # <<>>, inbox' = TailAt(inbox, f)
  PROVE  /\ inbox' \in [Endpoint -> Seq(Packet)] /\ Head(inbox[f]) \in Packet
         /\ \A e \in Endpoint : e # f => inbox'[e] = inbox[e]
         /\ \A types, id : Times(inbox[f], types, id) = Times(inbox'[f], types, id) + One(Matches(Head(inbox[f]), types, id))
         /\ \A types, id : Times(inbox'[f], types, id) \in Nat
         /\ \E i \in DOMAIN inbox[f] : inbox[f][i] = Head(inbox[f])
         /\ \A e \in Endpoint : \A i \in DOMAIN inbox'[e] : \E j \in DOMAIN inbox[e] : inbox'[e][i] = inbox[e][j]
<1>1. PICK q : q = inbox
  OBVIOUS
<1>2. inbox' = TailAt(q, f) /\ q \in [Endpoint -> Seq(Packet)] /\ q[f] # <<>>
  BY <1>1 DEF PairTypes
<1>3. TailAt(q, f) \in [Endpoint -> Seq(Packet)] /\ Head(q[f]) \in Packet
  BY <1>2, TookAt
<1>4. \A e \in Endpoint : e # f => TailAt(q, f)[e] = q[e]
  BY <1>2, TookAt
<1>5. \A types, id : Times(q[f], types, id) = Times(TailAt(q, f)[f], types, id) + One(Matches(Head(q[f]), types, id))
  BY <1>2, TookAt
<1>6. \A types, id : Times(TailAt(q, f)[f], types, id) \in Nat
  BY <1>2, TookAt
<1>7. \E i \in DOMAIN q[f] : q[f][i] = Head(q[f])
  BY <1>2, TookAt
<1>8. \A e \in Endpoint : \A i \in DOMAIN TailAt(q, f)[e] : \E j \in DOMAIN q[e] : TailAt(q, f)[e][i] = q[e][j]
  BY <1>2, TookAt
<1>9. QED
  BY <1>1, <1>2, <1>3, <1>4, <1>5, <1>6, <1>7, <1>8

\* A call that was read is queued.
LEMMA IncomingQueued ==
  ASSUME PairTypes, NEW f \in Endpoint, NEW x \in IncomingPacket,
         m_data_incoming_call' = AppendAt(m_data_incoming_call, f, x)
  PROVE  /\ m_data_incoming_call' \in [Endpoint -> Seq(IncomingPacket)]
         /\ \A e \in Endpoint : e # f => m_data_incoming_call'[e] = m_data_incoming_call[e]
         /\ \A id : Times(m_data_incoming_call'[f], IncomingType, id)
                        = Times(m_data_incoming_call[f], IncomingType, id) + One(id = x.id)
         /\ \A e \in Endpoint : \A i \in DOMAIN m_data_incoming_call'[e] :
                \/ i \in DOMAIN m_data_incoming_call[e] /\ m_data_incoming_call'[e][i] = m_data_incoming_call[e][i]
                \/ e = f /\ m_data_incoming_call'[e][i] = x
<1>1. PICK q : q = m_data_incoming_call
  OBVIOUS
<1>2. m_data_incoming_call' = AppendAt(q, f, x) /\ q \in [Endpoint -> Seq(IncomingPacket)]
  BY <1>1 DEF PairTypes
<1>3. AppendAt(q, f, x) \in [Endpoint -> Seq(IncomingPacket)]
  BY <1>2, AppendedAt
<1>4. \A e \in Endpoint : e # f => AppendAt(q, f, x)[e] = q[e]
  BY <1>2, AppendedAt
<1>5. \A id : Times(AppendAt(q, f, x)[f], IncomingType, id)
                  = Times(q[f], IncomingType, id) + One(Matches(x, IncomingType, id))
  BY <1>2, AppendedAt
<1>6. \A e \in Endpoint : \A i \in DOMAIN AppendAt(q, f, x)[e] :
          (i \in DOMAIN q[e] /\ AppendAt(q, f, x)[e][i] = q[e][i]) \/ (e = f /\ AppendAt(q, f, x)[e][i] = x)
  BY <1>2, AppendedAt
<1>7. \A id : One(Matches(x, IncomingType, id)) = One(id = x.id)
  BY IncomingFacts DEF One
<1>8. QED
  BY <1>1, <1>2, <1>3, <1>4, <1>5, <1>6, <1>7

\* A packet that is read is queued as a call, or stored as an answer.
LEMMA PairReadPacket ==
  ASSUME PairInv, NEW f \in Endpoint, ReadPacket(f)
  PROVE  PairInv'
<1>1. PICK x : x = Head(inbox[f])
  OBVIOUS
<1>2. /\ InWait(f) /\ ~cancel_wait_respond[f] /\ inbox[f] # <<>> /\ inbox' = TailAt(inbox, f)
      /\ UNCHANGED <<m_incremental_id, cancel_wait_respond>>
      /\ \/ /\ x.type \in IncomingType /\ UNCHANGED m_id_data_return
            /\ m_data_incoming_call' = AppendAt(m_data_incoming_call, f, x)
            /\ left' = [left EXCEPT ![f] = @ \/ ~Top(f).process_incoming_calls]
         \/ /\ x.type \notin IncomingType /\ UNCHANGED <<m_data_incoming_call, left>>
            /\ m_id_data_return' = [m_id_data_return EXCEPT ![f] = @ \cup {x.id}]
  BY <1>1 DEF ReadPacket, Reads, TailAt, AppendAt, IsIncoming, StoreResponse
<1>3. PairTypes
  BY DEF PairInv
<1>4. Peer(f) \in Endpoint /\ Peer(f) # f /\ Peer(Peer(f)) = f /\ \A e \in Endpoint : e = f \/ e = Peer(f)
  BY Peers
<1>5. UNCHANGED stack \/ (Return(f) /\ Top(f).wait_response_id = c_invalid_id)
  BY DEF ReadPacket, ProcessMore
<1>6. /\ stack' \in [Endpoint -> Seq(RunFrame)]
      /\ \A e \in Endpoint : \A id : TimesRun(stack'[e], id) = TimesRun(stack[e], id)
      /\ \A e \in Endpoint : \A i \in DOMAIN stack'[e] : i \in DOMAIN stack[e] /\ stack'[e][i] = stack[e][i]
      /\ \A e \in Endpoint : \A id \in Ids : Awaits(e, id)' <=> Awaits(e, id)
  BY <1>2, <1>5, ReadStack
<1>7. /\ inbox' \in [Endpoint -> Seq(Packet)] /\ x \in Packet
      /\ \A e \in Endpoint : e # f => inbox'[e] = inbox[e]
      /\ \A types, id : Times(inbox[f], types, id) = Times(inbox'[f], types, id) + One(Matches(x, types, id))
      /\ \A types, id : Times(inbox'[f], types, id) \in Nat
      /\ \E i \in DOMAIN inbox[f] : inbox[f][i] = x
      /\ \A e \in Endpoint : \A i \in DOMAIN inbox'[e] : \E j \in DOMAIN inbox[e] : inbox'[e][i] = inbox[e][j]
  <2>1. /\ inbox' \in [Endpoint -> Seq(Packet)] /\ Head(inbox[f]) \in Packet
        /\ \A e \in Endpoint : e # f => inbox'[e] = inbox[e]
        /\ \A types, id : Times(inbox[f], types, id)
                              = Times(inbox'[f], types, id) + One(Matches(Head(inbox[f]), types, id))
        /\ \A types, id : Times(inbox'[f], types, id) \in Nat
        /\ \E i \in DOMAIN inbox[f] : inbox[f][i] = Head(inbox[f])
        /\ \A e \in Endpoint : \A i \in DOMAIN inbox'[e] : \E j \in DOMAIN inbox[e] : inbox'[e][i] = inbox[e][j]
    BY <1>2, <1>3, InboxRead
  <2>2. QED
    BY <1>1, <2>1
<1>8. \A e \in Endpoint : \A id : Running(e, id)' = Running(e, id)
  BY <1>4, <1>6 DEF Running
<1>9. \A e \in Endpoint : \A y \in IncomingPacket :
          /\ (\E i \in DOMAIN inbox'[e] : inbox'[e][i] = y) => HasCall(e, y)
          /\ (\E i \in DOMAIN stack'[e] : stack'[e][i].call = y) => HasCall(e, y)
  <2>1. \A e \in Endpoint : \A y \in IncomingPacket :
            (\E i \in DOMAIN inbox'[e] : inbox'[e][i] = y) => HasCall(e, y)
    BY <1>7 DEF HasCall
  <2>2. \A e \in Endpoint : \A y \in IncomingPacket :
            (\E i \in DOMAIN stack'[e] : stack'[e][i].call = y) => HasCall(e, y)
    BY <1>6 DEF HasCall
  <2>3. QED
    BY <2>1, <2>2
<1>10. \A e \in Endpoint : \A id : HasAnswer(e, id)' => HasAnswer(e, id)
  BY <1>7 DEF HasAnswer
<1>11. c_invalid_id \notin Ids
  BY DEF Ids, c_invalid_id
<1>12. ASSUME NEW e \in Endpoint, NEW id
       PROVE  /\ Sent(e, id) \in Nat /\ Queued(e, id) \in Nat /\ Running(e, id) \in Nat /\ Replied(e, id) \in Nat
              /\ Kept(e, id) \in 0 .. 1 /\ Places(e, id) \in Nat
  BY <1>3, PlacesNat
<1>13. CASE /\ x.type \in IncomingType /\ UNCHANGED m_id_data_return
            /\ m_data_incoming_call' = AppendAt(m_data_incoming_call, f, x)
            /\ left' = [left EXCEPT ![f] = @ \/ ~Top(f).process_incoming_calls]
  <2>1. x \in IncomingPacket
    BY <1>7, <1>13 DEF IncomingPacket
  <2>2. /\ m_data_incoming_call' \in [Endpoint -> Seq(IncomingPacket)]
        /\ \A e \in Endpoint : e # f => m_data_incoming_call'[e] = m_data_incoming_call[e]
        /\ \A id : Times(m_data_incoming_call'[f], IncomingType, id)
                       = Times(m_data_incoming_call[f], IncomingType, id) + One(id = x.id)
        /\ \A e \in Endpoint : \A i \in DOMAIN m_data_incoming_call'[e] :
               \/ i \in DOMAIN m_data_incoming_call[e] /\ m_data_incoming_call'[e][i] = m_data_incoming_call[e][i]
               \/ e = f /\ m_data_incoming_call'[e][i] = x
    BY <1>3, <1>13, <2>1, IncomingQueued
  <2>3. PairTypes'
    <3>1. left' \in [Endpoint -> BOOLEAN]
      BY <1>3, <1>13 DEF PairTypes
    <3>2. QED
      BY <1>2, <1>3, <1>6, <1>7, <1>13, <2>2, <3>1 DEF PairTypes
  <2>4. ASSUME NEW e \in Endpoint, NEW id \in Ids PROVE Places(e, id)' = Places(e, id)
    <3>1. Kept(e, id)' = Kept(e, id)
      BY <1>13 DEF Kept
    <3>2. One(Matches(x, ResponseType, id)) = 0 /\ One(Matches(x, IncomingType, id)) = One(id = x.id)
          /\ One(id = x.id) \in 0 .. 1
      BY <2>1, IncomingFacts DEF One
    <3>3. CASE e = f
      <4>1. Sent(e, id)' = Sent(e, id) /\ Queued(e, id)' = Queued(e, id)
        BY <1>4, <1>7, <2>2, <3>3 DEF Sent, Queued
      <4>2. Replied(e, id)' = Replied(e, id)
        BY <1>7, <1>12, <3>2, <3>3 DEF Replied
      <4>3. QED
        BY <1>8, <3>1, <4>1, <4>2 DEF Places
    <3>4. CASE e = Peer(f)
      <4>1. Replied(e, id)' = Replied(e, id)
        BY <1>4, <1>7, <3>4 DEF Replied
      <4>2. Sent(e, id) = Sent(e, id)' + One(id = x.id) /\ Sent(e, id)' \in Nat
        BY <1>4, <1>7, <3>2, <3>4 DEF Sent
      <4>3. Queued(e, id)' = Queued(e, id) + One(id = x.id)
        BY <1>4, <2>2, <3>4 DEF Queued
      <4>4. QED
        BY <1>8, <1>12, <3>1, <3>2, <4>1, <4>2, <4>3 DEF Places
    <3>5. QED
      BY <3>3, <3>4, <1>4
  <2>5. \A e \in Endpoint : \A y \in IncomingPacket :
            (\E i \in DOMAIN m_data_incoming_call'[e] : m_data_incoming_call'[e][i] = y) => HasCall(e, y)
    BY <1>7, <2>2 DEF HasCall
  <2>6. \A e \in Endpoint : \A y : HasCall(e, y)' => HasCall(e, y)
    BY <1>9, <2>5 DEF HasCall
  <2>7. c_invalid_id \notin m_id_data_return'[f]
    BY <1>3, <1>11, <1>13 DEF PairTypes
  <2>8. \A e \in Endpoint : \A id \in Ids : id \in m_id_data_return'[e] => id \in m_id_data_return[e]
    BY <1>13
  <2>9. \A e \in Endpoint : \A id \in Ids : Places(e, id)' =< Places(e, id)
    BY <1>12, <2>4
  <2>10. QED
    BY <1>2, <1>6, <1>10, <1>11, <2>3, <2>4, <2>6, <2>7, <2>8, <2>9, StepKeeps
<1>14. CASE /\ x.type \notin IncomingType /\ UNCHANGED <<m_data_incoming_call, left>>
            /\ m_id_data_return' = [m_id_data_return EXCEPT ![f] = @ \cup {x.id}]
  <2>1. x.type \in ResponseType /\ x.id \in Ids /\ x \notin IncomingPacket
    BY <1>7, <1>14 DEF Packet, IncomingPacket
  <2>2. HasAnswer(f, x.id)
    BY <1>7, <2>1 DEF HasAnswer
  <2>3. Awaits(f, x.id) /\ Places(f, x.id) = 1 /\ Replied(f, x.id) >= 1
    BY <1>2, <2>1, <2>2, PlacesPositive DEF PairInv, AnswersAwaited, AtOnePlace
  <2>4. Kept(f, x.id) = 0
    BY <1>12, <2>3 DEF Places
  <2>5. PairTypes'
    BY <1>2, <1>3, <1>6, <1>7, <1>14, <2>1 DEF PairTypes
  <2>6. /\ \A e \in Endpoint : e # f => m_id_data_return'[e] = m_id_data_return[e]
        /\ m_id_data_return'[f] = m_id_data_return[f] \cup {x.id}
    BY <1>3, <1>14 DEF PairTypes
  <2>7. ASSUME NEW e \in Endpoint, NEW id \in Ids PROVE Places(e, id)' = Places(e, id)
    <3>1. Queued(e, id)' = Queued(e, id)
      BY <1>14 DEF Queued
    <3>2. One(Matches(x, ResponseType, id)) = One(id = x.id) /\ One(Matches(x, IncomingType, id)) = 0
          /\ One(id = x.id) \in 0 .. 1
      BY <1>14, <2>1 DEF One, Matches
    <3>3. CASE e = f
      <4>1. Sent(e, id)' = Sent(e, id)
        BY <1>4, <1>7, <3>3 DEF Sent
      <4>2. Replied(e, id) = Replied(e, id)' + One(id = x.id) /\ Replied(e, id)' \in Nat
        BY <1>7, <3>2, <3>3 DEF Replied
      <4>3. Kept(e, id)' = Kept(e, id) + One(id = x.id)
        BY <2>4, <2>6, <3>3 DEF Kept, One
      <4>4. QED
        BY <1>8, <1>12, <3>1, <3>2, <4>1, <4>2, <4>3 DEF Places
    <3>4. CASE e = Peer(f)
      <4>1. Replied(e, id)' = Replied(e, id) /\ Kept(e, id)' = Kept(e, id)
        BY <1>4, <1>7, <2>6, <3>4 DEF Replied, Kept
      <4>2. Sent(e, id)' = Sent(e, id)
        BY <1>4, <1>7, <1>12, <3>2, <3>4 DEF Sent
      <4>3. QED
        BY <1>8, <3>1, <4>1, <4>2 DEF Places
    <3>5. QED
      BY <3>3, <3>4, <1>4
  <2>8. \A e \in Endpoint : \A y : HasCall(e, y)' => HasCall(e, y)
    BY <1>9, <1>14 DEF HasCall
  <2>9. \A e \in Endpoint : \A id \in Ids :
            id \in m_id_data_return'[e] => id \in m_id_data_return[e] \/ (HasAnswer(e, id) /\ ~cancel_wait_respond[e])
    BY <1>2, <2>2, <2>6
  <2>10. c_invalid_id \notin m_id_data_return'[f]
    BY <1>11, <2>5 DEF PairTypes
  <2>11. QED
    BY <1>2, <1>6, <1>10, <1>11, <1>12, <2>5, <2>7, <2>8, <2>9, <2>10, StepKeeps
<1>15. QED
  BY <1>2, <1>13, <1>14

\* A call or an enumeration is sent with a fresh id, and its answer waited for.
LEMMA PairInvokeRemote ==
  ASSUME PairInv, NEW f \in Endpoint, NEW kind, InvokeRemote(f, kind)
  PROVE  PairInv'
<1>1. PICK n : n = m_incremental_id[f] + 1
  OBVIOUS
<1>2. PICK depth : depth = IF Idle(f) THEN MaxDepth ELSE Top(f).call.depth - 1
  OBVIOUS
<1>3. PICK x : x = [type |-> IF kind = "enumerate" THEN "pt_enumerate" ELSE "pt_call", id |-> n,
                    send_return |-> kind # "async", depth |-> depth]
  OBVIOUS
<1>4. /\ Idle(f) \/ (InHandler(f) /\ Top(f).call.depth > 0)
      /\ n \in Ids /\ m_incremental_id' = [m_incremental_id EXCEPT ![f] = n]
      /\ inbox' = AppendAt(inbox, Peer(f), x)
      /\ IF kind = "async" THEN UNCHANGED stack ELSE Push(f, Waits(n, IsProcessIncomingCalls(kind)))
      /\ UNCHANGED <<m_data_incoming_call, m_id_data_return, cancel_wait_respond, left>>
  BY <1>1, <1>2, <1>3 DEF InvokeRemote, Write, AppendAt, queues
<1>5. PairTypes
  BY DEF PairInv
<1>6. Peer(f) \in Endpoint /\ Peer(f) # f /\ Peer(Peer(f)) = f /\ \A e \in Endpoint : e = f \/ e = Peer(f)
  BY Peers
<1>7. x \in IncomingPacket /\ x.id = n /\ x.send_return = (kind # "async")
      /\ (x.type = "pt_enumerate" <=> kind = "enumerate")
  <2>1. depth \in 0 .. MaxDepth
    <3>1. MaxDepth \in Nat
      BY PairConstants
    <3>2. CASE Idle(f)
      BY <1>2, <3>1, <3>2
    <3>3. CASE ~Idle(f) /\ InHandler(f) /\ Top(f).call.depth > 0
      <4>1. Top(f).call \in IncomingPacket
        BY <1>5, <3>3, TopFrame DEF InHandler, Runnable
      <4>2. Top(f).call.depth \in 0 .. MaxDepth
        BY <4>1 DEF IncomingPacket, Packet
      <4>3. QED
        BY <1>2, <3>1, <3>3, <4>2
    <3>4. QED
      BY <1>4, <3>2, <3>3
  <2>2. x \in Packet
    BY <1>3, <1>4, <2>1 DEF Packet, IncomingType
  <2>3. QED
    BY <1>3, <2>2 DEF IncomingPacket, IncomingType
<1>8. Places(f, n) = 0 /\ ~Awaits(f, n)
  <2>1. n > m_incremental_id[f]
    BY <1>1, <1>5 DEF PairTypes
  <2>2. QED
    BY <1>4, <2>1 DEF PairInv, FreshIds
<1>9. n # c_invalid_id /\ n \in Nat /\ c_invalid_id \notin Ids
  BY <1>4 DEF Ids, c_invalid_id
<1>10. /\ stack' \in [Endpoint -> Seq(RunFrame)]
       /\ \A e \in Endpoint : e # f => stack'[e] = stack[e]
       /\ \A e \in Endpoint : \A id : TimesRun(stack'[e], id) = TimesRun(stack[e], id)
       /\ \A e \in Endpoint : \A i \in DOMAIN stack[e] : i \in DOMAIN stack'[e] /\ stack'[e][i] = stack[e][i]
       /\ \A e \in Endpoint : \A i \in DOMAIN stack'[e] :
              \/ i \in DOMAIN stack[e]
              \/ /\ e = f /\ i = Len(stack[f]) + 1 /\ stack'[e][i].wait_response_id = n
                 /\ stack'[e][i].call = NoCall /\ kind # "async"
       /\ \A e \in Endpoint : \A id : Awaits(e, id)' <=> Awaits(e, id) \/ (e = f /\ id = n /\ kind # "async")
  <2>1. CASE kind = "async"
    <3>1. stack' = stack
      BY <1>4, <2>1
    <3>2. QED
      BY <1>5, <2>1, <3>1 DEF PairTypes, Awaits
  <2>2. CASE kind # "async"
    <3>1. Push(f, Waits(n, IsProcessIncomingCalls(kind))) /\ IsProcessIncomingCalls(kind) \in BOOLEAN
          /\ n \in Ids \cup {c_invalid_id}
      BY <1>4, <2>2 DEF IsProcessIncomingCalls
    <3>2. /\ stack' \in [Endpoint -> Seq(RunFrame)]
          /\ \A e \in Endpoint : e # f => stack'[e] = stack[e]
          /\ stack'[f][Len(stack[f]) + 1] = Waits(n, IsProcessIncomingCalls(kind))
          /\ \A e \in Endpoint : \A id : TimesRun(stack'[e], id) = TimesRun(stack[e], id)
          /\ \A e \in Endpoint : \A i \in DOMAIN stack[e] : i \in DOMAIN stack'[e] /\ stack'[e][i] = stack[e][i]
          /\ \A e \in Endpoint : \A i \in DOMAIN stack'[e] :
                 i \in DOMAIN stack[e] \/ (e = f /\ i = Len(stack[f]) + 1)
          /\ \A e \in Endpoint : \A id : Awaits(e, id)' <=> Awaits(e, id) \/ (e = f /\ id = n /\ n # c_invalid_id)
      BY <1>5, <3>1, StackPush
    <3>3. Waits(n, IsProcessIncomingCalls(kind)).wait_response_id = n /\ Waits(n, IsProcessIncomingCalls(kind)).call = NoCall
      BY DEF Waits
    <3>4. QED
      BY <1>9, <2>2, <3>2, <3>3
  <2>3. QED
    BY <2>1, <2>2
<1>11. /\ inbox' \in [Endpoint -> Seq(Packet)]
       /\ \A e \in Endpoint : e # Peer(f) => inbox'[e] = inbox[e]
       /\ \A types, id : Times(inbox'[Peer(f)], types, id) = Times(inbox[Peer(f)], types, id) + One(Matches(x, types, id))
       /\ \A e \in Endpoint : \A i \in DOMAIN inbox'[e] :
              (i \in DOMAIN inbox[e] /\ inbox'[e][i] = inbox[e][i]) \/ (e = Peer(f) /\ inbox'[e][i] = x)
  <2>1. PICK q, p : q = inbox /\ p = Peer(f)
    OBVIOUS
  <2>2. inbox' = AppendAt(q, p, x) /\ q \in [Endpoint -> Seq(Packet)] /\ p \in Endpoint /\ x \in Packet
    BY <1>4, <1>5, <1>6, <1>7, <2>1 DEF PairTypes, IncomingPacket
  <2>3. AppendAt(q, p, x) \in [Endpoint -> Seq(Packet)]
    BY <2>2, AppendedAt
  <2>4. \A e \in Endpoint : e # p => AppendAt(q, p, x)[e] = q[e]
    BY <2>2, AppendedAt
  <2>5. \A types, id : Times(AppendAt(q, p, x)[p], types, id) = Times(q[p], types, id) + One(Matches(x, types, id))
    BY <2>2, AppendedAt
  <2>6. \A e \in Endpoint : \A i \in DOMAIN AppendAt(q, p, x)[e] :
            (i \in DOMAIN q[e] /\ AppendAt(q, p, x)[e][i] = q[e][i]) \/ (e = p /\ AppendAt(q, p, x)[e][i] = x)
    BY <2>2, AppendedAt
  <2>7. QED
    BY <2>1, <2>2, <2>3, <2>4, <2>5, <2>6
<1>12. PairTypes'
  <2>1. m_incremental_id' \in [Endpoint -> 0 .. MaxCalls]
    BY <1>4, <1>5 DEF PairTypes, Ids
  <2>2. QED
    BY <1>4, <1>5, <1>10, <1>11, <2>1 DEF PairTypes
<1>13. ASSUME NEW e \in Endpoint, NEW id
       PROVE  Places(e, id)' = Places(e, id) + One(e = f /\ id = n) /\ Places(e, id) \in Nat
  <2>1. /\ Sent(e, id) \in Nat /\ Queued(e, id) \in Nat /\ Running(e, id) \in Nat /\ Replied(e, id) \in Nat
        /\ Kept(e, id) \in 0 .. 1 /\ Places(e, id) \in Nat
    BY <1>5, PlacesNat
  <2>2. Queued(e, id)' = Queued(e, id) /\ Kept(e, id)' = Kept(e, id) /\ Running(e, id)' = Running(e, id)
    BY <1>4, <1>6, <1>10 DEF Queued, Kept, Running
  <2>3. One(Matches(x, IncomingType, id)) = One(id = n) /\ One(Matches(x, ResponseType, id)) = 0
    BY <1>7, IncomingFacts DEF One
  <2>4. CASE e = f
    <3>1. Sent(e, id)' = Sent(e, id) + One(id = n)
      BY <1>11, <2>3, <2>4 DEF Sent
    <3>2. Replied(e, id)' = Replied(e, id)
      BY <1>6, <1>11, <2>4 DEF Replied
    <3>3. One(id = n) \in 0 .. 1 /\ One(e = f /\ id = n) = One(id = n)
      BY <2>4 DEF One
    <3>4. QED
      BY <2>1, <2>2, <3>1, <3>2, <3>3 DEF Places
  <2>5. CASE e = Peer(f)
    <3>1. Sent(e, id)' = Sent(e, id)
      BY <1>6, <1>11, <2>5 DEF Sent
    <3>2. Replied(e, id)' = Replied(e, id)
      BY <1>11, <2>1, <2>3, <2>5 DEF Replied
    <3>3. One(e = f /\ id = n) = 0
      BY <1>6, <2>5 DEF One
    <3>4. QED
      BY <2>1, <2>2, <3>1, <3>2, <3>3 DEF Places
  <2>6. QED
    BY <2>4, <2>5, <1>6
<1>14. AtOnePlace'
  <2>1. ASSUME NEW e \in Endpoint, NEW id \in Ids, Awaits(e, id)' PROVE Places(e, id)' = 1
    <3>1. CASE e = f /\ id = n
      BY <1>8, <1>13, <3>1 DEF One
    <3>2. CASE ~(e = f /\ id = n)
      <4>1. Awaits(e, id) /\ One(e = f /\ id = n) = 0
        BY <1>10, <2>1, <3>2 DEF One
      <4>2. QED
        BY <1>13, <4>1 DEF PairInv, AtOnePlace
    <3>3. QED
      BY <3>1, <3>2
  <2>2. QED
    BY <2>1 DEF AtOnePlace
<1>15. AwaitedOnce'
  <2>1. ASSUME NEW e \in Endpoint, NEW i \in DOMAIN stack'[e], NEW j \in DOMAIN stack'[e], i # j,
               stack'[e][i].wait_response_id = stack'[e][j].wait_response_id,
               stack'[e][i].wait_response_id # c_invalid_id
        PROVE  FALSE
    <3>1. CASE i \in DOMAIN stack[e] /\ j \in DOMAIN stack[e]
      BY <1>10, <2>1, <3>1 DEF PairInv, AwaitedOnce
    <3>2. CASE i \notin DOMAIN stack[e]
      <4>1. e = f /\ i = Len(stack[f]) + 1 /\ stack'[e][i].wait_response_id = n /\ j \in DOMAIN stack[e]
        BY <1>10, <2>1, <3>2
      <4>2. stack[f][j].wait_response_id = n
        BY <1>10, <2>1, <4>1
      <4>3. QED
        BY <1>8, <1>9, <4>1, <4>2 DEF Awaits
    <3>3. CASE j \notin DOMAIN stack[e]
      <4>1. e = f /\ j = Len(stack[f]) + 1 /\ stack'[e][j].wait_response_id = n /\ i \in DOMAIN stack[e]
        BY <1>10, <2>1, <3>3
      <4>2. stack[f][i].wait_response_id = n
        BY <1>10, <2>1, <4>1
      <4>3. QED
        BY <1>8, <1>9, <4>1, <4>2 DEF Awaits
    <3>4. QED
      BY <3>1, <3>2, <3>3
  <2>2. QED
    BY <2>1 DEF AwaitedOnce
<1>16. FreshIds'
  <2>1. ASSUME NEW e \in Endpoint, NEW id \in Ids, id > m_incremental_id'[e]
        PROVE  Places(e, id)' = 0 /\ ~Awaits(e, id)'
    <3>1. /\ id \in Nat /\ m_incremental_id[e] \in Nat /\ m_incremental_id'[e] \in Nat
          /\ e # f => m_incremental_id'[e] = m_incremental_id[e]
          /\ e = f => m_incremental_id'[e] = n /\ m_incremental_id[e] + 1 = n
      BY <1>1, <1>4, <1>5, <1>9 DEF PairTypes, Ids
    <3>2. id > m_incremental_id[e] /\ ~(e = f /\ id = n)
      BY <2>1, <3>1
    <3>3. Places(e, id) = 0 /\ ~Awaits(e, id) /\ One(e = f /\ id = n) = 0
      BY <3>2 DEF PairInv, FreshIds, One
    <3>4. QED
      BY <1>10, <1>13, <3>2, <3>3
  <2>2. QED
    BY <2>1 DEF FreshIds
<1>17. \A e \in Endpoint : \A c : HasCall(e, c)' => HasCall(e, c) \/ (e = Peer(f) /\ c = x)
  <2>1. NoCall \notin IncomingPacket
    BY DEF NoCall, IncomingPacket, IncomingType
  <2>2. \A e \in Endpoint : \A c \in IncomingPacket :
            (\E i \in DOMAIN stack'[e] : stack'[e][i].call = c) => HasCall(e, c)
    BY <1>10, <2>1 DEF HasCall
  <2>3. \A e \in Endpoint : \A c \in IncomingPacket :
            (\E i \in DOMAIN inbox'[e] : inbox'[e][i] = c) => HasCall(e, c) \/ (e = Peer(f) /\ c = x)
    BY <1>11 DEF HasCall
  <2>4. QED
    BY <1>4, <2>2, <2>3 DEF HasCall
\* Nothing of the new id is anywhere yet.
<1>18. (\A c : HasCall(Peer(f), c) => c.id # n) /\ ~HasAnswer(f, n)
  <2>1. /\ Sent(f, n) \in Nat /\ Queued(f, n) \in Nat /\ Running(f, n) \in Nat /\ Replied(f, n) \in Nat
        /\ Kept(f, n) \in 0 .. 1
    BY <1>5, PlacesNat
  <2>2. Sent(f, n) + Queued(f, n) + Running(f, n) + Replied(f, n) + Kept(f, n) = 0
    BY <1>8 DEF Places
  <2>3. Sent(f, n) + Queued(f, n) + Running(f, n) = 0 /\ Replied(f, n) = 0
    <3>1. PICK a, b, c, d, k : a = Sent(f, n) /\ b = Queued(f, n) /\ c = Running(f, n) /\ d = Replied(f, n) /\ k = Kept(f, n)
      OBVIOUS
    <3>2. a \in Nat /\ b \in Nat /\ c \in Nat /\ d \in Nat /\ k \in 0 .. 1 /\ a + b + c + d + k = 0
      BY <2>1, <2>2, <3>1
    <3>3. a + b + c = 0 /\ d = 0
      BY <3>2
    <3>4. QED
      BY <3>1, <3>3
  <2>4. /\ \A c : HasCall(Peer(f), c) => Sent(f, c.id) + Queued(f, c.id) + Running(f, c.id) >= 1
        /\ HasAnswer(f, n) => Replied(f, n) >= 1
    BY <1>5, PlacesPositive
  <2>5. QED
    BY <2>3, <2>4
<1>19. CallsAnswered'
  <2>1. ASSUME NEW e \in Endpoint, NEW c \in IncomingPacket, HasCall(Peer(e), c)'
        PROVE  /\ Awaits(e, c.id)' => c.send_return
               /\ c.send_return /\ ~cancel_wait_respond'[e] => Awaits(e, c.id)'
               /\ c.type = "pt_enumerate" => c.send_return
    <3>1. Peer(e) \in Endpoint /\ (Peer(e) = Peer(f) => e = f)
      BY <1>6, Peers
    <3>2. CASE HasCall(Peer(e), c)
      <4>1. /\ Awaits(e, c.id) => c.send_return
            /\ c.send_return /\ ~cancel_wait_respond[e] => Awaits(e, c.id)
            /\ c.type = "pt_enumerate" => c.send_return
        BY <3>2 DEF PairInv, CallsAnswered
      <4>2. ~(e = f /\ c.id = n)
        BY <1>18, <3>2
      <4>3. QED
        BY <1>4, <1>10, <4>1, <4>2
    <3>3. CASE e = f /\ c = x
      BY <1>7, <1>8, <1>10, <3>3
    <3>4. QED
      BY <1>17, <2>1, <3>1, <3>2, <3>3
  <2>2. QED
    BY <2>1 DEF CallsAnswered
<1>20. AnswersAwaited'
  <2>1. \A e \in Endpoint : \A id : HasAnswer(e, id)' => HasAnswer(e, id)
    <3>1. x.type \notin ResponseType
      BY <1>7 DEF IncomingPacket, IncomingType, ResponseType
    <3>2. QED
      BY <1>11, <3>1 DEF HasAnswer
  <2>2. QED
    BY <1>4, <1>10, <2>1 DEF PairInv, AnswersAwaited
<1>21. QED
  BY <1>12, <1>14, <1>15, <1>16, <1>19, <1>20 DEF PairInv

-----------------------------------------------------------------------------
(* PacketsKept                                                             *)

\* Nothing is waited for at first.
LEMMA PairInit ==
  ASSUME Init
  PROVE  PairInv
<1>1. /\ stack = [e \in Endpoint |-> <<>>] /\ inbox = [e \in Endpoint |-> <<>>]
      /\ m_data_incoming_call = [e \in Endpoint |-> <<>>] /\ m_id_data_return = [e \in Endpoint |-> {}]
      /\ m_incremental_id = [e \in Endpoint |-> 0] /\ cancel_wait_respond = [e \in Endpoint |-> FALSE]
      /\ left = [e \in Endpoint |-> FALSE]
  BY DEF Init
<1>2. PairTypes
  <2>1. 0 \in 0 .. MaxCalls
    BY PairConstants
  <2>2. QED
    BY <1>1, <2>1 DEF PairTypes
<1>3. \A e \in Endpoint : DOMAIN stack[e] = {} /\ DOMAIN inbox[e] = {} /\ DOMAIN m_data_incoming_call[e] = {}
  BY <1>1
<1>4. ASSUME NEW e \in Endpoint, NEW id PROVE Places(e, id) = 0
  <2>1. Peer(e) \in Endpoint
    BY Peers
  <2>2. Sent(e, id) = 0 /\ Queued(e, id) = 0 /\ Replied(e, id) = 0
    BY <1>1, <2>1, TimesEmpty DEF Sent, Queued, Replied
  <2>3. Runs(<<>>) = <<>>
    BY DEF Runs
  <2>4. Running(e, id) = 0
    BY <1>1, <2>1, <2>3, TimesEmpty DEF Running, TimesRun
  <2>5. Kept(e, id) = 0
    BY <1>1 DEF Kept, One
  <2>6. QED
    BY <2>2, <2>4, <2>5 DEF Places
<1>5. \A e \in Endpoint : \A id : ~Awaits(e, id) /\ ~HasAnswer(e, id) /\ id \notin m_id_data_return[e]
  BY <1>1, <1>3 DEF Awaits, HasAnswer
<1>6. \A e \in Endpoint : \A c : ~HasCall(e, c)
  BY <1>3 DEF HasCall
<1>7. AtOnePlace /\ FreshIds /\ AnswersAwaited
  BY <1>4, <1>5 DEF AtOnePlace, FreshIds, AnswersAwaited
<1>8. AwaitedOnce /\ CallsAnswered
  BY <1>3, <1>6, Peers DEF AwaitedOnce, CallsAnswered
<1>9. QED
  BY <1>2, <1>7, <1>8 DEF PairInv

\* Every action keeps PairInv.
LEMMA PairStep ==
  ASSUME PairInv, [Next]_vars
  PROVE  PairInv'
<1>1. CASE Next
  <2>1. PICK e \in Endpoint :
            \/ \E kind \in CallKind : InvokeRemote(e, kind)
            \/ ProcessTransport(e) \/ Run(e) \/ CancelWaitRespond(e)
    BY <1>1 DEF Next
  <2>2. CASE \E kind \in CallKind : InvokeRemote(e, kind)
    BY <2>2, PairInvokeRemote
  <2>3. CASE Run(e)
    BY <2>3, PairTakeResponse, PairTakeIncoming, PairReadPacket, PairReadNothing, PairReadCancelled,
       PairHandlerReturns DEF Run
  <2>4. QED
    BY <2>1, <2>2, <2>3, PairProcessTransport, PairCancelWaitRespond
<1>2. CASE UNCHANGED vars
  <2>1. UNCHANGED <<stack, inbox, m_data_incoming_call, m_id_data_return, m_incremental_id, cancel_wait_respond, left>>
    BY <1>2 DEF vars, queues
  <2>2. PairTypes' /\ AwaitedOnce' /\ (\A e \in Endpoint : \A id : Places(e, id)' = Places(e, id))
    BY <2>1 DEF PairInv, PairTypes, AwaitedOnce, Places, Sent, Queued, Running, Replied, Kept
  <2>3. \A e \in Endpoint : \A id : Awaits(e, id)' = Awaits(e, id) /\ HasAnswer(e, id)' = HasAnswer(e, id)
    BY <2>1 DEF Awaits, HasAnswer
  <2>4. \A e : \A c : HasCall(e, c)' = HasCall(e, c)
    BY <2>1 DEF HasCall
  <2>5. AtOnePlace' /\ FreshIds'
    BY <2>1, <2>2, <2>3 DEF PairInv, AtOnePlace, FreshIds
  <2>6. CallsAnswered' /\ AnswersAwaited'
    BY <2>1, <2>3, <2>4 DEF PairInv, CallsAnswered, AnswersAwaited
  <2>7. QED
    BY <2>2, <2>5, <2>6 DEF PairInv
<1>3. QED
  BY <1>1, <1>2

\* PairInv always holds.
LEMMA PairInvAlways == Spec => []PairInv
<1>1. Init => PairInv
  BY PairInit
<1>2. PairInv /\ [Next]_vars => PairInv'
  BY PairStep
<1>3. QED
  BY <1>1, <1>2, PTL DEF Spec

\* PacketsKept, in terms of the places of PairInv.
LEMMA PairKeeps ==
  ASSUME PairInv
  PROVE  PacketsKept
<1>1. PairTypes
  BY DEF PairInv
<1>2. TypeOK
  <2>1. RunFrame \subseteq Frame
    BY DEF RunFrame, Frame, IncomingPacket
  <2>2. \A e \in Endpoint : \A i \in DOMAIN stack[e] : stack[e][i] \in RunFrame
    BY <1>1 DEF PairTypes
  <2>3. \A e \in Endpoint : \A i \in DOMAIN inbox[e] : inbox[e][i] \in Packet
    BY <1>1 DEF PairTypes
  <2>4. \A e \in Endpoint : \A i \in DOMAIN m_data_incoming_call[e] : m_data_incoming_call[e][i] \in IncomingPacket
    BY <1>1 DEF PairTypes
  <2>5. QED
    BY <1>1, <2>1, <2>2, <2>3, <2>4 DEF TypeOK, PairTypes, IncomingPacket
<1>3. InOnePlace
  <2>1. ASSUME NEW e \in Endpoint, NEW i \in DOMAIN stack[e], NEW id, id = stack[e][i].wait_response_id,
               id # c_invalid_id
        PROVE  Times(inbox[Peer(e)], IncomingType, id) + Times(m_data_incoming_call[Peer(e)], IncomingType, id)
               + Times(Handlers(Peer(e)), IncomingType, id) + Times(inbox[e], ResponseType, id)
               + (IF id \in m_id_data_return[e] THEN 1 ELSE 0) = 1
    <3>1. stack[e][i] \in RunFrame
      BY <1>1 DEF PairTypes
    <3>2. Awaits(e, id) /\ id \in Ids
      BY <2>1, <3>1 DEF Awaits, RunFrame
    <3>3. Handlers(Peer(e)) = Runs(stack[Peer(e)])
      BY DEF Handlers, Runs
    <3>4. Places(e, id) = 1
      BY <3>2 DEF PairInv, AtOnePlace
    <3>5. QED
      BY <3>3, <3>4 DEF Places, Sent, Queued, Running, TimesRun, Replied, Kept, One
  <2>2. QED
    BY <2>1 DEF InOnePlace
<1>4. StoredIsAwaited
  <2>1. \A e \in Endpoint : \A id \in m_id_data_return[e] : id \in Ids
    BY <1>1 DEF PairTypes
  <2>2. QED
    BY <2>1 DEF PairInv, AnswersAwaited, Awaits, StoredIsAwaited
<1>5. QED
  BY <1>2, <1>3, <1>4 DEF PacketsKept

\* However two ends call back into each other, cancelled or not, a call that is
\* waited for is at exactly one place, and an answer is stored only for a wait
\* that takes it (InvokeUnified, ProcessTransportResponse): for every number of
\* calls and every depth.
THEOREM PacketsCorrect == Spec => []PacketsKept
<1>1. PairInv => PacketsKept
  BY PairKeeps
<1>2. QED
  BY <1>1, PairInvAlways, PTL

-----------------------------------------------------------------------------
(* The invariant behind OnlyLaterLeaves                                    *)

\* Frame j of a thread is in the handler of the peer's call id.
Handles(e, j, id) == j \in DOMAIN stack[e] /\ stack[e][j].call \in IncomingPacket /\ stack[e][j].call.id = id

\* What is called from inside a handler is handled, if at all, above the wait
\* the handler is for: waits are nested across the two stacks.
NestedCalls ==
    \A e \in Endpoint : \A i, j \in DOMAIN stack[e] : \A k, l \in DOMAIN stack[Peer(e)] :
        Handles(Peer(e), k, stack[e][i].wait_response_id) /\ k < l
        /\ Handles(e, j, stack[Peer(e)][l].wait_response_id) => i =< j

\* Unless a wait that postpones calls has read one, a call that was read is
\* about to be run.
LeftAt(e) ==
    ~left[e] /\ m_data_incoming_call[e] # <<>> =>
        InWait(e) /\ Top(e).process_incoming_calls /\ ~Stored(e) /\ Tail(m_data_incoming_call[e]) = <<>>

LeaveInv == PairInv /\ NestedCalls /\ \A e \in Endpoint : LeftAt(e)

\* Steps that begin no wait for a call that is handled, and begin a handler only
\* at the top of a stack.
LEMMA NestKeeps ==
  ASSUME NestedCalls, PairTypes',
         \A e \in Endpoint : \A i \in DOMAIN stack'[e] :
             \/ i \in DOMAIN stack[e] /\ stack'[e][i].wait_response_id = stack[e][i].wait_response_id
             \/ \A k, id : id = stack'[e][i].wait_response_id => ~Handles(Peer(e), k, id)',
         \A e \in Endpoint : \A j, id : Handles(e, j, id)' => Handles(e, j, id) \/ j = Len(stack'[e])
  PROVE  NestedCalls'
<1>1. ASSUME NEW e \in Endpoint, NEW i \in DOMAIN stack'[e], NEW j \in DOMAIN stack'[e],
             NEW p, p = Peer(e), NEW k \in DOMAIN stack'[p], NEW l \in DOMAIN stack'[p],
             NEW m, m = stack'[e][i].wait_response_id, NEW n, n = stack'[p][l].wait_response_id,
             Handles(p, k, m)', k < l, Handles(e, j, n)'
      PROVE  i =< j
  <2>1. p \in Endpoint /\ Peer(p) = e
    BY <1>1, Peers
  <2>2. /\ stack'[e] \in Seq(RunFrame) /\ DOMAIN stack'[e] = 1 .. Len(stack'[e]) /\ Len(stack'[e]) \in Nat
        /\ stack'[p] \in Seq(RunFrame) /\ DOMAIN stack'[p] = 1 .. Len(stack'[p]) /\ Len(stack'[p]) \in Nat
    BY <2>1 DEF PairTypes
  <2>3. CASE j = Len(stack'[e])
    BY <2>2, <2>3
  <2>4. CASE j # Len(stack'[e])
    <3>1. Handles(e, j, n)
      BY <1>1, <2>4
    <3>2. Handles(p, k, m)
      <4>1. k # Len(stack'[p])
        BY <1>1, <2>2
      <4>2. QED
        BY <1>1, <2>1, <4>1
    <3>3. i \in DOMAIN stack[e] /\ stack[e][i].wait_response_id = m
      BY <1>1
    <3>4. l \in DOMAIN stack[p] /\ stack[p][l].wait_response_id = n
      BY <1>1, <2>1
    <3>5. j \in DOMAIN stack[e] /\ k \in DOMAIN stack[p]
      BY <3>1, <3>2 DEF Handles
    <3>6. QED
      BY <1>1, <3>1, <3>2, <3>3, <3>4, <3>5 DEF NestedCalls
  <2>5. QED
    BY <2>3, <2>4
<1>2. QED
  BY <1>1 DEF NestedCalls

\* Steps that only end runs and handlers.
LEMMA NestEnds ==
  ASSUME NestedCalls, PairTypes',
         \A e \in Endpoint : \A i \in DOMAIN stack'[e] :
             /\ i \in DOMAIN stack[e] /\ stack'[e][i].wait_response_id = stack[e][i].wait_response_id
             /\ stack'[e][i].call \in {stack[e][i].call, NoCall}
  PROVE  NestedCalls'
<1>1. NoCall \notin IncomingPacket
  BY DEF NoCall, IncomingPacket, IncomingType
<1>2. \A e \in Endpoint : \A j, id : Handles(e, j, id)' => Handles(e, j, id)
  BY <1>1 DEF Handles
<1>3. QED
  BY <1>2, NestKeeps

\* Every action keeps the waits of the two stacks nested.
LEMMA NestStep ==
  ASSUME PairInv, PairInv', NestedCalls, NEW f \in Endpoint,
         (\E kind \in CallKind : InvokeRemote(f, kind)) \/ ProcessTransport(f) \/ Run(f) \/ CancelWaitRespond(f)
  PROVE  NestedCalls'
<1>1. PairTypes /\ PairTypes'
  BY DEF PairInv
<1>2. CASE UNCHANGED stack
  BY <1>1, <1>2, NestEnds
<1>3. CASE InWait(f) /\ Return(f)
  <2>1. \A e \in Endpoint : \A i \in DOMAIN stack'[e] : i \in DOMAIN stack[e] /\ stack'[e][i] = stack[e][i]
    BY <1>3, StackReturn
  <2>2. QED
    BY <1>1, <2>1, NestEnds
<1>4. ASSUME ~Idle(f), NEW call \in Runnable, SetCall(f, call)
      PROVE  NestedCalls'
  <2>1. /\ \A e \in Endpoint : DOMAIN stack'[e] = DOMAIN stack[e]
        /\ Len(stack'[f]) = Len(stack[f])
        /\ \A e \in Endpoint : \A i \in DOMAIN stack[e] :
               /\ stack'[e][i].wait_response_id = stack[e][i].wait_response_id
               /\ ~(e = f /\ i = Len(stack[f])) => stack'[e][i] = stack[e][i]
    BY <1>1, <1>4, StackSetCall
  <2>2. \A e \in Endpoint : \A j, id : Handles(e, j, id)' => Handles(e, j, id) \/ j = Len(stack'[e])
    BY <2>1 DEF Handles
  <2>3. QED
    BY <1>1, <2>1, <2>2, NestKeeps
<1>5. ASSUME NEW id \in Ids \cup {c_invalid_id}, NEW process \in BOOLEAN, Push(f, Waits(id, process)),
             id \in Ids => \A k : ~Handles(Peer(f), k, id)
      PROVE  NestedCalls'
  <2>1. /\ \A e \in Endpoint : e # f => stack'[e] = stack[e]
        /\ stack'[f][Len(stack[f]) + 1] = Waits(id, process)
        /\ \A e \in Endpoint : \A i \in DOMAIN stack[e] : i \in DOMAIN stack'[e] /\ stack'[e][i] = stack[e][i]
        /\ \A e \in Endpoint : \A i \in DOMAIN stack'[e] : i \in DOMAIN stack[e] \/ (e = f /\ i = Len(stack[f]) + 1)
    BY <1>1, <1>5, StackPush
  <2>2. NoCall \notin IncomingPacket
    BY DEF NoCall, IncomingPacket, IncomingType
  <2>3. Waits(id, process).call = NoCall /\ Waits(id, process).wait_response_id = id
    BY DEF Waits
  <2>4. \A e \in Endpoint : \A j, n : Handles(e, j, n)' => Handles(e, j, n)
    BY <2>1, <2>2, <2>3 DEF Handles
  <2>5. Peer(f) \in Endpoint
    BY Peers
  <2>6. \A c \in IncomingPacket : c.id \in Ids
    BY IncomingFacts
  <2>7. \A k : ~Handles(Peer(f), k, id)'
    BY <1>5, <2>4, <2>5, <2>6 DEF Handles
  <2>8. \A e \in Endpoint : \A i \in DOMAIN stack'[e] :
            \/ i \in DOMAIN stack[e] /\ stack'[e][i].wait_response_id = stack[e][i].wait_response_id
            \/ \A k, n : n = stack'[e][i].wait_response_id => ~Handles(Peer(e), k, n)'
    BY <2>1, <2>3, <2>7
  <2>9. QED
    BY <1>1, <2>4, <2>8, NestKeeps
<1>6. CASE \E kind \in CallKind : InvokeRemote(f, kind)
  <2>1. PICK kind \in CallKind : InvokeRemote(f, kind)
    BY <1>6
  <2>2. PICK n : n = m_incremental_id[f] + 1
    OBVIOUS
  <2>3. n \in Ids /\ (UNCHANGED stack \/ Push(f, Waits(n, IsProcessIncomingCalls(kind))))
    BY <2>1, <2>2 DEF InvokeRemote
  <2>4. \A k : ~Handles(Peer(f), k, n)
    <3>1. n > m_incremental_id[f] /\ n \in Ids
      BY <1>1, <2>2, <2>3 DEF PairTypes
    <3>2. Places(f, n) = 0
      BY <3>1 DEF PairInv, FreshIds
    <3>3. PICK a, b, c, d, k : a = Sent(f, n) /\ b = Queued(f, n) /\ c = Running(f, n) /\ d = Replied(f, n) /\ k = Kept(f, n)
      OBVIOUS
    <3>4. a \in Nat /\ b \in Nat /\ c \in Nat /\ d \in Nat /\ k \in 0 .. 1
      BY <1>1, <3>3, PlacesNat
    <3>5. a + b + c + d + k = 0
      BY <3>2, <3>3 DEF Places
    <3>6. a + b + c = 0
      BY <3>4, <3>5
    <3>7. \A x : HasCall(Peer(f), x) => Sent(f, x.id) + Queued(f, x.id) + Running(f, x.id) >= 1
      BY <1>1, PlacesPositive
    <3>8. \A x : HasCall(Peer(f), x) => x.id # n
      BY <3>3, <3>6, <3>7
    <3>9. QED
      BY <3>8 DEF Handles, HasCall
  <2>5. IsProcessIncomingCalls(kind) \in BOOLEAN
    BY DEF IsProcessIncomingCalls
  <2>6. QED
    BY <1>2, <1>5, <2>3, <2>4, <2>5
<1>7. CASE ProcessTransport(f)
  <2>1. c_invalid_id \notin Ids
    BY DEF Ids, c_invalid_id
  <2>2. QED
    BY <1>5, <1>7, <2>1 DEF ProcessTransport
<1>8. CASE CancelWaitRespond(f)
  BY <1>2, <1>8 DEF CancelWaitRespond
<1>9. CASE TakeResponse(f) \/ ReadNothing(f) \/ ReadCancelled(f)
  BY <1>3, <1>9 DEF TakeResponse, ReadNothing, ReadCancelled, Reads
<1>10. CASE ReadPacket(f)
  BY <1>2, <1>3, <1>10 DEF ReadPacket, Reads
<1>11. CASE HandlerReturns(f)
  BY <1>4, <1>11 DEF HandlerReturns, InHandler, Runnable
<1>12. CASE TakeIncoming(f)
  <2>1. Head(m_data_incoming_call[f]) \in Runnable
    BY <1>1, <1>12 DEF TakeIncoming, CallQueued, PairTypes, Runnable
  <2>2. QED
    BY <1>2, <1>4, <1>12, <2>1 DEF TakeIncoming, InWait
<1>13. QED
  BY <1>6, <1>7, <1>8, <1>9, <1>10, <1>11, <1>12 DEF Run

\* Every action keeps LeftAt of both ends.
LEMMA LeftStep ==
  ASSUME PairInv, NEW f \in Endpoint, LeftAt(f), NEW e \in Endpoint, LeftAt(e),
         (\E kind \in CallKind : InvokeRemote(f, kind)) \/ ProcessTransport(f) \/ Run(f) \/ CancelWaitRespond(f)
  PROVE  LeftAt(e)'
<1>1. PairTypes
  BY DEF PairInv
\* Nothing of another thread changes.
<1>2. CASE e # f
  <2>1. /\ stack' = stack \/ (\E s : stack' = [stack EXCEPT ![f] = s])
        /\ m_data_incoming_call' = m_data_incoming_call \/ (\E q : m_data_incoming_call' = [m_data_incoming_call EXCEPT ![f] = q])
        /\ m_id_data_return' = m_id_data_return \/ (\E r : m_id_data_return' = [m_id_data_return EXCEPT ![f] = r])
        /\ left' = left \/ (\E b : left' = [left EXCEPT ![f] = b])
    <3>1. CASE \E kind \in CallKind : InvokeRemote(f, kind)
      BY <3>1 DEF InvokeRemote, Push, queues
    <3>2. CASE ProcessTransport(f) \/ CancelWaitRespond(f)
      BY <3>2 DEF ProcessTransport, CancelWaitRespond, Push, queues
    <3>3. CASE TakeResponse(f) \/ ReadNothing(f) \/ ReadCancelled(f)
      BY <3>3 DEF TakeResponse, ReadNothing, ReadCancelled, Return, queues
    <3>4. CASE TakeIncoming(f)
      BY <3>4 DEF TakeIncoming, SetCall
    <3>5. CASE ReadPacket(f)
      BY <3>5 DEF ReadPacket, Return
    <3>6. CASE HandlerReturns(f)
      BY <3>6 DEF HandlerReturns, SetCall, queues
    <3>7. QED
      BY <3>1, <3>2, <3>3, <3>4, <3>5, <3>6 DEF Run
  <2>2. /\ stack'[e] = stack[e] /\ m_data_incoming_call'[e] = m_data_incoming_call[e]
        /\ m_id_data_return'[e] = m_id_data_return[e] /\ left'[e] = left[e]
    BY <1>1, <1>2, <2>1 DEF PairTypes
  <2>3. QED
    BY <2>2 DEF LeftAt, InWait, Idle, Top, Stored
<1>3. CASE e = f
  <2>1. CASE (\E kind \in CallKind : InvokeRemote(f, kind)) \/ ProcessTransport(f) \/ HandlerReturns(f)
    <3>1. ~InWait(f)
      BY <2>1 DEF InvokeRemote, ProcessTransport, HandlerReturns, InHandler, InWait
    <3>2. UNCHANGED <<m_data_incoming_call, left>>
      BY <2>1 DEF InvokeRemote, ProcessTransport, HandlerReturns, queues
    <3>3. QED
      BY <1>3, <3>1, <3>2 DEF LeftAt
  <2>2. CASE TakeResponse(f)
    BY <1>3, <2>2 DEF TakeResponse, LeftAt
  <2>3. CASE CancelWaitRespond(f)
    BY <1>3, <2>3 DEF CancelWaitRespond, LeftAt, InWait, Idle, Top, Stored, queues
  <2>4. CASE TakeIncoming(f)
    <3>1. m_data_incoming_call'[f] = Tail(m_data_incoming_call[f]) /\ left' = left /\ m_data_incoming_call[f] # <<>>
      BY <1>1, <2>4 DEF TakeIncoming, CallQueued, PairTypes
    <3>2. QED
      BY <1>3, <3>1 DEF LeftAt
  \* A thread that reads has left no call unrun.
  <2>5. ASSUME Reads(f) PROVE left[f] \/ m_data_incoming_call[f] = <<>>
    BY <1>3, <2>5 DEF Reads, CallQueued, LeftAt
  <2>6. CASE ReadNothing(f) \/ ReadCancelled(f)
    BY <1>3, <2>5, <2>6 DEF ReadNothing, ReadCancelled, LeftAt, queues
  <2>7. CASE ReadPacket(f)
    <3>1. PICK x : x = Head(inbox[f])
      OBVIOUS
    <3>2. Reads(f) /\ InWait(f) /\ ~Stored(f) /\ inbox[f] # <<>>
      BY <2>7 DEF ReadPacket, Reads
    <3>3. CASE IsIncoming(x)
      <4>1. /\ left' = [left EXCEPT ![f] = @ \/ ~Top(f).process_incoming_calls] /\ m_id_data_return' = m_id_data_return
            /\ m_data_incoming_call' = [m_data_incoming_call EXCEPT ![f] = Append(@, x)]
            /\ ProcessMore(f, x) => stack' = stack
        BY <2>7, <3>1, <3>3 DEF ReadPacket
      <4>2. CASE left[f] \/ ~Top(f).process_incoming_calls
        BY <1>1, <1>3, <4>1, <4>2 DEF PairTypes, LeftAt
      <4>3. CASE ~left[f] /\ Top(f).process_incoming_calls
        <5>1. stack' = stack
          BY <3>3, <4>1, <4>3 DEF ProcessMore, IsIncoming
        <5>2. m_data_incoming_call'[f] = <<x>>
          <6>1. m_data_incoming_call[f] = <<>>
            BY <2>5, <3>2, <4>3
          <6>2. m_data_incoming_call'[f] = Append(<<>>, x)
            BY <1>1, <4>1, <6>1 DEF PairTypes
          <6>3. QED
            BY <6>2
        <5>3. Tail(<<x>>) = <<>>
          OBVIOUS
        <5>4. InWait(f)' /\ Top(f)' = Top(f) /\ ~Stored(f)'
          BY <3>2, <4>1, <5>1 DEF InWait, Idle, Top, Stored
        <5>5. QED
          BY <1>3, <4>3, <5>2, <5>3, <5>4 DEF LeftAt
      <4>4. QED
        BY <4>2, <4>3
    <3>4. CASE ~IsIncoming(x)
      <4>1. m_data_incoming_call' = m_data_incoming_call /\ left' = left
        BY <2>7, <3>1, <3>4 DEF ReadPacket
      <4>2. QED
        BY <1>3, <2>5, <3>2, <4>1 DEF LeftAt
    <3>5. QED
      BY <3>3, <3>4
  <2>8. QED
    BY <2>1, <2>2, <2>3, <2>4, <2>6, <2>7 DEF Run
<1>4. QED
  BY <1>2, <1>3

\* LeaveInv always holds.
LEMMA LeaveInvAlways == Spec => []LeaveInv
<1>1. Init => LeaveInv
  <2>1. SUFFICES ASSUME Init PROVE LeaveInv
    OBVIOUS
  <2>2. stack = [e \in Endpoint |-> <<>>] /\ m_data_incoming_call = [e \in Endpoint |-> <<>>]
    BY <2>1 DEF Init
  <2>3. PairInv
    BY <2>1, PairInit
  <2>4. NestedCalls /\ \A e \in Endpoint : LeftAt(e)
    BY <2>2 DEF NestedCalls, LeftAt
  <2>5. QED
    BY <2>3, <2>4 DEF LeaveInv
<1>2. LeaveInv /\ [Next]_vars => LeaveInv'
  <2>1. SUFFICES ASSUME LeaveInv, [Next]_vars PROVE LeaveInv'
    OBVIOUS
  <2>2. PairInv /\ PairInv' /\ NestedCalls /\ \A e \in Endpoint : LeftAt(e)
    BY <2>1, PairStep DEF LeaveInv
  <2>3. CASE Next
    <3>1. PICK f \in Endpoint :
              (\E kind \in CallKind : InvokeRemote(f, kind)) \/ ProcessTransport(f) \/ Run(f) \/ CancelWaitRespond(f)
      BY <2>3 DEF Next
    <3>2. NestedCalls'
      BY <2>2, <3>1, NestStep
    <3>3. \A e \in Endpoint : LeftAt(e)'
      BY <2>2, <3>1, LeftStep
    <3>4. QED
      BY <2>2, <3>2, <3>3 DEF LeaveInv
  <2>4. CASE UNCHANGED vars
    <3>1. UNCHANGED <<stack, m_data_incoming_call, m_id_data_return, left>>
      BY <2>4 DEF vars, queues
    <3>2. NestedCalls'
      BY <2>2, <3>1 DEF NestedCalls, Handles
    <3>3. \A e \in Endpoint : LeftAt(e)'
      BY <2>2, <3>1 DEF LeftAt, InWait, Idle, Top, Stored
    <3>4. QED
      BY <2>2, <3>2, <3>3 DEF LeaveInv
  <2>5. QED
    BY <2>1, <2>3, <2>4
<1>3. QED
  BY <1>1, <1>2, PTL DEF Spec

\* An end that waits for good, with nothing to read or run at the peer, waits
\* for a call the peer is in.
LEMMA WaitedIsHandled ==
  ASSUME PairInv, NEW e \in Endpoint, Blocked(e), inbox[Peer(e)] = <<>>, m_data_incoming_call[Peer(e)] = <<>>
  PROVE  \E k : Handles(Peer(e), k, Top(e).wait_response_id)
<1>1. PICK id : id = Top(e).wait_response_id
  OBVIOUS
<1>2. PairTypes /\ ~Idle(e) /\ id # c_invalid_id /\ inbox[e] = <<>> /\ id \notin m_id_data_return[e]
  BY <1>1 DEF PairInv, Blocked, Reads, InWait, Stored
<1>3. id \in Ids /\ Awaits(e, id)
  <2>1. Len(stack[e]) \in DOMAIN stack[e] /\ stack[e][Len(stack[e])] = Top(e)
        /\ Top(e).wait_response_id \in Ids \cup {c_invalid_id}
    BY <1>2, TopFrame DEF Top
  <2>2. QED
    BY <1>1, <1>2, <2>1 DEF Awaits
<1>4. Places(e, id) = 1
  BY <1>3 DEF PairInv, AtOnePlace
<1>5. Sent(e, id) = 0 /\ Queued(e, id) = 0 /\ Replied(e, id) = 0 /\ Kept(e, id) = 0
  BY <1>2, TimesEmpty DEF Sent, Queued, Replied, Kept, One
<1>6. Running(e, id) \in Nat
  BY <1>2, PlacesNat
<1>7. Running(e, id) = 1
  BY <1>4, <1>5, <1>6 DEF Places
<1>8. PICK s : s = stack[Peer(e)]
  OBVIOUS
<1>9. s \in Seq(RunFrame)
  BY <1>2, <1>8, Peers DEF PairTypes
<1>10. Runs(s) \in Seq(Runnable) /\ DOMAIN Runs(s) = DOMAIN s /\ \A i \in DOMAIN s : Runs(s)[i] = s[i].call
  BY <1>9, RunsType
<1>11. Times(Runs(s), IncomingType, id) # 0
  BY <1>7, <1>8 DEF Running, TimesRun
<1>12. PICK k \in DOMAIN s : Matches(s[k].call, IncomingType, id)
  BY <1>10, <1>11, TimesWitness
<1>13. s[k].call \in Runnable
  BY <1>10
<1>14. s[k].call \in IncomingPacket /\ s[k].call.id = id
  BY <1>12, <1>13, NoCallMatches DEF Runnable, Matches
<1>15. QED
  BY <1>1, <1>8, <1>14 DEF Handles

\* Nested waits cannot wait for each other in a circle.
LEMMA LeaveKeeps ==
  ASSUME LeaveInv
  PROVE  OnlyLaterLeaves
<1>1. PairInv /\ PairTypes /\ NestedCalls /\ \A e \in Endpoint : LeftAt(e)
  BY DEF LeaveInv, PairInv
<1>2. LeftOnlyByLater
  BY <1>1 DEF LeftAt, LeftOnlyByLater, InWait
<1>3. StuckOnlyByLater
  <2>1. SUFFICES ASSUME \A e \in Endpoint : Blocked(e) \/ AtRest(e), NEW e \in Endpoint, Blocked(e), ~Jammed
                 PROVE  FALSE
    BY DEF StuckOnlyByLater
  <2>2. PICK p : p = Peer(e)
    OBVIOUS
  <2>3. p \in Endpoint /\ p # e /\ Peer(p) = e
    BY <2>2, Peers
  <2>4. ASSUME NEW f \in Endpoint
        PROVE  inbox[f] = <<>> /\ m_data_incoming_call[f] = <<>>
    <3>1. ~cancel_wait_respond[f]
      BY <2>1 DEF Jammed
    <3>2. CASE Blocked(f)
      BY <2>1, <3>2 DEF Blocked, Reads, CallQueued, Jammed
    <3>3. CASE AtRest(f)
      BY <1>2, <2>1, <3>1, <3>3 DEF AtRest, LeftOnlyByLater, Jammed
    <3>4. QED
      BY <2>1, <3>2, <3>3
  <2>5. PICK k : Handles(p, k, Top(e).wait_response_id)
    BY <1>1, <2>1, <2>2, <2>3, <2>4, WaitedIsHandled
  <2>6. Blocked(p)
    <3>1. ~Idle(p)
      BY <2>5 DEF Handles, Idle
    <3>2. QED
      BY <2>1, <2>3, <3>1 DEF AtRest
  <2>7. PICK j : Handles(e, j, Top(p).wait_response_id)
    BY <1>1, <2>3, <2>4, <2>6, WaitedIsHandled
  \* A blocked thread is not at the top in a handler.
  <2>8. ASSUME NEW f \in Endpoint, Blocked(f), NEW i, NEW id, Handles(f, i, id)
        PROVE  /\ i \in DOMAIN stack[f] /\ Len(stack[f]) \in DOMAIN stack[f] /\ i < Len(stack[f])
               /\ Len(stack[f]) \in Nat /\ i \in Nat /\ stack[f][Len(stack[f])] = Top(f)
    <3>1. ~Idle(f) /\ Top(f).call = NoCall
      BY <2>8 DEF Blocked, Reads, InWait
    <3>2. Len(stack[f]) \in Nat /\ DOMAIN stack[f] = 1 .. Len(stack[f]) /\ Len(stack[f]) \in DOMAIN stack[f]
      BY <1>1, <3>1, TopFrame
    <3>3. NoCall \notin IncomingPacket
      BY DEF NoCall, IncomingPacket, IncomingType
    <3>4. i \in DOMAIN stack[f] /\ i # Len(stack[f])
      BY <2>8, <3>1, <3>3 DEF Handles, Top
    <3>5. QED
      BY <3>2, <3>4 DEF Top
  <2>9. /\ k \in DOMAIN stack[p] /\ Len(stack[p]) \in DOMAIN stack[p] /\ k < Len(stack[p])
        /\ stack[p][Len(stack[p])] = Top(p)
    BY <2>3, <2>5, <2>6, <2>8
  <2>10. /\ j \in DOMAIN stack[e] /\ Len(stack[e]) \in DOMAIN stack[e] /\ j < Len(stack[e])
         /\ Len(stack[e]) \in Nat /\ j \in Nat /\ stack[e][Len(stack[e])] = Top(e)
    BY <2>1, <2>7, <2>8
  <2>11. Len(stack[e]) =< j
    BY <1>1, <2>2, <2>3, <2>5, <2>7, <2>9, <2>10 DEF NestedCalls
  <2>12. QED
    BY <2>10, <2>11
<1>4. QED
  BY <1>2, <1>3 DEF OnlyLaterLeaves

\* Two ends that call back into each other and run calls while they wait
\* (ProcIn::now) never wait for each other for good; a call stays unrun, and both
\* ends stop, only where a wait postponed it (ProcIn::later, EnumerateRemote) or
\* an end was cancelled.
THEOREM LeavesCorrect == Spec => []OnlyLaterLeaves
<1>1. LeaveInv => OnlyLaterLeaves
  BY LeaveKeeps
<1>2. QED
  BY <1>1, LeaveInvAlways, PTL
=============================================================================
