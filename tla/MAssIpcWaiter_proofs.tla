--------------------------- MODULE MAssIpcWaiter_proofs ---------------------------
(***************************************************************************)
(* SignalsSeen and ResultIsTrue of MAssIpcWaiter, for every width of the     *)
(* counters and every number of threads, events and sources.                 *)
(***************************************************************************)
EXTENDS MAssIpcWaiter, FiniteSetTheorems, TLAPS

Counts == 0 .. W - 1
CheckType == [source : Sources, cancel : BOOLEAN, start : Counts, seen : Int]
OpType == [event : Events \cup {Null}, source : Sources \cup {Null}, cancel : BOOLEAN,
           start : Counts, seen : Int, timed : BOOLEAN, expired : BOOLEAN, next : Nat,
           how : Resets \cup {Null}]
PcType == {"idle", "binding", "resetting", "checking", "blocked", "woken"} \cup Results
Locking == {"checking", "resetting"}

\* The types of the variables, with those of the records and sequences.
SourceTypes ==
    /\ count \in [Sources -> Counts] /\ total \in [Sources -> 0 .. MaxSignals]
    /\ alive \in [Calls -> BOOLEAN] /\ unannounced \in [Calls -> Nat]
LockTypes ==
    /\ owner \in Threads \cup {NoThread} /\ cancel_all_waits \in BOOLEAN
    /\ change_filter \in [Sources \cup {Signaling, Null} -> Nat]
EventTypes == check \in Seq(CheckType) /\ live \subseteq Events /\ m_checks \in [Events -> Seq(Nat)]
ThreadTypes == pc \in [Threads -> PcType] /\ op \in [Threads -> OpType]

\* The owner of the lock is in a loop over checks, and nobody else is.
OwnerLocks == \A t \in Threads : owner = t <=> pc[t] \in Locking

ChecksExist == \A e \in Events : \A k \in DOMAIN m_checks[e] : m_checks[e][k] \in DOMAIN check
GoneEmpty == \A e \in Events \ live : m_checks[e] = <<>>

\* A thread at p works on one of the events l, with what it was asked to do.
Works(p, o, l) ==
    /\ p \notin Results \cup {"idle"} => o.event \in l
    /\ p = "binding" => o.source \in Sources
    /\ p = "resetting" => o.how \in Resets
    /\ p \in Locking => o.next > 0
    /\ o.expired => o.timed
EventsLive == \A t \in Threads : Works(pc[t], op[t], live)

\* Only signals that were counted wait for their announcement.
Announced == \A s \in Calls : unannounced[s] =< total[s]

Structure ==
    /\ SourceTypes /\ LockTypes /\ EventTypes /\ ThreadTypes
    /\ OwnerLocks /\ ChecksExist /\ GoneEmpty /\ EventsLive /\ Announced

\* A start count is that of the signals it stands for, of n.
Stands(k, n) == k.seen \in 0 .. n /\ k.start = k.seen % W

CountInv ==
    /\ \A s \in Sources : count[s] = total[s] % W
    /\ \A c \in DOMAIN check : Stands(check[c], total[check[c].source])
    /\ \A t \in Threads : pc[t] = "binding" => Stands(op[t], total[op[t].source])

\* The places where the live events refer to checks of s.
Refs(s) == {r \in live \X Nat : r[2] \in DOMAIN m_checks[r[1]] /\ check[m_checks[r[1]][r[2]]].source = s}

\* change_filter has an entry for each of them.
FilterInv == \A s \in Calls : alive[s] => IsFiniteSet(Refs(s)) /\ Cardinality(Refs(s)) =< change_filter[s]

\* The checks before the next one of the loop were not triggered when it came
\* to them, and a signal since then has not been announced: that takes the lock.
Passed(t) == \A k \in DOMAIN m_checks[op[t].event] :
    k < op[t].next => LET c == m_checks[op[t].event][k] IN Triggered(c) => Untold(c)

WaitInv == NoLostWakeup /\ \A t \in Threads : pc[t] = "checking" => Passed(t)

-----------------------------------------------------------------------------
(* Counters modulo W                                                       *)

\* The quotient and the remainder.
LEMMA Division ==
    ASSUME NEW x \in Int
    PROVE  \E q \in Int : \E r \in 0 .. W - 1 : x = W * q + r /\ x % W = r
  <1>1. x = W * (x \div W) + (x % W) /\ x \div W \in Int /\ x % W \in 0 .. W - 1
    BY WaiterConstants
  <1> QED
    BY <1>1

\* There is one quotient.
LEMMA OneQuotient ==
    ASSUME NEW q \in Int, NEW p \in Int, NEW r \in 0 .. W - 1, NEW s \in 0 .. W - 1, W * q + r = W * p + s
    PROVE  r = s
  <1>1. W * (q - p) = s - r
    BY WaiterConstants
  <1>2. ASSUME q - p >= 1 PROVE FALSE
    <2>1. W * (q - p) >= W
      BY <1>2, WaiterConstants
    <2> QED
      BY <1>1, <2>1, WaiterConstants
  <1>3. ASSUME q - p =< -1 PROVE FALSE
    <2>1. W * (q - p) =< -W
      BY <1>3, WaiterConstants
    <2> QED
      BY <1>1, <2>1, WaiterConstants
  <1>4. q = p
    BY <1>2, <1>3
  <1> QED
    BY <1>4, WaiterConstants

\* What is left after full rounds is the remainder.
LEMMA RemainderIs ==
    ASSUME NEW x \in Int, NEW q \in Int, NEW r \in 0 .. W - 1, x = W * q + r
    PROVE  x % W = r
  <1>1. PICK p \in Int, s \in 0 .. W - 1 : x = W * p + s /\ x % W = s
    BY Division, Zenon
  <1> QED
    BY <1>1, OneQuotient

\* Counting on the counter is counting on what it stands for.
LEMMA CountsOn == ASSUME NEW x \in Int PROVE ((x % W) + 1) % W = (x + 1) % W
  <1>1. PICK q \in Int, r \in 0 .. W - 1 : x = W * q + r /\ x % W = r
    BY Division, Zenon
  <1>2. CASE r = W - 1
    <2>1. x + 1 = W * (q + 1) + 0 /\ r + 1 = W * 1 + 0
      BY <1>1, <1>2, WaiterConstants
    <2>2. (x + 1) % W = 0 /\ (r + 1) % W = 0
      BY <2>1, RemainderIs, WaiterConstants
    <2> QED
      BY <1>1, <2>2
  <1>3. CASE r # W - 1
    <2>1. x + 1 = W * q + (r + 1) /\ r + 1 = W * 0 + (r + 1) /\ r + 1 \in 0 .. W - 1
      BY <1>1, <1>3, WaiterConstants
    <2> DEFINE u == r + 1
    <2>2. u \in Int /\ u = W * 0 + u /\ u \in 0 .. W - 1 /\ x + 1 \in Int /\ x + 1 = W * q + u
      BY <2>1
    <2> HIDE DEF u
    <2>3. (x + 1) % W = u
      BY <2>2, RemainderIs
    <2>4. u % W = u
      BY <2>2, RemainderIs
    <2> QED
      BY <1>1, <2>3, <2>4, Zenon DEF u
  <1> QED
    BY <1>2, <1>3

\* The difference of two counters is that of what they stand for.
LEMMA Differences == ASSUME NEW x \in Int, NEW y \in Int PROVE ((x % W) - (y % W)) % W = (x - y) % W
  <1>1. PICK q \in Int, r \in 0 .. W - 1 : x = W * q + r /\ x % W = r
    BY Division, Zenon
  <1>2. PICK p \in Int, s \in 0 .. W - 1 : y = W * p + s /\ y % W = s
    BY Division, Zenon
  <1>3. r - s \in Int
    BY WaiterConstants
  <1>4. PICK u \in Int, v \in 0 .. W - 1 : r - s = W * u + v /\ (r - s) % W = v
    BY <1>3, Division, Zenon
  <1>5. x - y = W * (q - p + u) + v
    <2>1. W * (q - p + u) = W * q - W * p + W * u
      BY WaiterConstants
    <2> QED
      BY <1>1, <1>2, <1>4, <2>1, WaiterConstants
  <1>6. (x - y) % W = v
    BY <1>5, RemainderIs
  <1> QED
    BY <1>1, <1>2, <1>4, <1>6, Zenon

\* The signals before the last time the counter was zero.
LEMMA FullRounds == ASSUME NEW x \in Nat PROVE x - (x % W) \in 0 .. x /\ (x - (x % W)) % W = 0
  <1>0. x \in Int
    OBVIOUS
  <1>1. PICK q \in Int, r \in 0 .. W - 1 : x = W * q + r /\ x % W = r
    BY <1>0, Division, Zenon
  <1>2. ASSUME q =< -1 PROVE FALSE
    <2>1. W * q =< -W
      BY <1>2, WaiterConstants
    <2> QED
      BY <1>1, <2>1, WaiterConstants
  <1>3. W * q >= 0
    BY <1>2, WaiterConstants
  <1>4. x - r = W * q + 0 /\ x - r \in 0 .. x
    BY <1>1, <1>3, WaiterConstants
  <1>5. (x - r) % W = 0
    BY <1>4, RemainderIs, WaiterConstants
  <1> QED
    BY <1>1, <1>4, <1>5

\* A number below the width is its own remainder.
LEMMA Small == ASSUME NEW r \in 0 .. W - 1 PROVE r % W = r
  <1>1. r = W * 0 + r
    BY WaiterConstants
  <1> QED
    BY <1>1, RemainderIs
-----------------------------------------------------------------------------
(* Types                                                                   *)

\* An idle thread's op has the type of op.
LEMMA NoOpType == NoOp \in OpType
  BY WaiterConstants DEF NoOp, OpType, Counts

\* A notification wakes the threads that sleep and no others.
LEMMA NotifyAllType ==
    ASSUME ThreadTypes
    PROVE  /\ NotifyAll \in [Threads -> PcType]
           /\ \A t \in Threads : NotifyAll[t] = pc[t] \/ (pc[t] = "blocked" /\ NotifyAll[t] = "woken")
           /\ \A t \in Threads : NotifyAll[t] # "blocked"
           /\ \A t \in Threads : pc[t] # "blocked" => NotifyAll[t] = pc[t]
  <1>1. \A t \in Threads : NotifyAll[t] = IF pc[t] = "blocked" THEN "woken" ELSE pc[t]
    BY Zenon DEF NotifyAll
  <1>2. NotifyAll \in [Threads -> PcType]
    BY Zenon DEF ThreadTypes, NotifyAll, PcType
  <1> QED
    BY <1>1, <1>2

\* The structure holds at first.
LEMMA InitStructure == Init => Structure
  <1> SUFFICES ASSUME Init PROVE Structure
    OBVIOUS
  <1>1. SourceTypes
    <2>1. count \in [Sources -> Counts] /\ total \in [Sources -> 0 .. MaxSignals]
      BY WaiterConstants DEF Init, Counts
    <2>2. alive \in [Calls -> BOOLEAN] /\ unannounced \in [Calls -> Nat]
      BY Zenon DEF Init
    <2> QED
      BY <2>1, <2>2 DEF SourceTypes
  <1>2. LockTypes
    BY Zenon DEF Init, LockTypes
  <1>3. EventTypes
    BY DEF Init, EventTypes
  <1>4. ThreadTypes
    BY NoOpType, Zenon DEF Init, PcType, ThreadTypes
  <1>5. OwnerLocks
    BY WaiterNames DEF Init, OwnerLocks, Locking
  <1>6. ChecksExist /\ GoneEmpty
    BY DEF Init, ChecksExist, GoneEmpty
  <1>7. EventsLive
    <2>1. Works("idle", NoOp, live)
      BY DEF Works, NoOp, Locking
    <2> QED
      BY <2>1, Zenon DEF Init, EventsLive
  <1>8. Announced
    BY DEF Init, Announced, Sources
  <1> QED
    BY <1>1, <1>2, <1>3, <1>4, <1>5, <1>6, <1>7, <1>8 DEF Structure

\* What a thread begins is of the types of op.
LEMMA CounterOpType ==
    ASSUME NEW e \in Events, NEW s \in Sources, NEW cancel \in BOOLEAN
    PROVE  [NoOp EXCEPT !.event = e, !.source = s, !.cancel = cancel] \in OpType
  BY NoOpType DEF OpType

\* That of ResetTriggered.
LEMMA ResetOpType ==
    ASSUME NEW e \in Events, NEW how \in Resets
    PROVE  [NoOp EXCEPT !.event = e, !.how = how, !.next = 1] \in OpType
  BY NoOpType DEF OpType

\* That of Wait.
LEMMA WaitOpType ==
    ASSUME NEW e \in Events, NEW timed \in BOOLEAN
    PROVE  [NoOp EXCEPT !.event = e, !.timed = timed, !.next = 1] \in OpType
  BY NoOpType DEF OpType

\* The next check of a loop.
LEMMA NextOpType == ASSUME NEW o \in OpType, NEW n \in Nat PROVE [o EXCEPT !.next = n] \in OpType
  BY DEF OpType

\* That of a bind with a start count.
LEMMA BoundOpType ==
    ASSUME NEW e \in Events, NEW s \in Sources, NEW cancel \in BOOLEAN, NEW start \in Counts, NEW seen \in Int
    PROVE  [NoOp EXCEPT !.event = e, !.source = s, !.cancel = cancel, !.start = start, !.seen = seen] \in OpType
  BY NoOpType DEF OpType

\* An entry of two joined sequences is one of the first or of the second.
LEMMA JoinedEntry ==
    ASSUME NEW x \in Seq(Nat), NEW y \in Seq(Nat), NEW k \in DOMAIN (x \o y)
    PROVE  \/ k \in DOMAIN x /\ (x \o y)[k] = x[k]
           \/ k \in Nat /\ k - Len(x) \in DOMAIN y /\ (x \o y)[k] = y[k - Len(x)]
  OBVIOUS

\* An event has finitely many entries of a filter id.
LEMMA EntriesType ==
    ASSUME Structure, NEW e \in Events, NEW i
    PROVE  Entries(e, i) \in Nat /\ IsFiniteSet({k \in DOMAIN m_checks[e] : GetFilterId(m_checks[e][k]) = i})
  <1>1. m_checks[e] \in Seq(Nat)
    BY DEF Structure, EventTypes
  <1>2. IsFiniteSet(DOMAIN m_checks[e])
    BY <1>1, FS_Interval
  <1>3. {k \in DOMAIN m_checks[e] : GetFilterId(m_checks[e][k]) = i} \in SUBSET DOMAIN m_checks[e]
    BY Zenon
  <1> QED
    BY <1>2, <1>3, FS_Subset, FS_CardinalityType DEF Entries

\* A thread that was woken has what it had.
LEMMA WorksOn ==
    ASSUME NEW p \in PcType, NEW q \in PcType, NEW o \in OpType, NEW l, NEW m, l \subseteq m, Works(p, o, l),
           q = p \/ (p = "blocked" /\ q = "woken")
    PROVE  Works(q, o, m)
  BY DEF Works, Locking, Results

\* A step of thread t: the others go on or are woken.
LEMMA ThreadMoves ==
    ASSUME Structure, NEW t \in Threads, NEW p \in PcType, NEW o \in OpType,
           pc' = [pc EXCEPT ![t] = p] \/ pc' = [NotifyAll EXCEPT ![t] = p],
           op' = [op EXCEPT ![t] = o], live \subseteq live', Works(p, o, live'),
           \/ p \in Locking /\ owner' = t /\ owner \in {t, NoThread}
           \/ p \notin Locking /\ owner' = NoThread /\ owner \in {t, NoThread}
           \/ p \notin Locking /\ owner' = owner /\ owner # t
    PROVE  ThreadTypes' /\ OwnerLocks' /\ EventsLive'
  <1>1. pc' \in [Threads -> PcType] /\ op' \in [Threads -> OpType]
    BY NotifyAllType DEF Structure, ThreadTypes
  <1>2. pc'[t] = p /\ op'[t] = o
    BY NotifyAllType DEF Structure, ThreadTypes
  <1>3. \A u \in Threads \ {t} : op'[u] = op[u] /\ (pc'[u] = pc[u] \/ (pc[u] = "blocked" /\ pc'[u] = "woken"))
    BY NotifyAllType DEF Structure, ThreadTypes
  <1>4. OwnerLocks'
    <2>1. \A u \in Threads \ {t} : pc'[u] \in Locking <=> pc[u] \in Locking
      BY <1>3 DEF Locking
    <2> QED
      BY <1>2, <2>1, WaiterNames DEF Structure, OwnerLocks
  <1>5. EventsLive'
    <2> SUFFICES ASSUME NEW u \in Threads PROVE Works(pc'[u], op'[u], live')
      BY Zenon DEF EventsLive
    <2>1. CASE u = t
      BY <2>1, <1>2, Zenon
    <2>2. CASE u # t
      <3>1. /\ pc[u] \in PcType /\ pc'[u] \in PcType /\ op[u] \in OpType /\ op'[u] = op[u]
            /\ pc'[u] = pc[u] \/ (pc[u] = "blocked" /\ pc'[u] = "woken")
            /\ Works(pc[u], op[u], live)
        BY <1>1, <1>3, <2>2, Zenon DEF Structure, ThreadTypes, EventsLive
      <3> QED
        BY <3>1, WorksOn
    <2> QED
      BY <2>1, <2>2
  <1> QED
    BY <1>1, <1>4, <1>5 DEF ThreadTypes

\* A step that only wakes threads.
LEMMA OnlyWakes ==
    ASSUME Structure, pc' = pc \/ pc' = NotifyAll, op' = op, owner' = owner,
           \A u \in Threads : pc[u] \in Results \cup {"idle"} \/ (op[u].event \in live => op[u].event \in live')
    PROVE  ThreadTypes' /\ OwnerLocks' /\ EventsLive'
  <1>1. pc' \in [Threads -> PcType] /\ op' \in [Threads -> OpType]
    BY NotifyAllType DEF Structure, ThreadTypes
  <1>3. \A u \in Threads : op'[u] = op[u] /\ (pc'[u] = pc[u] \/ (pc[u] = "blocked" /\ pc'[u] = "woken"))
    BY NotifyAllType DEF Structure, ThreadTypes
  <1>4. OwnerLocks'
    <2>1. \A u \in Threads : pc'[u] \in Locking <=> pc[u] \in Locking
      BY <1>3 DEF Locking
    <2> QED
      BY <2>1 DEF Structure, OwnerLocks
  <1>5. EventsLive'
    <2> SUFFICES ASSUME NEW u \in Threads PROVE Works(pc'[u], op'[u], live')
      BY Zenon DEF EventsLive
    <2>1. /\ pc[u] \in PcType /\ pc'[u] \in PcType /\ op[u] \in OpType /\ op'[u] = op[u]
          /\ pc'[u] = pc[u] \/ (pc[u] = "blocked" /\ pc'[u] = "woken")
          /\ Works(pc[u], op[u], live)
      BY <1>1, <1>3, Zenon DEF Structure, ThreadTypes, EventsLive
    <2>2. Works(pc[u], op[u], live')
      BY <2>1 DEF Works
    <2> QED
      BY <2>1, <2>2, WorksOn
  <1> QED
    BY <1>1, <1>4, <1>5 DEF ThreadTypes

\* Steps that leave the sources alone.
LEMMA SameSources == ASSUME Structure, UNCHANGED source_vars PROVE SourceTypes' /\ Announced'
  BY Zenon DEF Structure, source_vars, SourceTypes, Announced

\* Steps that leave the events alone.
LEMMA SameEvents == ASSUME Structure, UNCHANGED event_vars PROVE EventTypes' /\ ChecksExist' /\ GoneEmpty'
  BY Zenon DEF Structure, event_vars, EventTypes, ChecksExist, GoneEmpty

\* Steps that leave the filter alone.
LEMMA SameFilter ==
    ASSUME Structure, owner' \in Threads \cup {NoThread}, UNCHANGED <<cancel_all_waits, change_filter>>
    PROVE  LockTypes'
  BY Zenon DEF Structure, LockTypes

\* Every step keeps the structure: what threads begin.
LEMMA BeginStructure == ASSUME Structure, NEW t \in Threads, Begin(t) PROVE Structure'
  <1>1. ASSUME NEW e \in Events, CreateEvent(t, e) PROVE Structure'
    <2>1. UNCHANGED <<source_vars, owner, cancel_all_waits, change_filter, check, m_checks, pc, op>> /\ live' = live \cup {e}
      BY <1>1, Zenon DEF CreateEvent
    <2>2. EventTypes' /\ ChecksExist' /\ GoneEmpty'
      BY <2>1 DEF Structure, EventTypes, ChecksExist, GoneEmpty
    <2>3. ThreadTypes' /\ OwnerLocks' /\ EventsLive'
      BY <2>1, OnlyWakes
    <2> QED
      BY <2>1, <2>2, <2>3, SameSources, SameFilter DEF Structure, LockTypes
  <1>2. ASSUME NEW e \in Events, Destroy(t, e) PROVE Structure'
    <2>1. /\ UNCHANGED <<source_vars, owner, cancel_all_waits, check, op>> /\ live' = live \ {e}
          /\ m_checks' = [m_checks EXCEPT ![e] = <<>>] /\ change_filter' = Erased(e)
          /\ pc' = pc \/ pc' = NotifyAll
          /\ ~InUse(e)
      BY <1>2, Zenon DEF Destroy
    <2>2. m_checks' \in [Events -> Seq(Nat)] /\ m_checks'[e] = <<>> /\ \A f \in Events \ {e} : m_checks'[f] = m_checks[f]
      BY <2>1 DEF Structure, EventTypes
    <2>3. EventTypes' /\ ChecksExist' /\ GoneEmpty'
      BY <2>1, <2>2 DEF Structure, EventTypes, ChecksExist, GoneEmpty
    <2>4. \A u \in Threads : pc[u] \in Results \cup {"idle"} \/ (op[u].event \in live => op[u].event \in live')
      BY <2>1 DEF InUse, Idle
    <2>5. ThreadTypes' /\ OwnerLocks' /\ EventsLive'
      BY <2>1, <2>4, OnlyWakes
    <2>6. change_filter' \in [Sources \cup {Signaling, Null} -> Nat]
      <3> SUFFICES ASSUME NEW i \in Sources \cup {Signaling, Null}
                   PROVE  (IF Entries(e, i) > change_filter[i] THEN 0 ELSE change_filter[i] - Entries(e, i)) \in Nat
        BY <2>1 DEF Erased, Structure, LockTypes
      <3>1. Entries(e, i) \in Nat
        BY <1>2, EntriesType DEF Destroy
      <3> QED
        BY <3>1 DEF Structure, LockTypes
    <2>7. LockTypes'
      BY <2>1, <2>6 DEF LockTypes, Structure
    <2> QED
      BY <2>1, <2>3, <2>5, <2>7, SameSources DEF Structure
  <1>3. ASSUME NEW e \in Events, NEW other \in Events, BindEvent(t, e, other) PROVE Structure'
    <2>1. /\ UNCHANGED <<source_vars, owner, cancel_all_waits, check, live, op>> /\ pc' = NotifyAll
          /\ m_checks' = [m_checks EXCEPT ![e] = m_checks[e] \o m_checks[other]]
          /\ change_filter' = [i \in DOMAIN change_filter |-> change_filter[i] + Entries(other, i)]
          /\ e \in live /\ other \in live
      BY <1>3, Zenon DEF BindEvent
    <2>2. /\ m_checks[e] \in Seq(Nat) /\ m_checks[other] \in Seq(Nat) /\ m_checks' \in [Events -> Seq(Nat)]
          /\ m_checks'[e] = m_checks[e] \o m_checks[other] /\ \A f \in Events \ {e} : m_checks'[f] = m_checks[f]
      BY <2>1 DEF Structure, EventTypes
    <2>3. \A k \in DOMAIN m_checks'[e] : m_checks'[e][k] \in DOMAIN check
      <3> SUFFICES ASSUME NEW k \in DOMAIN m_checks'[e] PROVE m_checks'[e][k] \in DOMAIN check
        OBVIOUS
      <3>1. \/ k \in DOMAIN m_checks[e] /\ m_checks'[e][k] = m_checks[e][k]
            \/ \E j \in DOMAIN m_checks[other] : m_checks'[e][k] = m_checks[other][j]
        <4>1. k \in DOMAIN (m_checks[e] \o m_checks[other])
          BY <2>2, Zenon
        <4>2. \/ k \in DOMAIN m_checks[e] /\ (m_checks[e] \o m_checks[other])[k] = m_checks[e][k]
              \/ \E j \in DOMAIN m_checks[other] : (m_checks[e] \o m_checks[other])[k] = m_checks[other][j]
          BY <2>2, <4>1, JoinedEntry
        <4> QED
          BY <2>2, <4>2, Zenon
      <3> QED
        BY <3>1 DEF Structure, ChecksExist
    <2>4. ChecksExist'
      BY <2>1, <2>2, <2>3 DEF Structure, ChecksExist
    <2>5. EventTypes' /\ GoneEmpty'
      BY <2>1, <2>2 DEF Structure, EventTypes, GoneEmpty
    <2>6. change_filter' \in [Sources \cup {Signaling, Null} -> Nat]
      <3>1. \A i : Entries(other, i) \in Nat
        BY EntriesType
      <3> QED
        BY <2>1, <3>1 DEF Structure, LockTypes
    <2>7. LockTypes'
      BY <2>1, <2>6 DEF LockTypes, Structure
    <2>8. ThreadTypes' /\ OwnerLocks' /\ EventsLive'
      BY <2>1, OnlyWakes
    <2> QED
      BY <2>1, <2>4, <2>5, <2>7, <2>8, SameSources DEF Structure
  <1>4. ASSUME NEW e \in Events, NEW timed \in BOOLEAN, Wait(t, e, timed) PROVE Structure'
    <2> DEFINE o == [NoOp EXCEPT !.event = e, !.timed = timed, !.next = 1]
    <2>1. /\ UNCHANGED <<source_vars, cancel_all_waits, change_filter, event_vars>> /\ owner' = t /\ owner = NoThread
          /\ pc' = [pc EXCEPT ![t] = "checking"] /\ op' = [op EXCEPT ![t] = o] /\ e \in live
      BY <1>4, Zenon DEF Wait, Unlocked
    <2>2. o.event = e /\ o.expired = FALSE /\ o.next = 1
      BY DEF NoOp
    <2>3. o \in OpType
      BY WaitOpType
    <2> HIDE DEF o
    <2>4. live' = live
      BY <2>1 DEF event_vars
    <2>5. Works("checking", o, live')
      BY <2>1, <2>2, <2>4 DEF Works, Locking
    <2>6. ThreadTypes' /\ OwnerLocks' /\ EventsLive'
      <3>1. PICK p \in PcType : p = "checking" /\ pc' = [pc EXCEPT ![t] = p]
        BY <2>1 DEF PcType
      <3>2. p \in Locking /\ Works(p, o, live')
        BY <2>5, <3>1 DEF Locking
      <3> QED
        BY <2>1, <2>3, <2>4, <3>1, <3>2, ThreadMoves
    <2> QED
      BY <2>1, <2>6, SameSources, SameEvents, SameFilter DEF Structure
  <1>5. ASSUME NEW e \in Events, NEW how \in Resets, ResetTriggered(t, e, how) PROVE Structure'
    <2> DEFINE o == [NoOp EXCEPT !.event = e, !.how = how, !.next = 1]
    <2>1. /\ UNCHANGED <<source_vars, cancel_all_waits, change_filter, event_vars>> /\ owner' = t /\ owner = NoThread
          /\ pc' = [pc EXCEPT ![t] = "resetting"] /\ op' = [op EXCEPT ![t] = o] /\ e \in live
      BY <1>5, Zenon DEF ResetTriggered, Unlocked
    <2>2. o.event = e /\ o.expired = FALSE /\ o.next = 1 /\ o.how = how
      BY DEF NoOp
    <2>3. o \in OpType
      BY ResetOpType
    <2> HIDE DEF o
    <2>4. live' = live
      BY <2>1 DEF event_vars
    <2>5. Works("resetting", o, live')
      BY <2>1, <2>2, <2>4 DEF Works, Locking
    <2>6. ThreadTypes' /\ OwnerLocks' /\ EventsLive'
      <3>1. PICK p \in PcType : p = "resetting" /\ pc' = [pc EXCEPT ![t] = p]
        BY <2>1 DEF PcType
      <3>2. p \in Locking /\ Works(p, o, live')
        BY <2>5, <3>1 DEF Locking
      <3> QED
        BY <2>1, <2>3, <2>4, <3>1, <3>2, ThreadMoves
    <2> QED
      BY <2>1, <2>6, SameSources, SameEvents, SameFilter DEF Structure
  <1>6. ASSUME NEW e \in Events, NEW s \in Sources, NEW cancel \in Flags, CounterEvent(t, e, s, cancel)
        PROVE  Structure'
    <2> DEFINE o == [NoOp EXCEPT !.event = e, !.source = s, !.cancel = cancel]
    <2>1. /\ UNCHANGED <<source_vars, owner, cancel_all_waits, change_filter, check, m_checks>>
          /\ pc' = [pc EXCEPT ![t] = "binding"] /\ op' = [op EXCEPT ![t] = o] /\ live' = live \cup {e} /\ pc[t] = "idle"
      BY <1>6, Zenon DEF CounterEvent, Idle
    <2>2. o.event = e /\ o.expired = FALSE /\ o.source = s
      BY DEF NoOp
    <2>3. o \in OpType
      BY CounterOpType, WaiterConstants
    <2> HIDE DEF o
    <2>4. EventTypes' /\ ChecksExist' /\ GoneEmpty'
      BY <2>1 DEF Structure, EventTypes, ChecksExist, GoneEmpty
    <2>5. Works("binding", o, live')
      BY <2>1, <2>2, <2>4 DEF Works, Locking
    <2>6. ThreadTypes' /\ OwnerLocks' /\ EventsLive'
      <3>1. PICK p \in PcType : p = "binding" /\ pc' = [pc EXCEPT ![t] = p]
        BY <2>1 DEF PcType
      <3>2. p \notin Locking /\ Works(p, o, live') /\ owner # t
        BY <2>1, <2>5, <3>1 DEF Locking, Structure, OwnerLocks
      <3> QED
        BY <2>1, <2>3, <2>4, <3>1, <3>2, ThreadMoves
    <2> QED
      BY <2>1, <2>4, <2>6, SameSources, SameFilter DEF Structure, LockTypes
  <1>7. ASSUME NEW e \in Events, NEW s \in Sources, NEW initial \in Initials, NEW cancel \in Flags,
               Binding(t, e, s, initial, cancel)
        PROVE  Structure'
    <2> DEFINE i == InitialCount(s, initial)
               o == [NoOp EXCEPT !.event = e, !.source = s, !.cancel = cancel, !.start = i.start, !.seen = i.seen]
    <2>1. /\ UNCHANGED <<source_vars, owner, cancel_all_waits, change_filter, event_vars>>
          /\ pc' = [pc EXCEPT ![t] = "binding"] /\ op' = [op EXCEPT ![t] = o] /\ e \in live /\ pc[t] = "idle"
      BY <1>7, Zenon DEF Binding, Idle
    <2>2. i.start \in Counts /\ i.seen \in Int
      BY WaiterConstants DEF InitialCount, Structure, SourceTypes, Counts
    <2> HIDE DEF i
    <2>3. o.event = e /\ o.expired = FALSE /\ o.source = s
      BY DEF NoOp
    <2>4. o \in OpType
      BY <2>2, BoundOpType, WaiterConstants
    <2> HIDE DEF o
    <2>5. Works("binding", o, live') /\ live' = live
      BY <2>1, <2>3 DEF Works, Locking, event_vars
    <2>6. ThreadTypes' /\ OwnerLocks' /\ EventsLive'
      <3>1. PICK p \in PcType : p = "binding" /\ pc' = [pc EXCEPT ![t] = p]
        BY <2>1 DEF PcType
      <3>2. p \notin Locking /\ Works(p, o, live') /\ owner # t
        BY <2>1, <2>5, <3>1 DEF Locking, Structure, OwnerLocks
      <3> QED
        BY <2>1, <2>4, <2>5, <3>1, <3>2, ThreadMoves
    <2> QED
      BY <2>1, <2>6, SameSources, SameEvents, SameFilter DEF Structure, LockTypes
  <1>8. ASSUME CancelAllWaits(t) PROVE Structure'
    <2>1. /\ UNCHANGED <<source_vars, owner, change_filter, event_vars, op>> /\ cancel_all_waits' = TRUE /\ pc' = NotifyAll
      BY <1>8, Zenon DEF CancelAllWaits
    <2>2. ThreadTypes' /\ OwnerLocks' /\ EventsLive'
      BY <2>1, OnlyWakes DEF event_vars
    <2>3. LockTypes'
      BY <2>1, Zenon DEF Structure, LockTypes
    <2> QED
      BY <2>1, <2>2, <2>3, SameSources, SameEvents DEF Structure
  <1> QED
    BY <1>1, <1>2, <1>3, <1>4, <1>5, <1>6, <1>7, <1>8, Zenon DEF Begin, BindCall, BindConnect

\* A remainder is a count.
LEMMA RemainderType == ASSUME NEW x \in Int PROVE x % W \in Counts
  BY WaiterConstants DEF Counts

\* What the three kinds of reset make of a check.
LEMMA ResetCheck ==
    ASSUME Structure, NEW k \in CheckType, NEW how \in Resets
    PROVE  /\ ResetLocked(k, how) \in CheckType
           /\ ResetLocked(k, how).source = k.source /\ ResetLocked(k, how).cancel = k.cancel
           /\ \/ ResetLocked(k, how).start = count[k.source] /\ ResetLocked(k, how).seen = total[k.source]
              \/ ResetLocked(k, how).start = (k.start + 1) % W /\ ResetLocked(k, how).seen = k.seen + 1
              \/ ResetLocked(k, how).start = 0 /\ ResetLocked(k, how).seen = total[k.source] - count[k.source]
  <1> DEFINE s == k.source
  <1>1. k.source \in Sources /\ k.start \in Int /\ k.seen \in Int /\ 0 \in Counts
    BY WaiterConstants DEF CheckType, Counts
  <1>2. count[s] \in Counts /\ total[s] \in Int
    BY <1>1, WaiterConstants DEF Structure, SourceTypes
  <1>3. count[s] \in Int
    BY <1>2 DEF Counts
  <1>4. CASE how = "wait_next_after_reset"
    <2>1. ResetLocked(k, how) = [k EXCEPT !.start = count[k.source], !.seen = total[k.source]]
      BY <1>4 DEF ResetLocked
    <2> QED
      BY <2>1, <1>2 DEF CheckType
  <1>5. CASE how = "wait_next_after_trigger"
    <2>1. ResetLocked(k, how) = [k EXCEPT !.start = (k.start + 1) % W, !.seen = k.seen + 1]
      BY <1>5 DEF ResetLocked
    <2>2. (k.start + 1) % W \in Counts /\ k.seen + 1 \in Int
      BY <1>1, RemainderType
    <2> HIDE DEF s
    <2>3. PICK a \in Counts, b \in Int : a = (k.start + 1) % W /\ b = k.seen + 1
      BY <2>2
    <2>4. ResetLocked(k, how) = [k EXCEPT !.start = a, !.seen = b]
      BY <2>1, <2>3
    <2> QED
      BY <2>3, <2>4 DEF CheckType
  <1>6. CASE how = "wait_next_after_zero"
    <2>1. ResetLocked(k, how) = [k EXCEPT !.start = 0, !.seen = total[k.source] - count[k.source]]
      BY <1>6 DEF ResetLocked
    <2>2. PICK b \in Int : b = total[k.source] - count[k.source]
      BY <1>2, <1>3
    <2> QED
      BY <2>1, <2>2, <1>1 DEF CheckType
  <1> QED
    BY <1>4, <1>5, <1>6, WaiterConstants

\* A check that was reset is where it was.
LEMMA ResetAt ==
    ASSUME Structure, NEW c \in DOMAIN check, NEW how \in Resets
    PROVE  /\ [check EXCEPT ![c] = ResetLocked(check[c], how)] \in Seq(CheckType)
           /\ DOMAIN [check EXCEPT ![c] = ResetLocked(check[c], how)] = DOMAIN check
  <1>1. check[c] \in CheckType /\ check \in Seq(CheckType)
    BY DEF Structure, EventTypes
  <1>2. ResetLocked(check[c], how) \in CheckType
    BY <1>1, ResetCheck
  <1> QED
    BY <1>1, <1>2

\* Every step keeps the structure: what threads go on with.
LEMMA ThreadStructure ==
    ASSUME Structure, NEW t \in Threads, ThreadStep(t) \/ Timeout(t) \/ SpuriousWakeup(t)
    PROVE  Structure'
  <1>0. pc[t] \in PcType /\ op[t] \in OpType /\ Works(pc[t], op[t], live)
    BY Zenon DEF Structure, ThreadTypes, EventsLive
  <1>1. CASE BindCheck(t)
    <2> DEFINE o == op[t]
               k == [source |-> o.source, cancel |-> o.cancel, start |-> o.start, seen |-> o.seen]
               i == IF o.source \in States THEN Signaling ELSE o.source
    <2>1. /\ UNCHANGED <<source_vars, owner, cancel_all_waits, live>> /\ pc[t] = "binding" /\ owner = NoThread
          /\ check' = Append(check, k)
          /\ m_checks' = [m_checks EXCEPT ![o.event] = Append(m_checks[o.event], Len(check) + 1)]
          /\ change_filter' = [change_filter EXCEPT ![i] = change_filter[i] + 1]
          /\ pc' = [NotifyAll EXCEPT ![t] = "idle"] /\ op' = [op EXCEPT ![t] = NoOp]
      BY <1>1, Zenon DEF BindCheck, Unlocked
    <2>2. o.event \in live /\ o.source \in Sources
      BY <1>0, <2>1 DEF Works, Results
    <2>3. k \in CheckType
      BY <1>0, <2>2 DEF CheckType, OpType
    <2>4. i \in Sources \cup {Signaling, Null}
      BY <2>2
    <2> HIDE DEF k, i
    <2>5. check' \in Seq(CheckType) /\ DOMAIN check' = DOMAIN check \cup {Len(check) + 1} /\ Len(check) + 1 \in Nat
      BY <2>1, <2>3 DEF Structure, EventTypes
    <2>6. o.event \in Events /\ m_checks[o.event] \in Seq(Nat)
      BY <2>2 DEF Structure, EventTypes
    <2>7. /\ m_checks' \in [Events -> Seq(Nat)] /\ m_checks'[o.event] = Append(m_checks[o.event], Len(check) + 1)
          /\ \A f \in Events \ {o.event} : m_checks'[f] = m_checks[f]
      BY <2>1, <2>5, <2>6 DEF Structure, EventTypes
    <2>8. \A j \in DOMAIN m_checks'[o.event] : m_checks'[o.event][j] \in DOMAIN check'
      <3> SUFFICES ASSUME NEW j \in DOMAIN Append(m_checks[o.event], Len(check) + 1)
                   PROVE  Append(m_checks[o.event], Len(check) + 1)[j] \in DOMAIN check'
        BY <2>7, Zenon
      <3>1. CASE j \in DOMAIN m_checks[o.event]
        BY <2>5, <2>6, <3>1 DEF Structure, ChecksExist
      <3>2. CASE j \notin DOMAIN m_checks[o.event]
        BY <2>5, <2>6, <3>2
      <3> QED
        BY <3>1, <3>2
    <2>9. EventTypes' /\ ChecksExist' /\ GoneEmpty'
      BY <2>1, <2>2, <2>5, <2>7, <2>8 DEF Structure, EventTypes, ChecksExist, GoneEmpty
    <2>10. LockTypes'
      BY <2>1, <2>4 DEF Structure, LockTypes
    <2>11. ThreadTypes' /\ OwnerLocks' /\ EventsLive'
      <3>1. PICK p \in PcType : p = "idle" /\ pc' = [NotifyAll EXCEPT ![t] = p]
        BY <2>1 DEF PcType
      <3>2. p \notin Locking /\ Works(p, NoOp, live')
        BY <3>1 DEF Locking, Works, NoOp
      <3> QED
        BY <2>1, <3>1, <3>2, NoOpType, ThreadMoves
    <2> QED
      BY <2>1, <2>9, <2>10, <2>11, SameSources DEF Structure
  <1>2. CASE ResetStep(t)
    <2>1. UNCHANGED <<source_vars, cancel_all_waits, change_filter, live, m_checks>> /\ pc[t] = "resetting"
      BY <1>2, Zenon DEF ResetStep
    <2>2. op[t].event \in live /\ op[t].how \in Resets /\ op[t].next > 0 /\ op[t].next \in Nat /\ owner = t
      BY <1>0, <2>1 DEF Works, Results, Locking, OpType, Structure, OwnerLocks
    <2>3. op[t].event \in Events /\ m_checks[op[t].event] \in Seq(Nat)
      BY <2>2 DEF Structure, EventTypes
    <2>4. CASE op[t].next =< Len(m_checks[op[t].event])
      <3> DEFINE c == m_checks[op[t].event][op[t].next]
      <3>1. /\ check' = IF ToReset(c) THEN [check EXCEPT ![c] = ResetLocked(check[c], op[t].how)] ELSE check
            /\ op' = [op EXCEPT ![t].next = op[t].next + 1] /\ UNCHANGED <<owner, pc>>
        BY <1>2, <2>4, Zenon DEF ResetStep
      <3>2. c \in DOMAIN check
        BY <2>2, <2>3, <2>4 DEF Structure, ChecksExist
      <3>3. check' \in Seq(CheckType) /\ DOMAIN check' = DOMAIN check
        <4>1. CASE ToReset(c)
          BY <2>2, <3>1, <3>2, <4>1, ResetAt
        <4>2. CASE ~ToReset(c)
          BY <3>1, <4>2 DEF Structure, EventTypes
        <4> QED
          BY <4>1, <4>2
      <3>4. EventTypes' /\ ChecksExist' /\ GoneEmpty'
        BY <2>1, <3>3 DEF Structure, EventTypes, ChecksExist, GoneEmpty
      <3>5. ThreadTypes' /\ OwnerLocks' /\ EventsLive'
        <4>1. PICK o \in OpType : o = [op[t] EXCEPT !.next = op[t].next + 1]
          <5>1. op[t].next + 1 \in Nat
            BY <2>2
          <5> QED
            BY <1>0, <5>1, NextOpType
        <4>2. o.event = op[t].event /\ o.how = op[t].how /\ o.next = op[t].next + 1
              /\ o.expired = op[t].expired /\ o.timed = op[t].timed /\ o.source = op[t].source
          BY <1>0, <4>1 DEF OpType
        <4>3. Works(pc[t], o, live')
          BY <1>0, <2>1, <2>2, <4>2 DEF Works
        <4>4. pc' = [pc EXCEPT ![t] = pc[t]] /\ op' = [op EXCEPT ![t] = o]
          BY <3>1, <4>1 DEF Structure, ThreadTypes
        <4>5. pc[t] \in Locking
          BY <2>1 DEF Locking
        <4>6. PICK p \in PcType : p = pc[t] /\ pc' = [pc EXCEPT ![t] = p]
          BY <1>0, <4>4
        <4> QED
          BY <2>1, <2>2, <3>1, <4>3, <4>4, <4>5, <4>6, ThreadMoves
      <3>6. LockTypes'
        BY <2>1, <3>1 DEF Structure, LockTypes
      <3> QED
        BY <2>1, <3>4, <3>5, <3>6, SameSources DEF Structure
    <2>5. CASE ~(op[t].next =< Len(m_checks[op[t].event]))
      <3>1. /\ owner' = NoThread /\ UNCHANGED check
            /\ pc' = [pc EXCEPT ![t] = "idle"] /\ op' = [op EXCEPT ![t] = NoOp]
        BY <1>2, <2>5, Zenon DEF ResetStep
      <3>2. ThreadTypes' /\ OwnerLocks' /\ EventsLive'
        <4>1. PICK p \in PcType : p = "idle" /\ pc' = [pc EXCEPT ![t] = p]
          BY <3>1 DEF PcType
        <4>2. p \notin Locking /\ Works(p, NoOp, live')
          BY <4>1 DEF Locking, Works, NoOp
        <4> QED
          BY <2>1, <2>2, <3>1, <4>1, <4>2, NoOpType, ThreadMoves
      <3> QED
        BY <2>1, <3>1, <3>2, SameSources, SameEvents, SameFilter DEF Structure, event_vars
    <2> QED
      BY <2>4, <2>5
  <1>3. CASE WaitStep(t)
    <2>1. /\ UNCHANGED <<source_vars, cancel_all_waits, event_vars>> /\ pc[t] = "checking"
          /\ Predicate_Canceled(t) \/ Predicate_Step(t) \/ Predicate_False(t)
      BY <1>3, Zenon DEF WaitStep
    <2>2. UNCHANGED change_filter /\ live' = live
      BY <2>1, Zenon DEF Predicate_Canceled, Predicate_Step, Predicate_False, event_vars
    <2>3. op[t].event \in live /\ op[t].next > 0 /\ op[t].next \in Nat /\ owner = t
      BY <1>0, <2>1 DEF Works, Results, Locking, OpType, Structure, OwnerLocks
    <2>4. owner' \in Threads \cup {NoThread} /\ ThreadTypes' /\ OwnerLocks' /\ EventsLive'
      <3>1. ASSUME NEW r \in Results, Return(t, r)
            PROVE  owner' \in Threads \cup {NoThread} /\ ThreadTypes' /\ OwnerLocks' /\ EventsLive'
        <4>1. r \in PcType /\ r \notin Locking /\ Works(r, NoOp, live')
          BY DEF PcType, Locking, Works, NoOp, Results
        <4>2. owner' = NoThread /\ pc' = [pc EXCEPT ![t] = r] /\ op' = [op EXCEPT ![t] = NoOp]
          BY <3>1, Zenon DEF Return
        <4> QED
          BY <2>2, <2>3, <4>1, <4>2, NoOpType, ThreadMoves
      <3>2. CASE \E r \in Results : Return(t, r)
        BY <3>1, <3>2
      <3>3. CASE op' = [op EXCEPT ![t].next = op[t].next + 1] /\ UNCHANGED <<owner, pc>>
        <4>1. PICK o \in OpType : o = [op[t] EXCEPT !.next = op[t].next + 1]
          <5>1. op[t].next + 1 \in Nat
            BY <2>3
          <5> QED
            BY <1>0, <5>1, NextOpType
        <4>2. o.event = op[t].event /\ o.how = op[t].how /\ o.next = op[t].next + 1
              /\ o.expired = op[t].expired /\ o.timed = op[t].timed /\ o.source = op[t].source
          BY <1>0, <4>1 DEF OpType
        <4>3. Works(pc[t], o, live')
          BY <1>0, <2>2, <2>3, <4>2 DEF Works
        <4>4. pc' = [pc EXCEPT ![t] = pc[t]] /\ op' = [op EXCEPT ![t] = o]
          BY <3>3, <4>1 DEF Structure, ThreadTypes
        <4>5. pc[t] \in Locking
          BY <2>1 DEF Locking
        <4>6. PICK p \in PcType : p = pc[t] /\ pc' = [pc EXCEPT ![t] = p]
          BY <1>0, <4>4
        <4> QED
          BY <2>2, <2>3, <3>3, <4>3, <4>4, <4>5, <4>6, ThreadMoves
      <3>4. CASE owner' = NoThread /\ pc' = [pc EXCEPT ![t] = "blocked"] /\ UNCHANGED op
        <4>1. PICK p \in PcType : p = "blocked" /\ pc' = [pc EXCEPT ![t] = p]
          BY <3>4 DEF PcType
        <4>2. p \notin Locking /\ Works(p, op[t], live')
          BY <1>0, <2>2, <2>3, <4>1 DEF Locking, Works
        <4>3. op' = [op EXCEPT ![t] = op[t]]
          BY <3>4 DEF Structure, ThreadTypes
        <4>4. PICK o \in OpType : o = op[t] /\ op' = [op EXCEPT ![t] = o]
          BY <1>0, <4>3
        <4> QED
          BY <2>2, <2>3, <3>4, <4>1, <4>2, <4>4, ThreadMoves
      <3>5. \A c : ResultOf(c) \in Results
        BY DEF ResultOf, Results
      <3>6. "canceled" \in Results /\ "timeout" \in Results
        BY DEF Results
      <3> QED
        BY <2>1, <3>2, <3>3, <3>4, <3>5, <3>6, Zenon DEF Predicate_Canceled, Predicate_Step, Predicate_False
    <2> QED
      BY <2>1, <2>2, <2>4, SameSources, SameEvents, SameFilter DEF Structure
  <1>4. CASE Wake(t)
    <2>1. /\ UNCHANGED <<source_vars, cancel_all_waits, change_filter, event_vars>> /\ pc[t] = "woken" /\ owner = NoThread
          /\ owner' = t /\ pc' = [pc EXCEPT ![t] = "checking"] /\ op' = [op EXCEPT ![t].next = 1]
      BY <1>4, Zenon DEF Wake, LockFree
    <2>2. live' = live
      BY <2>1 DEF event_vars
    <2>3. ThreadTypes' /\ OwnerLocks' /\ EventsLive'
      <3>1. PICK o \in OpType : o = [op[t] EXCEPT !.next = 1]
        BY <1>0 DEF OpType
      <3>2. o.event = op[t].event /\ o.next = 1 /\ o.expired = op[t].expired /\ o.timed = op[t].timed
        BY <1>0, <3>1 DEF OpType
      <3>3. op' = [op EXCEPT ![t] = o]
        BY <2>1, <3>1 DEF Structure, ThreadTypes
      <3>4. PICK p \in PcType : p = "checking" /\ pc' = [pc EXCEPT ![t] = p]
        BY <2>1 DEF PcType
      <3>5. p \in Locking /\ Works(p, o, live')
        BY <1>0, <2>1, <2>2, <3>2, <3>4 DEF Works, Locking, Results
      <3> QED
        BY <2>1, <2>2, <3>3, <3>4, <3>5, ThreadMoves
    <2> QED
      BY <2>1, <2>3, SameSources, SameEvents, SameFilter DEF Structure
  <1>5. ASSUME UNCHANGED <<source_vars, owner, cancel_all_waits, change_filter, event_vars>>, pc[t] \notin Locking,
               NEW p \in PcType, NEW o \in OpType, p \notin Locking, pc' = [pc EXCEPT ![t] = p],
               op' = [op EXCEPT ![t] = o], Works(p, o, live)
        PROVE  Structure'
    <2>1. live' = live /\ owner' = owner /\ owner # t
      BY <1>5 DEF event_vars, Structure, OwnerLocks
    <2>2. ThreadTypes' /\ OwnerLocks' /\ EventsLive'
      BY <1>5, <2>1, ThreadMoves
    <2> QED
      BY <1>5, <2>1, <2>2, SameSources, SameEvents, SameFilter DEF Structure, LockTypes
  <1>6. CASE Done(t)
    <2>1. /\ UNCHANGED <<source_vars, owner, cancel_all_waits, change_filter, event_vars, op>> /\ pc[t] \in Results
          /\ pc' = [pc EXCEPT ![t] = "idle"]
      BY <1>6, Zenon DEF Done
    <2>2. PICK p \in PcType : p = "idle" /\ pc' = [pc EXCEPT ![t] = p]
      BY <2>1 DEF PcType
    <2>3. Works(p, op[t], live) /\ p \notin Locking /\ pc[t] \notin Locking /\ op' = [op EXCEPT ![t] = op[t]]
      BY <1>0, <2>1, <2>2 DEF Works, Locking, Results, Structure, ThreadTypes
    <2>4. PICK o \in OpType : Works(p, o, live) /\ op' = [op EXCEPT ![t] = o]
      BY <1>0, <2>3
    <2> QED
      BY <1>5, <2>1, <2>2, <2>3, <2>4
  <1>7. CASE Timeout(t)
    <2>1. /\ UNCHANGED <<source_vars, owner, cancel_all_waits, change_filter, event_vars>> /\ pc[t] \in {"blocked", "woken"}
          /\ pc' = [pc EXCEPT ![t] = "woken"] /\ op' = [op EXCEPT ![t].expired = TRUE] /\ op[t].timed
      BY <1>7, Zenon DEF Timeout
    <2>2. PICK p \in PcType : p = "woken" /\ pc' = [pc EXCEPT ![t] = p]
      BY <2>1 DEF PcType
    <2>3. PICK o \in OpType : o = [op[t] EXCEPT !.expired = TRUE]
      BY <1>0 DEF OpType
    <2>4. o.event = op[t].event /\ o.timed = op[t].timed /\ op' = [op EXCEPT ![t] = o]
      BY <1>0, <2>1, <2>3 DEF OpType, Structure, ThreadTypes
    <2>5. Works(p, o, live) /\ p \notin Locking /\ pc[t] \notin Locking
      BY <1>0, <2>1, <2>2, <2>4 DEF Works, Locking, Results
    <2> QED
      BY <1>5, <2>1, <2>2, <2>4, <2>5
  <1>8. CASE SpuriousWakeup(t)
    <2>1. /\ UNCHANGED <<source_vars, owner, cancel_all_waits, change_filter, event_vars, op>> /\ pc[t] = "blocked"
          /\ pc' = [pc EXCEPT ![t] = "woken"]
      BY <1>8, Zenon DEF SpuriousWakeup
    <2>2. PICK p \in PcType : p = "woken" /\ pc' = [pc EXCEPT ![t] = p]
      BY <2>1 DEF PcType
    <2>3. Works(p, op[t], live) /\ p \notin Locking /\ pc[t] \notin Locking /\ op' = [op EXCEPT ![t] = op[t]]
      BY <1>0, <2>1, <2>2 DEF Works, Locking, Results, Structure, ThreadTypes
    <2>4. PICK o \in OpType : Works(p, o, live) /\ op' = [op EXCEPT ![t] = o]
      BY <1>0, <2>3
    <2> QED
      BY <1>5, <2>1, <2>2, <2>3, <2>4
  <1> QED
    BY <1>1, <1>2, <1>3, <1>4, <1>6, <1>7, <1>8, Zenon DEF ThreadStep

\* Every step keeps the structure: what counts and announces signals.
LEMMA SourceStructure ==
    ASSUME Structure,
           \/ \E s \in Calls : IncrementCallCount(s) \/ OnCallCountChanged(s) \/ Expire(s)
           \/ \E s \in Sources : SignalLocked(s)
    PROVE  Structure'
  <1>1. ASSUME NEW s \in Sources, Count(s)
        PROVE  /\ count' \in [Sources -> Counts] /\ total' \in [Sources -> 0 .. MaxSignals]
               /\ total'[s] = total[s] + 1 /\ \A u \in Sources \ {s} : total'[u] = total[u]
    <2>1. /\ total[s] < MaxSignals /\ count' = [count EXCEPT ![s] = (count[s] + 1) % W]
          /\ total' = [total EXCEPT ![s] = total[s] + 1]
      BY <1>1, Zenon DEF Count
    <2>2. (count[s] + 1) % W \in Counts
      BY RemainderType DEF Structure, SourceTypes, Counts
    <2>3. total[s] + 1 \in 0 .. MaxSignals
      BY <2>1, WaiterConstants DEF Structure, SourceTypes
    <2> QED
      BY <2>1, <2>2, <2>3 DEF Structure, SourceTypes
  <1>2. ASSUME NEW s \in Calls, IncrementCallCount(s) PROVE Structure'
    <2>1. /\ Count(s) /\ unannounced' = [unannounced EXCEPT ![s] = unannounced[s] + 1]
          /\ UNCHANGED <<alive, owner, cancel_all_waits, change_filter, event_vars, pc, op>>
      BY <1>2, Zenon DEF IncrementCallCount
    <2>2. s \in Sources
      BY DEF Sources
    <2>3. /\ count' \in [Sources -> Counts] /\ total' \in [Sources -> 0 .. MaxSignals]
          /\ total'[s] = total[s] + 1 /\ \A u \in Sources \ {s} : total'[u] = total[u]
      BY <1>1, <2>1, <2>2
    <2>4. /\ unannounced' \in [Calls -> Nat] /\ unannounced'[s] = unannounced[s] + 1
          /\ \A u \in Calls \ {s} : unannounced'[u] = unannounced[u]
      BY <2>1 DEF Structure, SourceTypes
    <2>5. SourceTypes'
      BY <2>1, <2>3, <2>4, Zenon DEF Structure, SourceTypes
    <2>6. Announced'
      BY <2>2, <2>3, <2>4, WaiterConstants DEF Structure, SourceTypes, Announced, Sources
    <2>7. ThreadTypes' /\ OwnerLocks' /\ EventsLive'
      BY <2>1, OnlyWakes DEF event_vars
    <2> QED
      BY <2>1, <2>5, <2>6, <2>7, SameEvents, SameFilter DEF Structure, LockTypes
  <1>3. ASSUME NEW s \in Calls, OnCallCountChanged(s) PROVE Structure'
    <2>1. /\ unannounced[s] > 0 /\ unannounced' = [unannounced EXCEPT ![s] = unannounced[s] - 1]
          /\ UNCHANGED <<count, alive, total, owner, cancel_all_waits, change_filter, event_vars, op>>
          /\ pc' = pc \/ pc' = NotifyAll
      BY <1>3, Zenon DEF OnCallCountChanged, CheckConditionChanged
    <2>2. /\ unannounced' \in [Calls -> Nat] /\ unannounced'[s] = unannounced[s] - 1
          /\ \A u \in Calls \ {s} : unannounced'[u] = unannounced[u]
      BY <2>1 DEF Structure, SourceTypes
    <2>3. SourceTypes'
      BY <2>1, <2>2, Zenon DEF Structure, SourceTypes
    <2>4. Announced'
      BY <2>1, <2>2, WaiterConstants DEF Structure, SourceTypes, Announced, Sources
    <2>5. ThreadTypes' /\ OwnerLocks' /\ EventsLive'
      BY <2>1, OnlyWakes DEF event_vars
    <2> QED
      BY <2>1, <2>3, <2>4, <2>5, SameEvents, SameFilter DEF Structure, LockTypes
  <1>4. ASSUME NEW s \in Calls, Expire(s) PROVE Structure'
    <2>1. /\ alive' = [alive EXCEPT ![s] = FALSE]
          /\ UNCHANGED <<count, unannounced, total, owner, cancel_all_waits, change_filter, event_vars, pc, op>>
      BY <1>4, Zenon DEF Expire
    <2>2. SourceTypes' /\ Announced'
      BY <2>1, Zenon DEF Structure, SourceTypes, Announced
    <2>3. ThreadTypes' /\ OwnerLocks' /\ EventsLive'
      BY <2>1, OnlyWakes DEF event_vars
    <2> QED
      BY <2>1, <2>2, <2>3, SameEvents, SameFilter DEF Structure, LockTypes
  <1>5. ASSUME NEW s \in Sources, SignalLocked(s) PROVE Structure'
    <2>1. /\ Count(s) /\ pc' = NotifyAll
          /\ UNCHANGED <<alive, unannounced, owner, cancel_all_waits, change_filter, event_vars, op>>
      BY <1>5, Zenon DEF SignalLocked
    <2>2. /\ count' \in [Sources -> Counts] /\ total' \in [Sources -> 0 .. MaxSignals]
          /\ total'[s] = total[s] + 1 /\ \A u \in Sources \ {s} : total'[u] = total[u]
      BY <1>1, <2>1
    <2>3. SourceTypes'
      BY <2>1, <2>2, Zenon DEF Structure, SourceTypes
    <2>4. Announced'
      BY <2>1, <2>2, WaiterConstants DEF Structure, SourceTypes, Announced, Sources
    <2>5. ThreadTypes' /\ OwnerLocks' /\ EventsLive'
      BY <2>1, OnlyWakes DEF event_vars
    <2> QED
      BY <2>1, <2>3, <2>4, <2>5, SameEvents, SameFilter DEF Structure, LockTypes
  <1> QED
    BY <1>2, <1>3, <1>4, <1>5

\* Every step keeps the structure.
LEMMA StructureStep == ASSUME Structure, [Next]_vars PROVE Structure'
  <1>1. CASE UNCHANGED vars
    BY <1>1, Zenon DEF vars, source_vars, event_vars, Structure, SourceTypes, LockTypes, EventTypes, ThreadTypes,
                       OwnerLocks, ChecksExist, GoneEmpty, EventsLive, Announced
  <1>2. CASE Next
    BY <1>2, BeginStructure, ThreadStructure, SourceStructure DEF Next, SignalChangeState, Increment
  <1> QED
    BY <1>1, <1>2

\* The structure is what TypeOK says.
LEMMA StructureTypeOK == Structure => TypeOK
  <1> SUFFICES ASSUME Structure PROVE TypeOK
    OBVIOUS
  <1>1. \A c \in DOMAIN check : check[c].source \in Sources /\ check[c].start \in 0 .. W - 1
    <2> SUFFICES ASSUME NEW c \in DOMAIN check PROVE check[c].source \in Sources /\ check[c].start \in 0 .. W - 1
      OBVIOUS
    <2>1. check[c] \in CheckType
      BY DEF Structure, EventTypes
    <2> QED
      BY <2>1 DEF CheckType, Counts
  <1>2. unannounced \in [Calls -> 0 .. MaxSignals]
    <2> SUFFICES ASSUME NEW s \in Calls PROVE unannounced[s] \in 0 .. MaxSignals
      BY DEF Structure, SourceTypes
    <2> QED
      BY WaiterConstants DEF Structure, SourceTypes, Announced, Sources
  <1> QED
    BY <1>1, <1>2 DEF TypeOK, Structure, SourceTypes, LockTypes, EventTypes, ThreadTypes, OwnerLocks, ChecksExist,
                      Counts, PcType, Locking

-----------------------------------------------------------------------------
(* Signals are counted                                                     *)

\* A check is triggered when the signals it does not stand for are not a full
\* number of rounds of the counter.
LEMMA TriggeredCount ==
    ASSUME Structure, CountInv, NEW c \in DOMAIN check
    PROVE  /\ check[c].source \in Sources /\ check[c].seen \in 0 .. total[check[c].source]
           /\ total[check[c].source] \in Nat
           /\ Triggered(c) <=>
                 ~Expired(check[c].source) /\ (total[check[c].source] - check[c].seen) % W > 0
  <1> DEFINE s == check[c].source
  <1>0. check[c] \in CheckType
    BY DEF Structure, EventTypes
  <1>1. check[c] \in CheckType /\ s \in Sources
    BY <1>0 DEF CheckType
  <1>2. total[s] \in Nat /\ total[s] \in Int /\ check[c].seen \in Int
    BY <1>1, WaiterConstants DEF Structure, SourceTypes, CheckType
  <1>3. count[s] = total[s] % W /\ check[c].start = check[c].seen % W /\ check[c].seen \in 0 .. total[s]
    BY <1>1, Zenon DEF CountInv, Stands
  <1>4. ((total[s] % W) - (check[c].seen % W)) % W = (total[s] - check[c].seen) % W
    BY <1>2, Differences
  <1> QED
    BY <1>1, <1>2, <1>3, <1>4, Zenon DEF Triggered, Differs

\* What the counters say of the checks.
LEMMA CountedSignals == ASSUME Structure, CountInv PROVE SignalsCounted
  <1> SUFFICES ASSUME NEW c \in DOMAIN check
               PROVE  LET s == check[c].source
                          outstanding == total[s] - check[c].seen
                      IN  /\ outstanding >= 0
                          /\ Triggered(c) => outstanding > 0
                          /\ outstanding \in 1 .. W - 1 /\ ~Expired(s) => Triggered(c)
    BY Zenon DEF SignalsCounted
  <1> DEFINE s == check[c].source
             outstanding == total[s] - check[c].seen
  <1>1. check[c].seen \in 0 .. total[s] /\ total[s] \in Nat
    BY TriggeredCount
  <1>2. outstanding >= 0 /\ outstanding \in Int
    BY <1>1
  <1>3. Triggered(c) <=> ~Expired(s) /\ outstanding % W > 0
    BY TriggeredCount
  <1> HIDE DEF outstanding
  <1>4. Triggered(c) => outstanding > 0
    <2>1. 0 % W = 0
      BY Small, WaiterConstants
    <2> QED
      BY <1>2, <1>3, <2>1
  <1>5. outstanding \in 1 .. W - 1 /\ ~Expired(s) => Triggered(c)
    <2> SUFFICES ASSUME outstanding \in 1 .. W - 1, ~Expired(s) PROVE outstanding % W > 0
      BY <1>3
    <2>1. outstanding \in 0 .. W - 1
      BY WaiterConstants
    <2>2. outstanding % W = outstanding
      BY <2>1, Small
    <2> QED
      BY <2>2
  <1> QED
    BY <1>2, <1>4, <1>5 DEF outstanding

\* The start counts that Bind and ResetTriggered set stand for signals.
LEMMA StandsNow ==
    ASSUME Structure, CountInv, NEW s \in Sources, NEW k,
           \/ k.start = count[s] /\ k.seen = total[s]
           \/ k.start = 0 /\ k.seen = total[s] - count[s]
           \/ k.start = 0 /\ k.seen = 0
    PROVE  Stands(k, total[s])
  <1>1. total[s] \in Nat /\ count[s] = total[s] % W
    BY WaiterConstants DEF Structure, SourceTypes, CountInv
  <1>2. CASE k.start = count[s] /\ k.seen = total[s]
    BY <1>1, <1>2 DEF Stands
  <1>3. CASE k.start = 0 /\ k.seen = total[s] - count[s]
    <2>1. total[s] - (total[s] % W) \in 0 .. total[s] /\ (total[s] - (total[s] % W)) % W = 0
      BY <1>1, FullRounds
    <2> QED
      BY <1>1, <1>3, <2>1, Zenon DEF Stands
  <1>4. CASE k.start = 0 /\ k.seen = 0
    <2>1. 0 % W = 0
      BY Small, WaiterConstants
    <2> QED
      BY <1>1, <1>4, <2>1 DEF Stands
  <1> QED
    BY <1>2, <1>3, <1>4

\* More signals do not change what a check stands for.
LEMMA StandsStill == ASSUME NEW k, NEW m \in Nat, NEW n \in Nat, m =< n, Stands(k, m) PROVE Stands(k, n)
  BY DEF Stands

\* No step but a reset or a bind changes a check, and every signal is counted.
LEMMA CountStep == ASSUME Structure, CountInv, Structure', [Next]_vars PROVE CountInv'
  <1>0. /\ total \in [Sources -> Nat] /\ total' \in [Sources -> Nat]
        /\ \A c \in DOMAIN check : check[c].source \in Sources
        /\ \A t \in Threads : pc[t] = "binding" => op[t].source \in Sources
    BY StructureTypeOK, WaiterConstants DEF TypeOK, Structure, EventsLive, Works, SourceTypes
  <1>1. ASSUME UNCHANGED <<count, total, check>>,
               \A t \in Threads : pc'[t] = "binding" => pc[t] = "binding" /\ op'[t] = op[t]
        PROVE  CountInv'
    BY <1>1, Zenon DEF CountInv
  <1>2. ASSUME NEW s \in Sources, Count(s), UNCHANGED check,
               \A t \in Threads : pc'[t] = "binding" => pc[t] = "binding" /\ op'[t] = op[t]
        PROVE  CountInv'
    <2>1. /\ count' = [count EXCEPT ![s] = (count[s] + 1) % W] /\ total' = [total EXCEPT ![s] = total[s] + 1]
      BY <1>2, Zenon DEF Count
    <2>2. \A u \in Sources : total'[u] = (IF u = s THEN total[u] + 1 ELSE total[u])
      BY <1>0, <2>1
    <2>3. \A u \in Sources : count'[u] = (IF u = s THEN (count[u] + 1) % W ELSE count[u])
      BY <2>1 DEF Structure, SourceTypes
    <2>4. \A u \in Sources : count'[u] = total'[u] % W
      <3> SUFFICES ASSUME NEW u \in Sources PROVE count'[u] = total'[u] % W
        OBVIOUS
      <3>1. count[u] = total[u] % W /\ total[u] \in Int
        BY <1>0 DEF CountInv
      <3>2. ((total[u] % W) + 1) % W = (total[u] + 1) % W
        BY <3>1, CountsOn
      <3> QED
        BY <2>2, <2>3, <3>1, <3>2, Zenon
    <2>5. \A u \in Sources : total[u] \in Nat /\ total'[u] \in Nat /\ total[u] =< total'[u]
      BY <1>0, <2>2
    <2>6. \A k : \A u \in Sources : Stands(k, total[u]) => Stands(k, total'[u])
      BY <2>5, StandsStill
    <2> QED
      BY <1>0, <1>2, <2>4, <2>6, Zenon DEF CountInv
  <1>3. ASSUME NEW t \in Threads, NEW o, UNCHANGED <<count, total, check>>, pc' = [pc EXCEPT ![t] = "binding"],
               op' = [op EXCEPT ![t] = o], Stands(o, total[o.source])
        PROVE  CountInv'
    <2>1. op'[t] = o /\ \A u \in Threads \ {t} : pc'[u] = pc[u] /\ op'[u] = op[u]
      BY <1>3, Zenon DEF Structure, ThreadTypes
    <2> QED
      BY <1>3, <2>1, Zenon DEF CountInv
  <1>5. \A u \in Threads : NotifyAll[u] = "binding" => pc[u] = "binding"
    BY NotifyAllType DEF Structure
  <1>6. ASSUME NEW t \in Threads, Begin(t) PROVE CountInv'
    <2>1. ASSUME NEW e \in Events,
                 \/ CreateEvent(t, e) \/ Destroy(t, e)
                 \/ \E other \in Events : BindEvent(t, e, other)
          PROVE  CountInv'
      <3>1. UNCHANGED <<count, total, check, op>> /\ (pc' = pc \/ pc' = NotifyAll)
        BY <2>1, Zenon DEF CreateEvent, Destroy, BindEvent, source_vars
      <3> QED
        BY <1>1, <1>5, <3>1, Zenon
    <2>2. ASSUME NEW e \in Events,
                 (\E timed \in BOOLEAN : Wait(t, e, timed)) \/ (\E how \in Resets : ResetTriggered(t, e, how))
          PROVE  CountInv'
      <3>1. /\ UNCHANGED <<count, total, check>> /\ (pc' = [pc EXCEPT ![t] = "checking"] \/ pc' = [pc EXCEPT ![t] = "resetting"])
            /\ \E o : op' = [op EXCEPT ![t] = o]
        BY <2>2, Zenon DEF Wait, ResetTriggered, source_vars, event_vars
      <3>2. \A u \in Threads : pc'[u] = "binding" => pc[u] = "binding" /\ op'[u] = op[u]
        BY <3>1 DEF Structure, ThreadTypes
      <3> QED
        BY <1>1, <3>1, <3>2
    <2>3. ASSUME NEW e \in Events, NEW s \in Sources, NEW cancel \in Flags, CounterEvent(t, e, s, cancel)
          PROVE  CountInv'
      <3> DEFINE o == [NoOp EXCEPT !.event = e, !.source = s, !.cancel = cancel]
      <3>1. UNCHANGED <<count, total, check>> /\ pc' = [pc EXCEPT ![t] = "binding"] /\ op' = [op EXCEPT ![t] = o]
        BY <2>3, Zenon DEF CounterEvent, source_vars
      <3>2. o.start = 0 /\ o.seen = 0 /\ o.source = s
        BY DEF NoOp
      <3> HIDE DEF o
      <3>3. Stands(o, total[o.source])
        BY <3>2, StandsNow
      <3> QED
        BY <1>3, <3>1, <3>3
    <2>4. ASSUME NEW e \in Events, NEW s \in Sources, NEW initial \in Initials, NEW cancel \in Flags,
                 Binding(t, e, s, initial, cancel)
          PROVE  CountInv'
      <3> DEFINE i == InitialCount(s, initial)
                 o == [NoOp EXCEPT !.event = e, !.source = s, !.cancel = cancel, !.start = i.start, !.seen = i.seen]
      <3>1. UNCHANGED <<count, total, check>> /\ pc' = [pc EXCEPT ![t] = "binding"] /\ op' = [op EXCEPT ![t] = o]
        BY <2>4, Zenon DEF Binding, source_vars, event_vars
      <3>2. \/ i.start = count[s] /\ i.seen = total[s]
            \/ i.start = 0 /\ i.seen = total[s] - count[s]
        BY DEF InitialCount
      <3> HIDE DEF i
      <3>3. o.start = i.start /\ o.seen = i.seen /\ o.source = s
        BY DEF NoOp
      <3> HIDE DEF o
      <3>4. Stands(o, total[o.source])
        BY <3>2, <3>3, StandsNow
      <3> QED
        BY <1>3, <3>1, <3>4
    <2>5. ASSUME CancelAllWaits(t) PROVE CountInv'
      <3>1. UNCHANGED <<count, total, check, op>> /\ pc' = NotifyAll
        BY <2>5, Zenon DEF CancelAllWaits, source_vars, event_vars
      <3> QED
        BY <1>1, <1>5, <3>1, Zenon
    <2> QED
      BY <1>6, <2>1, <2>2, <2>3, <2>4, <2>5, Zenon DEF Begin, BindCall, BindConnect
  <1>7. ASSUME NEW t \in Threads, ThreadStep(t) \/ Timeout(t) \/ SpuriousWakeup(t) PROVE CountInv'
    <2>1. CASE BindCheck(t)
      <3> DEFINE k == [source |-> op[t].source, cancel |-> op[t].cancel, start |-> op[t].start, seen |-> op[t].seen]
      <3>1. /\ UNCHANGED <<count, total>> /\ pc[t] = "binding" /\ check' = Append(check, k)
            /\ pc' = [NotifyAll EXCEPT ![t] = "idle"] /\ op' = [op EXCEPT ![t] = NoOp]
        BY <2>1, Zenon DEF BindCheck, source_vars
      <3>2. k.source = op[t].source /\ k.start = op[t].start /\ k.seen = op[t].seen
        OBVIOUS
      <3> HIDE DEF k
      <3>3. Stands(k, total[k.source])
        BY <3>1, <3>2, Zenon DEF CountInv, Stands
      <3>4. DOMAIN check' = DOMAIN check \cup {Len(check) + 1} /\ check'[Len(check) + 1] = k
            /\ \A c \in DOMAIN check : check'[c] = check[c]
        BY <3>1 DEF Structure, EventTypes
      <3>5. \A c \in DOMAIN check' : Stands(check'[c], total[check'[c].source])
        BY <3>3, <3>4, Zenon DEF CountInv
      <3>6. \A u \in Threads : pc'[u] = "binding" => pc[u] = "binding" /\ op'[u] = op[u]
        BY <1>5, <3>1, NotifyAllType DEF Structure, ThreadTypes
      <3> QED
        BY <3>1, <3>5, <3>6, Zenon DEF CountInv
    <2>2. CASE ResetStep(t)
      <3> DEFINE c == m_checks[op[t].event][op[t].next]
      <3>1. UNCHANGED <<count, total>> /\ pc[t] = "resetting"
        BY <2>2, Zenon DEF ResetStep, source_vars
      <3>2. CASE op[t].next =< Len(m_checks[op[t].event]) /\ ToReset(c)
        <4>1. check' = [check EXCEPT ![c] = ResetLocked(check[c], op[t].how)] /\ op' = [op EXCEPT ![t].next = @ + 1] /\ pc' = pc
          BY <2>2, <3>2, Zenon DEF ResetStep
        <4>2. /\ op[t].event \in live /\ op[t].how \in Resets /\ op[t].next > 0 /\ op[t].next \in Nat
          BY <3>1 DEF Structure, EventsLive, ThreadTypes, Works, Results, Locking, OpType
        <4>3. op[t].event \in Events /\ m_checks[op[t].event] \in Seq(Nat)
          BY <4>2 DEF Structure, EventTypes
        <4>4. c \in DOMAIN check
          BY <3>2, <4>2, <4>3 DEF Structure, ChecksExist
        <4> HIDE DEF c
        <4> DEFINE k == ResetLocked(check[c], op[t].how)
                   s == check[c].source
        <4>5. check[c] \in CheckType
          BY <4>4 DEF Structure, EventTypes
        <4>6. /\ k.source = s
              /\ \/ k.start = count[s] /\ k.seen = total[s]
                 \/ k.start = (check[c].start + 1) % W /\ k.seen = check[c].seen + 1
                 \/ k.start = 0 /\ k.seen = total[s] - count[s]
          BY <4>2, <4>5, ResetCheck
        <4> HIDE DEF k
        <4>7. Stands(k, total[s])
          <5>1. s \in Sources /\ Triggered(c)
            BY <1>0, <3>2, <4>4 DEF ToReset
          <5>2. CASE k.start = (check[c].start + 1) % W /\ k.seen = check[c].seen + 1
            <6>1. check[c].seen \in 0 .. total[s] /\ check[c].start = check[c].seen % W /\ total[s] \in Nat
              BY <1>0, <4>4, <5>1 DEF CountInv, Stands
            <6>2. total[s] - check[c].seen > 0
              BY <4>4, <5>1, CountedSignals DEF SignalsCounted
            <6>3. ((check[c].seen % W) + 1) % W = (check[c].seen + 1) % W
              BY <6>1, CountsOn
            <6>4. k.start = k.seen % W
              BY <5>2, <6>1, <6>3, Zenon
            <6> QED
              BY <5>2, <6>1, <6>2, <6>4 DEF Stands
          <5> QED
            BY <4>6, <5>1, <5>2, StandsNow
        <4>8. DOMAIN check' = DOMAIN check /\ check'[c] = k /\ \A d \in DOMAIN check \ {c} : check'[d] = check[d]
          BY <4>1, <4>4 DEF k, Structure, EventTypes
        <4>9. \A d \in DOMAIN check' : Stands(check'[d], total[check'[d].source])
          BY <4>6, <4>7, <4>8, Zenon DEF CountInv
        <4>10. \A u \in Threads : pc'[u] = "binding" => pc[u] = "binding" /\ op'[u] = op[u]
          BY <3>1, <4>1 DEF Structure, ThreadTypes
        <4> QED
          BY <3>1, <4>9, <4>10, Zenon DEF CountInv
      <3>3. CASE ~(op[t].next =< Len(m_checks[op[t].event]) /\ ToReset(c))
        <4>1. check' = check
          BY <2>2, <3>3, Zenon DEF ResetStep
        <4>2. \/ pc' = pc /\ op' = [op EXCEPT ![t].next = @ + 1]
              \/ pc' = [pc EXCEPT ![t] = "idle"] /\ op' = [op EXCEPT ![t] = NoOp]
          BY <2>2, Zenon DEF ResetStep
        <4>3. \A u \in Threads : pc'[u] = "binding" => pc[u] = "binding" /\ op'[u] = op[u]
          BY <3>1, <4>2 DEF Structure, ThreadTypes
        <4> QED
          BY <1>1, <3>1, <4>1, <4>3
      <3> QED
        BY <3>2, <3>3
    <2>3. CASE WaitStep(t) \/ Wake(t) \/ Done(t) \/ Timeout(t) \/ SpuriousWakeup(t)
      <3>1. /\ UNCHANGED <<count, total, check>> /\ pc[t] # "binding"
            /\ \/ pc' = pc
               \/ \E r \in {"idle", "checking", "blocked", "woken"} \cup Results : pc' = [pc EXCEPT ![t] = r]
            /\ \E o : op' = op \/ op' = [op EXCEPT ![t] = o]
        <4>1. UNCHANGED <<count, total, check>>
          BY <2>3, Zenon DEF WaitStep, Wake, Done, Timeout, SpuriousWakeup, source_vars, event_vars
        <4>2. pc[t] # "binding"
          BY <2>3 DEF WaitStep, Wake, Done, Timeout, SpuriousWakeup, Results
        <4>3. \A c : ResultOf(c) \in Results
          BY DEF ResultOf, Results
        <4>4. \/ pc' = pc
              \/ \E r \in {"idle", "checking", "blocked", "woken"} \cup Results : pc' = [pc EXCEPT ![t] = r]
          BY <2>3, <4>3 DEF WaitStep, Wake, Done, Timeout, SpuriousWakeup, Predicate_Canceled, Predicate_Step,
                            Predicate_False, Return, Results
        <4>5. \E o : op' = op \/ op' = [op EXCEPT ![t] = o]
          BY <2>3 DEF WaitStep, Wake, Done, Timeout, SpuriousWakeup, Predicate_Canceled, Predicate_Step,
                      Predicate_False, Return
        <4> QED
          BY <4>1, <4>2, <4>4, <4>5
      <3>2. \A u \in Threads : pc'[u] = "binding" => pc[u] = "binding" /\ op'[u] = op[u]
        BY <3>1 DEF Structure, ThreadTypes, Results
      <3> QED
        BY <1>1, <3>1, <3>2
    <2> QED
      BY <1>7, <2>1, <2>2, <2>3, Zenon DEF ThreadStep
  <1>8. ASSUME NEW s \in Calls, IncrementCallCount(s) \/ OnCallCountChanged(s) \/ Expire(s) PROVE CountInv'
    <2>1. s \in Sources
      BY DEF Sources
    <2>2. CASE IncrementCallCount(s)
      <3>1. Count(s) /\ UNCHANGED <<check, pc, op>>
        BY <2>2, Zenon DEF IncrementCallCount, event_vars
      <3> QED
        BY <1>2, <2>1, <3>1, Zenon
    <2>3. CASE OnCallCountChanged(s) \/ Expire(s)
      <3>1. UNCHANGED <<count, total, check, op>> /\ (pc' = pc \/ pc' = NotifyAll)
        BY <2>3, Zenon DEF OnCallCountChanged, CheckConditionChanged, Expire, event_vars
      <3> QED
        BY <1>1, <1>5, <3>1, Zenon
    <2> QED
      BY <1>8, <2>2, <2>3
  <1>9. ASSUME NEW s \in Sources, SignalLocked(s) PROVE CountInv'
    <2>1. Count(s) /\ UNCHANGED <<check, op>> /\ pc' = NotifyAll
      BY <1>9, Zenon DEF SignalLocked, event_vars
    <2> QED
      BY <1>2, <1>5, <2>1, Zenon
  <1>10. CASE UNCHANGED vars
    BY <1>1, <1>10, Zenon DEF vars, source_vars, event_vars
  <1> QED
    BY <1>6, <1>7, <1>8, <1>9, <1>10, Zenon DEF Next, SignalChangeState, Increment

\* Nothing is counted at first.
LEMMA InitCount == Init => CountInv
  <1>1. 0 % W = 0
    BY Small, WaiterConstants
  <1> QED
    BY <1>1 DEF Init, CountInv

-----------------------------------------------------------------------------
(* The change filter                                                       *)

\* The places of event e that come n after those of K.
After(e, n, K) == {<<e, n + k>> : k \in K}

\* They are as many.
LEMMA PlacesCount ==
    ASSUME NEW K, K \subseteq Nat, IsFiniteSet(K), NEW e, NEW n \in Nat
    PROVE  IsFiniteSet(After(e, n, K)) /\ Cardinality(After(e, n, K)) = Cardinality(K)
  <1> DEFINE T == After(e, n, K)
             f == [k \in K |-> <<e, n + k>>]
  <1>1. f \in [K -> T]
    BY DEF After
  <1>2. \A a, b \in K : f[a] = f[b] => a = b
    <2> SUFFICES ASSUME NEW a \in K, NEW b \in K, f[a] = f[b] PROVE a = b
      OBVIOUS
    <2>1. <<e, n + a>> = <<e, n + b>>
      OBVIOUS
    <2>2. n + a = n + b
      BY <2>1
    <2> QED
      BY <2>2
  <1>3. \A y \in T : \E k \in K : f[k] = y
    BY DEF After
  <1>4. f \in Bijection(K, T)
    BY <1>1, <1>2, <1>3 DEF Bijection, Injection, Surjection, IsInjective
  <1>5. ExistsBijection(K, T)
    BY <1>4, Zenon DEF ExistsBijection
  <1> QED
    BY <1>5, FS_Bijection, Zenon

\* A place of two joined sequences is one of the first or of the second.
LEMMA JoinedPlaces ==
    ASSUME NEW x \in Seq(Nat), NEW y \in Seq(Nat), NEW k \in Nat
    PROVE  /\ k \in DOMAIN x => k \in DOMAIN (x \o y) /\ (x \o y)[k] = x[k] /\ k - Len(x) \notin DOMAIN y
           /\ k \notin DOMAIN x /\ k \in DOMAIN (x \o y) => k - Len(x) \in DOMAIN y /\ (x \o y)[k] = y[k - Len(x)]
           /\ k \notin DOMAIN (x \o y) => k \notin DOMAIN x /\ k - Len(x) \notin DOMAIN y
  OBVIOUS

\* A sequence with one more entry.
LEMMA AppendedPlaces ==
    ASSUME NEW x \in Seq(Nat), NEW c \in Nat
    PROVE  /\ DOMAIN Append(x, c) = DOMAIN x \cup {Len(x) + 1} /\ Append(x, c)[Len(x) + 1] = c /\ Len(x) + 1 \in Nat
           /\ \A j \in DOMAIN x : Append(x, c)[j] = x[j] /\ j # Len(x) + 1
  OBVIOUS

\* A call that exists is in the filter for its own checks only.
LEMMA FilterOfCall ==
    ASSUME Structure, NEW s \in Calls, alive[s], NEW e \in Events
    PROVE  {k \in DOMAIN m_checks[e] : GetFilterId(m_checks[e][k]) = s}
             = {k \in DOMAIN m_checks[e] : check[m_checks[e][k]].source = s}
  <1> SUFFICES ASSUME NEW c PROVE GetFilterId(c) = s <=> check[c].source = s
    BY Zenon
  <1> QED
    BY WaiterNames DEF GetFilterId, Expired

\* The places of s in event e.
Places(e, s) == {k \in DOMAIN m_checks[e] : check[m_checks[e][k]].source = s}

\* They are the entries of the filter that BindEvent adds and ~Event takes.
LEMMA PlacesEntries ==
    ASSUME Structure, NEW s \in Calls, alive[s], NEW e \in Events
    PROVE  /\ Places(e, s) \in SUBSET Nat /\ IsFiniteSet(Places(e, s))
           /\ Cardinality(Places(e, s)) = Entries(e, s) /\ Entries(e, s) \in Nat
  <1>1. m_checks[e] \in Seq(Nat)
    BY DEF Structure, EventTypes
  <1>2. Places(e, s) \in SUBSET Nat
    BY <1>1 DEF Places
  <1>3. IsFiniteSet({k \in DOMAIN m_checks[e] : GetFilterId(m_checks[e][k]) = s}) /\ Entries(e, s) \in Nat
    BY EntriesType
  <1> QED
    BY <1>2, <1>3, FilterOfCall, Zenon DEF Places, Entries

\* The places stay when events only come and checks keep their sources.
LEMMA RefsSame ==
    ASSUME Structure, m_checks' = m_checks, live \subseteq live', live' \subseteq Events, NEW s,
           \A c \in DOMAIN check : check'[c].source = check[c].source
    PROVE  Refs(s)' = Refs(s)
  <1>1. ASSUME NEW e \in Events, NEW k \in DOMAIN m_checks[e]
        PROVE  e \in live /\ check'[m_checks[e][k]].source = check[m_checks[e][k]].source
    <2>1. m_checks[e][k] \in DOMAIN check
      BY Zenon DEF Structure, ChecksExist
    <2>2. e \in live
      BY DEF Structure, GoneEmpty
    <2> QED
      BY <2>1, <2>2, Zenon
  <1>2. live \subseteq Events
    BY DEF Structure, EventTypes
  <1>3. Refs(s)' = {r \in live' \X Nat : r[2] \in DOMAIN m_checks[r[1]] /\ check'[m_checks[r[1]][r[2]]].source = s}
    BY Zenon DEF Refs
  <1> QED
    BY <1>1, <1>2, <1>3 DEF Refs

\* Every bound check has an entry in the filter while its call exists.
LEMMA FilterStep == ASSUME Structure, Structure', FilterInv, [Next]_vars PROVE FilterInv'
  <1>1. ASSUME UNCHANGED <<m_checks, change_filter>>, \A s \in Calls : alive'[s] => alive[s], live \subseteq live',
               \A c \in DOMAIN check : check'[c].source = check[c].source
        PROVE  FilterInv'
    <2>1. live' \subseteq Events
      BY DEF Structure, EventTypes
    <2>2. \A s : Refs(s)' = Refs(s)
      BY <1>1, <2>1, RefsSame
    <2> QED
      BY <1>1, <2>2, Zenon DEF FilterInv
  <1>2. ASSUME UNCHANGED <<m_checks, change_filter, alive, check>>, live \subseteq live' PROVE FilterInv'
    BY <1>1, <1>2, Zenon
  <1>3. ASSUME NEW t \in Threads, NEW e \in Events, Destroy(t, e) PROVE FilterInv'
    <2>1. /\ UNCHANGED <<alive, check>> /\ live' = live \ {e} /\ e \in live
          /\ m_checks' = [m_checks EXCEPT ![e] = <<>>] /\ change_filter' = Erased(e)
      BY <1>3, Zenon DEF Destroy, source_vars
    <2> SUFFICES ASSUME NEW s \in Calls, alive[s]
                 PROVE  IsFiniteSet(Refs(s)') /\ Cardinality(Refs(s)') =< change_filter'[s]
      BY <2>1, Zenon DEF FilterInv
    <2> DEFINE D == After(e, 0, Places(e, s))
    <2>2. IsFiniteSet(D) /\ Cardinality(D) = Entries(e, s) /\ Entries(e, s) \in Nat
      <3>1. /\ Places(e, s) \in SUBSET Nat /\ IsFiniteSet(Places(e, s)) /\ 0 \in Nat
            /\ Cardinality(Places(e, s)) = Entries(e, s) /\ Entries(e, s) \in Nat
        BY PlacesEntries
      <3> QED
        BY <3>1, PlacesCount, Zenon
    <2>3. IsFiniteSet(Refs(s)) /\ Cardinality(Refs(s)) =< change_filter[s]
      BY Zenon DEF FilterInv
    <2>4. D \subseteq Refs(s)
      <3> SUFFICES ASSUME NEW k \in Places(e, s) PROVE <<e, 0 + k>> \in Refs(s)
        BY Zenon DEF After
      <3>1. k \in Nat
        BY PlacesEntries
      <3>2. 0 + k = k
        BY <3>1
      <3>3. <<e, k>> \in Refs(s)
        BY <2>1, <3>1 DEF Refs, Places
      <3> QED
        BY <3>2, <3>3, Zenon
    <2>5. Refs(s)' = Refs(s) \ D
      <3>1. Refs(s)' = {r \in live' \X Nat : r[2] \in DOMAIN m_checks'[r[1]] /\ check[m_checks'[r[1]][r[2]]].source = s}
        BY <2>1, Zenon DEF Refs
      <3>2. \A f \in Events \ {e} : m_checks'[f] = m_checks[f]
        BY <2>1 DEF Structure, EventTypes
      <3>3. live \subseteq Events
        BY DEF Structure, EventTypes
      <3>4. \A r \in Refs(s) : r \in D <=> r[1] = e
        BY PlacesEntries DEF Refs, Places, After
      <3>5. \A r \in live \X Nat : r[1] # e => (r \in Refs(s)' <=> r \in Refs(s))
        BY <2>1, <3>1, <3>2, <3>3 DEF Refs
      <3>6. \A r \in Refs(s)' : r \in live \X Nat /\ r[1] # e
        BY <2>1, <3>1
      <3>7. \A r \in Refs(s) : r \in live \X Nat
        BY DEF Refs
      <3> HIDE DEF D
      <3> QED
        BY <3>4, <3>5, <3>6, <3>7
    <2>6. IsFiniteSet(Refs(s) \ D) /\ Cardinality(Refs(s) \ D) = Cardinality(Refs(s)) - Cardinality(D)
      <3>1. Refs(s) \cap D = D
        BY <2>4, Zenon
      <3> QED
        BY <2>3, <3>1, FS_Difference
    <2>7. change_filter'[s] = IF Entries(e, s) > change_filter[s] THEN 0 ELSE change_filter[s] - Entries(e, s)
      BY <2>1 DEF Erased, Structure, LockTypes, Sources
    <2>8. change_filter[s] \in Nat /\ Cardinality(Refs(s)) \in Nat /\ Cardinality(D) =< Cardinality(Refs(s))
      BY <2>3, <2>4, FS_CardinalityType, FS_Subset DEF Structure, LockTypes, Sources
    <2> HIDE DEF D
    <2> QED
      BY <2>2, <2>3, <2>5, <2>6, <2>7, <2>8
  <1>4. ASSUME NEW t \in Threads, NEW e \in Events, NEW other \in Events, BindEvent(t, e, other) PROVE FilterInv'
    <2>1. /\ UNCHANGED <<alive, check, live>> /\ e \in live /\ other \in live
          /\ m_checks' = [m_checks EXCEPT ![e] = m_checks[e] \o m_checks[other]]
          /\ change_filter' = [i \in DOMAIN change_filter |-> change_filter[i] + Entries(other, i)]
      BY <1>4, Zenon DEF BindEvent, source_vars
    <2> SUFFICES ASSUME NEW s \in Calls, alive[s]
                 PROVE  IsFiniteSet(Refs(s)') /\ Cardinality(Refs(s)') =< change_filter'[s]
      BY <2>1, Zenon DEF FilterInv
    <2> DEFINE n == Len(m_checks[e])
               D == After(e, n, Places(other, s))
    <2>2. m_checks[e] \in Seq(Nat) /\ m_checks[other] \in Seq(Nat) /\ n \in Nat /\ m_checks'[e] = m_checks[e] \o m_checks[other]
          /\ \A f \in Events \ {e} : m_checks'[f] = m_checks[f]
      BY <2>1 DEF Structure, EventTypes
    <2>3. IsFiniteSet(D) /\ Cardinality(D) = Entries(other, s) /\ Entries(other, s) \in Nat
      <3> HIDE DEF n
      <3>1. /\ Places(other, s) \in SUBSET Nat /\ IsFiniteSet(Places(other, s))
            /\ Cardinality(Places(other, s)) = Entries(other, s) /\ Entries(other, s) \in Nat
        BY PlacesEntries
      <3> QED
        BY <2>2, <3>1, PlacesCount, Zenon
    <2>4. IsFiniteSet(Refs(s)) /\ Cardinality(Refs(s)) =< change_filter[s]
      BY Zenon DEF FilterInv
    <2>5. Refs(s)' = Refs(s) \cup D
      <3>1. Refs(s)' = {r \in live \X Nat : r[2] \in DOMAIN m_checks'[r[1]] /\ check[m_checks'[r[1]][r[2]]].source = s}
        BY <2>1, Zenon DEF Refs
      <3>2. live \subseteq Events
        BY DEF Structure, EventTypes
      <3>3. \A r \in live \X Nat : r[1] # e => (r \in Refs(s)' <=> r \in Refs(s)) /\ r \notin D
        BY <2>2, <3>1, <3>2 DEF Refs, After
      <3>4. \A k \in Nat : <<e, k>> \in Refs(s)' <=> <<e, k>> \in Refs(s) \/ <<e, k>> \in D
        <4> SUFFICES ASSUME NEW k \in Nat
                     PROVE  <<e, k>> \in Refs(s)' <=> <<e, k>> \in Refs(s) \/ <<e, k>> \in D
          BY Zenon
        <4>1. <<e, k>> \in Refs(s) <=> k \in Places(e, s)
          BY <2>1 DEF Refs, Places
        <4>2. <<e, k>> \in Refs(s)' <=>
                 k \in DOMAIN (m_checks[e] \o m_checks[other]) /\ check[(m_checks[e] \o m_checks[other])[k]].source = s
          BY <2>1, <2>2, <3>1
        <4>3. <<e, k>> \in D <=> k - n \in Places(other, s)
          <5> HIDE DEF n
          <5>1. Places(other, s) \in SUBSET Nat /\ n \in Nat
            BY <2>2, PlacesEntries
          <5>2. ASSUME <<e, k>> \in D PROVE k - n \in Places(other, s)
            <6>1. PICK j \in Places(other, s) : <<e, k>> = <<e, n + j>>
              BY <5>2, Zenon DEF After
            <6>2. k = n + j
              BY <6>1
            <6>3. k - n = j
              BY <5>1, <6>2
            <6> QED
              BY <6>3, Zenon
          <5>3. ASSUME k - n \in Places(other, s) PROVE <<e, k>> \in D
            <6>1. n + (k - n) = k
              BY <5>1
            <6> QED
              BY <5>3, <6>1, Zenon DEF After
          <5> QED
            BY <5>2, <5>3
        <4>4. CASE k \in DOMAIN m_checks[e]
          <5>1. k \in DOMAIN (m_checks[e] \o m_checks[other]) /\ (m_checks[e] \o m_checks[other])[k] = m_checks[e][k]
                /\ k - n \notin DOMAIN m_checks[other]
            BY <2>2, <4>4, JoinedPlaces, Zenon
          <5> QED
            BY <4>1, <4>2, <4>3, <4>4, <5>1, Zenon DEF Places
        <4>5. CASE k \notin DOMAIN m_checks[e] /\ k \in DOMAIN (m_checks[e] \o m_checks[other])
          <5>1. k - n \in DOMAIN m_checks[other] /\ (m_checks[e] \o m_checks[other])[k] = m_checks[other][k - n]
            BY <2>2, <4>5, JoinedPlaces, Zenon
          <5> QED
            BY <4>1, <4>2, <4>3, <4>5, <5>1, Zenon DEF Places
        <4>6. CASE k \notin DOMAIN m_checks[e] /\ k \notin DOMAIN (m_checks[e] \o m_checks[other])
          <5>1. k - n \notin DOMAIN m_checks[other]
            BY <2>2, <4>6, JoinedPlaces, Zenon
          <5> QED
            BY <4>1, <4>2, <4>3, <4>6, <5>1, Zenon DEF Places
        <4> QED
          BY <4>4, <4>5, <4>6
      <3>5. Refs(s)' \subseteq live \X Nat /\ Refs(s) \subseteq live \X Nat
        BY <3>1 DEF Refs
      <3>6. D \subseteq live \X Nat
        BY <2>1, <2>2, PlacesEntries DEF After
      <3>7. ASSUME NEW r \in live \X Nat PROVE r \in Refs(s)' <=> r \in Refs(s) \cup D
        <4>1. CASE r[1] = e
          <5>1. r = <<e, r[2]>> /\ r[2] \in Nat
            BY <4>1
          <5> HIDE DEF D
          <5> QED
            BY <3>4, <5>1, Zenon
        <4>2. CASE r[1] # e
          BY <3>3, <4>2, Zenon
        <4> QED
          BY <4>1, <4>2
      <3> HIDE DEF D
      <3> QED
        BY <3>5, <3>6, <3>7
    <2>6. IsFiniteSet(Refs(s) \cup D) /\ Cardinality(Refs(s) \cup D) =< Cardinality(Refs(s)) + Cardinality(D)
      <3> HIDE DEF D
      <3>1. IsFiniteSet(Refs(s) \cup D)
            /\ Cardinality(Refs(s) \cup D) = Cardinality(Refs(s)) + Cardinality(D) - Cardinality(Refs(s) \cap D)
        BY <2>3, <2>4, FS_Union
      <3>2. Refs(s) \cap D \in SUBSET D
        BY Zenon
      <3>3. Cardinality(Refs(s) \cap D) \in Nat /\ Cardinality(D) \in Nat /\ Cardinality(Refs(s)) \in Nat
        BY <2>3, <2>4, <3>2, FS_Subset, FS_CardinalityType
      <3> QED
        BY <3>1, <3>3
    <2>7. change_filter'[s] = change_filter[s] + Entries(other, s) /\ change_filter[s] \in Nat
      BY <2>1 DEF Structure, LockTypes, Sources
    <2>8. Cardinality(Refs(s)) \in Nat /\ Cardinality(Refs(s) \cup D) \in Nat
      BY <2>4, <2>6, FS_CardinalityType
    <2> HIDE DEF D
    <2> QED
      BY <2>3, <2>4, <2>5, <2>6, <2>7, <2>8
  <1>5. ASSUME NEW t \in Threads, BindCheck(t) PROVE FilterInv'
    <2> DEFINE e == op[t].event
               c == Len(check) + 1
               k == [source |-> op[t].source, cancel |-> op[t].cancel, start |-> op[t].start, seen |-> op[t].seen]
               i == IF op[t].source \in States THEN Signaling ELSE op[t].source
    <2>1. /\ UNCHANGED <<alive, live>> /\ check' = Append(check, k) /\ pc[t] = "binding"
          /\ m_checks' = [m_checks EXCEPT ![e] = Append(m_checks[e], c)]
          /\ change_filter' = [change_filter EXCEPT ![i] = change_filter[i] + 1]
      BY <1>5, Zenon DEF BindCheck, source_vars
    <2>2. e \in live /\ e \in Events /\ op[t].source \in Sources
      BY <2>1 DEF Structure, EventsLive, Works, Results, EventTypes
    <2>3. k.source = op[t].source
      OBVIOUS
    <2> HIDE DEF k
    <2>4. check'[c] = k /\ \A d \in DOMAIN check : check'[d] = check[d] /\ d # c
      BY <2>1 DEF Structure, EventTypes
    <2>5. m_checks[e] \in Seq(Nat) /\ m_checks'[e] = Append(m_checks[e], c) /\ \A f \in Events \ {e} : m_checks'[f] = m_checks[f]
      BY <2>1, <2>2 DEF Structure, EventTypes
    <2> DEFINE n == Len(m_checks[e]) + 1
    <2>6. DOMAIN m_checks'[e] = DOMAIN m_checks[e] \cup {n} /\ m_checks'[e][n] = c /\ n \in Nat
          /\ \A j \in DOMAIN m_checks[e] : m_checks'[e][j] = m_checks[e][j] /\ j # n
      <3>1. c \in Nat
        BY DEF Structure, EventTypes
      <3> HIDE DEF c, e
      <3>2. PICK x \in Seq(Nat), d \in Nat : x = m_checks[e] /\ d = c
        BY <2>5, <3>1, Zenon
      <3>3. /\ DOMAIN Append(x, d) = DOMAIN x \cup {Len(x) + 1} /\ Append(x, d)[Len(x) + 1] = d /\ Len(x) + 1 \in Nat
            /\ \A j \in DOMAIN x : Append(x, d)[j] = x[j] /\ j # Len(x) + 1
        BY AppendedPlaces, Zenon
      <3>4. m_checks'[e] = Append(x, d)
        BY <2>5, <3>2, Zenon
      <3> QED
        BY <3>2, <3>3, <3>4, Zenon
    <2> SUFFICES ASSUME NEW s \in Calls, alive[s]
                 PROVE  IsFiniteSet(Refs(s)') /\ Cardinality(Refs(s)') =< change_filter'[s]
      BY <2>1, Zenon DEF FilterInv
    <2>7. IsFiniteSet(Refs(s)) /\ Cardinality(Refs(s)) =< change_filter[s]
      BY Zenon DEF FilterInv
    <2>8. Refs(s)' = {r \in live \X Nat : r[2] \in DOMAIN m_checks'[r[1]] /\ check'[m_checks'[r[1]][r[2]]].source = s}
      BY <2>1, Zenon DEF Refs
    <2>9. live \subseteq Events /\ \A f \in Events : \A j \in DOMAIN m_checks[f] : m_checks[f][j] \in DOMAIN check
      BY DEF Structure, EventTypes, ChecksExist
    <2> HIDE DEF n, c, e
    <2>10. \A r \in live \X Nat : r # <<e, n>> => (r \in Refs(s)' <=> r \in Refs(s))
      <3> SUFFICES ASSUME NEW r \in live \X Nat, r # <<e, n>> PROVE r \in Refs(s)' <=> r \in Refs(s)
        BY Zenon
      <3>1. r[1] \in live /\ r[1] \in Events /\ r[2] \in Nat /\ ~(r[1] = e /\ r[2] = n)
        BY <2>9
      <3>2. r[2] \in DOMAIN m_checks'[r[1]] <=> r[2] \in DOMAIN m_checks[r[1]]
        BY <2>5, <2>6, <3>1
      <3>3. r[2] \in DOMAIN m_checks[r[1]] => check'[m_checks'[r[1]][r[2]]].source = check[m_checks[r[1]][r[2]]].source
        BY <2>4, <2>5, <2>6, <2>9, <3>1
      <3> QED
        BY <2>8, <3>2, <3>3, Zenon DEF Refs
    <2>11. Refs(s)' \subseteq live \X Nat /\ Refs(s) \subseteq live \X Nat
      BY <2>8, Zenon DEF Refs
    <2>12. change_filter[s] \in Nat /\ Cardinality(Refs(s)) \in Nat /\ i \in DOMAIN change_filter /\ s \in DOMAIN change_filter
      BY <2>2, <2>7, FS_CardinalityType DEF Structure, LockTypes, Sources
    <2>13. CASE op[t].source = s
      <3>1. Refs(s)' \subseteq Refs(s) \cup {<<e, n>>}
        BY <2>10, <2>11, Zenon
      <3>2. IsFiniteSet(Refs(s) \cup {<<e, n>>}) /\ Cardinality(Refs(s) \cup {<<e, n>>}) =< Cardinality(Refs(s)) + 1
            /\ Cardinality(Refs(s) \cup {<<e, n>>}) \in Nat
        <4>1. /\ IsFiniteSet(Refs(s) \cup {<<e, n>>})
              /\ Cardinality(Refs(s) \cup {<<e, n>>}) = IF <<e, n>> \in Refs(s) THEN Cardinality(Refs(s)) ELSE Cardinality(Refs(s)) + 1
          BY <2>7, FS_AddElement, Zenon
        <4> QED
          BY <2>12, <4>1
      <3>3. i = s
        BY <2>13, WaiterNames
      <3>4. change_filter'[s] = change_filter[s] + 1
        BY <2>1, <2>12, <3>3
      <3>5. IsFiniteSet(Refs(s)') /\ Cardinality(Refs(s)') =< Cardinality(Refs(s) \cup {<<e, n>>}) /\ Cardinality(Refs(s)') \in Nat
        BY <3>1, <3>2, FS_Subset, FS_CardinalityType
      <3> QED
        BY <2>7, <2>12, <3>2, <3>4, <3>5
    <2>14. CASE op[t].source # s
      <3>1. <<e, n>> \notin Refs(s)' /\ <<e, n>> \notin Refs(s)
        BY <2>3, <2>4, <2>6, <2>8, <2>14 DEF Refs
      <3>2. Refs(s)' = Refs(s)
        BY <2>10, <2>11, <3>1
      <3>3. change_filter'[s] >= change_filter[s]
        BY <2>1, <2>12 DEF Structure, LockTypes
      <3>4. change_filter'[s] \in Nat
        BY DEF Structure, LockTypes, Sources
      <3> QED
        BY <2>7, <2>12, <3>2, <3>3, <3>4
    <2> QED
      BY <2>13, <2>14
  <1>6. ASSUME NEW t \in Threads, ResetStep(t) PROVE FilterInv'
    <2> DEFINE c == m_checks[op[t].event][op[t].next]
    <2>1. UNCHANGED <<m_checks, change_filter, alive, live>> /\ pc[t] = "resetting"
          /\ \/ check' = check
             \/ /\ op[t].next =< Len(m_checks[op[t].event])
                /\ check' = [check EXCEPT ![c] = ResetLocked(check[c], op[t].how)]
      BY <1>6, Zenon DEF ResetStep, source_vars
    <2>2. \A d \in DOMAIN check : check'[d].source = check[d].source
      <3>1. CASE check' = check
        BY <3>1
      <3>2. CASE /\ op[t].next =< Len(m_checks[op[t].event])
                 /\ check' = [check EXCEPT ![c] = ResetLocked(check[c], op[t].how)]
        <4>1. op[t].event \in live /\ op[t].how \in Resets /\ op[t].next > 0 /\ op[t].next \in Nat
          BY <2>1 DEF Structure, EventsLive, ThreadTypes, Works, Results, Locking, OpType
        <4>2. op[t].event \in Events /\ m_checks[op[t].event] \in Seq(Nat)
          BY <4>1 DEF Structure, EventTypes
        <4>3. c \in DOMAIN check
          BY <3>2, <4>1, <4>2 DEF Structure, ChecksExist
        <4> HIDE DEF c
        <4>4. check[c] \in CheckType
          BY <4>3 DEF Structure, EventTypes
        <4>5. ResetLocked(check[c], op[t].how).source = check[c].source
          BY <4>1, <4>4, ResetCheck
        <4> QED
          BY <3>2, <4>3, <4>5 DEF Structure, EventTypes
      <3> QED
        BY <2>1, <3>1, <3>2
    <2> QED
      BY <1>1, <2>1, <2>2
  <1>7. ASSUME NEW s \in Calls, Expire(s) PROVE FilterInv'
    <2>1. UNCHANGED <<m_checks, change_filter, check, live>> /\ alive' = [alive EXCEPT ![s] = FALSE]
      BY <1>7, Zenon DEF Expire, event_vars
    <2>2. \A u \in Calls : alive'[u] => alive[u]
      BY <2>1, Zenon DEF Structure, SourceTypes
    <2> QED
      BY <1>1, <2>1, <2>2, Zenon
  <1>8. ASSUME NEW t \in Threads, Begin(t) PROVE FilterInv'
    <2>1. ASSUME NEW e \in Events,
                 \/ CreateEvent(t, e)
                 \/ \E timed \in BOOLEAN : Wait(t, e, timed)
                 \/ \E how \in Resets : ResetTriggered(t, e, how)
                 \/ \E cancel \in Flags, s \in Sources :
                      CounterEvent(t, e, s, cancel) \/ \E initial \in Initials : Binding(t, e, s, initial, cancel)
          PROVE  FilterInv'
      <3>1. UNCHANGED <<m_checks, change_filter, alive, check>> /\ live \subseteq live'
        BY <2>1, Zenon DEF CreateEvent, Wait, ResetTriggered, CounterEvent, Binding, source_vars, event_vars
      <3> QED
        BY <1>2, <3>1
    <2>2. ASSUME CancelAllWaits(t) PROVE FilterInv'
      <3>1. UNCHANGED <<m_checks, change_filter, alive, check, live>>
        BY <2>2, Zenon DEF CancelAllWaits, source_vars, event_vars
      <3> QED
        BY <1>2, <3>1
    <2> QED
      BY <1>3, <1>4, <1>8, <2>1, <2>2, Zenon DEF Begin, BindCall, BindConnect
  <1>9. ASSUME NEW t \in Threads, WaitStep(t) \/ Wake(t) \/ Done(t) \/ Timeout(t) \/ SpuriousWakeup(t) PROVE FilterInv'
    <2>1. UNCHANGED <<m_checks, change_filter, alive, check, live>>
      BY <1>9, Zenon DEF WaitStep, Wake, Done, Timeout, SpuriousWakeup, Predicate_Canceled, Predicate_Step,
                         Predicate_False, source_vars, event_vars
    <2> QED
      BY <1>2, <2>1
  <1>10. ASSUME NEW s, IncrementCallCount(s) \/ OnCallCountChanged(s) \/ SignalLocked(s) PROVE FilterInv'
    <2>1. UNCHANGED <<m_checks, change_filter, alive, check, live>>
      BY <1>10, Zenon DEF IncrementCallCount, OnCallCountChanged, CheckConditionChanged, SignalLocked, event_vars
    <2> QED
      BY <1>2, <2>1
  <1>11. CASE UNCHANGED vars
    BY <1>2, <1>11, Zenon DEF vars, source_vars, event_vars
  <1> QED
    BY <1>5, <1>6, <1>7, <1>8, <1>9, <1>10, <1>11, Zenon DEF Next, ThreadStep, SignalChangeState, Increment

\* No event refers to a check at first.
LEMMA InitFilter == Init => FilterInv
  <1> SUFFICES ASSUME Init, NEW s \in Calls PROVE IsFiniteSet(Refs(s)) /\ Cardinality(Refs(s)) =< change_filter[s]
    BY Zenon DEF FilterInv
  <1>1. Refs(s) = {}
    BY DEF Init, Refs
  <1>2. change_filter[s] = 0
    BY DEF Init, Sources
  <1> QED
    BY <1>1, <1>2, FS_EmptySet

-----------------------------------------------------------------------------
(* Nobody sleeps through a signal                                          *)

\* A check that is triggered is one nobody was told of.
Hushed(c) == Triggered(c) => Untold(c)

\* Quiet and Passed in terms of Hushed.
LEMMA WaitHushed ==
    /\ \A e : Quiet(e) <=> \A k \in DOMAIN m_checks[e] : Hushed(m_checks[e][k])
    /\ \A t : Passed(t) <=> \A k \in DOMAIN m_checks[op[t].event] :
                               k < op[t].next => Hushed(m_checks[op[t].event][k])
  BY Zenon DEF Quiet, Passed, Hushed

\* Threads that wait go on waiting while nothing they wait for is told.
LEMMA WaitStays ==
    ASSUME Structure, Structure', WaitInv, UNCHANGED <<m_checks, cancel_all_waits>>,
           \A u \in Threads : pc'[u] \in {"blocked", "checking"} =>
              \/ pc'[u] = pc[u] /\ op'[u] = op[u]
              \/ pc'[u] = "checking" /\ op'[u].next = 1,
           \A c \in DOMAIN check : Hushed(c) => Hushed(c)'
    PROVE  WaitInv'
  <1>1. ASSUME NEW u \in Threads, pc'[u] = pc[u], op'[u] = op[u], pc[u] \in {"blocked", "checking"}
        PROVE  /\ op[u].event \in Events /\ m_checks[op[u].event] \in Seq(Nat)
               /\ \A k \in DOMAIN m_checks[op[u].event] :
                     Hushed(m_checks[op[u].event][k]) => Hushed(m_checks[op[u].event][k])'
    <2>1. op[u].event \in Events
      BY <1>1 DEF Structure, EventsLive, Works, EventTypes, Results
    <2>2. \A k \in DOMAIN m_checks[op[u].event] : m_checks[op[u].event][k] \in DOMAIN check
      BY <2>1, Zenon DEF Structure, ChecksExist
    <2>3. ASSUME NEW k \in DOMAIN m_checks[op[u].event], Hushed(m_checks[op[u].event][k])
          PROVE  Hushed(m_checks[op[u].event][k])'
      <3>1. PICK c \in DOMAIN check : c = m_checks[op[u].event][k]
        BY <2>2, Zenon
      <3>2. c = m_checks'[op'[u].event][k]
        BY <1>1, <3>1, Zenon
      <3>3. Hushed(c)'
        BY <2>3, <3>1, Zenon
      <3> QED
        BY <1>1, <3>1, <3>3 DEF Hushed, Triggered, Untold, Expired, Differs
    <2> QED
      BY <2>1, <2>3, Zenon DEF Structure, EventTypes
  <1>2. NoLostWakeup'
    <2> SUFFICES ASSUME NEW u \in Threads, pc'[u] = "blocked" PROVE ~cancel_all_waits' /\ Quiet(op[u].event)'
      BY Zenon DEF NoLostWakeup
    <2>1. pc[u] = "blocked" /\ pc'[u] = pc[u] /\ op'[u] = op[u]
      OBVIOUS
    <2>2. ~cancel_all_waits /\ Quiet(op[u].event)
      BY <2>1, Zenon DEF WaitInv, NoLostWakeup
    <2>3. \A k \in DOMAIN m_checks[op[u].event] : Hushed(m_checks[op[u].event][k])'
      BY <1>1, <2>1, <2>2, WaitHushed
    <2> QED
      BY <2>1, <2>2, <2>3, Zenon DEF Quiet, Hushed
  <1>3. ASSUME NEW u \in Threads, pc'[u] = "checking" PROVE Passed(u)'
    <2>1. CASE pc'[u] = pc[u] /\ op'[u] = op[u]
      <3>1. Passed(u)
        BY <1>3, <2>1, Zenon DEF WaitInv
      <3>2. \A k \in DOMAIN m_checks[op[u].event] : k < op[u].next => Hushed(m_checks[op[u].event][k])'
        BY <1>1, <1>3, <2>1, <3>1, WaitHushed
      <3> QED
        BY <2>1, <3>2, Zenon DEF Passed, Hushed
    <2>2. CASE op'[u].next = 1
      <3>1. op'[u].event \in Events
        BY <1>3 DEF Structure, EventsLive, Works, EventTypes, Results
      <3>2. m_checks'[op'[u].event] \in Seq(Nat)
        BY <3>1, Zenon DEF Structure, EventTypes
      <3>3. \A k \in DOMAIN m_checks'[op'[u].event] : ~(k < op'[u].next)
        BY <2>2, <3>2
      <3> QED
        BY <3>3, Zenon DEF Passed
    <2> QED
      BY <1>3, <2>1, <2>2
  <1> QED
    BY <1>2, <1>3, Zenon DEF WaitInv

\* After a notification nobody sleeps.
LEMMA NobodyWaits ==
    ASSUME \A u \in Threads : pc'[u] \notin {"blocked", "checking"}
    PROVE  WaitInv'
  <1>1. \A u \in Threads : pc'[u] # "blocked" /\ pc'[u] # "checking"
    OBVIOUS
  <1> QED
    BY <1>1, Zenon DEF WaitInv, NoLostWakeup

\* While the lock is free nobody is in a loop, so a notification reaches all.
LEMMA NotifiedUnlocked ==
    ASSUME Structure, owner = NoThread
    PROVE  \A u \in Threads : NotifyAll[u] \notin {"blocked", "checking"} /\ pc[u] # "checking"
  <1>1. \A u \in Threads : pc[u] # "checking"
    BY WaiterNames DEF Structure, OwnerLocks, Locking
  <1> QED
    BY <1>1, NotifyAllType DEF Structure

\* A wakeup is lost in no step.
LEMMA WaitStepInv == ASSUME Structure, Structure', FilterInv, WaitInv, [Next]_vars PROVE WaitInv'
  <1>0. \A u \in Threads : NotifyAll[u] = pc[u] \/ NotifyAll[u] = "woken"
    BY NotifyAllType DEF Structure
  <1>1. ASSUME UNCHANGED <<count, alive, unannounced, check>> PROVE \A c : Hushed(c) => Hushed(c)'
    BY <1>1, Zenon DEF Hushed, Triggered, Untold, Expired, Differs
  <1>2. ASSUME NEW t \in Threads, Begin(t) PROVE WaitInv'
    <2>1. ASSUME NEW e \in Events, CreateEvent(t, e) PROVE WaitInv'
      <3>1. UNCHANGED <<count, alive, unannounced, check, m_checks, cancel_all_waits, pc, op>>
        BY <2>1, Zenon DEF CreateEvent, source_vars
      <3> QED
        BY <1>1, <3>1, WaitStays
    <2>2. ASSUME NEW e \in Events, Destroy(t, e) PROVE WaitInv'
      <3>1. /\ UNCHANGED <<count, alive, unannounced, check, cancel_all_waits, op>> /\ owner = NoThread
            /\ m_checks' = [m_checks EXCEPT ![e] = <<>>]
            /\ pc' = IF m_checks[e] # <<>> THEN NotifyAll ELSE pc
        BY <2>2, Zenon DEF Destroy, Unlocked, source_vars
      <3>2. CASE m_checks[e] = <<>>
        <4>1. m_checks' = m_checks /\ pc' = pc
          BY <3>1, <3>2 DEF Structure, EventTypes
        <4> QED
          BY <1>1, <3>1, <4>1, WaitStays
      <3>3. CASE m_checks[e] # <<>>
        BY <3>1, <3>3, NotifiedUnlocked, NobodyWaits
      <3> QED
        BY <3>2, <3>3
    <2>3. ASSUME NEW e \in Events, NEW other \in Events, BindEvent(t, e, other) PROVE WaitInv'
      <3>1. pc' = NotifyAll /\ owner = NoThread
        BY <2>3, Zenon DEF BindEvent, Unlocked
      <3> QED
        BY <3>1, NotifiedUnlocked, NobodyWaits
    <2>4. ASSUME CancelAllWaits(t) PROVE WaitInv'
      <3>1. pc' = NotifyAll /\ owner = NoThread
        BY <2>4, Zenon DEF CancelAllWaits, Unlocked
      <3> QED
        BY <3>1, NotifiedUnlocked, NobodyWaits
    <2>5. ASSUME NEW e \in Events, NEW timed \in BOOLEAN, Wait(t, e, timed) PROVE WaitInv'
      <3> DEFINE o == [NoOp EXCEPT !.event = e, !.timed = timed, !.next = 1]
      <3>1. /\ UNCHANGED <<count, alive, unannounced, check, m_checks, cancel_all_waits>>
            /\ pc' = [pc EXCEPT ![t] = "checking"] /\ op' = [op EXCEPT ![t] = o]
        BY <2>5, Zenon DEF Wait, source_vars, event_vars
      <3>2. o.next = 1
        BY DEF NoOp
      <3> HIDE DEF o
      <3>3. pc'[t] = "checking" /\ op'[t].next = 1 /\ \A u \in Threads \ {t} : pc'[u] = pc[u] /\ op'[u] = op[u]
        BY <3>1, <3>2 DEF Structure, ThreadTypes
      <3> QED
        BY <1>1, <3>1, <3>3, WaitStays
    <2>6. ASSUME NEW e \in Events,
                 \/ \E how \in Resets : ResetTriggered(t, e, how)
                 \/ \E cancel \in Flags, s \in Sources :
                      CounterEvent(t, e, s, cancel) \/ \E initial \in Initials : Binding(t, e, s, initial, cancel)
          PROVE  WaitInv'
      <3>1. /\ UNCHANGED <<count, alive, unannounced, check, m_checks, cancel_all_waits>>
            /\ \E p \in {"resetting", "binding"} : pc' = [pc EXCEPT ![t] = p]
            /\ \E o : op' = [op EXCEPT ![t] = o]
        BY <2>6, Zenon DEF ResetTriggered, CounterEvent, Binding, source_vars, event_vars
      <3>2. pc'[t] \in {"resetting", "binding"} /\ \A u \in Threads \ {t} : pc'[u] = pc[u] /\ op'[u] = op[u]
        BY <3>1 DEF Structure, ThreadTypes
      <3> QED
        BY <1>1, <3>1, <3>2, WaitStays
    <2> QED
      BY <1>2, <2>1, <2>2, <2>3, <2>4, <2>5, <2>6, Zenon DEF Begin, BindCall, BindConnect
  <1>3. ASSUME NEW t \in Threads, BindCheck(t) PROVE WaitInv'
    <2>1. pc' = [NotifyAll EXCEPT ![t] = "idle"] /\ owner = NoThread
      BY <1>3, Zenon DEF BindCheck, Unlocked
    <2>2. \A u \in Threads : pc'[u] \notin {"blocked", "checking"}
      BY <2>1, NotifiedUnlocked, NotifyAllType DEF Structure
    <2> QED
      BY <2>2, NobodyWaits
  <1>4. ASSUME NEW t \in Threads, ResetStep(t) PROVE WaitInv'
    <2> DEFINE c == m_checks[op[t].event][op[t].next]
    <2>1. /\ UNCHANGED <<count, alive, unannounced, m_checks, cancel_all_waits>> /\ pc[t] = "resetting"
          /\ \/ check' = check
             \/ /\ op[t].next =< Len(m_checks[op[t].event]) /\ ToReset(c)
                /\ check' = [check EXCEPT ![c] = ResetLocked(check[c], op[t].how)]
          /\ \/ pc' = pc /\ op' = [op EXCEPT ![t].next = @ + 1]
             \/ pc' = [pc EXCEPT ![t] = "idle"] /\ op' = [op EXCEPT ![t] = NoOp]
      BY <1>4, Zenon DEF ResetStep, source_vars
    <2>2. pc'[t] \in {"resetting", "idle"} /\ \A u \in Threads \ {t} : pc'[u] = pc[u] /\ op'[u] = op[u]
      BY <2>1 DEF Structure, ThreadTypes
    <2>3. \A d \in DOMAIN check : Hushed(d) => Hushed(d)'
      <3>1. CASE check' = check
        BY <1>1, <2>1, <3>1
      <3>2. CASE /\ op[t].next =< Len(m_checks[op[t].event]) /\ ToReset(c)
                 /\ check' = [check EXCEPT ![c] = ResetLocked(check[c], op[t].how)]
        <4>1. op[t].event \in live /\ op[t].how \in Resets /\ op[t].next > 0 /\ op[t].next \in Nat
          BY <2>1 DEF Structure, EventsLive, ThreadTypes, Works, Results, Locking, OpType
        <4>2. op[t].event \in Events /\ m_checks[op[t].event] \in Seq(Nat)
          BY <4>1 DEF Structure, EventTypes
        <4>3. c \in DOMAIN check
          BY <3>2, <4>1, <4>2 DEF Structure, ChecksExist
        <4>4. Triggered(c)
          BY <3>2, Zenon DEF ToReset
        <4>5. PICK x \in DOMAIN check : x = c
          BY <4>3
        <4>6. Triggered(x) /\ check' = [check EXCEPT ![x] = ResetLocked(check[x], op[t].how)]
          BY <3>2, <4>4, <4>5, Zenon
        <4>7. check[x] \in CheckType
          BY DEF Structure, EventTypes
        <4>8. ResetLocked(check[x], op[t].how).source = check[x].source
          BY <4>1, <4>7, ResetCheck
        <4>9. check'[x].source = check[x].source /\ \A d \in DOMAIN check \ {x} : check'[d] = check[d]
          BY <4>6, <4>8 DEF Structure, EventTypes
        <4>10. Untold(x) => Untold(x)'
          BY <2>1, <4>9, Zenon DEF Untold
        <4>11. Hushed(x) => Hushed(x)'
          BY <4>6, <4>10, Zenon DEF Hushed
        <4>12. \A d \in DOMAIN check \ {x} : Hushed(d) => Hushed(d)'
          BY <2>1, <4>9, Zenon DEF Hushed, Triggered, Untold, Expired, Differs
        <4> QED
          BY <4>11, <4>12
      <3> QED
        BY <2>1, <3>1, <3>2
    <2> QED
      BY <2>1, <2>2, <2>3, WaitStays
  <1>5. ASSUME NEW t \in Threads, WaitStep(t) PROVE WaitInv'
    <2>1. /\ UNCHANGED <<count, alive, unannounced, check, m_checks, cancel_all_waits>> /\ pc[t] = "checking"
          /\ Predicate_Canceled(t) \/ Predicate_Step(t) \/ Predicate_False(t)
      BY <1>5, Zenon DEF WaitStep, source_vars, event_vars
    <2>2. /\ op[t].event \in Events /\ m_checks[op[t].event] \in Seq(Nat) /\ op[t].next \in Nat /\ Passed(t)
      BY <2>1 DEF Structure, EventsLive, ThreadTypes, Works, Results, OpType, EventTypes, WaitInv
    <2>3. ASSUME NEW r \in Results, Return(t, r) PROVE WaitInv'
      <3>1. pc'[t] = r /\ \A u \in Threads \ {t} : pc'[u] = pc[u] /\ op'[u] = op[u]
        BY <2>3 DEF Return, Structure, ThreadTypes
      <3>2. r \notin {"blocked", "checking"}
        BY DEF Results
      <3> QED
        BY <1>1, <2>1, <3>1, <3>2, WaitStays
    <2>4. ASSUME ~Triggered(m_checks[op[t].event][op[t].next]), op' = [op EXCEPT ![t].next = op[t].next + 1], pc' = pc
          PROVE  WaitInv'
      <3>1. op'[t].event = op[t].event /\ op'[t].next = op[t].next + 1 /\ \A u \in Threads \ {t} : op'[u] = op[u]
        BY <2>4 DEF Structure, ThreadTypes, OpType
      <3>2. \A k \in DOMAIN m_checks[op[t].event] : k < op[t].next + 1 => Hushed(m_checks[op[t].event][k])
        <4> SUFFICES ASSUME NEW k \in DOMAIN m_checks[op[t].event], k < op[t].next + 1
                     PROVE  Hushed(m_checks[op[t].event][k])
          BY Zenon
        <4>1. k = op[t].next \/ k < op[t].next
          BY <2>2
        <4> QED
          BY <2>2, <2>4, <4>1, WaitHushed, Zenon DEF Hushed
      <3>3. \A k \in DOMAIN m_checks[op[t].event] : k < op[t].next + 1 => Hushed(m_checks[op[t].event][k])'
        BY <2>1, <3>1, <3>2, Zenon DEF Hushed, Triggered, Untold, Expired, Differs
      <3>4. Passed(t)'
        BY <2>1, <3>1, <3>3, Zenon DEF Passed, Hushed
      <3>5. ASSUME NEW u \in Threads \ {t}, pc[u] = "checking" PROVE Passed(u)'
        <4>1. Passed(u) /\ op'[u] = op[u]
          BY <3>1, <3>5, Zenon DEF WaitInv
        <4> QED
          BY <2>1, <4>1, Zenon DEF Passed, Triggered, Untold, Expired, Differs
      <3>6. ASSUME NEW u \in Threads, pc[u] = "blocked" PROVE ~cancel_all_waits' /\ Quiet(op[u].event)'
        <4>1. ~cancel_all_waits /\ Quiet(op[u].event) /\ u # t
          BY <2>1, <3>6 DEF WaitInv, NoLostWakeup
        <4>2. op'[u] = op[u]
          BY <3>1, <4>1
        <4> QED
          BY <2>1, <4>1, <4>2, Zenon DEF Quiet, Triggered, Untold, Expired, Differs
      <3> QED
        BY <2>4, <3>4, <3>5, <3>6, Zenon DEF WaitInv, NoLostWakeup
    <2>5. ASSUME ~cancel_all_waits, op[t].next > Len(m_checks[op[t].event]), pc' = [pc EXCEPT ![t] = "blocked"], op' = op
          PROVE  WaitInv'
      <3>1. Quiet(op[t].event)
        <4>1. \A k \in DOMAIN m_checks[op[t].event] : k < op[t].next
          BY <2>2, <2>5
        <4> QED
          BY <2>2, <4>1, WaitHushed, Zenon
      <3>2. pc'[t] = "blocked" /\ \A u \in Threads \ {t} : pc'[u] = pc[u]
        BY <2>5 DEF Structure, ThreadTypes
      <3>3. ASSUME NEW u \in Threads \ {t}, pc[u] = "checking" PROVE Passed(u)'
        <4>1. Passed(u) /\ op'[u] = op[u]
          BY <2>5, <3>3, Zenon DEF WaitInv
        <4> QED
          BY <2>1, <4>1, Zenon DEF Passed, Triggered, Untold, Expired, Differs
      <3>4. ASSUME NEW u \in Threads, pc[u] = "blocked" \/ u = t PROVE ~cancel_all_waits' /\ Quiet(op[u].event)'
        <4>1. ~cancel_all_waits /\ Quiet(op[u].event)
          BY <2>5, <3>1, <3>4 DEF WaitInv, NoLostWakeup
        <4> QED
          BY <2>1, <2>5, <4>1, Zenon DEF Quiet, Triggered, Untold, Expired, Differs
      <3>5. NoLostWakeup'
        BY <3>2, <3>4, Zenon DEF NoLostWakeup
      <3>6. "blocked" # "checking"
        OBVIOUS
      <3> QED
        BY <3>2, <3>3, <3>5, <3>6, Zenon DEF WaitInv
    <2>6. \A c : ResultOf(c) \in Results
      BY DEF ResultOf, Results
    <2>7. "canceled" \in Results /\ "timeout" \in Results
      BY DEF Results
    <2> QED
      BY <2>1, <2>3, <2>4, <2>5, <2>6, <2>7, Zenon DEF Predicate_Canceled, Predicate_Step, Predicate_False
  <1>6. ASSUME NEW t \in Threads, Wake(t) \/ Done(t) \/ Timeout(t) \/ SpuriousWakeup(t) PROVE WaitInv'
    <2>1. UNCHANGED <<count, alive, unannounced, check, m_checks, cancel_all_waits>>
      BY <1>6, Zenon DEF Wake, Done, Timeout, SpuriousWakeup, source_vars, event_vars
    <2>2. /\ \A u \in Threads \ {t} : pc'[u] = pc[u] /\ op'[u] = op[u]
          /\ pc'[t] \in {"idle", "woken"} \/ (pc'[t] = "checking" /\ op'[t].next = 1)
      BY <1>6 DEF Wake, Done, Timeout, SpuriousWakeup, Structure, ThreadTypes, OpType
    <2> QED
      BY <1>1, <2>1, <2>2, WaitStays
  <1>7. ASSUME NEW s \in Calls, IncrementCallCount(s) PROVE WaitInv'
    <2>1. /\ UNCHANGED <<alive, check, m_checks, cancel_all_waits, pc, op>> /\ Count(s)
          /\ unannounced' = [unannounced EXCEPT ![s] = unannounced[s] + 1]
      BY <1>7, Zenon DEF IncrementCallCount, event_vars
    <2>2. unannounced'[s] > 0 /\ \A u \in Calls \ {s} : unannounced'[u] = unannounced[u]
      BY <2>1 DEF Structure, SourceTypes
    <2>3. \A u \in Sources \ {s} : count'[u] = count[u]
      BY <2>1 DEF Count, Structure, SourceTypes
    <2>4. ASSUME NEW c \in DOMAIN check, Hushed(c) PROVE Hushed(c)'
      <3>0. check[c] \in CheckType
        BY DEF Structure, EventTypes
      <3>1. check[c].source \in Sources
        BY <3>0 DEF CheckType
      <3>2. CASE check[c].source = s
        BY <2>1, <2>2, <3>2, Zenon DEF Hushed, Untold
      <3>3. CASE check[c].source # s
        <4>1. count'[check[c].source] = count[check[c].source]
          BY <2>3, <3>1, <3>3
        <4>2. Triggered(c)' => Triggered(c)
          BY <2>1, <4>1, Zenon DEF Triggered, Expired, Differs
        <4>3. Untold(c) => Untold(c)'
          BY <2>1, <2>2, <3>3, Zenon DEF Untold
        <4> QED
          BY <2>4, <4>2, <4>3, Zenon DEF Hushed
      <3> QED
        BY <3>2, <3>3
    <2> QED
      BY <2>1, <2>4, WaitStays
  <1>8. ASSUME NEW s \in Calls, Expire(s) PROVE WaitInv'
    <2>1. /\ UNCHANGED <<count, unannounced, check, m_checks, cancel_all_waits, pc, op>>
          /\ alive' = [alive EXCEPT ![s] = FALSE]
      BY <1>8, Zenon DEF Expire, event_vars
    <2>2. \A u \in Calls : alive'[u] => alive[u]
      BY <2>1, Zenon DEF Structure, SourceTypes
    <2>3. \A c : Hushed(c) => Hushed(c)'
      BY <2>1, <2>2, Zenon DEF Hushed, Triggered, Untold, Expired, Differs
    <2> QED
      BY <2>1, <2>3, WaitStays
  <1>9. ASSUME NEW s \in Calls, OnCallCountChanged(s) PROVE WaitInv'
    <2>1. /\ UNCHANGED <<count, alive, check, m_checks, cancel_all_waits, op>> /\ owner = NoThread
          /\ unannounced' = [unannounced EXCEPT ![s] = unannounced[s] - 1]
          /\ pc' = IF change_filter[s] > 0 THEN NotifyAll ELSE pc
      BY <1>9, Zenon DEF OnCallCountChanged, CheckConditionChanged, Unlocked, event_vars
    <2>2. CASE change_filter[s] > 0
      BY <2>1, <2>2, NotifiedUnlocked, NobodyWaits
    <2>3. CASE ~(change_filter[s] > 0)
      <3>1. pc' = pc /\ \A u \in Threads : pc[u] # "checking"
        BY <2>1, <2>3, NotifiedUnlocked
      <3>2. change_filter[s] = 0
        BY <2>3 DEF Structure, LockTypes, Sources
      <3>3. ASSUME NEW u \in Threads, pc[u] = "blocked" PROVE ~cancel_all_waits' /\ Quiet(op[u].event)'
        <4>1. ~cancel_all_waits /\ Quiet(op[u].event)
          BY <3>3, Zenon DEF WaitInv, NoLostWakeup
        <4>2. op[u].event \in live /\ op[u].event \in Events
          BY <3>3 DEF Structure, EventsLive, Works, EventTypes, Results
        <4>3. ASSUME NEW k \in DOMAIN m_checks[op[u].event], Hushed(m_checks[op[u].event][k])
              PROVE  Hushed(m_checks[op[u].event][k])'
          <5> DEFINE c == m_checks[op[u].event][k]
          <5>1. c \in DOMAIN check
            BY <4>2, Zenon DEF Structure, ChecksExist
          <5>2. CASE check[c].source = s
            <6>1. ~alive[s]
              <7> SUFFICES ASSUME alive[s] PROVE FALSE
                BY Zenon
              <7>1. IsFiniteSet(Refs(s)) /\ Cardinality(Refs(s)) =< 0
                BY <3>2, Zenon DEF FilterInv
              <7>2. Refs(s) = {}
                BY <7>1, FS_EmptySet, FS_CardinalityType
              <7>3. m_checks[op[u].event] \in Seq(Nat)
                BY <4>2 DEF Structure, EventTypes
              <7>4. k \in Nat
                BY <7>3
              <7>5. <<op[u].event, k>> \in Refs(s)
                BY <4>2, <5>2, <7>4 DEF Refs
              <7> QED
                BY <7>2, <7>5
            <6>2. ~Triggered(c)'
              BY <2>1, <5>2, <6>1, Zenon DEF Triggered, Expired
            <6> QED
              BY <2>1, <6>2, Zenon DEF Hushed
          <5>3. CASE check[c].source # s
            <6>1. check[c].source \in Calls => unannounced'[check[c].source] = unannounced[check[c].source]
              BY <2>1, <5>3 DEF Structure, SourceTypes
            <6>2. Hushed(c) => Hushed(c)'
              BY <2>1, <6>1, Zenon DEF Hushed, Triggered, Untold, Expired, Differs
            <6> QED
              BY <2>1, <4>3, <6>2, Zenon
          <5> QED
            BY <5>2, <5>3
        <4>4. \A k \in DOMAIN m_checks[op[u].event] : Hushed(m_checks[op[u].event][k])'
          BY <4>1, <4>3, WaitHushed
        <4> QED
          BY <2>1, <4>1, <4>4, Zenon DEF Quiet, Hushed
      <3> QED
        BY <3>1, <3>3, Zenon DEF WaitInv, NoLostWakeup
    <2> QED
      BY <2>2, <2>3
  <1>10. ASSUME NEW s \in Sources, SignalLocked(s) PROVE WaitInv'
    <2>1. pc' = NotifyAll /\ owner = NoThread
      BY <1>10, Zenon DEF SignalLocked, Unlocked
    <2> QED
      BY <2>1, NotifiedUnlocked, NobodyWaits
  <1>11. CASE UNCHANGED vars
    <2>1. UNCHANGED <<count, alive, unannounced, check, m_checks, cancel_all_waits, pc, op>>
      BY <1>11, Zenon DEF vars, source_vars, event_vars
    <2> QED
      BY <1>1, <2>1, WaitStays
  <1> QED
    BY <1>2, <1>3, <1>4, <1>5, <1>6, <1>7, <1>8, <1>9, <1>10, <1>11, Zenon
       DEF Next, ThreadStep, SignalChangeState, Increment

-----------------------------------------------------------------------------
(* Theorems                                                                *)

\* The inductive invariant.
WaiterInv == Structure /\ CountInv /\ FilterInv /\ WaitInv

\* The invariant is inductive.
LEMMA InvariantHolds == Spec => []WaiterInv
  <1>1. Init => WaiterInv
    <2>1. Init => WaitInv
      BY DEF Init, WaitInv, NoLostWakeup
    <2> QED
      BY <2>1, InitStructure, InitCount, InitFilter DEF WaiterInv
  <1>2. WaiterInv /\ [Next]_vars => WaiterInv'
    BY StructureStep, CountStep, FilterStep, WaitStepInv DEF WaiterInv
  <1> QED
    BY <1>1, <1>2, PTL DEF Spec

\* For every width of the counters and every number of threads, events, calls,
\* states and counters: a check is triggered by the signals it has not stood for
\* and by no others, and no thread sleeps on an event whose signal was announced
\* (IsTriggeredLocked, ResetTriggered, change_filter, CheckConditionChanged).
THEOREM SignalsCorrect == Spec => []SignalsSeen
  <1>1. WaiterInv => SignalsSeen
    BY StructureTypeOK, CountedSignals DEF WaiterInv, WaitInv, SignalsSeen
  <1> QED
    BY <1>1, InvariantHolds, PTL

\* A wait returns timeout only when no announced signal is left, ready and
\* canceled only for a triggered check of that kind (WaitDuration).
THEOREM ResultsCorrect == Spec => ResultIsTrue
  <1> DEFINE Seen(e, flag) == \E k \in DOMAIN m_checks[e] :
                                 Triggered(m_checks[e][k]) /\ check[m_checks[e][k]].cancel = flag
             TrueResult(t) == LET e == op[t].event
                              IN  CASE pc'[t] = "timeout" -> op[t].timed /\ Quiet(e) /\ ~cancel_all_waits
                                    [] pc'[t] = "ready" -> Seen(e, FALSE) /\ ~cancel_all_waits
                                    [] pc'[t] = "canceled" -> Seen(e, TRUE) \/ cancel_all_waits
  <1>1. ASSUME WaiterInv, [Next]_vars, NEW t \in Threads, pc[t] \notin Results, pc'[t] \in Results
        PROVE  WaitStep(t)
    <2>1. ASSUME ThreadTypes, \E u \in Threads : \E p : p \notin Results /\ (pc' = [pc EXCEPT ![u] = p] \/ pc' = [NotifyAll EXCEPT ![u] = p])
          PROVE  FALSE
      BY <1>1, <2>1, NotifyAllType DEF Results, ThreadTypes
    <2>2. ASSUME pc' = pc \/ pc' = NotifyAll PROVE FALSE
      BY <1>1, <2>2, NotifyAllType DEF Results, WaiterInv, Structure
    <2>3. /\ "idle" \notin Results /\ "checking" \notin Results /\ "resetting" \notin Results /\ "binding" \notin Results
          /\ "woken" \notin Results /\ ThreadTypes
      BY <1>1 DEF Results, WaiterInv, Structure
    <2>4. ASSUME NEW u \in Threads, Begin(u) PROVE FALSE
      <3>1. ASSUME NEW e, CreateEvent(u, e) \/ Destroy(u, e) \/ \E other : BindEvent(u, e, other) PROVE FALSE
        BY <2>2, <3>1, Zenon DEF CreateEvent, Destroy, BindEvent
      <3>2. ASSUME NEW e, (\E timed : Wait(u, e, timed)) \/ (\E how : ResetTriggered(u, e, how)) PROVE FALSE
        BY <2>1, <2>3, <3>2, Zenon DEF Wait, ResetTriggered
      <3>3. ASSUME NEW e, NEW s, NEW cancel, CounterEvent(u, e, s, cancel) \/ \E initial : Binding(u, e, s, initial, cancel)
            PROVE  FALSE
        BY <2>1, <2>3, <3>3, Zenon DEF CounterEvent, Binding
      <3>4. ~CancelAllWaits(u)
        BY <2>2, Zenon DEF CancelAllWaits
      <3> QED
        BY <2>4, <3>1, <3>2, <3>3, <3>4, Zenon DEF Begin, BindCall, BindConnect
    <2>5. ASSUME NEW u \in Threads, BindCheck(u) \/ ResetStep(u) \/ Wake(u) \/ Done(u) \/ Timeout(u) \/ SpuriousWakeup(u)
          PROVE  FALSE
      BY <2>1, <2>2, <2>3, <2>5, Zenon DEF BindCheck, ResetStep, Wake, Done, Timeout, SpuriousWakeup
    <2>6. ASSUME NEW s, IncrementCallCount(s) \/ OnCallCountChanged(s) \/ Expire(s) \/ SignalLocked(s) PROVE FALSE
      BY <2>2, <2>6, Zenon DEF IncrementCallCount, OnCallCountChanged, CheckConditionChanged, Expire, SignalLocked
    <2>7. ASSUME NEW u \in Threads \ {t}, WaitStep(u) PROVE FALSE
      <3>1. pc' = pc \/ \E r : pc' = [pc EXCEPT ![u] = r]
        BY <2>7, Zenon DEF WaitStep, Predicate_Canceled, Predicate_Step, Predicate_False, Return
      <3> QED
        BY <1>1, <2>3, <3>1 DEF ThreadTypes
    <2>8. ~(UNCHANGED vars)
      BY <2>2, Zenon DEF vars
    <2> QED
      BY <1>1, <2>4, <2>5, <2>6, <2>7, <2>8, Zenon DEF Next, ThreadStep, SignalChangeState, Increment
  <1>2. ASSUME WaiterInv, NEW t \in Threads, WaitStep(t), pc'[t] \in Results PROVE TrueResult(t)
    <2> DEFINE e == op[t].event
               c == m_checks[e][op[t].next]
    <2>1. pc[t] = "checking" /\ (Predicate_Canceled(t) \/ Predicate_Step(t) \/ Predicate_False(t))
      BY <1>2, Zenon DEF WaitStep
    <2>2. /\ e \in Events /\ m_checks[e] \in Seq(Nat) /\ op[t].next \in Nat /\ op[t].next > 0 /\ Passed(t)
      BY <1>2, <2>1 DEF WaiterInv, Structure, EventsLive, ThreadTypes, Works, Results, OpType, EventTypes, WaitInv, Locking
    <2>3. op[t].expired => op[t].timed
      BY <1>2, Zenon DEF WaiterInv, Structure, EventsLive, Works
    <2>4. ASSUME NEW r, Return(t, r) PROVE pc'[t] = r
      BY <1>2, <2>4 DEF Return, WaiterInv, Structure, ThreadTypes
    <2>5. CASE Predicate_Canceled(t)
      <3>1. cancel_all_waits /\ pc'[t] = "canceled"
        BY <2>4, <2>5, Zenon DEF Predicate_Canceled
      <3> QED
        BY <3>1
    <2>6. CASE Predicate_Step(t)
      <3>1. ~cancel_all_waits /\ op[t].next =< Len(m_checks[e])
        BY <2>6, Zenon DEF Predicate_Step
      <3>2. Triggered(c)
        <4>1. ASSUME pc' = pc PROVE FALSE
          BY <1>2, <2>1, <4>1 DEF Results
        <4> QED
          BY <2>6, <4>1, Zenon DEF Predicate_Step
      <3>3. pc'[t] = ResultOf(c)
        BY <2>4, <2>6, <3>2, Zenon DEF Predicate_Step
      <3>4. op[t].next \in DOMAIN m_checks[e] /\ c \in DOMAIN check
        BY <1>2, <2>2, <3>1 DEF WaiterInv, Structure, ChecksExist
      <3>5. check[c].cancel \in BOOLEAN
        <4>1. check[c] \in CheckType
          BY <1>2, <3>4 DEF WaiterInv, Structure, EventTypes
        <4> QED
          BY <4>1 DEF CheckType
      <3>6. CASE check[c].cancel = TRUE
        <4>1. Seen(e, TRUE)
          BY <3>2, <3>4, <3>6, Zenon
        <4>2. pc'[t] = "canceled"
          BY <3>3, <3>6, Zenon DEF ResultOf
        <4> HIDE DEF Seen
        <4> QED
          BY <4>1, <4>2
      <3>7. CASE check[c].cancel = FALSE
        <4>1. Seen(e, FALSE)
          BY <3>2, <3>4, <3>7, Zenon
        <4>2. pc'[t] = "ready"
          BY <3>3, <3>7, Zenon DEF ResultOf
        <4> HIDE DEF Seen
        <4> QED
          BY <3>1, <4>1, <4>2
      <3> QED
        BY <3>5, <3>6, <3>7, Zenon
    <2>7. CASE Predicate_False(t)
      <3>1. ~cancel_all_waits /\ op[t].next > Len(m_checks[e])
        BY <2>7, Zenon DEF Predicate_False
      <3>2. op[t].expired /\ pc'[t] = "timeout"
        <4>1. ASSUME pc' = [pc EXCEPT ![t] = "blocked"] PROVE FALSE
          BY <1>2, <4>1 DEF Results, WaiterInv, Structure, ThreadTypes
        <4> QED
          BY <2>4, <2>7, <4>1, Zenon DEF Predicate_False
      <3>3. Quiet(e)
        BY <2>2, <3>1, WaitHushed
      <3> QED
        BY <2>3, <3>1, <3>2, <3>3
    <2> QED
      BY <2>1, <2>5, <2>6, <2>7
  <1>3. ASSUME WaiterInv, [Next]_vars
        PROVE  [\A t \in Threads : pc[t] \notin Results /\ pc'[t] \in Results => TrueResult(t)]_vars
    BY <1>1, <1>2, <1>3, Zenon
  <1> QED
    BY <1>3, InvariantHolds, PTL DEF Spec, ResultIsTrue
=============================================================================
