--------------------------- MODULE ProcMap_proofs ---------------------------
(***************************************************************************)
(* MapsConsistent, HandlerKept and CalledOnce of ProcMap, for any number of  *)
(* maps, threads, procedures and calls.                                      *)
(***************************************************************************)
EXTENDS ProcMap, FiniteSetTheorems, TLAPS

CallbackOrNone == Callbacks \cup {None}
HandlerOrNone == Handlers \cup {None}
InfoType == [key : Keys, invoke : HandlerOrNone, count : Nat, shared : BOOLEAN]
OpType == [map : Maps \cup {None}, other : Maps \cup {None}, info : Nat, invoke : HandlerOrNone,
           call : Nat, changed : CallbackOrNone]
GuardType == [map : Maps, old : CallbackOrNone]
Labels == {"idle", "setting", "copying", "counting", "failed", "invoking", "running"}
Holding == {"setting", "copying"}

MapTypes ==
    /\ infos \in Seq(InfoType)
    /\ m_name_procs \in [Maps -> [Keys -> Nat]]
    /\ m_OnCallCountChanged \in [Maps -> CallbackOrNone]
    /\ m_OnInvalidRemoteCall \in [Maps -> CallbackOrNone]
    /\ m_lock \in [Maps -> Threads \cup {None}]
    /\ pc \in [Threads -> Labels] /\ op \in [Threads -> OpType]
    /\ guard \in [Threads -> GuardType \cup {None}]
    /\ registered \in [Maps -> SUBSET Tags]

\* An entry is a CallInfo that exists and has the key it is found under.
EntriesExist ==
    \A m \in Maps, k \in Keys :
        m_name_procs[m][k] # 0 => m_name_procs[m][k] \in DOMAIN infos /\ infos[m_name_procs[m][k]].key = k

\* The lock of a map is held by a thread that works on the map, and a thread
\* that works on a map holds its lock.
LocksHeld ==
    /\ \A m \in Maps : m_lock[m] # None => pc[m_lock[m]] \in Holding /\ op[m_lock[m]].map = m
    /\ \A t \in Threads : pc[t] \in Holding => op[t].map \in Maps /\ m_lock[op[t].map] = t
    /\ \A t \in Threads : pc[t] = "copying" => <<op[t].map, op[t].other>> \in Copies /\ op[t].map # op[t].other

\* A thread that is to set a handler has the CallInfo its map refers to, and
\* nobody else can have given it a handler, unless another map shares it.
Setting(t) ==
    /\ op[t].info \in DOMAIN infos
    /\ m_name_procs[op[t].map][infos[op[t].info].key] = op[t].info
    /\ op[t].invoke # None => infos[op[t].info].invoke = None \/ infos[op[t].info].shared
SettingKnown ==
    \A t \in Threads : /\ pc[t] = "setting" => Setting(t)
                       /\ pc[t] = "counting" => op[t].info \in DOMAIN infos

\* A CallInfo of two maps is marked as shared.
SharedKnown ==
    \A m, n \in Maps : \A k \in Keys :
        m # n /\ m_name_procs[m][k] # 0 /\ m_name_procs[m][k] = m_name_procs[n][k]
            => infos[m_name_procs[m][k]].shared

\* NoHandlerOfClearedTag, entry by entry.
EntryTags ==
    \A m \in Maps, k \in Keys :
        m_name_procs[m][k] # 0 /\ infos[m_name_procs[m][k]].invoke # None
            => infos[m_name_procs[m][k]].invoke.tag \in registered[m]
CallbackTags ==
    \A m \in Maps :
        /\ m_OnCallCountChanged[m] # None => m_OnCallCountChanged[m].tag \in registered[m]
        /\ m_OnInvalidRemoteCall[m] # None => m_OnInvalidRemoteCall[m].tag \in registered[m]

MapInv == MapTypes /\ EntriesExist /\ LocksHeld /\ SettingKnown /\ SharedKnown /\ EntryTags /\ CallbackTags

-----------------------------------------------------------------------------
(* Records and sequences                                                   *)

\* NoOp is an operation without a map, a CallInfo or a call.
LEMMA NoOpType == NoOp \in OpType
  BY DEF NoOp, OpType, HandlerOrNone, CallbackOrNone

\* A new CallInfo has no handler and no calls.
LEMMA NewInfoType ==
    ASSUME NEW k \in Keys
    PROVE  NewInfo(k) \in InfoType /\ NewInfo(k).key = k /\ NewInfo(k).invoke = None /\ NewInfo(k).count = 0
  BY DEF NewInfo, InfoType, HandlerOrNone

\* The fields of a CallInfo.
LEMMA InfoFields ==
    ASSUME NEW r \in InfoType
    PROVE  r.key \in Keys /\ r.invoke \in HandlerOrNone /\ r.count \in Nat /\ r.shared \in BOOLEAN
  BY DEF InfoType

\* A CallInfo that is given a handler.
LEMMA InfoInvoke ==
    ASSUME NEW r \in InfoType, NEW h \in HandlerOrNone
    PROVE  LET s == [r EXCEPT !.invoke = h]
           IN  s \in InfoType /\ s.key = r.key /\ s.invoke = h /\ s.count = r.count /\ s.shared = r.shared
  BY DEF InfoType

\* A CallInfo that counts a call.
LEMMA InfoCount ==
    ASSUME NEW r \in InfoType
    PROVE  LET s == [r EXCEPT !.count = @ + 1]
           IN  s \in InfoType /\ s.key = r.key /\ s.invoke = r.invoke /\ s.count = r.count + 1 /\ s.shared = r.shared
  BY DEF InfoType

\* A CallInfo that is marked as shared.
LEMMA InfoShared ==
    ASSUME NEW r \in InfoType, NEW b \in BOOLEAN
    PROVE  LET s == [r EXCEPT !.shared = b]
           IN  s \in InfoType /\ s.key = r.key /\ s.invoke = r.invoke /\ s.count = r.count /\ s.shared = b
  BY Zenon DEF InfoType

\* An update of CallInfos makes no new ones.
LEMMA InfosUpdate ==
    ASSUME NEW s \in Seq(InfoType), NEW f, f = [i \in DOMAIN s |-> f[i]], \A i \in DOMAIN s : f[i] \in InfoType
    PROVE  f \in Seq(InfoType) /\ DOMAIN f = DOMAIN s /\ Len(f) = Len(s)
<1>1. DOMAIN s = 1 .. Len(s) /\ Len(s) \in Nat
  OBVIOUS
<1>2. f \in [1 .. Len(s) -> InfoType]
  BY <1>1
<1> QED
  BY <1>1, <1>2

-----------------------------------------------------------------------------
(* Steps that leave the maps alone                                         *)

\* CallInfos keep their key, their handler and whether they are shared.
SameInfos ==
    /\ infos' \in Seq(InfoType) /\ DOMAIN infos' = DOMAIN infos
    /\ \A i \in DOMAIN infos : /\ infos'[i].key = infos[i].key /\ infos'[i].invoke = infos[i].invoke
                               /\ infos'[i].shared = infos[i].shared

\* No thread begins or ends its work on a map.
SameHolders ==
    /\ pc' \in [Threads -> Labels] /\ op' \in [Threads -> OpType]
    /\ \A u \in Threads : pc[u] \in Holding \/ pc'[u] \in Holding => pc'[u] = pc[u] /\ op'[u] = op[u]
    /\ \A u \in Threads : pc'[u] = "counting" => op'[u].info \in DOMAIN infos

MapFrame ==
    /\ UNCHANGED <<m_name_procs, m_OnCallCountChanged, m_OnInvalidRemoteCall, m_lock, guard, registered>>
    /\ SameInfos /\ SameHolders

\* Such steps keep the invariant of the maps.
LEMMA MapFrameKeeps ==
    ASSUME MapInv, MapFrame
    PROVE  MapInv'
<1> USE DEF MapInv
<1>1. MapTypes'
  BY DEF MapTypes, MapFrame, SameInfos, SameHolders
<1>2. EntriesExist'
  BY DEF EntriesExist, MapFrame, SameInfos
<1>3. LocksHeld'
  <2>1. \A m \in Maps : m_lock'[m] # None => m_lock[m] \in Threads /\ pc[m_lock[m]] \in Holding
    BY DEF LocksHeld, MapFrame, MapTypes
  <2>2. \A u \in Threads : pc[u] \in Holding => pc'[u] = pc[u] /\ op'[u] = op[u]
    BY DEF MapFrame, SameHolders
  <2>3. \A u \in Threads : pc'[u] \in Holding => pc'[u] = pc[u] /\ op'[u] = op[u]
    BY DEF MapFrame, SameHolders
  <2>4. m_lock' = m_lock
    BY DEF MapFrame
  <2>5. \A m \in Maps : m_lock'[m] # None => pc'[m_lock'[m]] \in Holding /\ op'[m_lock'[m]].map = m
    BY <2>1, <2>2, <2>4 DEF LocksHeld
  <2>6. \A t \in Threads : pc'[t] \in Holding => op'[t].map \in Maps /\ m_lock'[op'[t].map] = t
    BY <2>3, <2>4 DEF LocksHeld
  <2>7. \A t \in Threads : pc'[t] = "copying" => <<op'[t].map, op'[t].other>> \in Copies /\ op'[t].map # op'[t].other
    BY <2>3 DEF LocksHeld, Holding
  <2> QED
    BY <2>5, <2>6, <2>7 DEF LocksHeld
<1>4. SettingKnown'
  <2> SUFFICES ASSUME NEW t \in Threads, pc'[t] = "setting"
               PROVE  Setting(t)'
    BY DEF SettingKnown, MapFrame, SameHolders, SameInfos
  <2>1. pc[t] = "setting" /\ op'[t] = op[t] /\ Setting(t) /\ m_name_procs' = m_name_procs
    BY DEF SettingKnown, MapFrame, SameHolders, Holding
  <2>2. op[t].info \in DOMAIN infos /\ op[t].info \in DOMAIN infos'
    BY <2>1 DEF Setting, MapFrame, SameInfos
  <2> QED
    BY <2>1, <2>2 DEF Setting, MapFrame, SameInfos
<1>5. SharedKnown'
  BY DEF SharedKnown, MapFrame, SameInfos, EntriesExist
<1>6. EntryTags'
  BY DEF EntryTags, MapFrame, SameInfos, EntriesExist
<1>7. CallbackTags'
  BY DEF CallbackTags, MapFrame
<1> QED
  BY <1>1, <1>2, <1>3, <1>4, <1>5, <1>6, <1>7

\* Most of them do not change the CallInfos at all.
LEMMA SameInfosUnchanged ==
    ASSUME MapTypes, UNCHANGED infos
    PROVE  SameInfos
  BY DEF MapTypes, SameInfos

\* What the steps of a call do to the thread that makes them.
LEMMA CallStepHolders ==
    ASSUME MapInv, NEW t \in Threads, NEW p \in Labels \ Holding, NEW o \in OpType, pc[t] \notin Holding,
           pc' = [pc EXCEPT ![t] = p], op' = [op EXCEPT ![t] = o],
           p = "counting" => o.info \in DOMAIN infos
    PROVE  SameHolders
  BY DEF SameHolders, MapInv, MapTypes, SettingKnown

\* InvokeLocal looks the handler up and takes no map.
LEMMA InvokeLocalFrame ==
    ASSUME MapInv, NEW t \in Threads, NEW m \in Maps, NEW k \in Keys, NEW ret, NEW send_return,
           InvokeLocal(t, m, k, ret, send_return)
    PROVE  MapFrame
<1> DEFINE i == m_name_procs[m][k]
           h == IF i = 0 THEN None ELSE infos[i].invoke
           o == [NoOp EXCEPT !.map = m, !.info = i, !.invoke = IF h # None /\ Matches(ret, h) THEN h ELSE None,
                             !.call = Len(calls) + 1, !.changed = IF i = 0 THEN None ELSE m_OnCallCountChanged[m]]
<1>1. i \in Nat /\ (i # 0 => i \in DOMAIN infos)
  BY DEF MapInv, MapTypes, EntriesExist
<1>2. h \in HandlerOrNone
  BY <1>1, InfoFields DEF MapInv, MapTypes, HandlerOrNone
<1>3. m_OnCallCountChanged[m] \in CallbackOrNone /\ None \in CallbackOrNone /\ None \in HandlerOrNone
  BY DEF MapInv, MapTypes, CallbackOrNone, HandlerOrNone
<1>4. Len(calls) + 1 \in Nat
  BY DEF InvokeLocal
<1>5. o \in OpType /\ o.info = i
  BY <1>1, <1>2, <1>3, <1>4, NoOpType DEF OpType
<1>6. PICK p \in Labels \ Holding : p = IF i = 0 THEN "failed" ELSE "counting"
  BY DEF Labels, Holding
<1>7. pc' = [pc EXCEPT ![t] = p] /\ op' = [op EXCEPT ![t] = o]
  BY <1>6 DEF InvokeLocal, Begin
<1>8. SameHolders
  <2>1. pc[t] \notin Holding
    BY DEF InvokeLocal, Holding
  <2>2. p = "counting" => o.info \in DOMAIN infos
    BY <1>1, <1>5, <1>6
  <2> HIDE DEF o
  <2> QED
    BY <1>5, <1>7, <2>1, <2>2, CallStepHolders
<1>9. SameInfos
  BY SameInfosUnchanged DEF InvokeLocal, map_vars, MapInv
<1> QED
  BY <1>8, <1>9 DEF InvokeLocal, map_vars, MapFrame

\* IncrementCallCount changes a count.
LEMMA IncrementCallCountFrame ==
    ASSUME MapInv, NEW t \in Threads, IncrementCallCount(t)
    PROVE  MapFrame
<1> DEFINE i == op[t].info
<1>1. pc[t] = "counting" /\ i \in DOMAIN infos /\ infos \in Seq(InfoType)
  BY DEF IncrementCallCount, MapInv, SettingKnown, MapTypes
<1>2. infos[i] \in InfoType
  BY <1>1
<1>3. infos' = [infos EXCEPT ![i] = [infos[i] EXCEPT !.count = @ + 1]]
  BY DEF IncrementCallCount
<1>4. SameInfos
  <2>1. \A j \in DOMAIN infos : infos'[j] = IF j = i THEN [infos[i] EXCEPT !.count = @ + 1] ELSE infos[j]
    BY <1>1, <1>3
  <2>2. \A j \in DOMAIN infos : /\ infos'[j] \in InfoType
                                /\ infos'[j].key = infos[j].key /\ infos'[j].invoke = infos[j].invoke
                                /\ infos'[j].shared = infos[j].shared
    <3>1. LET s == [infos[i] EXCEPT !.count = @ + 1]
          IN  s \in InfoType /\ s.key = infos[i].key /\ s.invoke = infos[i].invoke /\ s.shared = infos[i].shared
      BY <1>2, InfoCount, Zenon
    <3>2. \A j \in DOMAIN infos : infos[j] \in InfoType
      BY <1>1
    <3> QED
      BY <2>1, <3>1, <3>2, Zenon
  <2>3. infos' = [j \in DOMAIN infos |-> infos'[j]]
    BY <1>3
  <2>4. infos' \in Seq(InfoType) /\ DOMAIN infos' = DOMAIN infos
    BY <1>1, <2>2, <2>3, InfosUpdate, Zenon
  <2> QED
    BY <2>2, <2>4, Zenon DEF SameInfos
<1>5. PICK p \in Labels \ Holding : p = IF op[t].invoke = None THEN "failed" ELSE "invoking"
  BY DEF Labels, Holding
<1>6. pc' = [pc EXCEPT ![t] = p] /\ op' = op /\ p # "counting"
  BY <1>5 DEF IncrementCallCount
<1>7. SameHolders
  BY <1>1, <1>6 DEF SameHolders, MapInv, MapTypes, SettingKnown, Holding
<1> QED
  BY <1>4, <1>7 DEF IncrementCallCount, MapFrame

\* What follows in a call does not touch the maps.
LEMMA OtherCallSteps ==
    ASSUME MapInv, NEW t \in Threads, FailCall(t) \/ Invoke(t) \/ HandlerReturns(t)
    PROVE  MapFrame
<1>1. pc[t] \notin Holding /\ pc[t] \in Labels
  BY DEF FailCall, Invoke, InvokeReady, HandlerReturns, Holding, Labels
<1>2. SameInfos
  BY SameInfosUnchanged DEF FailCall, Invoke, HandlerReturns, map_vars, MapInv
<1>3. \/ pc' = [pc EXCEPT ![t] = "idle"] /\ op' = [op EXCEPT ![t] = NoOp]
      \/ pc' = [pc EXCEPT ![t] = "running"] /\ op' = op
  BY DEF FailCall, Invoke, HandlerReturns, Begin
<1>4. SameHolders
  <2>1. CASE pc' = [pc EXCEPT ![t] = "idle"] /\ op' = [op EXCEPT ![t] = NoOp]
    <3>1. PICK p \in Labels \ Holding : p = "idle"
      BY DEF Labels, Holding
    <3> QED
      BY <1>1, <2>1, <3>1, NoOpType, CallStepHolders
  <2>2. CASE pc' = [pc EXCEPT ![t] = "running"] /\ op' = op
    BY <1>1, <2>2 DEF SameHolders, MapInv, MapTypes, SettingKnown, Holding, Labels
  <2> QED
    BY <1>3, <2>1, <2>2
<1> QED
  BY <1>2, <1>4 DEF FailCall, Invoke, HandlerReturns, map_vars, MapFrame

\* Nor do the job threads and the end of the transport.
LEMMA OtherSteps ==
    ASSUME MapInv, UNCHANGED <<map_vars, m_lock, pc, op, guard, registered>>
    PROVE  MapFrame
<1>1. SameInfos
  BY SameInfosUnchanged DEF map_vars, MapInv
<1> QED
  BY <1>1 DEF map_vars, MapFrame, SameHolders, MapInv, MapTypes, SettingKnown

-----------------------------------------------------------------------------
(* The locks of the maps                                                   *)

\* A thread has one map at a time, and a map one thread.
LEMMA OneHolder ==
    ASSUME MapInv, NEW t \in Threads, NEW u \in Threads, pc[t] \in Holding, pc[u] \in Holding, t # u
    PROVE  op[t].map # op[u].map
  BY DEF MapInv, LocksHeld

\* A thread that was idle takes the lock of a map nobody has.
LEMMA TakesLock ==
    ASSUME MapInv, NEW t \in Threads, NEW m \in Maps, NEW p \in Holding, NEW o \in OpType,
           pc[t] = "idle", Unlocked(m), o.map = m,
           p = "copying" => <<o.map, o.other>> \in Copies /\ o.map # o.other,
           m_lock' = [m_lock EXCEPT ![m] = t], pc' = [pc EXCEPT ![t] = p], op' = [op EXCEPT ![t] = o]
    PROVE  /\ LocksHeld' /\ m_lock' \in [Maps -> Threads \cup {None}]
           /\ pc' \in [Threads -> Labels] /\ op' \in [Threads -> OpType]
<1>1. /\ m_lock' \in [Maps -> Threads \cup {None}] /\ pc' \in [Threads -> Labels] /\ op' \in [Threads -> OpType]
  BY DEF MapInv, MapTypes, Holding, Labels
<1>2. pc'[t] = p /\ op'[t] = o /\ m_lock'[m] = t /\ pc[t] \notin Holding /\ m_lock[m] = None
  BY DEF MapInv, MapTypes, Holding, Unlocked
<1>3. \A u \in Threads \ {t} : pc'[u] = pc[u] /\ op'[u] = op[u]
  BY DEF MapInv, MapTypes
<1>4. \A n \in Maps \ {m} : m_lock'[n] = m_lock[n]
  BY DEF MapInv, MapTypes
<1>5. ASSUME NEW n \in Maps, m_lock'[n] # None
      PROVE  pc'[m_lock'[n]] \in Holding /\ op'[m_lock'[n]].map = n
  <2>1. CASE n = m
    BY <1>2, <2>1
  <2>2. CASE n # m
    <3>1. /\ m_lock'[n] = m_lock[n] /\ m_lock[n] \in Threads
          /\ pc[m_lock[n]] \in Holding /\ op[m_lock[n]].map = n
      BY <1>4, <1>5, <2>2 DEF MapInv, MapTypes, LocksHeld
    <3>2. m_lock[n] # t
      BY <1>2, <3>1
    <3> QED
      BY <1>3, <3>1, <3>2
  <2> QED
    BY <2>1, <2>2
<1>6. ASSUME NEW u \in Threads, pc'[u] \in Holding
      PROVE  op'[u].map \in Maps /\ m_lock'[op'[u].map] = u
  <2>1. CASE u = t
    BY <1>2, <2>1
  <2>2. CASE u # t
    <3>1. op'[u] = op[u] /\ op[u].map \in Maps /\ m_lock[op[u].map] = u
      BY <1>3, <1>6, <2>2 DEF MapInv, LocksHeld
    <3>2. op[u].map # m
      BY <1>2, <3>1, ProcMapNames
    <3> QED
      BY <1>4, <3>1, <3>2
  <2> QED
    BY <2>1, <2>2
<1>7. \A u \in Threads : pc'[u] = "copying" => <<op'[u].map, op'[u].other>> \in Copies /\ op'[u].map # op'[u].other
  BY <1>2, <1>3 DEF MapInv, LocksHeld
<1> QED
  BY <1>1, <1>5, <1>6, <1>7 DEF LocksHeld

\* A thread gives back the lock of its map.
LEMMA ReleasesLock ==
    ASSUME MapInv, NEW t \in Threads, pc[t] \in Holding,
           m_lock' = [m_lock EXCEPT ![op[t].map] = None], Begin(t, "idle", NoOp)
    PROVE  /\ LocksHeld' /\ m_lock' \in [Maps -> Threads \cup {None}]
           /\ pc' \in [Threads -> Labels] /\ op' \in [Threads -> OpType]
<1>0. pc' = [pc EXCEPT ![t] = "idle"] /\ op' = [op EXCEPT ![t] = NoOp]
  BY DEF Begin
<1>1. /\ m_lock' \in [Maps -> Threads \cup {None}] /\ pc' \in [Threads -> Labels] /\ op' \in [Threads -> OpType]
  BY <1>0, NoOpType DEF MapInv, MapTypes, Labels
<1>2. pc'[t] = "idle" /\ pc'[t] \notin Holding /\ op[t].map \in Maps /\ m_lock'[op[t].map] = None /\ m_lock[op[t].map] = t
  BY <1>0 DEF MapInv, MapTypes, Holding, LocksHeld
<1>3. \A u \in Threads \ {t} : pc'[u] = pc[u] /\ op'[u] = op[u]
  BY <1>0 DEF MapInv, MapTypes
<1>4. \A n \in Maps : n # op[t].map => m_lock'[n] = m_lock[n]
  BY DEF MapInv, MapTypes
<1>5. ASSUME NEW n \in Maps, m_lock'[n] # None
      PROVE  pc'[m_lock'[n]] \in Holding /\ op'[m_lock'[n]].map = n
  <2>1. n # op[t].map
    BY <1>2, <1>5
  <2>2. /\ m_lock'[n] = m_lock[n] /\ m_lock[n] \in Threads
        /\ pc[m_lock[n]] \in Holding /\ op[m_lock[n]].map = n
    BY <1>4, <1>5, <2>1 DEF MapInv, MapTypes, LocksHeld
  <2>3. m_lock[n] # t
    BY <2>1, <2>2
  <2> QED
    BY <1>3, <2>2, <2>3
<1>6. ASSUME NEW u \in Threads, pc'[u] \in Holding
      PROVE  op'[u].map \in Maps /\ m_lock'[op'[u].map] = u
  <2>1. u # t
    BY <1>2, <1>6
  <2>2. op'[u] = op[u] /\ op[u].map \in Maps /\ m_lock[op[u].map] = u
    BY <1>3, <1>6, <2>1 DEF MapInv, LocksHeld
  <2> QED
    BY <1>2, <1>4, <2>1, <2>2
<1>7. \A u \in Threads : pc'[u] = "copying" => <<op'[u].map, op'[u].other>> \in Copies /\ op'[u].map # op'[u].other
  BY <1>2, <1>3 DEF MapInv, LocksHeld
<1> QED
  BY <1>1, <1>5, <1>6, <1>7 DEF LocksHeld

-----------------------------------------------------------------------------
(* Entries are removed                                                     *)

\* From a map nobody works on.
LEMMA EntriesRemoved ==
    ASSUME MapInv, NEW m \in Maps, Unlocked(m), UNCHANGED <<infos, m_lock, pc, op>>, NEW row \in [Keys -> Nat],
           \A k \in Keys : row[k] = 0 \/ row[k] = m_name_procs[m][k],
           m_name_procs' = [m_name_procs EXCEPT ![m] = row]
    PROVE  /\ m_name_procs' \in [Maps -> [Keys -> Nat]]
           /\ \A n \in Maps, k \in Keys : m_name_procs'[n][k] = 0 \/ m_name_procs'[n][k] = m_name_procs[n][k]
           /\ EntriesExist' /\ LocksHeld' /\ SettingKnown' /\ SharedKnown'
<1>1. m_name_procs' \in [Maps -> [Keys -> Nat]]
  BY DEF MapInv, MapTypes
<1>2. \A n \in Maps : n # m => m_name_procs'[n] = m_name_procs[n]
  BY DEF MapInv, MapTypes
<1>3. \A n \in Maps, k \in Keys : m_name_procs'[n][k] = 0 \/ m_name_procs'[n][k] = m_name_procs[n][k]
  BY DEF MapInv, MapTypes
<1>4. EntriesExist'
  BY <1>3 DEF MapInv, EntriesExist
<1>5. LocksHeld'
  BY DEF MapInv, LocksHeld
<1>6. SettingKnown'
  <2> SUFFICES ASSUME NEW t \in Threads, pc[t] = "setting"
               PROVE  Setting(t)'
    BY DEF MapInv, SettingKnown
  <2>1. op[t].map \in Maps /\ op[t].map # m /\ Setting(t)
    BY ProcMapNames DEF MapInv, SettingKnown, LocksHeld, Holding, Unlocked
  <2> QED
    BY <1>2, <2>1 DEF Setting
<1>7. SharedKnown'
  BY <1>3 DEF MapInv, SharedKnown
<1> QED
  BY <1>1, <1>3, <1>4, <1>5, <1>6, <1>7

\* ClearAllProcs.
LEMMA ClearAllProcsKeeps ==
    ASSUME MapInv, NEW t \in Threads, NEW m \in Maps, ClearAllProcs(t, m)
    PROVE  MapInv'
<1>1. Unlocked(m) /\ UNCHANGED <<infos, m_OnCallCountChanged, m_OnInvalidRemoteCall, m_lock, pc, op, guard, registered>>
  BY DEF ClearAllProcs, MayUse
<1>2. PICK row \in [Keys -> Nat] : row = [k \in Keys |-> 0]
  OBVIOUS
<1>3. m_name_procs' = [m_name_procs EXCEPT ![m] = row] /\ \A k \in Keys : row[k] = 0
  BY <1>2 DEF ClearAllProcs
<1>4. /\ m_name_procs' \in [Maps -> [Keys -> Nat]]
      /\ \A n \in Maps, k \in Keys : m_name_procs'[n][k] = 0 \/ m_name_procs'[n][k] = m_name_procs[n][k]
      /\ EntriesExist' /\ LocksHeld' /\ SettingKnown' /\ SharedKnown'
  BY <1>1, <1>3, EntriesRemoved, Zenon
<1>5. MapTypes'
  BY <1>1, <1>4 DEF MapInv, MapTypes
<1>6. EntryTags'
  BY <1>1, <1>4 DEF MapInv, EntryTags
<1>7. CallbackTags'
  BY <1>1 DEF MapInv, CallbackTags
<1> QED
  BY <1>4, <1>5, <1>6, <1>7 DEF MapInv

\* ClearProcsWithTag removes every handler and callback of the tag.
LEMMA ClearProcsWithTagKeeps ==
    ASSUME MapInv, NEW t \in Threads, NEW m \in Maps, NEW tag \in Tags, ClearProcsWithTag(t, m, tag)
    PROVE  MapInv'
<1>1. Unlocked(m) /\ UNCHANGED <<infos, m_lock, pc, op, guard>>
  BY DEF ClearProcsWithTag, MayUse
<1>2. PICK row \in [Keys -> Nat] : row = Cleared(m, tag)
  BY DEF Cleared, MapInv, MapTypes
<1>3. m_name_procs' = [m_name_procs EXCEPT ![m] = row]
  BY <1>2 DEF ClearProcsWithTag
<1>4. \A k \in Keys : row[k] = IF HasTag(m_name_procs[m][k], tag) THEN 0 ELSE m_name_procs[m][k]
  BY <1>2 DEF Cleared
<1>5. \A k \in Keys : row[k] = 0 \/ row[k] = m_name_procs[m][k]
  BY <1>4
<1>6. /\ m_name_procs' \in [Maps -> [Keys -> Nat]]
      /\ \A n \in Maps, k \in Keys : m_name_procs'[n][k] = 0 \/ m_name_procs'[n][k] = m_name_procs[n][k]
      /\ EntriesExist' /\ LocksHeld' /\ SettingKnown' /\ SharedKnown'
  BY <1>1, <1>3, <1>5, EntriesRemoved, Zenon
<1>7. /\ registered' = [registered EXCEPT ![m] = @ \ {tag}]
      /\ m_OnCallCountChanged' = [m_OnCallCountChanged EXCEPT ![m] = ClearCallbackTag(@, tag)]
      /\ m_OnInvalidRemoteCall' = [m_OnInvalidRemoteCall EXCEPT ![m] = ClearCallbackTag(@, tag)]
  BY DEF ClearProcsWithTag
<1>8. MapTypes'
  BY <1>1, <1>6, <1>7 DEF MapInv, MapTypes, ClearCallbackTag, CallbackOrNone
<1>9. EntryTags'
  <2> SUFFICES ASSUME NEW n \in Maps, NEW k \in Keys, m_name_procs'[n][k] # 0,
                      infos[m_name_procs'[n][k]].invoke # None
               PROVE  infos[m_name_procs'[n][k]].invoke.tag \in registered'[n]
    BY <1>1 DEF EntryTags
  <2>1. m_name_procs'[n][k] = m_name_procs[n][k] /\ infos[m_name_procs[n][k]].invoke.tag \in registered[n]
    BY <1>6 DEF MapInv, EntryTags
  <2>2. CASE n = m
    <3>1. m_name_procs'[n][k] = row[k] /\ registered'[n] = registered[n] \ {tag}
      BY <1>3, <1>7, <2>2 DEF MapInv, MapTypes
    <3>2. ~HasTag(m_name_procs[m][k], tag)
      BY <1>4, <2>2, <3>1
    <3> QED
      BY <2>1, <2>2, <3>1, <3>2 DEF HasTag, IsInvokable
  <2>3. CASE n # m
    BY <1>7, <2>1, <2>3 DEF MapInv, MapTypes
  <2> QED
    BY <2>2, <2>3
<1>10. CallbackTags'
  <2> SUFFICES ASSUME NEW n \in Maps
               PROVE  /\ m_OnCallCountChanged'[n] # None => m_OnCallCountChanged'[n].tag \in registered'[n]
                      /\ m_OnInvalidRemoteCall'[n] # None => m_OnInvalidRemoteCall'[n].tag \in registered'[n]
    BY DEF CallbackTags
  <2>1. CASE n = m
    <3>1. /\ registered'[m] = registered[m] \ {tag}
          /\ m_OnCallCountChanged'[m] = ClearCallbackTag(m_OnCallCountChanged[m], tag)
          /\ m_OnInvalidRemoteCall'[m] = ClearCallbackTag(m_OnInvalidRemoteCall[m], tag)
      BY <1>7 DEF MapInv, MapTypes
    <3> QED
      BY <2>1, <3>1 DEF MapInv, CallbackTags, ClearCallbackTag
  <2>2. CASE n # m
    BY <1>7, <2>2 DEF MapInv, MapTypes, CallbackTags
  <2> QED
    BY <2>1, <2>2
<1> QED
  BY <1>6, <1>8, <1>9, <1>10 DEF MapInv

\* SetCallback, in all its uses.
LEMMA SwapKeeps ==
    ASSUME MapInv, NEW m \in Maps, NEW member, NEW b \in CallbackOrNone, Swap(m, member, b),
           guard' \in [Threads -> GuardType \cup {None}]
    PROVE  MapInv'
<1>1. UNCHANGED <<infos, m_name_procs, m_lock, pc, op>>
  BY DEF Swap
<1>2. /\ registered' \in [Maps -> SUBSET Tags]
      /\ \A n \in Maps : registered[n] \subseteq registered'[n]
      /\ b # None => b.tag \in registered'[m]
  BY ProcMapConstants DEF Swap, MapInv, MapTypes, CallbackOrNone
<1>3. \A n \in Maps : m_OnCallCountChanged'[n] = m_OnCallCountChanged[n] \/ (n = m /\ m_OnCallCountChanged'[n] = b)
  <2>1. m_OnCallCountChanged' = m_OnCallCountChanged \/ m_OnCallCountChanged' = [m_OnCallCountChanged EXCEPT ![m] = b]
    BY Zenon DEF Swap
  <2> QED
    BY <2>1 DEF MapInv, MapTypes
<1>4. \A n \in Maps : m_OnInvalidRemoteCall'[n] = m_OnInvalidRemoteCall[n] \/ (n = m /\ m_OnInvalidRemoteCall'[n] = b)
  <2>1. m_OnInvalidRemoteCall' = m_OnInvalidRemoteCall \/ m_OnInvalidRemoteCall' = [m_OnInvalidRemoteCall EXCEPT ![m] = b]
    BY Zenon DEF Swap
  <2> QED
    BY <2>1 DEF MapInv, MapTypes
<1>5. MapTypes'
  BY <1>1, <1>2 DEF Swap, MapInv, MapTypes
<1>6. EntriesExist' /\ LocksHeld' /\ SettingKnown' /\ SharedKnown'
  BY <1>1 DEF MapInv, EntriesExist, LocksHeld, SettingKnown, Setting, SharedKnown
<1>7. EntryTags'
  BY <1>1, <1>2 DEF MapInv, EntryTags
<1>8. CallbackTags'
  BY <1>2, <1>3, <1>4 DEF MapInv, CallbackTags
<1> QED
  BY <1>5, <1>6, <1>7, <1>8 DEF MapInv

-----------------------------------------------------------------------------
(* A handler is registered                                                 *)

\* The entry of k in map m after AddProcSignature: the one that was there or a
\* new one without a handler.
EntryAdded(m, k, new) ==
    /\ infos' \in Seq(InfoType) /\ m_name_procs' \in [Maps -> [Keys -> Nat]]
    /\ \A j \in DOMAIN infos : j \in DOMAIN infos' /\ infos'[j] = infos[j]
    /\ new \in Nat \ {0} /\ new \in DOMAIN infos' /\ infos'[new].key = k /\ m_name_procs'[m][k] = new
    /\ \A n \in Maps, l \in Keys : n # m \/ l # k => m_name_procs'[n][l] = m_name_procs[n][l]
    /\ \/ m_name_procs[m][k] = new
       \/ m_name_procs[m][k] = 0 /\ new \notin DOMAIN infos /\ infos'[new].invoke = None
    /\ \A j \in DOMAIN infos' : j \in DOMAIN infos \/ (j = new /\ infos'[j].count = 0)

\* AddProcSignature finds or makes the entry.
LEMMA AddsEntry ==
    ASSUME MapInv, NEW t \in Threads, NEW m \in Maps, NEW k \in Keys, NEW h, AddProcSignature(t, m, k, h)
    PROVE  EntryAdded(m, k, IF m_name_procs[m][k] = 0 THEN NewPosition ELSE m_name_procs[m][k])
<1> DEFINE i == m_name_procs[m][k]
<1>0. i \in Nat /\ infos \in Seq(InfoType) /\ m_name_procs \in [Maps -> [Keys -> Nat]]
  BY DEF MapInv, MapTypes
<1>1. CASE i = 0
  <2>1. /\ infos' = Append(infos, NewInfo(k))
        /\ m_name_procs' = [m_name_procs EXCEPT ![m][k] = NewPosition]
    BY <1>1 DEF AddProcSignature
  <2>2. PICK r \in InfoType : r = NewInfo(k) /\ r.key = k /\ r.invoke = None /\ r.count = 0
    BY NewInfoType
  <2>3. PICK p \in Nat : p = NewPosition /\ p = Len(infos) + 1
    BY <1>0 DEF NewPosition
  <2>4. /\ infos' = Append(infos, r) /\ infos' \in Seq(InfoType) /\ Len(infos') = p
        /\ \A j \in DOMAIN infos : j \in DOMAIN infos' /\ infos'[j] = infos[j]
        /\ p \in DOMAIN infos' /\ infos'[p] = r /\ p \notin DOMAIN infos /\ p # 0
        /\ \A j \in DOMAIN infos' : j \in DOMAIN infos \/ j = p
    BY <1>0, <2>1, <2>2, <2>3
  <2>5. /\ m_name_procs' \in [Maps -> [Keys -> Nat]] /\ m_name_procs'[m][k] = p
        /\ \A n \in Maps, l \in Keys : n # m \/ l # k => m_name_procs'[n][l] = m_name_procs[n][l]
    BY <1>0, <2>1, <2>3
  <2> QED
    BY <1>1, <2>2, <2>3, <2>4, <2>5 DEF EntryAdded
<1>2. CASE i # 0
  <2>1. infos' = infos /\ m_name_procs' = m_name_procs
    BY <1>2 DEF AddProcSignature
  <2>2. i \in DOMAIN infos /\ infos[i].key = k
    BY <1>2 DEF MapInv, EntriesExist
  <2> QED
    BY <1>0, <1>2, <2>1, <2>2 DEF EntryAdded
<1> QED
  BY <1>1, <1>2

\* AddProcSignature up to SetInvoke.
LEMMA AddProcSignatureKeeps ==
    ASSUME MapInv, NEW t \in Threads, NEW m \in Maps, NEW k \in Keys, NEW h \in HandlerOrNone,
           AddProcSignature(t, m, k, h)
    PROVE  MapInv'
<1>1. PICK new : /\ new = (IF m_name_procs[m][k] = 0 THEN NewPosition ELSE m_name_procs[m][k])
                 /\ EntryAdded(m, k, new)
  BY AddsEntry
<1> DEFINE i == m_name_procs[m][k]
           callable == h # None /\ h.callable
           o == [NoOp EXCEPT !.map = m, !.info = new, !.invoke = IF callable THEN h ELSE None]
<1>2. UNCHANGED <<m_OnCallCountChanged, m_OnInvalidRemoteCall, guard, registered>> /\ pc[t] = "idle" /\ Unlocked(m)
  BY DEF AddProcSignature
<1>3. CASE Overrides(i, callable)
  <2>1. UNCHANGED <<map_vars, m_lock, pc, op, guard, registered>>
    BY <1>2, <1>3 DEF AddProcSignature, Overrides, map_vars
  <2> QED
    BY <2>1, OtherSteps, MapFrameKeeps
<1>4. CASE ~Overrides(i, callable)
  <2>1. m_lock' = [m_lock EXCEPT ![m] = t] /\ pc' = [pc EXCEPT ![t] = "setting"] /\ op' = [op EXCEPT ![t] = o]
    BY <1>1, <1>4 DEF AddProcSignature, Begin
  <2>2. /\ infos' \in Seq(InfoType) /\ m_name_procs' \in [Maps -> [Keys -> Nat]]
        /\ \A j \in DOMAIN infos : j \in DOMAIN infos' /\ infos'[j] = infos[j]
        /\ new \in Nat \ {0} /\ new \in DOMAIN infos' /\ infos'[new].key = k /\ m_name_procs'[m][k] = new
        /\ \A n \in Maps, l \in Keys : n # m \/ l # k => m_name_procs'[n][l] = m_name_procs[n][l]
        /\ \/ m_name_procs[m][k] = new
           \/ m_name_procs[m][k] = 0 /\ new \notin DOMAIN infos /\ infos'[new].invoke = None
    BY <1>1 DEF EntryAdded
  <2>3. o \in OpType /\ o.map = m /\ o.info = new /\ o.invoke = IF callable THEN h ELSE None
    <3>1. None \in HandlerOrNone
      BY DEF HandlerOrNone
    <3> QED
      BY <2>2, <3>1, NoOpType DEF OpType
  <2> HIDE DEF o
  <2>4. /\ LocksHeld' /\ m_lock' \in [Maps -> Threads \cup {None}]
        /\ pc' \in [Threads -> Labels] /\ op' \in [Threads -> OpType]
    <3>1. PICK p \in Holding : p = "setting"
      BY DEF Holding
    <3> QED
      BY <1>2, <2>1, <2>3, <3>1, TakesLock
  <2>5. MapTypes'
    BY <1>2, <2>2, <2>4 DEF MapTypes, MapInv
  <2>6. EntriesExist'
    <3> SUFFICES ASSUME NEW n \in Maps, NEW l \in Keys, m_name_procs'[n][l] # 0
                 PROVE  m_name_procs'[n][l] \in DOMAIN infos' /\ infos'[m_name_procs'[n][l]].key = l
      BY DEF EntriesExist
    <3>1. CASE n = m /\ l = k
      BY <2>2, <3>1
    <3>2. CASE n # m \/ l # k
      <4>1. m_name_procs'[n][l] = m_name_procs[n][l]
        BY <2>2, <3>2
      <4> QED
        BY <2>2, <4>1 DEF MapInv, EntriesExist
    <3> QED
      BY <3>1, <3>2
  <2>7. SettingKnown'
    <3> SUFFICES ASSUME NEW u \in Threads
                 PROVE  /\ pc'[u] = "setting" => Setting(u)'
                        /\ pc'[u] = "counting" => op'[u].info \in DOMAIN infos'
      BY DEF SettingKnown
    <3>1. CASE u = t
      <4>1. pc'[u] = "setting" /\ op'[u] = o
        BY <2>1, <3>1 DEF MapInv, MapTypes
      <4>2. o.invoke # None => infos'[new].invoke = None \/ infos'[new].shared
        <5>1. CASE i = new
          <6>1. o.invoke # None => callable
            BY <2>3
          <6>2. o.invoke # None => infos[i].invoke = None
            BY <1>4, <2>2, <5>1, <6>1 DEF Overrides, IsInvokable
          <6>3. i \in DOMAIN infos
            BY <2>2, <5>1 DEF MapInv, EntriesExist
          <6> QED
            BY <2>2, <5>1, <6>2, <6>3
        <5>2. CASE infos'[new].invoke = None
          BY <5>2
        <5> QED
          BY <2>2, <5>1, <5>2
      <4>3. Setting(u)'
        BY <2>2, <2>3, <4>1, <4>2 DEF Setting
      <4> QED
        BY <4>1, <4>3
    <3>2. CASE u # t
      <4>1. pc'[u] = pc[u] /\ op'[u] = op[u]
        BY <2>1, <3>2 DEF MapInv, MapTypes
      <4>2. ASSUME pc[u] = "setting" PROVE Setting(u)'
        <5>1. Setting(u) /\ op[u].map \in Maps /\ op[u].map # m
          BY <1>2, <4>2, ProcMapNames DEF MapInv, SettingKnown, LocksHeld, Holding, Unlocked
        <5>2. op[u].info \in DOMAIN infos /\ infos[op[u].info].key \in Keys
          BY <5>1, InfoFields DEF MapInv, MapTypes, Setting
        <5>3. infos'[op[u].info] = infos[op[u].info] /\ op[u].info \in DOMAIN infos'
          BY <2>2, <5>2
        <5>4. m_name_procs'[op[u].map][infos[op[u].info].key] = m_name_procs[op[u].map][infos[op[u].info].key]
          BY <2>2, <5>1, <5>2
        <5> QED
          BY <4>1, <5>1, <5>3, <5>4 DEF Setting
      <4> QED
        BY <2>2, <4>1, <4>2 DEF MapInv, SettingKnown
    <3> QED
      BY <3>1, <3>2
  <2>8. SharedKnown'
    <3> SUFFICES ASSUME NEW a \in Maps, NEW b \in Maps, NEW l \in Keys,
                        a # b, m_name_procs'[a][l] # 0, m_name_procs'[a][l] = m_name_procs'[b][l]
                 PROVE  infos'[m_name_procs'[a][l]].shared
      BY DEF SharedKnown
    <3>1. \A n \in Maps : n # m => /\ m_name_procs'[n][l] = m_name_procs[n][l]
                                   /\ m_name_procs[n][l] # 0 => m_name_procs[n][l] \in DOMAIN infos
      BY <2>2 DEF MapInv, EntriesExist
    <3>2. m_name_procs'[a][l] \in DOMAIN infos
      <4>1. CASE a # m
        BY <3>1, <4>1
      <4>2. CASE b # m
        BY <3>1, <4>2
      <4> QED
        BY <4>1, <4>2
    <3>3. m_name_procs'[a][l] = m_name_procs[a][l] /\ m_name_procs'[b][l] = m_name_procs[b][l]
      BY <2>2, <3>2
    <3>4. infos[m_name_procs[a][l]].shared
      BY <3>3, Zenon DEF MapInv, SharedKnown
    <3>5. infos'[m_name_procs'[a][l]] = infos[m_name_procs[a][l]]
      BY <2>2, <3>2, <3>3
    <3> QED
      BY <3>4, <3>5
  <2>9. EntryTags'
    <3> SUFFICES ASSUME NEW n \in Maps, NEW l \in Keys, m_name_procs'[n][l] # 0,
                        infos'[m_name_procs'[n][l]].invoke # None
                 PROVE  infos'[m_name_procs'[n][l]].invoke.tag \in registered[n]
      BY <1>2 DEF EntryTags
    <3>1. m_name_procs'[n][l] = m_name_procs[n][l]
      BY <2>2
    <3>2. m_name_procs[n][l] \in DOMAIN infos
      BY <3>1 DEF MapInv, EntriesExist
    <3> QED
      BY <2>2, <3>1, <3>2 DEF MapInv, EntryTags
  <2>10. CallbackTags'
    BY <1>2 DEF MapInv, CallbackTags
  <2> QED
    BY <2>4, <2>5, <2>6, <2>7, <2>8, <2>9, <2>10 DEF MapInv
<1> QED
  BY <1>3, <1>4

\* SetInvoke: the handler appears in every map that shares the CallInfo.
LEMMA SetInvokeKeeps ==
    ASSUME MapInv, NEW t \in Threads, SetInvoke(t)
    PROVE  MapInv'
<1> DEFINE i == op[t].info
           h == op[t].invoke
<1>1. /\ pc[t] = "setting" /\ m_lock' = [m_lock EXCEPT ![op[t].map] = None] /\ Begin(t, "idle", NoOp)
      /\ UNCHANGED <<m_name_procs, m_OnCallCountChanged, m_OnInvalidRemoteCall, guard>>
  BY DEF SetInvoke
<1>2. /\ i \in DOMAIN infos /\ infos \in Seq(InfoType) /\ h \in HandlerOrNone /\ op[t].map \in Maps
      /\ m_name_procs[op[t].map][infos[i].key] = i
      /\ h # None => infos[i].invoke = None \/ infos[i].shared
  BY <1>1 DEF MapInv, MapTypes, SettingKnown, Setting, LocksHeld, Holding, OpType
<1>3. infos[i] \in InfoType /\ infos[i].key \in Keys /\ i # 0
  BY <1>2, InfoFields
<1>4. /\ infos' \in Seq(InfoType) /\ DOMAIN infos' = DOMAIN infos
      /\ \A j \in DOMAIN infos : /\ infos'[j].key = infos[j].key /\ infos'[j].shared = infos[j].shared
                                 /\ infos'[j].invoke = IF j = i /\ h # None THEN h ELSE infos[j].invoke
  <2>1. CASE h = None
    BY <1>2, <2>1 DEF SetInvoke
  <2>2. CASE h # None
    <3>1. infos' = [infos EXCEPT ![i] = [infos[i] EXCEPT !.invoke = h]]
      BY <2>2 DEF SetInvoke
    <3>2. LET s == [infos[i] EXCEPT !.invoke = h]
          IN  s \in InfoType /\ s.key = infos[i].key /\ s.invoke = h /\ s.shared = infos[i].shared
      BY <1>2, <1>3, InfoInvoke, Zenon
    <3>3. \A j \in DOMAIN infos : infos'[j] = IF j = i THEN [infos[i] EXCEPT !.invoke = h] ELSE infos[j]
      BY <1>2, <3>1
    <3>4. \A j \in DOMAIN infos : infos[j] \in InfoType
      BY <1>2
    <3>5. \A j \in DOMAIN infos : infos'[j] \in InfoType
      BY <3>2, <3>3, <3>4, Zenon
    <3>6. infos' = [j \in DOMAIN infos |-> infos'[j]]
      BY <3>1
    <3>7. infos' \in Seq(InfoType) /\ DOMAIN infos' = DOMAIN infos
      BY <1>2, <3>5, <3>6, InfosUpdate, Zenon
    <3> QED
      BY <2>2, <3>2, <3>3, <3>7, Zenon
  <2> QED
    BY <2>1, <2>2
<1>5. /\ LocksHeld' /\ m_lock' \in [Maps -> Threads \cup {None}]
      /\ pc' \in [Threads -> Labels] /\ op' \in [Threads -> OpType]
  BY <1>1, ReleasesLock DEF Holding
<1>6. /\ registered' \in [Maps -> SUBSET Tags]
      /\ \A n \in Maps : registered[n] \subseteq registered'[n]
      /\ h # None => \A n \in Maps, k \in Keys : m_name_procs[n][k] = i => h.tag \in registered'[n]
  <2>1. registered \in [Maps -> SUBSET Tags]
    BY DEF MapInv, MapTypes
  <2>2. CASE h = None
    BY <2>1, <2>2 DEF SetInvoke
  <2>3. CASE h # None
    <3>1. h.tag \in Tags
      BY <1>2, <2>3, ProcMapConstants DEF HandlerOrNone
    <3>2. registered' = [m \in Maps |-> IF m = op[t].map \/ \E k \in Keys : m_name_procs[m][k] = i
                                         THEN registered[m] \cup {h.tag} ELSE registered[m]]
      BY <2>3 DEF SetInvoke
    <3> QED
      BY <2>1, <3>1, <3>2
  <2> QED
    BY <2>2, <2>3
<1>7. MapTypes'
  BY <1>1, <1>4, <1>5, <1>6 DEF MapInv, MapTypes
<1>8. EntriesExist'
  BY <1>1, <1>4 DEF MapInv, EntriesExist
<1>9. SettingKnown'
  <2>0. pc' = [pc EXCEPT ![t] = "idle"] /\ op' = [op EXCEPT ![t] = NoOp]
    BY <1>1 DEF Begin
  <2>1. pc'[t] = "idle" /\ \A u \in Threads \ {t} : pc'[u] = pc[u] /\ op'[u] = op[u]
    BY <2>0 DEF MapInv, MapTypes
  <2> SUFFICES ASSUME NEW u \in Threads \ {t}, pc[u] = "setting"
               PROVE  Setting(u)'
    BY <1>4, <2>1 DEF MapInv, SettingKnown
  <2>2. /\ op[u].info \in DOMAIN infos /\ op[u].map \in Maps
        /\ m_name_procs[op[u].map][infos[op[u].info].key] = op[u].info
        /\ op[u].invoke # None => infos[op[u].info].invoke = None \/ infos[op[u].info].shared
    BY DEF MapInv, SettingKnown, Setting, LocksHeld, Holding
  <2>3. op[u].map # op[t].map
    BY <1>1, OneHolder DEF Holding
  <2>4. op[u].info = i => infos[i].shared
    BY <1>2, <1>3, <2>2, <2>3, Zenon DEF MapInv, SharedKnown
  <2>5. op[u].invoke # None => infos'[op[u].info].invoke = None \/ infos'[op[u].info].shared
    <3>1. CASE op[u].info = i
      BY <1>2, <1>4, <2>4, <3>1, Zenon
    <3>2. CASE op[u].info # i
      <4>1. infos'[op[u].info].invoke = infos[op[u].info].invoke /\ infos'[op[u].info].shared = infos[op[u].info].shared
        BY <1>4, <2>2, <3>2
      <4> QED
        BY <2>2, <4>1, Zenon
    <3> QED
      BY <3>1, <3>2
  <2> QED
    BY <1>1, <1>4, <2>1, <2>2, <2>5 DEF Setting
<1>10. SharedKnown'
  <2> SUFFICES ASSUME NEW a \in Maps, NEW b \in Maps, NEW l \in Keys,
                      a # b, m_name_procs[a][l] # 0, m_name_procs[a][l] = m_name_procs[b][l]
               PROVE  infos'[m_name_procs[a][l]].shared
    BY <1>1 DEF SharedKnown
  <2>1. infos[m_name_procs[a][l]].shared /\ m_name_procs[a][l] \in DOMAIN infos
    BY Zenon DEF MapInv, SharedKnown, EntriesExist
  <2> QED
    BY <1>4, <2>1, Zenon
<1>11. EntryTags'
  <2> SUFFICES ASSUME NEW n \in Maps, NEW l \in Keys, m_name_procs[n][l] # 0,
                      infos'[m_name_procs[n][l]].invoke # None
               PROVE  infos'[m_name_procs[n][l]].invoke.tag \in registered'[n]
    BY <1>1 DEF EntryTags
  <2>1. m_name_procs[n][l] \in DOMAIN infos
    BY DEF MapInv, EntriesExist
  <2>2. CASE m_name_procs[n][l] = i /\ h # None
    BY <1>4, <1>6, <2>1, <2>2
  <2>3. CASE ~(m_name_procs[n][l] = i /\ h # None)
    <3>1. infos'[m_name_procs[n][l]].invoke = infos[m_name_procs[n][l]].invoke
      BY <1>4, <2>1, <2>3
    <3> QED
      BY <1>6, <3>1 DEF MapInv, EntryTags
  <2> QED
    BY <2>2, <2>3
<1>12. CallbackTags'
  BY <1>1, <1>6 DEF MapInv, CallbackTags
<1> QED
  BY <1>5, <1>7, <1>8, <1>9, <1>10, <1>11, <1>12 DEF MapInv

\* AddAllProcs takes its first lock.
LEMMA AddAllProcsKeeps ==
    ASSUME MapInv, NEW t \in Threads, NEW pair \in Copies, AddAllProcs(t, pair[1], pair[2])
    PROVE  MapInv'
<1> DEFINE o == [NoOp EXCEPT !.map = pair[1], !.other = pair[2]]
<1>1. pair[1] \in Maps /\ pair[2] \in Maps /\ pair = <<pair[1], pair[2]>>
  BY ProcMapConstants
<1>2. o \in OpType /\ o.map = pair[1] /\ o.other = pair[2]
  BY <1>1, NoOpType DEF OpType
<1>3. /\ pc[t] = "idle" /\ Unlocked(pair[1]) /\ pair[1] # pair[2]
      /\ m_lock' = [m_lock EXCEPT ![pair[1]] = t]
      /\ pc' = [pc EXCEPT ![t] = "copying"] /\ op' = [op EXCEPT ![t] = o]
      /\ UNCHANGED <<infos, m_name_procs, m_OnCallCountChanged, m_OnInvalidRemoteCall, guard, registered>>
  BY DEF AddAllProcs, Begin, IsOther, map_vars
<1> HIDE DEF o
<1>4. /\ LocksHeld' /\ m_lock' \in [Maps -> Threads \cup {None}]
      /\ pc' \in [Threads -> Labels] /\ op' \in [Threads -> OpType]
  <2>1. PICK p \in Holding : p = "copying"
    BY DEF Holding
  <2>2. <<o.map, o.other>> \in Copies /\ o.map # o.other
    BY <1>1, <1>2, <1>3
  <2> QED
    BY <1>1, <1>2, <1>3, <2>1, <2>2, TakesLock
<1>5. MapTypes'
  BY <1>3, <1>4 DEF MapInv, MapTypes
<1>6. SettingKnown'
  BY <1>3 DEF MapInv, MapTypes, SettingKnown, Setting
<1>7. EntriesExist' /\ SharedKnown' /\ EntryTags' /\ CallbackTags'
  BY <1>3 DEF MapInv, EntriesExist, SharedKnown, EntryTags, CallbackTags
<1> QED
  BY <1>4, <1>5, <1>6, <1>7 DEF MapInv

\* The handlers a map has are those of its entries.
LEMMA TagsOfEntries ==
    ASSUME MapInv, NEW m \in Maps
    PROVE  /\ TagsOf(m) \subseteq Tags
           /\ \A k \in Keys : m_name_procs[m][k] # 0 /\ infos[m_name_procs[m][k]].invoke # None
                                => infos[m_name_procs[m][k]].invoke.tag \in TagsOf(m)
<1>1. \A i \in DOMAIN infos : infos[i].invoke # None => infos[i].invoke.tag \in Tags
  <2> SUFFICES ASSUME NEW i \in DOMAIN infos, infos[i].invoke # None
               PROVE  infos[i].invoke.tag \in Tags
    OBVIOUS
  <2>1. infos[i] \in InfoType
    BY DEF MapInv, MapTypes
  <2>2. infos[i].invoke \in Handlers
    BY <2>1, InfoFields DEF HandlerOrNone
  <2> QED
    BY <2>2, ProcMapConstants
<1>2. ASSUME NEW k \in Keys, m_name_procs[m][k] # 0, infos[m_name_procs[m][k]].invoke # None
      PROVE  infos[m_name_procs[m][k]].invoke.tag \in TagsOf(m)
  <2>1. PICK i : i = m_name_procs[m][k]
    OBVIOUS
  <2>2. i \in DOMAIN infos /\ infos[i].invoke # None
    BY <1>2, <2>1 DEF MapInv, EntriesExist
  <2>3. i \in {m_name_procs[m][l] : l \in Keys} \cap {n \in DOMAIN infos : IsInvokable(n)}
    BY <2>1, <2>2 DEF IsInvokable
  <2> QED
    BY <2>1, <2>3 DEF TagsOf
<1>3. TagsOf(m) \subseteq Tags
  BY <1>1 DEF TagsOf, IsInvokable
<1> QED
  BY <1>2, <1>3

\* AddAllProcs copies the entries and marks the CallInfos as shared.
LEMMA CopyKeeps ==
    ASSUME MapInv, NEW t \in Threads, AddAllProcs_Copy(t)
    PROVE  MapInv'
<1>1. PICK m \in Maps, other \in Maps : m = op[t].map /\ other = op[t].other /\ m # other
  <2>1. <<op[t].map, op[t].other>> \in Copies /\ op[t].map # op[t].other
    BY DEF AddAllProcs_Copy, MapInv, LocksHeld
  <2> QED
    BY <2>1, ProcMapConstants
<1>2. PICK copied : copied = {m_name_procs[other][k] : k \in {l \in Keys : m_name_procs[m][l] = 0}}
  OBVIOUS
<1>3. /\ pc[t] = "copying" /\ m_lock' = [m_lock EXCEPT ![op[t].map] = None] /\ Begin(t, "idle", NoOp)
      /\ UNCHANGED <<m_OnCallCountChanged, m_OnInvalidRemoteCall, guard>>
      /\ infos' = [i \in DOMAIN infos |-> [infos[i] EXCEPT !.shared = @ \/ i \in copied]]
      /\ m_name_procs' = [m_name_procs EXCEPT ![m] =
                             [k \in Keys |-> IF m_name_procs[m][k] # 0 THEN m_name_procs[m][k] ELSE m_name_procs[other][k]]]
      /\ registered' = [registered EXCEPT ![m] = registered[m] \cup TagsOf(other)]
  BY <1>1, <1>2 DEF AddAllProcs_Copy
<1>4. /\ infos \in Seq(InfoType) /\ m_name_procs \in [Maps -> [Keys -> Nat]] /\ registered \in [Maps -> SUBSET Tags]
  BY DEF MapInv, MapTypes
<1>5. /\ infos' \in Seq(InfoType) /\ DOMAIN infos' = DOMAIN infos
      /\ \A j \in DOMAIN infos : /\ infos'[j].key = infos[j].key /\ infos'[j].invoke = infos[j].invoke
                                 /\ infos[j].shared => infos'[j].shared
                                 /\ j \in copied => infos'[j].shared
  <2>1. ASSUME NEW j \in DOMAIN infos
        PROVE  /\ infos'[j] \in InfoType
               /\ infos'[j].key = infos[j].key /\ infos'[j].invoke = infos[j].invoke
               /\ infos[j].shared => infos'[j].shared
               /\ j \in copied => infos'[j].shared
    <3>1. infos[j] \in InfoType
      BY <1>4
    <3>2. PICK b \in BOOLEAN : b = (infos[j].shared \/ j \in copied)
      OBVIOUS
    <3>3. infos'[j] = [infos[j] EXCEPT !.shared = b]
      BY <1>3, <3>2, Zenon
    <3>4. LET s == [infos[j] EXCEPT !.shared = b]
          IN  s \in InfoType /\ s.key = infos[j].key /\ s.invoke = infos[j].invoke /\ s.shared = b
      BY <3>1, InfoShared, Zenon
    <3> QED
      BY <3>2, <3>3, <3>4, Zenon
  <2>2. infos' = [j \in DOMAIN infos |-> infos'[j]]
    BY <1>3
  <2>3. infos' \in Seq(InfoType) /\ DOMAIN infos' = DOMAIN infos
    BY <1>4, <2>1, <2>2, InfosUpdate, Zenon
  <2> QED
    BY <2>1, <2>3, Zenon
<1>6. /\ m_name_procs' \in [Maps -> [Keys -> Nat]]
      /\ \A n \in Maps : n # m => m_name_procs'[n] = m_name_procs[n]
      /\ \A k \in Keys : \/ m_name_procs'[m][k] = m_name_procs[m][k]
                         \/ /\ m_name_procs[m][k] = 0 /\ m_name_procs'[m][k] = m_name_procs[other][k]
                            /\ m_name_procs'[m][k] \in copied
  BY <1>2, <1>3, <1>4
<1>7. /\ LocksHeld' /\ m_lock' \in [Maps -> Threads \cup {None}]
      /\ pc' \in [Threads -> Labels] /\ op' \in [Threads -> OpType]
  BY <1>3, ReleasesLock DEF Holding
<1>8. /\ registered' \in [Maps -> SUBSET Tags] /\ TagsOf(other) \subseteq registered'[m]
      /\ \A n \in Maps : registered[n] \subseteq registered'[n]
  BY <1>3, <1>4, TagsOfEntries
<1>9. MapTypes'
  BY <1>3, <1>5, <1>6, <1>7, <1>8 DEF MapInv, MapTypes
<1>10. EntriesExist'
  <2> SUFFICES ASSUME NEW n \in Maps, NEW l \in Keys, m_name_procs'[n][l] # 0
               PROVE  m_name_procs'[n][l] \in DOMAIN infos' /\ infos'[m_name_procs'[n][l]].key = l
    BY DEF EntriesExist
  <2>1. \E a \in Maps : m_name_procs'[n][l] = m_name_procs[a][l]
    BY <1>6
  <2> QED
    BY <1>5, <2>1 DEF MapInv, EntriesExist
<1>11. SettingKnown'
  <2>0. pc' = [pc EXCEPT ![t] = "idle"] /\ op' = [op EXCEPT ![t] = NoOp]
    BY <1>3 DEF Begin
  <2>1. pc'[t] = "idle" /\ \A u \in Threads \ {t} : pc'[u] = pc[u] /\ op'[u] = op[u]
    BY <2>0 DEF MapInv, MapTypes
  <2> SUFFICES ASSUME NEW u \in Threads \ {t}, pc[u] = "setting"
               PROVE  Setting(u)'
    BY <1>5, <2>1 DEF MapInv, SettingKnown
  <2>2. /\ op[u].info \in DOMAIN infos /\ op[u].map \in Maps
        /\ m_name_procs[op[u].map][infos[op[u].info].key] = op[u].info
        /\ op[u].invoke # None => infos[op[u].info].invoke = None \/ infos[op[u].info].shared
    BY DEF MapInv, SettingKnown, Setting, LocksHeld, Holding
  <2>3. op[u].map # m
    BY <1>1, <1>3, OneHolder DEF Holding
  <2>4. m_name_procs'[op[u].map] = m_name_procs[op[u].map]
    BY <1>6, <2>2, <2>3
  <2>5. op[u].invoke # None => infos'[op[u].info].invoke = None \/ infos'[op[u].info].shared
    BY <1>5, <2>2, Zenon
  <2> QED
    BY <1>5, <2>1, <2>2, <2>4, <2>5 DEF Setting
<1>12. SharedKnown'
  <2> SUFFICES ASSUME NEW a \in Maps, NEW b \in Maps, NEW l \in Keys,
                      a # b, m_name_procs'[a][l] # 0, m_name_procs'[a][l] = m_name_procs'[b][l]
               PROVE  infos'[m_name_procs'[a][l]].shared
    BY DEF SharedKnown
  <2>1. m_name_procs'[a][l] \in DOMAIN infos
    BY <1>5, <1>10 DEF EntriesExist
  <2>2. CASE m_name_procs'[a][l] \in copied
    BY <1>5, <2>1, <2>2, Zenon
  <2>3. CASE m_name_procs'[a][l] \notin copied
    <3>1. m_name_procs'[a][l] = m_name_procs[a][l] /\ m_name_procs'[b][l] = m_name_procs[b][l]
      BY <1>6, <2>3
    <3>2. infos[m_name_procs[a][l]].shared
      BY <3>1, Zenon DEF MapInv, SharedKnown
    <3> QED
      BY <1>5, <2>1, <3>1, <3>2, Zenon
  <2> QED
    BY <2>2, <2>3
<1>13. EntryTags'
  <2> SUFFICES ASSUME NEW n \in Maps, NEW l \in Keys, m_name_procs'[n][l] # 0,
                      infos'[m_name_procs'[n][l]].invoke # None
               PROVE  infos'[m_name_procs'[n][l]].invoke.tag \in registered'[n]
    BY DEF EntryTags
  <2>1. /\ m_name_procs'[n][l] \in DOMAIN infos
        /\ infos'[m_name_procs'[n][l]].invoke = infos[m_name_procs'[n][l]].invoke
    BY <1>5, <1>10 DEF EntriesExist
  <2>2. CASE m_name_procs'[n][l] = m_name_procs[n][l]
    <3>1. infos[m_name_procs[n][l]].invoke.tag \in registered[n]
      BY <2>1, <2>2 DEF MapInv, EntryTags
    <3> QED
      BY <1>8, <2>1, <2>2, <3>1
  <2>3. CASE n = m /\ m_name_procs'[n][l] = m_name_procs[other][l]
    <3>1. infos[m_name_procs[other][l]].invoke.tag \in TagsOf(other)
      BY <2>1, <2>3, TagsOfEntries
    <3> QED
      BY <1>8, <2>1, <2>3, <3>1
  <2> QED
    BY <1>6, <2>2, <2>3
<1>14. CallbackTags'
  BY <1>3, <1>8 DEF MapInv, CallbackTags
<1> QED
  BY <1>7, <1>9, <1>10, <1>11, <1>12, <1>13, <1>14 DEF MapInv

-----------------------------------------------------------------------------
(* The maps are consistent                                                 *)

\* Empty maps.
LEMMA MapInvInit == ASSUME Init PROVE MapInv
<1>1. MapTypes
  BY NoOpType, ProcMapConstants DEF Init, MapTypes, CallbackOrNone, Labels, GuardType
<1>2. EntriesExist /\ LocksHeld /\ SettingKnown
  BY DEF Init, EntriesExist, LocksHeld, SettingKnown, Holding
<1>3. SharedKnown /\ EntryTags /\ CallbackTags
  BY DEF Init, SharedKnown, EntryTags, CallbackTags
<1> QED
  BY <1>1, <1>2, <1>3 DEF MapInv

\* SetCallCountChangedGuard, when it is made and when it ends.
LEMMA GuardSteps ==
    ASSUME MapInv, NEW t \in Threads, NEW m \in Maps, NEW b \in CallbackOrNone, SetGuard(t, m, b) \/ EndGuard(t)
    PROVE  MapInv'
<1>1. CASE SetGuard(t, m, b)
  <2>1. /\ Swap(m, "count", b)
        /\ guard' = [guard EXCEPT ![t] = [map |-> m, old |-> m_OnCallCountChanged[m]]]
    BY <1>1 DEF SetGuard
  <2>2. guard' \in [Threads -> GuardType \cup {None}]
    BY <2>1 DEF MapInv, MapTypes, GuardType
  <2> QED
    BY <2>1, <2>2, SwapKeeps
<1>2. CASE EndGuard(t)
  <2>1. /\ guard[t] # None /\ Swap(guard[t].map, "count", guard[t].old)
        /\ guard' = [guard EXCEPT ![t] = None]
    BY <1>2 DEF EndGuard
  <2>2. guard[t] \in GuardType /\ guard' \in [Threads -> GuardType \cup {None}]
    BY <2>1 DEF MapInv, MapTypes
  <2>3. guard[t].map \in Maps /\ guard[t].old \in CallbackOrNone
    BY <2>2 DEF GuardType
  <2> QED
    BY <2>1, <2>2, <2>3, SwapKeeps
<1> QED
  BY <1>1, <1>2

\* All that a thread registers or clears in a map.
LEMMA RegisterKeeps ==
    ASSUME MapInv, NEW t \in Threads, NEW m \in Maps, Register(t, m, Keys, Handlers, Callbacks)
    PROVE  MapInv'
<1>1. CASE \E k \in Keys : AddCallInfo(t, m, k) \/ \E h \in Handlers : AddHandler(t, m, k, h)
  <2>1. PICK k \in Keys, h \in HandlerOrNone : AddProcSignature(t, m, k, h)
    BY <1>1 DEF AddCallInfo, AddHandler, HandlerOrNone
  <2> QED
    BY <2>1, AddProcSignatureKeeps
<1>2. CASE ClearAllProcs(t, m)
  BY <1>2, ClearAllProcsKeeps
<1>3. CASE \E tag \in Tags : ClearProcsWithTag(t, m, tag)
  BY <1>3, ClearProcsWithTagKeeps
<1>4. ASSUME NEW b \in CallbackOrNone, SetHandler_CallCountChanged(t, m, b) \/ SetHandler_ErrorOccured(t, m, b)
      PROVE  MapInv'
  <2>1. \E member : Swap(m, member, b) /\ guard' = guard
    BY <1>4 DEF SetHandler_CallCountChanged, SetHandler_ErrorOccured
  <2>2. guard \in [Threads -> GuardType \cup {None}]
    BY DEF MapInv, MapTypes
  <2> QED
    BY <2>1, <2>2, SwapKeeps
<1>5. ASSUME NEW b \in CallbackOrNone, SetGuard(t, m, b)
      PROVE  MapInv'
  BY <1>5, GuardSteps
<1> QED
  BY <1>1, <1>2, <1>3, <1>4, <1>5 DEF Register, CallbackOrNone

\* The invariant of the maps is inductive.
LEMMA MapStep == MapInv /\ [Next]_vars => MapInv'
<1> SUFFICES ASSUME MapInv, [Next]_vars
             PROVE  MapInv'
  OBVIOUS
<1>1. CASE \E t \in Threads : SetInvoke(t)
  BY <1>1, SetInvokeKeeps
<1>2. CASE \E t \in Threads : AddAllProcs_Copy(t)
  BY <1>2, CopyKeeps
<1>3. CASE \E t \in Threads : IncrementCallCount(t)
  BY <1>3, IncrementCallCountFrame, MapFrameKeeps
<1>4. CASE \E t \in Threads : FailCall(t) \/ Invoke(t) \/ HandlerReturns(t)
  BY <1>4, OtherCallSteps, MapFrameKeeps
<1>5. CASE \E t \in Threads : EndGuard(t)
  <2>1. PICK t \in Threads : EndGuard(t)
    BY <1>5
  <2>2. \E m \in Maps, b \in CallbackOrNone : TRUE
    BY <2>1 DEF EndGuard, MapInv, MapTypes, GuardType, CallbackOrNone
  <2> QED
    BY <2>1, <2>2, GuardSteps
<1>6. CASE \E t \in Threads, m \in Maps : Register(t, m, Keys, Handlers, Callbacks)
  BY <1>6, RegisterKeeps
<1>7. CASE \E t \in Threads, m \in Maps : Receive(t, m, Keys)
  BY <1>7, InvokeLocalFrame, MapFrameKeeps DEF Receive
<1>8. CASE \E t \in Threads, pair \in Copies : AddAllProcs(t, pair[1], pair[2])
  BY <1>8, AddAllProcsKeeps
<1>9. CASE (\E j \in JobThreads : RunJob(j)) \/ ExpireTransport
  <2>1. UNCHANGED <<map_vars, m_lock, pc, op, guard, registered>>
    BY <1>9 DEF RunJob, ExpireTransport
  <2> QED
    BY <2>1, OtherSteps, MapFrameKeeps
<1>10. CASE UNCHANGED vars
  BY <1>10, OtherSteps, MapFrameKeeps DEF vars
<1> QED
  BY <1>1, <1>2, <1>3, <1>4, <1>5, <1>6, <1>7, <1>8, <1>9, <1>10 DEF Next, Step

\* The locks, the entries and their handlers are as described for any number of
\* maps and threads, whatever is copied where.
THEOREM MapInvAlways == Spec => []MapInv
<1>1. Init => MapInv
  BY MapInvInit
<1> QED
  BY <1>1, MapStep, PTL DEF Spec

\* It implies that nothing of a cleared tag is left...
LEMMA ClearedTags == ASSUME MapInv PROVE NoHandlerOfClearedTag
<1> SUFFICES ASSUME NEW m \in Maps
             PROVE  /\ TagsOf(m) \subseteq registered[m]
                    /\ \A b \in {m_OnCallCountChanged[m], m_OnInvalidRemoteCall[m]} \ {None} : b.tag \in registered[m]
  BY DEF NoHandlerOfClearedTag
<1>1. ASSUME NEW i \in {m_name_procs[m][k] : k \in Keys} \cap {n \in DOMAIN infos : IsInvokable(n)}
      PROVE  infos[i].invoke.tag \in registered[m]
  <2>1. PICK k \in Keys : i = m_name_procs[m][k]
    OBVIOUS
  <2>2. i \in DOMAIN infos /\ infos[i].invoke # None /\ i # 0
    BY <1>1 DEF IsInvokable, MapInv, MapTypes
  <2> QED
    BY <2>1, <2>2 DEF MapInv, EntryTags
<1>2. TagsOf(m) \subseteq registered[m]
  BY <1>1 DEF TagsOf
<1> QED
  BY <1>2 DEF MapInv, CallbackTags

\* Maps are copied one way, as IpcQt_Net does.
CopiedOneWay == \A pair \in Copies : pair[1] = pair[2] \/ <<pair[2], pair[1]>> \notin Copies

\* ... and that two threads do not wait for each other.
LEMMA NoCircle == ASSUME CopiedOneWay, MapInv PROVE NoCircularWait
<1> SUFFICES ASSUME NEW t \in Threads, WaitsFor(t) # None
             PROVE  WaitsFor(t) # t /\ WaitsFor(WaitsFor(t)) # t
  BY DEF NoCircularWait
<1>1. /\ pc[t] = "copying" /\ <<op[t].map, op[t].other>> \in Copies /\ op[t].map # op[t].other
      /\ op[t].map \in Maps /\ op[t].other \in Maps /\ m_lock[op[t].other] # None
  BY ProcMapConstants DEF WaitsFor, MapInv, LocksHeld
<1>2. PICK u \in Threads : u = WaitsFor(t) /\ u = m_lock[op[t].other]
  BY <1>1 DEF WaitsFor, MapInv, MapTypes
<1>3. op[u].map = op[t].other
  BY <1>1, <1>2 DEF MapInv, LocksHeld
<1>4. u # t
  BY <1>1, <1>3
<1>5. WaitsFor(u) # t
  <2> SUFFICES ASSUME WaitsFor(u) = t PROVE FALSE
    OBVIOUS
  <2>1. pc[u] = "copying" /\ m_lock[op[u].other] = t
    BY ProcMapNames DEF WaitsFor
  <2>2. <<op[u].map, op[u].other>> \in Copies /\ op[u].other \in Maps
    BY <2>1, ProcMapConstants DEF MapInv, LocksHeld
  <2>3. op[t].map = op[u].other
    BY <2>1, <2>2, ProcMapNames DEF MapInv, LocksHeld
  <2> QED
    BY <1>1, <1>3, <2>2, <2>3 DEF CopiedOneWay
<1> QED
  BY <1>2, <1>4, <1>5

\* A step sets a handler only where there is none, or in a shared CallInfo.
LEMMA SetInvokeReplaces ==
    ASSUME MapInv, NEW t \in Threads, SetInvoke(t)
    PROVE  \A i \in DOMAIN infos : IsInvokable(i) /\ ~infos[i].shared => infos'[i].invoke = infos[i].invoke
<1>1. /\ op[t].info \in DOMAIN infos
      /\ op[t].invoke # None => infos[op[t].info].invoke = None \/ infos[op[t].info].shared
  BY DEF SetInvoke, MapInv, SettingKnown, Setting
<1> SUFFICES ASSUME NEW i \in DOMAIN infos, infos[i].invoke # None, ~infos[i].shared
             PROVE  infos'[i].invoke = infos[i].invoke
  BY DEF IsInvokable
<1>2. CASE op[t].invoke = None
  BY <1>2 DEF SetInvoke
<1>3. CASE op[t].invoke # None
  <2>1. i # op[t].info
    BY <1>1, <1>3, Zenon
  <2> QED
    BY <1>3, <2>1 DEF SetInvoke
<1> QED
  BY <1>2, <1>3

\* No other step changes a handler.
LEMMA HandlerStep ==
    ASSUME MapInv, [Next]_vars
    PROVE  \A i \in DOMAIN infos : IsInvokable(i) /\ ~infos[i].shared => infos'[i].invoke = infos[i].invoke
<1> DEFINE Kept == \A i \in DOMAIN infos : infos'[i].invoke = infos[i].invoke
<1>1. CASE \E t \in Threads : SetInvoke(t)
  BY <1>1, SetInvokeReplaces
<1>2. ASSUME NEW t \in Threads, AddAllProcs_Copy(t)
      PROVE  Kept
  <2>1. \A i \in DOMAIN infos : \E b : infos'[i] = [infos[i] EXCEPT !.shared = b]
    BY <1>2, Zenon DEF AddAllProcs_Copy
  <2>2. \A i \in DOMAIN infos : infos[i] \in InfoType
    BY DEF MapInv, MapTypes
  <2> QED
    BY <2>1, <2>2 DEF InfoType
<1>3. ASSUME NEW t \in Threads, IncrementCallCount(t)
      PROVE  Kept
  BY <1>3, IncrementCallCountFrame DEF MapFrame, SameInfos
<1>4. ASSUME NEW t \in Threads, NEW m \in Maps, NEW k \in Keys, NEW h, AddProcSignature(t, m, k, h)
      PROVE  Kept
  BY <1>4, AddsEntry DEF EntryAdded
<1>5. CASE UNCHANGED infos
  BY <1>5
<1>6. CASE Next
  <2>1. ASSUME NEW t \in Threads, Step(t)
        PROVE  \/ SetInvoke(t) \/ AddAllProcs_Copy(t) \/ IncrementCallCount(t)
               \/ UNCHANGED infos
    BY <2>1, Zenon DEF Step, FailCall, Invoke, HandlerReturns, map_vars
  <2>2. ASSUME NEW t \in Threads, NEW m \in Maps, Register(t, m, Keys, Handlers, Callbacks)
        PROVE  \/ \E k \in Keys : \E h : AddProcSignature(t, m, k, h)
               \/ UNCHANGED infos
    BY <2>2, Zenon DEF Register, AddCallInfo, AddHandler, ClearAllProcs, ClearProcsWithTag,
       SetHandler_CallCountChanged, SetHandler_ErrorOccured, SetGuard, Swap
  <2>3. ASSUME NEW t \in Threads, EndGuard(t)
        PROVE  UNCHANGED infos
    BY <2>3, Zenon DEF EndGuard, Swap
  <2>4. ASSUME NEW t \in Threads, NEW m \in Maps, Receive(t, m, Keys)
        PROVE  UNCHANGED infos
    BY <2>4, Zenon DEF Receive, InvokeLocal, map_vars
  <2>5. ASSUME NEW t \in Threads, NEW pair \in Copies, AddAllProcs(t, pair[1], pair[2])
        PROVE  UNCHANGED infos
    BY <2>5, Zenon DEF AddAllProcs, map_vars
  <2>6. ASSUME (\E j \in JobThreads : RunJob(j)) \/ ExpireTransport
        PROVE  UNCHANGED infos
    BY <2>6, Zenon DEF RunJob, ExpireTransport, map_vars
  <2> HIDE DEF Kept
  <2>7. Kept => \A i \in DOMAIN infos : IsInvokable(i) /\ ~infos[i].shared => infos'[i].invoke = infos[i].invoke
    BY DEF Kept
  <2>8. UNCHANGED infos => Kept
    BY DEF Kept
  <2>9. ASSUME NEW t \in Threads, Step(t)
        PROVE  (\E u \in Threads : SetInvoke(u)) \/ Kept
    BY <1>2, <1>3, <2>1, <2>8, <2>9, Zenon
  <2>10. ASSUME NEW t \in Threads, NEW m \in Maps, Register(t, m, Keys, Handlers, Callbacks)
         PROVE  Kept
    BY <1>4, <2>2, <2>8, <2>10, Zenon
  <2>11. (\E u \in Threads : SetInvoke(u)) \/ Kept
    BY <1>6, <2>3, <2>4, <2>5, <2>6, <2>8, <2>9, <2>10, Zenon DEF Next
  <2> QED
    BY <1>1, <2>7, <2>11, Zenon
<1> QED
  BY <1>5, <1>6 DEF vars, map_vars

\* HandlerKept: two threads that register a handler for the same procedure
\* never replace a callable one, unless AddAllProcs has put its CallInfo into
\* two maps (AddProcSignature).
THEOREM HandlersKept == Spec => HandlerKept
<1>1. MapInv /\ [Next]_vars =>
        [\A i \in DOMAIN infos : IsInvokable(i) /\ ~infos[i].shared => infos'[i].invoke = infos[i].invoke]_vars
  BY HandlerStep
<1> QED
  BY <1>1, MapInvAlways, PTL DEF Spec, HandlerKept

-----------------------------------------------------------------------------
(* Calls: who has one                                                      *)

JobType == [kind : {"call", "result", "count", "error"}, call : Nat, invoke : HandlerOrNone \cup CallbackOrNone]
Texts == {None, "return", "no_matching_call_name_parameters", "no_matching_call_return_type"}
CallType == [key : Keys, ret : Returns \cup {AnyReturn}, send_return : BOOLEAN, error : Texts]
RunType == [invoke : HandlerOrNone \cup CallbackOrNone, counted : BOOLEAN]
Queues == [JobThreads -> Seq(JobType)]

CallTypes ==
    /\ queue \in Queues
    /\ calls \in Seq(CallType) /\ replies \in Seq(Seq(Texts)) /\ runs \in Seq(Seq(RunType))
    /\ Len(replies) = Len(calls) /\ Len(runs) = Len(calls) /\ Len(calls) =< MaxCalls
    /\ counted \subseteq DOMAIN calls

\* A call is with a thread or in a job, and with one of them.
Carrying(job) == job.kind \in {"call", "result"}
Carries(t) == pc[t] \in {"counting", "failed", "invoking", "running"}

HasJob(q, job) == \E j \in JobThreads : \E n \in DOMAIN q[j] : q[j][n] = job

JobsOnce(q) ==
    \A j, l \in JobThreads : \A a \in DOMAIN q[j], b \in DOMAIN q[l] :
        Carrying(q[j][a]) /\ Carrying(q[l][b]) /\ q[j][a].call = q[l][b].call => j = l /\ a = b

ThreadsOnce == \A t, u \in Threads : Carries(t) /\ Carries(u) /\ op[t].call = op[u].call => t = u
ThreadOrJob == \A t \in Threads : \A job : HasJob(queue, job) /\ Carries(t) /\ Carrying(job) => job.call # op[t].call

\* What FindCallInfo says of a call is what becomes of it.
Found(c, h) == IF h = None THEN c.error # None ELSE c.error = None /\ Matches(c.ret, h)

\* What is true of the call a thread has...
ThreadWork(t) ==
    LET id == op[t].call
    IN  /\ id \in DOMAIN calls /\ replies[id] = <<>>
        /\ pc[t] = "counting" => id \notin counted
        /\ pc[t] \in {"invoking", "running"} => id \in counted
        /\ pc[t] = "invoking" => op[t].invoke # None
        /\ pc[t] = "failed" => op[t].invoke = None
        /\ pc[t] = "running" => runs[id] # <<>>
        /\ pc[t] # "running" => runs[id] = <<>> /\ Found(calls[id], op[t].invoke)

\* ... and of that of a job.
JobWork(job) ==
    LET id == job.call
    IN  /\ id \in DOMAIN calls
        /\ job.kind = "call" => /\ runs[id] = <<>> /\ replies[id] = <<>> /\ id \in counted
                                /\ job.invoke # None /\ Found(calls[id], job.invoke)
        /\ job.kind = "result" => runs[id] # <<>> /\ replies[id] = <<>> /\ calls[id].send_return

\* What was run and answered for call c.
CallRight(c, run, reply) ==
    /\ run # <<>> => \E r \in RunType : run = <<r>> /\ r.counted /\ c.error = None /\ Matches(c.ret, r.invoke)
    /\ reply # <<>> => c.send_return /\ \E a \in Texts \ {None} : reply = <<a>> /\ a = IF run # <<>> THEN "return" ELSE c.error

\* A count is announced before its call is posted to the same thread.
CountsFirst(q) ==
    \A j \in JobThreads : \A a, b \in DOMAIN q[j] :
        q[j][a].kind = "call" /\ q[j][b].kind = "count" /\ q[j][a].call = q[j][b].call => b < a

\* CallInfos count calls that were counted.
Counting == \A i \in DOMAIN infos : infos[i].count =< Cardinality(counted)

CallInv ==
    /\ CallTypes /\ ThreadsOnce /\ ThreadOrJob /\ JobsOnce(queue) /\ CountsFirst(queue) /\ Counting
    /\ \A t \in Threads : Carries(t) => ThreadWork(t)
    /\ \A job : HasJob(queue, job) => JobWork(job)
    /\ \A id \in DOMAIN calls : CallRight(calls[id], runs[id], replies[id])

-----------------------------------------------------------------------------
(* Queues of jobs                                                          *)

Posted(q, j, job) == [q EXCEPT ![j] = Append(@, job)]
Taken(q, j) == [q EXCEPT ![j] = Tail(@)]

\* A job that is posted comes last.
LEMMA PostedAt ==
    ASSUME NEW q \in Queues, NEW j \in JobThreads, NEW job \in JobType
    PROVE  /\ Posted(q, j, job) \in Queues
           /\ \A l \in JobThreads, n \in Nat : n \in DOMAIN Posted(q, j, job)[l] =>
                \/ n \in DOMAIN q[l] /\ Posted(q, j, job)[l][n] = q[l][n]
                \/ l = j /\ n = Len(q[j]) + 1 /\ Posted(q, j, job)[l][n] = job
<1> DEFINE p == Posted(q, j, job)
<1>1. p = [q EXCEPT ![j] = Append(q[j], job)] /\ q[j] \in Seq(JobType)
  BY DEF Posted, Queues
<1>2. p \in Queues
  BY <1>1 DEF Queues
<1>3. ASSUME NEW l \in JobThreads, NEW n \in DOMAIN p[l]
      PROVE  \/ n \in DOMAIN q[l] /\ p[l][n] = q[l][n]
             \/ l = j /\ n = Len(q[j]) + 1 /\ p[l][n] = job
  <2>1. CASE l = j
    BY <1>1, <1>3, <2>1 DEF Queues
  <2>2. CASE l # j
    BY <1>1, <1>3, <2>2 DEF Queues
  <2> QED
    BY <2>1, <2>2
<1> QED
  BY <1>2, <1>3

\* The jobs behind the one that is taken move up.
LEMMA TakenAt ==
    ASSUME NEW q \in Queues, NEW j \in JobThreads, q[j] # <<>>
    PROVE  /\ Taken(q, j) \in Queues /\ Head(q[j]) \in JobType /\ 1 \in DOMAIN q[j] /\ Head(q[j]) = q[j][1]
           /\ \A l \in JobThreads, n \in Nat : n \in DOMAIN Taken(q, j)[l] =>
                \/ l # j /\ n \in DOMAIN q[l] /\ Taken(q, j)[l][n] = q[l][n]
                \/ l = j /\ n + 1 \in DOMAIN q[l] /\ n > 0 /\ Taken(q, j)[l][n] = q[l][n + 1]
<1> DEFINE p == Taken(q, j)
<1>1. p = [q EXCEPT ![j] = Tail(q[j])] /\ q[j] \in Seq(JobType)
  BY DEF Taken, Queues
<1>2. /\ Tail(q[j]) \in Seq(JobType) /\ Head(q[j]) \in JobType /\ 1 \in DOMAIN q[j] /\ Head(q[j]) = q[j][1]
      /\ DOMAIN Tail(q[j]) = 1 .. Len(q[j]) - 1 /\ DOMAIN q[j] = 1 .. Len(q[j]) /\ Len(q[j]) \in Nat
      /\ \A n \in 1 .. Len(q[j]) - 1 : Tail(q[j])[n] = q[j][n + 1]
  BY <1>1
<1>3. p \in Queues
  BY <1>1, <1>2 DEF Queues
<1>4. ASSUME NEW l \in JobThreads, NEW n \in Nat, n \in DOMAIN p[l]
      PROVE  \/ l # j /\ n \in DOMAIN q[l] /\ p[l][n] = q[l][n]
             \/ l = j /\ n + 1 \in DOMAIN q[l] /\ n > 0 /\ p[l][n] = q[l][n + 1]
  <2>1. CASE l = j
    <3>1. p[l] = Tail(q[j])
      BY <1>1, <2>1 DEF Queues
    <3> QED
      BY <1>2, <1>4, <2>1, <3>1
  <2>2. CASE l # j
    <3>1. p[l] = q[l]
      BY <1>1, <2>2 DEF Queues
    <3> QED
      BY <1>4, <2>2, <3>1
  <2> QED
    BY <2>1, <2>2
<1> QED
  BY <1>2, <1>3, <1>4

\* Positions in a queue are natural numbers.
LEMMA Positions ==
    ASSUME NEW q \in Queues, NEW j \in JobThreads, NEW n \in DOMAIN q[j]
    PROVE  n \in Nat /\ n > 0 /\ n =< Len(q[j]) /\ Len(q[j]) \in Nat /\ q[j][n] \in JobType /\ HasJob(q, q[j][n])
<1>1. q[j] \in Seq(JobType)
  BY DEF Queues
<1> QED
  BY <1>1 DEF HasJob

\* A post adds one job...
LEMMA PostedJobs ==
    ASSUME NEW q \in Queues, NEW j \in JobThreads, NEW job \in JobType, NEW x, HasJob(Posted(q, j, job), x)
    PROVE  HasJob(q, x) \/ x = job
<1>1. PICK l \in JobThreads : \E n \in DOMAIN Posted(q, j, job)[l] : Posted(q, j, job)[l][n] = x
  BY DEF HasJob
<1>2. PICK n \in DOMAIN Posted(q, j, job)[l] : Posted(q, j, job)[l][n] = x
  BY <1>1
<1>3. n \in Nat
  BY PostedAt, Positions
<1> QED
  BY <1>2, <1>3, PostedAt DEF HasJob

\* ... and taking one adds none.
LEMMA TakenJobs ==
    ASSUME NEW q \in Queues, NEW j \in JobThreads, q[j] # <<>>, NEW x, HasJob(Taken(q, j), x)
    PROVE  HasJob(q, x)
<1>1. PICK l \in JobThreads : \E n \in DOMAIN Taken(q, j)[l] : Taken(q, j)[l][n] = x
  BY DEF HasJob
<1>2. PICK n \in DOMAIN Taken(q, j)[l] : Taken(q, j)[l][n] = x
  BY <1>1
<1>3. n \in Nat
  BY TakenAt, Positions
<1> QED
  BY <1>2, <1>3, TakenAt DEF HasJob

\* A job is posted for a call that no job has.
LEMMA PostedOnce ==
    ASSUME NEW q \in Queues, NEW j \in JobThreads, NEW job \in JobType, JobsOnce(q),
           \A x : HasJob(q, x) /\ Carrying(x) /\ Carrying(job) => x.call # job.call
    PROVE  JobsOnce(Posted(q, j, job))
<1> DEFINE p == Posted(q, j, job)
<1>0. p \in Queues
  BY PostedAt
<1> SUFFICES ASSUME NEW l \in JobThreads, NEW m \in JobThreads, NEW a \in DOMAIN p[l], NEW b \in DOMAIN p[m],
                    Carrying(p[l][a]), Carrying(p[m][b]), p[l][a].call = p[m][b].call
             PROVE  l = m /\ a = b
  BY DEF JobsOnce
<1> HIDE DEF p
<1>1. a \in Nat /\ b \in Nat
  BY <1>0, Positions
<1>2. \/ a \in DOMAIN q[l] /\ p[l][a] = q[l][a]
      \/ l = j /\ a = Len(q[j]) + 1 /\ p[l][a] = job
  BY <1>1, PostedAt DEF p
<1>3. \/ b \in DOMAIN q[m] /\ p[m][b] = q[m][b]
      \/ m = j /\ b = Len(q[j]) + 1 /\ p[m][b] = job
  BY <1>1, PostedAt DEF p
<1>4. CASE a \in DOMAIN q[l] /\ p[l][a] = q[l][a] /\ b \in DOMAIN q[m] /\ p[m][b] = q[m][b]
  BY <1>4 DEF JobsOnce
<1>5. CASE a \in DOMAIN q[l] /\ p[l][a] = q[l][a] /\ p[m][b] = job
  BY <1>5, Positions
<1>6. CASE b \in DOMAIN q[m] /\ p[m][b] = q[m][b] /\ p[l][a] = job
  BY <1>6, Positions
<1> QED
  BY <1>2, <1>3, <1>4, <1>5, <1>6

\* Who takes a job is the only one that has its call.
LEMMA TakenOnce ==
    ASSUME NEW q \in Queues, NEW j \in JobThreads, q[j] # <<>>, JobsOnce(q)
    PROVE  /\ JobsOnce(Taken(q, j))
           /\ \A x : HasJob(Taken(q, j), x) /\ Carrying(x) /\ Carrying(Head(q[j])) => x.call # Head(q[j]).call
<1> DEFINE p == Taken(q, j)
<1>0. p \in Queues
  BY TakenAt
<1> HIDE DEF p
<1>1. ASSUME NEW l \in JobThreads, NEW a \in DOMAIN p[l]
      PROVE  /\ a \in Nat
             /\ \/ l # j /\ a \in DOMAIN q[l] /\ p[l][a] = q[l][a]
                \/ l = j /\ a + 1 \in DOMAIN q[l] /\ a > 0 /\ p[l][a] = q[l][a + 1]
  <2>1. a \in Nat
    BY <1>0, Positions
  <2> QED
    BY <2>1, TakenAt DEF p
<1>2. ASSUME NEW l \in JobThreads, NEW m \in JobThreads, NEW a \in DOMAIN p[l], NEW b \in DOMAIN p[m],
             Carrying(p[l][a]), Carrying(p[m][b]), p[l][a].call = p[m][b].call
      PROVE  l = m /\ a = b
  <2>1. PICK c \in DOMAIN q[l] : p[l][a] = q[l][c] /\ c = IF l = j THEN a + 1 ELSE a
    BY <1>1
  <2>2. PICK d \in DOMAIN q[m] : p[m][b] = q[m][d] /\ d = IF m = j THEN b + 1 ELSE b
    BY <1>1
  <2>3. l = m /\ c = d
    BY <1>2, <2>1, <2>2 DEF JobsOnce
  <2> QED
    BY <1>1, <2>1, <2>2, <2>3
<1>3. ASSUME NEW x, HasJob(p, x), Carrying(x), Carrying(Head(q[j]))
      PROVE  x.call # Head(q[j]).call
  <2>1. PICK l \in JobThreads : \E n \in DOMAIN p[l] : p[l][n] = x
    BY <1>3 DEF HasJob
  <2>2. PICK n \in DOMAIN p[l] : p[l][n] = x
    BY <2>1
  <2>3. PICK c \in DOMAIN q[l] : x = q[l][c] /\ (l # j \/ c # 1)
    BY <1>1, <2>2
  <2>4. 1 \in DOMAIN q[j] /\ Head(q[j]) = q[j][1]
    BY TakenAt
  <2> QED
    BY <1>3, <2>3, <2>4 DEF JobsOnce
<1> QED
  BY <1>2, <1>3 DEF JobsOnce, p

\* A count is posted before the call is.
LEMMA PostedCounts ==
    ASSUME NEW q \in Queues, NEW j \in JobThreads, NEW job \in JobType, CountsFirst(q),
           \A x : HasJob(q, x) /\ x.kind = "call" /\ job.kind = "count" => x.call # job.call
    PROVE  CountsFirst(Posted(q, j, job))
<1> DEFINE p == Posted(q, j, job)
<1>0. p \in Queues
  BY PostedAt
<1> SUFFICES ASSUME NEW l \in JobThreads, NEW a \in DOMAIN p[l], NEW b \in DOMAIN p[l],
                    p[l][a].kind = "call", p[l][b].kind = "count", p[l][a].call = p[l][b].call
             PROVE  b < a
  BY DEF CountsFirst
<1> HIDE DEF p
<1>1. a \in Nat /\ b \in Nat
  BY <1>0, Positions
<1>2. \/ a \in DOMAIN q[l] /\ p[l][a] = q[l][a]
      \/ l = j /\ a = Len(q[j]) + 1 /\ p[l][a] = job
  BY <1>1, PostedAt DEF p
<1>3. \/ b \in DOMAIN q[l] /\ p[l][b] = q[l][b]
      \/ l = j /\ b = Len(q[j]) + 1 /\ p[l][b] = job
  BY <1>1, PostedAt DEF p
<1>4. CASE a \in DOMAIN q[l] /\ p[l][a] = q[l][a] /\ b \in DOMAIN q[l] /\ p[l][b] = q[l][b]
  BY <1>4 DEF CountsFirst
<1>5. CASE a \in DOMAIN q[l] /\ p[l][a] = q[l][a] /\ p[l][b] = job
  BY <1>5, Positions
<1>6. CASE b \in DOMAIN q[l] /\ l = j /\ a = Len(q[j]) + 1
  BY <1>6, Positions
<1>7. ~(p[l][a] = job /\ p[l][b] = job)
  OBVIOUS
<1> QED
  BY <1>2, <1>3, <1>4, <1>5, <1>6, <1>7

\* What is taken comes first.
LEMMA TakenCounts ==
    ASSUME NEW q \in Queues, NEW j \in JobThreads, q[j] # <<>>, CountsFirst(q)
    PROVE  CountsFirst(Taken(q, j))
<1> DEFINE p == Taken(q, j)
<1>0. p \in Queues
  BY TakenAt
<1> SUFFICES ASSUME NEW l \in JobThreads, NEW a \in DOMAIN p[l], NEW b \in DOMAIN p[l],
                    p[l][a].kind = "call", p[l][b].kind = "count", p[l][a].call = p[l][b].call
             PROVE  b < a
  BY DEF CountsFirst
<1> HIDE DEF p
<1>1. a \in Nat /\ b \in Nat
  BY <1>0, Positions
<1>2. \/ l # j /\ a \in DOMAIN q[l] /\ p[l][a] = q[l][a] /\ b \in DOMAIN q[l] /\ p[l][b] = q[l][b]
      \/ l = j /\ a + 1 \in DOMAIN q[l] /\ p[l][a] = q[l][a + 1] /\ b + 1 \in DOMAIN q[l] /\ p[l][b] = q[l][b + 1]
  BY <1>1, TakenAt DEF p
<1>3. CASE l # j /\ a \in DOMAIN q[l] /\ p[l][a] = q[l][a] /\ b \in DOMAIN q[l] /\ p[l][b] = q[l][b]
  BY <1>3 DEF CountsFirst
<1>4. CASE l = j /\ a + 1 \in DOMAIN q[l] /\ p[l][a] = q[l][a + 1] /\ b + 1 \in DOMAIN q[l] /\ p[l][b] = q[l][b + 1]
  <2>1. b + 1 < a + 1
    BY <1>4 DEF CountsFirst
  <2> QED
    BY <1>1, <2>1
<1> QED
  BY <1>2, <1>3, <1>4

-----------------------------------------------------------------------------
(* Steps that leave the calls alone                                        *)

\* No more calls are counted than there are.
LEMMA CountedFinite ==
    ASSUME CallTypes
    PROVE  IsFiniteSet(counted) /\ Cardinality(counted) \in Nat /\ Cardinality(counted) =< MaxCalls
<1>1. DOMAIN calls = 1 .. Len(calls) /\ Len(calls) \in Nat /\ Len(calls) =< MaxCalls /\ MaxCalls \in Nat
  BY ProcMapConstants DEF CallTypes
<1>2. counted \subseteq 1 .. MaxCalls
  BY <1>1 DEF CallTypes
<1>3. IsFiniteSet(1 .. MaxCalls) /\ Cardinality(1 .. MaxCalls) = MaxCalls
  BY <1>1, FS_Interval
<1>4. IsFiniteSet(counted) /\ Cardinality(counted) =< MaxCalls
  BY <1>2, <1>3, FS_Subset
<1> QED
  BY <1>4, FS_CardinalityType

CallFrame ==
    /\ UNCHANGED <<queue, calls, replies, runs, counted>>
    /\ \A u \in Threads : Carries(u) \/ Carries(u)' => pc'[u] = pc[u] /\ op'[u] = op[u]
    /\ \A i \in DOMAIN infos' : (i \in DOMAIN infos /\ infos'[i].count = infos[i].count) \/ infos'[i].count = 0

\* Such steps keep the invariant of the calls.
LEMMA CallFrameKeeps ==
    ASSUME CallInv, CallFrame
    PROVE  CallInv'
<1>1. CallTypes' /\ JobsOnce(queue)' /\ CountsFirst(queue)'
  BY DEF CallInv, CallFrame, CallTypes, JobsOnce, CountsFirst, Carrying
<1>2. \A u \in Threads : Carries(u)' => Carries(u) /\ pc'[u] = pc[u] /\ op'[u] = op[u]
  BY DEF CallFrame, Carries
<1>3. ThreadsOnce' /\ ThreadOrJob'
  BY <1>2 DEF CallInv, CallFrame, ThreadsOnce, ThreadOrJob
<1>4. Counting'
  <2>1. Cardinality(counted) \in Nat
    BY CountedFinite DEF CallInv
  <2> QED
    BY <2>1 DEF CallInv, CallFrame, Counting
<1>5. ASSUME NEW u \in Threads, Carries(u)'
      PROVE  ThreadWork(u)'
  BY <1>2, <1>5 DEF CallInv, CallFrame, ThreadWork
<1>6. ASSUME NEW job, HasJob(queue, job)'
      PROVE  JobWork(job)'
  BY <1>6 DEF CallInv, CallFrame, JobWork
<1>7. \A id \in DOMAIN calls' : CallRight(calls'[id], runs'[id], replies'[id])
  BY DEF CallInv, CallFrame
<1> QED
  BY <1>1, <1>3, <1>4, <1>5, <1>6, <1>7 DEF CallInv

\* The steps of registration.
LEMMA IdleStep ==
    ASSUME MapInv, NEW t \in Threads, NEW p \in Holding \cup {"idle"}, NEW o, ~Carries(t),
           pc' = [pc EXCEPT ![t] = p], op' = [op EXCEPT ![t] = o]
    PROVE  \A u \in Threads : Carries(u) \/ Carries(u)' => pc'[u] = pc[u] /\ op'[u] = op[u]
  BY DEF MapInv, MapTypes, Carries, Holding

\* SetInvoke is of no call.
LEMMA SetInvokeCalls ==
    ASSUME MapInv, NEW t \in Threads, SetInvoke(t)
    PROVE  CallFrame
<1>1. \A u \in Threads : Carries(u) \/ Carries(u)' => pc'[u] = pc[u] /\ op'[u] = op[u]
  <2>1. PICK p \in Holding \cup {"idle"} : p = "idle"
    OBVIOUS
  <2>2. ~Carries(t) /\ pc' = [pc EXCEPT ![t] = p] /\ op' = [op EXCEPT ![t] = NoOp]
    BY <2>1 DEF SetInvoke, Begin, Carries
  <2> QED
    BY <2>2, IdleStep
<1>2. \A i \in DOMAIN infos' : i \in DOMAIN infos /\ infos'[i].count = infos[i].count
  <2>1. infos \in Seq(InfoType) /\ \A i \in DOMAIN infos : infos[i] \in InfoType
    BY DEF MapInv, MapTypes
  <2> QED
    BY <2>1 DEF SetInvoke, InfoType
<1> QED
  BY <1>1, <1>2 DEF SetInvoke, CallFrame, call_vars

\* Nor is AddAllProcs_Copy...
LEMMA CopyCalls ==
    ASSUME MapInv, NEW t \in Threads, AddAllProcs_Copy(t)
    PROVE  CallFrame
<1>1. \A u \in Threads : Carries(u) \/ Carries(u)' => pc'[u] = pc[u] /\ op'[u] = op[u]
  <2>1. PICK p \in Holding \cup {"idle"} : p = "idle"
    OBVIOUS
  <2>2. ~Carries(t) /\ pc' = [pc EXCEPT ![t] = p] /\ op' = [op EXCEPT ![t] = NoOp]
    BY <2>1 DEF AddAllProcs_Copy, Begin, Carries
  <2> QED
    BY <2>2, IdleStep
<1>2. \A i \in DOMAIN infos' : i \in DOMAIN infos /\ infos'[i].count = infos[i].count
  <2>1. DOMAIN infos' = DOMAIN infos /\ \A i \in DOMAIN infos : \E b : infos'[i] = [infos[i] EXCEPT !.shared = b]
    BY Zenon DEF AddAllProcs_Copy
  <2>2. \A i \in DOMAIN infos : infos[i] \in InfoType
    BY DEF MapInv, MapTypes
  <2> QED
    BY <2>1, <2>2 DEF InfoType
<1> QED
  BY <1>1, <1>2 DEF AddAllProcs_Copy, CallFrame, call_vars

\* ... AddProcSignature, whose new CallInfo has counted nothing...
LEMMA AddProcSignatureCalls ==
    ASSUME MapInv, NEW t \in Threads, NEW m \in Maps, NEW k \in Keys, NEW h, AddProcSignature(t, m, k, h)
    PROVE  CallFrame
<1>1. \A i \in DOMAIN infos' : (i \in DOMAIN infos /\ infos'[i].count = infos[i].count) \/ infos'[i].count = 0
  BY AddsEntry DEF EntryAdded
<1>2. ~Carries(t) /\ (UNCHANGED <<pc, op>> \/ \E o : pc' = [pc EXCEPT ![t] = "setting"] /\ op' = [op EXCEPT ![t] = o])
  BY DEF AddProcSignature, Begin, Carries
<1>3. \A u \in Threads : Carries(u) \/ Carries(u)' => pc'[u] = pc[u] /\ op'[u] = op[u]
  <2>1. CASE UNCHANGED <<pc, op>>
    BY <2>1 DEF Carries
  <2>2. ASSUME NEW o, pc' = [pc EXCEPT ![t] = "setting"], op' = [op EXCEPT ![t] = o]
        PROVE  \A u \in Threads : Carries(u) \/ Carries(u)' => pc'[u] = pc[u] /\ op'[u] = op[u]
    <3>1. PICK p \in Holding \cup {"idle"} : p = "setting"
      BY DEF Holding
    <3>2. pc' = [pc EXCEPT ![t] = p]
      BY <2>2, <3>1
    <3> QED
      BY <1>2, <2>2, <3>2, IdleStep
  <2> QED
    BY <1>2, <2>1, <2>2
<1> QED
  BY <1>1, <1>3 DEF AddProcSignature, CallFrame, call_vars

\* ... or AddAllProcs.
LEMMA AddAllProcsCalls ==
    ASSUME MapInv, NEW t \in Threads, NEW m, NEW other, AddAllProcs(t, m, other)
    PROVE  CallFrame
<1>1. PICK p \in Holding \cup {"idle"} : p = "copying"
  BY DEF Holding
<1>2. ~Carries(t) /\ pc' = [pc EXCEPT ![t] = p] /\ op' = [op EXCEPT ![t] = [NoOp EXCEPT !.map = m, !.other = other]]
  BY <1>1 DEF AddAllProcs, Begin, Carries
<1>3. \A u \in Threads : Carries(u) \/ Carries(u)' => pc'[u] = pc[u] /\ op'[u] = op[u]
  BY <1>2, IdleStep
<1> QED
  BY <1>3 DEF AddAllProcs, CallFrame, call_vars, map_vars

\* Steps that change neither threads nor queues.
LEMMA SameCalls ==
    ASSUME UNCHANGED <<infos, pc, op, queue, call_vars>>
    PROVE  CallFrame
  BY DEF CallFrame, call_vars, Carries

\* All that a thread registers or clears, possibly from a handler that runs.
LEMMA RegisterCalls ==
    ASSUME MapInv, NEW t \in Threads, NEW m \in Maps, Register(t, m, Keys, Handlers, Callbacks)
    PROVE  CallFrame
<1>1. CASE \E k \in Keys : \E h : AddProcSignature(t, m, k, h)
  BY <1>1, AddProcSignatureCalls
<1>2. \/ \E k \in Keys : \E h : AddProcSignature(t, m, k, h)
      \/ UNCHANGED <<infos, pc, op, queue, call_vars>>
  BY Zenon DEF Register, AddCallInfo, AddHandler, ClearAllProcs, ClearProcsWithTag,
     SetHandler_CallCountChanged, SetHandler_ErrorOccured, SetGuard, Swap
<1> QED
  BY <1>1, <1>2, SameCalls

-----------------------------------------------------------------------------
(* A step of one call                                                      *)

\* The step is about call id and leaves the others as they are.
OthersUntouched(id) ==
    /\ DOMAIN calls \subseteq DOMAIN calls' /\ DOMAIN calls' \subseteq DOMAIN calls \cup {id}
    /\ \A i \in DOMAIN calls \ {id} : /\ calls'[i] = calls[i] /\ replies'[i] = replies[i] /\ runs'[i] = runs[i]
                                      /\ i \in counted' <=> i \in counted

\* Thread t has call id or nothing afterwards (None: the step is of no thread),
\* and the others have other calls.
ThreadMoves(t, id) ==
    /\ \A u \in Threads \ {t} : pc'[u] = pc[u] /\ op'[u] = op[u] /\ (Carries(u) => op[u].call # id)
    /\ t \in Threads /\ Carries(t)' => op'[t].call = id /\ ThreadWork(t)'

\* The jobs are those that there were, but for the one with the call, and new
\* ones of the call.
JobMoves(t, id) ==
    /\ \A job : HasJob(queue, job)' => \/ HasJob(queue, job) /\ (Carrying(job) => job.call # id)
                                       \/ job.call = id /\ JobWork(job)'
    /\ t \in Threads /\ Carries(t)' => \A job : HasJob(queue, job)' /\ Carrying(job) => job.call # id
    /\ JobsOnce(queue)' /\ CountsFirst(queue)'

\* A step of one call keeps the invariant of the calls, if its own call is right.
LEMMA OneCallMoves ==
    ASSUME CallInv, NEW t, NEW id, OthersUntouched(id), ThreadMoves(t, id), JobMoves(t, id), CallTypes', Counting',
           id \in DOMAIN calls' => CallRight(calls'[id], runs'[id], replies'[id])
    PROVE  CallInv'
<1>1. ASSUME NEW u \in Threads \ {t}, Carries(u)'
      PROVE  Carries(u) /\ pc'[u] = pc[u] /\ op'[u] = op[u] /\ op[u].call # id
  BY <1>1 DEF ThreadMoves, Carries
<1>2. ASSUME NEW u \in Threads, Carries(u)'
      PROVE  ThreadWork(u)'
  <2>1. CASE u = t
    BY <1>2, <2>1 DEF ThreadMoves
  <2>2. CASE u # t
    <3>1. Carries(u) /\ pc'[u] = pc[u] /\ op'[u] = op[u] /\ op[u].call # id /\ ThreadWork(u)
      BY <1>1, <1>2, <2>2 DEF CallInv
    <3>2. /\ op[u].call \in DOMAIN calls \ {id} /\ op[u].call \in DOMAIN calls'
          /\ calls'[op[u].call] = calls[op[u].call] /\ replies'[op[u].call] = replies[op[u].call]
          /\ runs'[op[u].call] = runs[op[u].call] /\ (op[u].call \in counted' <=> op[u].call \in counted)
      BY <3>1 DEF OthersUntouched, ThreadWork
    <3> QED
      BY <3>1, <3>2 DEF ThreadWork
  <2> QED
    BY <2>1, <2>2
<1>3. ThreadsOnce'
  <2> SUFFICES ASSUME NEW u \in Threads, NEW v \in Threads, Carries(u)', Carries(v)', op'[u].call = op'[v].call, u # v
               PROVE  FALSE
    BY DEF ThreadsOnce
  <2>1. CASE u = t
    BY <1>1, <2>1 DEF ThreadMoves
  <2>2. CASE v = t
    BY <1>1, <2>2 DEF ThreadMoves
  <2>3. CASE u # t /\ v # t
    BY <1>1, <2>3 DEF CallInv, ThreadsOnce
  <2> QED
    BY <2>1, <2>2, <2>3
<1>4. ASSUME NEW job, HasJob(queue, job)'
      PROVE  JobWork(job)'
  <2>1. CASE HasJob(queue, job) /\ (Carrying(job) => job.call # id)
    <3>1. JobWork(job)
      BY <2>1 DEF CallInv
    <3>2. job.call \in DOMAIN calls'
      BY <3>1 DEF JobWork, OthersUntouched
    <3>3. CASE Carrying(job)
      <4>1. /\ calls'[job.call] = calls[job.call] /\ replies'[job.call] = replies[job.call]
            /\ runs'[job.call] = runs[job.call] /\ (job.call \in counted' <=> job.call \in counted)
        BY <2>1, <3>1, <3>3 DEF OthersUntouched, JobWork
      <4> QED
        BY <3>1, <3>2, <4>1 DEF JobWork
    <3>4. CASE ~Carrying(job)
      BY <3>2, <3>4 DEF JobWork, Carrying
    <3> QED
      BY <3>3, <3>4
  <2>2. CASE job.call = id /\ JobWork(job)'
    BY <2>2
  <2> QED
    BY <1>4, <2>1, <2>2 DEF JobMoves
<1>5. ThreadOrJob'
  <2> SUFFICES ASSUME NEW u \in Threads, NEW job, HasJob(queue, job)', Carries(u)', Carrying(job), job.call = op'[u].call
               PROVE  FALSE
    BY DEF ThreadOrJob
  <2>1. CASE u = t
    BY <2>1 DEF ThreadMoves, JobMoves
  <2>2. CASE u # t
    <3>1. Carries(u) /\ op'[u] = op[u] /\ op[u].call # id
      BY <1>1, <2>2
    <3>2. HasJob(queue, job)
      BY <3>1 DEF JobMoves
    <3> QED
      BY <3>1, <3>2 DEF CallInv, ThreadOrJob
  <2> QED
    BY <2>1, <2>2
<1>6. ASSUME NEW i \in DOMAIN calls'
      PROVE  CallRight(calls'[i], runs'[i], replies'[i])
  <2>1. CASE i # id
    BY <2>1 DEF OthersUntouched, CallInv
  <2> QED
    BY <2>1
<1> QED
  BY <1>2, <1>3, <1>4, <1>5, <1>6 DEF CallInv, JobMoves

\* The jobs of queue but for the one that is taken, none of which has call id.
Free(q, id) ==
    /\ q \in Queues /\ JobsOnce(q) /\ CountsFirst(q)
    /\ \A x : HasJob(q, x) => HasJob(queue, x) /\ (Carrying(x) => x.call # id)

\* No job has the call of a thread.
LEMMA FreeOfThread ==
    ASSUME CallInv, NEW t \in Threads, Carries(t)
    PROVE  Free(queue, op[t].call)
  BY DEF CallInv, CallTypes, ThreadOrJob, Free

\* No job that is left has the call of the one that is taken.
LEMMA FreeOfJob ==
    ASSUME CallInv, NEW j \in JobThreads, queue[j] # <<>>
    PROVE  /\ HasJob(queue, Head(queue[j])) /\ Head(queue[j]) \in JobType
           /\ Free(Taken(queue, j), IF Carrying(Head(queue[j])) THEN Head(queue[j]).call ELSE 0)
<1>1. queue \in Queues /\ JobsOnce(queue) /\ CountsFirst(queue)
  BY DEF CallInv, CallTypes
<1>2. HasJob(queue, Head(queue[j])) /\ Head(queue[j]) \in JobType
  BY <1>1, TakenAt DEF HasJob
<1>3. /\ Taken(queue, j) \in Queues /\ JobsOnce(Taken(queue, j)) /\ CountsFirst(Taken(queue, j))
  BY <1>1, TakenAt, TakenOnce, TakenCounts
<1>4. ASSUME NEW x, HasJob(Taken(queue, j), x)
      PROVE  /\ HasJob(queue, x)
             /\ Carrying(x) => x.call # IF Carrying(Head(queue[j])) THEN Head(queue[j]).call ELSE 0
  <2>1. HasJob(queue, x)
    BY <1>1, <1>4, TakenJobs
  <2>2. x.call \in DOMAIN calls
    BY <2>1 DEF CallInv, JobWork
  <2>3. x.call # 0
    BY <2>2 DEF CallInv, CallTypes
  <2> QED
    BY <1>1, <1>4, <2>1, <2>3, TakenOnce
<1> QED
  BY <1>2, <1>3, <1>4 DEF Free

\* The step posts nothing.
LEMMA JobsStay ==
    ASSUME NEW t, NEW id, NEW q, Free(q, id), queue' = q
    PROVE  JobMoves(t, id) /\ queue' \in Queues
  BY DEF Free, JobMoves

\* The step posts a job of its call.
LEMMA JobPosted ==
    ASSUME NEW t, NEW id, NEW q, Free(q, id), NEW j \in JobThreads, NEW job \in JobType, queue' = Posted(q, j, job),
           job.call = id, JobWork(job)', Carrying(job) => ~(t \in Threads /\ Carries(t)')
    PROVE  JobMoves(t, id) /\ queue' \in Queues
<1>1. q \in Queues /\ JobsOnce(q) /\ CountsFirst(q) /\ \A x : HasJob(q, x) /\ Carrying(x) => x.call # id
  BY DEF Free
<1>2. queue' \in Queues
  BY <1>1, PostedAt
<1>3. JobsOnce(queue') /\ CountsFirst(queue')
  BY <1>1, PostedOnce, PostedCounts DEF Carrying
<1>4. \A x : HasJob(queue', x) => HasJob(q, x) \/ x = job
  BY <1>1, PostedJobs
<1>5. ASSUME NEW x, HasJob(queue, x)'
      PROVE  \/ HasJob(queue, x) /\ (Carrying(x) => x.call # id)
             \/ x.call = id /\ JobWork(x)'
  <2>1. CASE HasJob(q, x)
    BY <2>1 DEF Free
  <2>2. CASE x = job
    BY <2>2
  <2> QED
    BY <1>4, <1>5, <2>1, <2>2
<1>6. ASSUME t \in Threads, Carries(t)', NEW x, HasJob(queue, x)', Carrying(x)
      PROVE  x.call # id
  BY <1>1, <1>4, <1>6
<1> QED
  BY <1>2, <1>3, <1>5, <1>6 DEF JobMoves

\* A thread that has a call makes a step.
LEMMA CarrierMoves ==
    ASSUME MapInv, CallInv, NEW t \in Threads, Carries(t),
           \A u \in Threads \ {t} : pc'[u] = pc[u] /\ op'[u] = op[u],
           Carries(t)' => op'[t].call = op[t].call /\ ThreadWork(t)'
    PROVE  ThreadMoves(t, op[t].call)
  BY DEF ThreadMoves, CallInv, ThreadsOnce

\* Answer adds the only answer, if there is a transport.
LEMMA AnswerIs ==
    ASSUME CallTypes, NEW id \in DOMAIN calls, replies[id] = <<>>, NEW a \in Texts
    PROVE  /\ Answer(id, a) \in Seq(Seq(Texts)) /\ Len(Answer(id, a)) = Len(calls)
           /\ \A i \in DOMAIN calls : i # id => Answer(id, a)[i] = replies[i]
           /\ Answer(id, a)[id] = <<>> \/ Answer(id, a)[id] = <<a>>
<1>1. /\ replies \in Seq(Seq(Texts)) /\ DOMAIN replies = 1 .. Len(replies) /\ DOMAIN calls = 1 .. Len(calls)
      /\ Len(replies) = Len(calls)
  BY DEF CallTypes
<1>2. Append(replies[id], a) = <<a>> /\ <<a>> \in Seq(Texts)
  OBVIOUS
<1>3. PICK s \in Seq(Texts) : s = <<a>>
  BY <1>2
<1>4. CASE transport
  <2>1. Answer(id, a) = [replies EXCEPT ![id] = s]
    BY <1>2, <1>3, <1>4 DEF Answer
  <2> QED
    BY <1>1, <1>3, <2>1
<1>5. CASE ~transport
  BY <1>1, <1>5 DEF Answer
<1> QED
  BY <1>4, <1>5

\* Ran adds the only run, of a counted call.
LEMMA RanIs ==
    ASSUME CallTypes, NEW id \in counted, runs[id] = <<>>, NEW h \in HandlerOrNone \cup CallbackOrNone
    PROVE  /\ Ran(id, h) \in Seq(Seq(RunType)) /\ Len(Ran(id, h)) = Len(calls)
           /\ \A i \in DOMAIN calls : i # id => Ran(id, h)[i] = runs[i]
           /\ Ran(id, h)[id] # <<>> /\ \E r \in RunType : Ran(id, h)[id] = <<r>> /\ r.counted /\ r.invoke = h
<1>1. /\ runs \in Seq(Seq(RunType)) /\ DOMAIN runs = 1 .. Len(runs) /\ DOMAIN calls = 1 .. Len(calls)
      /\ Len(runs) = Len(calls) /\ id \in DOMAIN calls
  BY DEF CallTypes
<1>2. PICK r \in RunType : r = [invoke |-> h, counted |-> id \in counted] /\ r.counted /\ r.invoke = h
  <2>1. PICK b \in BOOLEAN : b = (id \in counted) /\ b
    BY Zenon
  <2>2. LET r == [invoke |-> h, counted |-> b] IN r \in RunType /\ r.invoke = h /\ r.counted = b
    BY Zenon DEF RunType
  <2>3. [invoke |-> h, counted |-> id \in counted] = [invoke |-> h, counted |-> b]
    BY <2>1, Zenon
  <2> QED
    BY <2>1, <2>2, <2>3, Zenon
<1>3. PICK s \in Seq(RunType) : s = <<r>> /\ s # <<>>
  <2>1. <<r>> \in Seq(RunType) /\ <<r>> # <<>>
    OBVIOUS
  <2> QED
    BY <2>1
<1>4. Ran(id, h) = [runs EXCEPT ![id] = Append(runs[id], r)]
  BY <1>2, Zenon DEF Ran
<1>5. Append(runs[id], r) = s
  BY <1>3
<1>6. Ran(id, h) = [runs EXCEPT ![id] = s]
  BY <1>4, <1>5
<1> QED
  BY <1>1, <1>2, <1>3, <1>6

-----------------------------------------------------------------------------
(* The steps of a call                                                     *)

\* The fields of a job.
LEMMA JobFields ==
    ASSUME NEW kind \in {"call", "result", "count", "error"}, NEW id \in Nat, NEW h \in HandlerOrNone \cup CallbackOrNone
    PROVE  /\ Job(kind, id, h) \in JobType
           /\ Job(kind, id, h).kind = kind /\ Job(kind, id, h).call = id /\ Job(kind, id, h).invoke = h
  BY DEF Job, JobType

\* FailCall answers with the error that was found.
LEMMA FailCallKeeps ==
    ASSUME MapInv, CallInv, NEW t \in Threads, FailCall(t)
    PROVE  CallInv'
<1> DEFINE id == op[t].call
<1>1. /\ pc[t] = "failed" /\ Carries(t) /\ ThreadWork(t) /\ op[t].invoke = None
      /\ id \in DOMAIN calls /\ replies[id] = <<>> /\ runs[id] = <<>> /\ calls[id].error # None
  BY DEF FailCall, Carries, CallInv, ThreadWork, Found
<1>2. UNCHANGED <<infos, queue, calls, runs, counted>>
  BY DEF FailCall, map_vars
<1>3. calls[id].error \in Texts
  <2>1. calls \in Seq(CallType)
    BY DEF CallInv, CallTypes
  <2>2. calls[id] \in CallType
    BY <1>1, <2>1
  <2> QED
    BY <2>2 DEF CallType
<1>4. /\ replies' \in Seq(Seq(Texts)) /\ Len(replies') = Len(calls)
      /\ \A i \in DOMAIN calls : i # id => replies'[i] = replies[i]
      /\ replies'[id] # <<>> => replies'[id] = <<calls[id].error>> /\ calls[id].send_return
  <2>1. CASE calls[id].send_return
    <3>1. replies' = Answer(id, calls[id].error)
      BY <2>1 DEF FailCall
    <3> QED
      BY <1>1, <1>3, <2>1, <3>1, AnswerIs DEF CallInv
  <2>2. CASE ~calls[id].send_return
    <3>1. replies' = replies
      BY <2>2 DEF FailCall
    <3> QED
      BY <1>1, <3>1 DEF CallInv, CallTypes
  <2> QED
    BY <2>1, <2>2
<1>5. OthersUntouched(id)
  BY <1>2, <1>4 DEF OthersUntouched
<1>6. ThreadMoves(t, id)
  <2>1. pc' = [pc EXCEPT ![t] = "idle"] /\ op' = [op EXCEPT ![t] = NoOp]
    BY DEF FailCall, Begin
  <2>2. /\ ~Carries(t)'
        /\ \A u \in Threads \ {t} : pc'[u] = pc[u] /\ op'[u] = op[u]
    BY <2>1 DEF Carries, MapInv, MapTypes
  <2> QED
    BY <1>1, <2>2, CarrierMoves
<1>7. JobMoves(t, id)
  BY <1>1, <1>2, FreeOfThread, JobsStay
<1>8. CallTypes' /\ Counting'
  BY <1>2, <1>4 DEF CallInv, CallTypes, Counting
<1>9. CallRight(calls'[id], runs'[id], replies'[id])
  BY <1>1, <1>2, <1>3, <1>4 DEF CallRight
<1> QED
  BY <1>5, <1>6, <1>7, <1>8, <1>9, OneCallMoves

\* IncrementCallCount counts a call once and announces it before it is invoked.
LEMMA IncrementCallCountKeeps ==
    ASSUME MapInv, CallInv, NEW t \in Threads, IncrementCallCount(t)
    PROVE  CallInv'
<1> DEFINE id == op[t].call
           b == op[t].changed
<1>1. /\ pc[t] = "counting" /\ Carries(t) /\ ThreadWork(t) /\ id \notin counted
      /\ id \in DOMAIN calls /\ replies[id] = <<>> /\ runs[id] = <<>> /\ Found(calls[id], op[t].invoke)
  BY DEF IncrementCallCount, Carries, CallInv, ThreadWork
<1>2. UNCHANGED <<op, calls, replies, runs>> /\ counted' = counted \cup {id}
  BY DEF IncrementCallCount
<1>3. OthersUntouched(id)
  BY <1>2 DEF OthersUntouched
<1>4. ThreadMoves(t, id)
  <2>1. pc' = [pc EXCEPT ![t] = IF op[t].invoke = None THEN "failed" ELSE "invoking"]
    BY DEF IncrementCallCount
  <2>2. /\ pc'[t] = IF op[t].invoke = None THEN "failed" ELSE "invoking"
        /\ \A u \in Threads \ {t} : pc'[u] = pc[u] /\ op'[u] = op[u]
    BY <1>2, <2>1 DEF MapInv, MapTypes
  <2>3. ThreadWork(t)'
    BY <1>1, <1>2, <2>2 DEF ThreadWork
  <2> QED
    BY <1>1, <1>2, <2>2, <2>3, CarrierMoves
<1>5. JobMoves(t, id) /\ queue' \in Queues
  <2>1. CASE b = None \/ b.thread = Direct
    <3>1. queue' = queue
      BY <2>1 DEF IncrementCallCount
    <3> QED
      BY <1>1, <3>1, FreeOfThread, JobsStay
  <2>2. CASE ~(b = None \/ b.thread = Direct)
    <3>1. queue' = Posted(queue, b.thread, Job("count", id, b))
      BY <2>2 DEF IncrementCallCount, Post, Posted
    <3>2. b \in CallbackOrNone /\ b # None /\ id \in Nat
      BY <2>2 DEF MapInv, MapTypes, OpType
    <3>3. b.thread \in JobThreads
      BY <2>2, <3>2, ProcMapConstants DEF CallbackOrNone
    <3>4. PICK job \in JobType : job = Job("count", id, b) /\ job.call = id /\ job.kind = "count"
      BY <3>2, JobFields
    <3>5. JobWork(job)' /\ ~Carrying(job)
      BY <1>1, <1>2, <3>4 DEF JobWork, Carrying
    <3>6. queue' = Posted(queue, b.thread, job) /\ Free(queue, id)
      BY <1>1, <3>1, <3>4, FreeOfThread
    <3> QED
      BY <3>3, <3>4, <3>5, <3>6, JobPosted
  <2> QED
    BY <2>1, <2>2
<1>6. CallTypes'
  BY <1>1, <1>2, <1>5 DEF CallInv, CallTypes
<1>7. Counting'
  <2>1. IsFiniteSet(counted) /\ Cardinality(counted) \in Nat
    BY CountedFinite DEF CallInv
  <2>2. Cardinality(counted') = Cardinality(counted) + 1
    BY <1>1, <1>2, <2>1, FS_AddElement
  <2>3. \A i \in DOMAIN infos : infos[i] \in InfoType
    BY DEF MapInv, MapTypes
  <2>4. op[t].info \in DOMAIN infos
    BY <1>1 DEF MapInv, SettingKnown
  <2>5. /\ DOMAIN infos' = DOMAIN infos
        /\ \A i \in DOMAIN infos : infos'[i].count = IF i = op[t].info THEN infos[i].count + 1 ELSE infos[i].count
    <3>1. infos' = [infos EXCEPT ![op[t].info] = [infos[op[t].info] EXCEPT !.count = @ + 1]]
      BY DEF IncrementCallCount
    <3> QED
      BY <2>3, <2>4, <3>1 DEF InfoType
  <2>6. \A i \in DOMAIN infos : infos[i].count \in Nat /\ infos[i].count =< Cardinality(counted)
    BY <2>3, InfoFields DEF CallInv, Counting
  <2> QED
    BY <2>1, <2>2, <2>5, <2>6 DEF Counting
<1>8. CallRight(calls'[id], runs'[id], replies'[id])
  BY <1>1, <1>2 DEF CallRight
<1> QED
  BY <1>3, <1>4, <1>5, <1>6, <1>7, <1>8, OneCallMoves

\* Invoke runs the handler or hands the call over to its thread.
LEMMA InvokeKeeps ==
    ASSUME MapInv, CallInv, NEW t \in Threads, Invoke(t)
    PROVE  CallInv'
<1> DEFINE id == op[t].call
           h == op[t].invoke
<1>1. /\ pc[t] = "invoking" /\ Carries(t) /\ ThreadWork(t) /\ id \in counted /\ h # None
      /\ id \in DOMAIN calls /\ replies[id] = <<>> /\ runs[id] = <<>> /\ Found(calls[id], h)
      /\ calls[id].error = None /\ Matches(calls[id].ret, h)
  BY DEF Invoke, InvokeReady, Carries, CallInv, ThreadWork, Found
<1>2. UNCHANGED <<infos, calls, replies, counted>>
  BY DEF Invoke, map_vars
<1>3. h \in Handlers /\ h \in HandlerOrNone \cup CallbackOrNone /\ id \in Nat
  BY <1>1 DEF MapInv, MapTypes, OpType, HandlerOrNone
<1>4. CASE h.thread = Direct
  <2>1. runs' = Ran(id, h) /\ pc' = [pc EXCEPT ![t] = "running"] /\ UNCHANGED <<op, queue>>
    BY <1>4 DEF Invoke
  <2>2. /\ runs' \in Seq(Seq(RunType)) /\ Len(runs') = Len(calls)
        /\ \A i \in DOMAIN calls : i # id => runs'[i] = runs[i]
        /\ runs'[id] # <<>> /\ \E r \in RunType : runs'[id] = <<r>> /\ r.counted /\ r.invoke = h
    BY <1>1, <1>3, <2>1, RanIs DEF CallInv
  <2>3. OthersUntouched(id)
    BY <1>2, <2>2 DEF OthersUntouched
  <2>4. pc'[t] = "running" /\ \A u \in Threads \ {t} : pc'[u] = pc[u] /\ op'[u] = op[u]
    BY <2>1 DEF MapInv, MapTypes
  <2>5. ThreadWork(t)'
    BY <1>1, <1>2, <2>1, <2>2, <2>4 DEF ThreadWork
  <2>6. ThreadMoves(t, id)
    BY <1>1, <2>1, <2>4, <2>5, CarrierMoves
  <2>7. JobMoves(t, id)
    BY <1>1, <2>1, FreeOfThread, JobsStay
  <2>8. CallTypes' /\ Counting'
    BY <1>2, <2>1, <2>2 DEF CallInv, CallTypes, Counting
  <2>9. CallRight(calls'[id], runs'[id], replies'[id])
    <3>1. PICK r \in RunType : runs'[id] = <<r>> /\ r.counted /\ r.invoke = h
      BY <2>2
    <3> QED
      BY <1>1, <1>2, <3>1, Zenon DEF CallRight
  <2> QED
    BY <2>3, <2>6, <2>7, <2>8, <2>9, OneCallMoves
<1>5. CASE h.thread # Direct
  <2>1. /\ queue' = Posted(queue, h.thread, Job("call", id, h)) /\ runs' = runs
        /\ pc' = [pc EXCEPT ![t] = "idle"] /\ op' = [op EXCEPT ![t] = NoOp]
    BY <1>5 DEF Invoke, Post, Posted, Begin
  <2>2. h.thread \in JobThreads
    BY <1>3, <1>5, ProcMapConstants
  <2>3. OthersUntouched(id)
    BY <1>2, <2>1 DEF OthersUntouched
  <2>4. ~Carries(t)' /\ \A u \in Threads \ {t} : pc'[u] = pc[u] /\ op'[u] = op[u]
    BY <2>1 DEF MapInv, MapTypes, Carries
  <2>5. ThreadMoves(t, id)
    BY <1>1, <2>4, CarrierMoves
  <2>6. PICK job \in JobType : job = Job("call", id, h) /\ job.call = id /\ job.kind = "call" /\ job.invoke = h
    BY <1>3, JobFields
  <2>7. JobWork(job)'
    <3>1. /\ id \in DOMAIN calls' /\ runs'[id] = <<>> /\ replies'[id] = <<>> /\ id \in counted'
          /\ calls'[id] = calls[id]
      BY <1>1, <1>2, <2>1
    <3> QED
      BY <1>1, <2>6, <3>1 DEF JobWork
  <2>8. JobMoves(t, id) /\ queue' \in Queues
    <3>1. queue' = Posted(queue, h.thread, job) /\ Free(queue, id)
      BY <1>1, <2>1, <2>6, FreeOfThread
    <3> QED
      BY <2>2, <2>4, <2>6, <2>7, <3>1, JobPosted
  <2>9. CallTypes' /\ Counting'
    BY <1>2, <2>1, <2>8 DEF CallInv, CallTypes, Counting
  <2>10. CallRight(calls'[id], runs'[id], replies'[id])
    BY <1>1, <1>2, <2>1 DEF CallRight
  <2> QED
    BY <2>3, <2>5, <2>8, <2>9, <2>10, OneCallMoves
<1> QED
  BY <1>4, <1>5

\* Calls are numbered from 1.
LEMMA CallIds ==
    ASSUME CallTypes
    PROVE  DOMAIN calls \subseteq Nat /\ 0 \notin DOMAIN calls /\ Len(calls) \in Nat /\ Len(calls) + 1 \notin DOMAIN calls
<1>1. DOMAIN calls = 1 .. Len(calls) /\ Len(calls) \in Nat
  BY DEF CallTypes
<1> QED
  BY <1>1

\* A result is dropped, written at once or posted to a job thread.
LEMMA ResultSent ==
    ASSUME NEW id \in Nat \ {0}, NEW jobs, SendResult(id, jobs)
    PROVE  \/ ~calls[id].send_return /\ queue' = jobs /\ replies' = replies
           \/ calls[id].send_return /\ queue' = jobs /\ replies' = Answer(id, "return")
           \/ /\ calls[id].send_return /\ replies' = replies
              /\ \E j \in JobThreads : queue' = Posted(jobs, j, Job("result", id, None))
<1>1. CASE calls[id].send_return
  <2>1. CalcRespondId(id) # 0
    BY <1>1 DEF CalcRespondId
  <2> QED
    BY <1>1, <2>1, Zenon DEF SendResult, Posted
<1>2. CASE ~calls[id].send_return
  <2>1. CalcRespondId(id) = 0
    BY <1>2 DEF CalcRespondId
  <2> QED
    BY <1>2, <2>1, Zenon DEF SendResult
<1> QED
  BY <1>1, <1>2

\* The result of a call whose handler has run is right.
LEMMA ResultRight ==
    ASSUME NEW c, NEW run, run # <<>>, CallRight(c, run, <<>>), NEW reply,
           reply # <<>> => c.send_return /\ reply = <<"return">>
    PROVE  CallRight(c, run, reply)
<1>1. "return" \in Texts \ {None}
  BY ProcMapNames DEF Texts
<1> QED
  BY <1>1 DEF CallRight

\* HandlerReturns answers, posts the result or drops it.
LEMMA HandlerReturnsKeeps ==
    ASSUME MapInv, CallInv, NEW t \in Threads, HandlerReturns(t)
    PROVE  CallInv'
<1> DEFINE id == op[t].call
<1>1. /\ pc[t] = "running" /\ Carries(t) /\ ThreadWork(t) /\ id \in DOMAIN calls /\ replies[id] = <<>> /\ runs[id] # <<>>
      /\ CallRight(calls[id], runs[id], <<>>)
  BY DEF HandlerReturns, Carries, CallInv, ThreadWork
<1>2. UNCHANGED <<infos, calls, runs, counted>>
  BY DEF HandlerReturns, map_vars
<1>3. id \in Nat /\ id # 0 /\ "return" \in Texts
  BY <1>1, CallIds DEF CallInv, Texts
<1>4. ~Carries(t)' /\ \A u \in Threads \ {t} : pc'[u] = pc[u] /\ op'[u] = op[u]
  BY DEF HandlerReturns, Begin, MapInv, MapTypes, Carries
<1>5. ThreadMoves(t, id)
  BY <1>1, <1>4, CarrierMoves
<1>6. Free(queue, id)
  BY <1>1, FreeOfThread
<1>7. Counting'
  BY <1>2 DEF CallInv, Counting
<1>11. SendResult(id, queue)
  BY DEF HandlerReturns
<1>8. CASE ~calls[id].send_return /\ queue' = queue /\ replies' = replies
  <2>1. UNCHANGED <<queue, replies>>
    BY <1>8
  <2>2. JobMoves(t, id)
    BY <1>6, <2>1, JobsStay
  <2>3. OthersUntouched(id) /\ CallTypes'
    BY <1>2, <2>1 DEF OthersUntouched, CallInv, CallTypes
  <2>4. CallRight(calls'[id], runs'[id], replies'[id])
    BY <1>1, <1>2, <2>1
  <2> QED
    BY <1>5, <1>7, <2>2, <2>3, <2>4, OneCallMoves
<1>9. CASE calls[id].send_return /\ queue' = queue /\ replies' = Answer(id, "return")
  <2>1. queue' = queue /\ replies' = Answer(id, "return")
    BY <1>9
  <2>2. /\ replies' \in Seq(Seq(Texts)) /\ Len(replies') = Len(calls)
        /\ \A i \in DOMAIN calls : i # id => replies'[i] = replies[i]
        /\ replies'[id] = <<>> \/ replies'[id] = <<"return">>
    BY <1>1, <1>3, <2>1, AnswerIs DEF CallInv
  <2>3. JobMoves(t, id)
    BY <1>6, <2>1, JobsStay
  <2>4. OthersUntouched(id) /\ CallTypes'
    BY <1>2, <2>1, <2>2 DEF OthersUntouched, CallInv, CallTypes
  <2>5. CallRight(calls'[id], runs'[id], replies'[id])
    BY <1>1, <1>2, <1>9, <2>2, ResultRight, Zenon
  <2> QED
    BY <1>5, <1>7, <2>3, <2>4, <2>5, OneCallMoves
<1>10. CASE /\ calls[id].send_return /\ replies' = replies
             /\ \E j \in JobThreads : queue' = Posted(queue, j, Job("result", id, None))
  <2>1. PICK j \in JobThreads : queue' = Posted(queue, j, Job("result", id, None))
    BY <1>10
  <2>2. queue' = Posted(queue, j, Job("result", id, None)) /\ replies' = replies
    BY <1>10, <2>1
  <2>3. PICK job \in JobType : job = Job("result", id, None) /\ job.kind = "result" /\ job.call = id
    BY <1>3, JobFields DEF HandlerOrNone
  <2>4. JobWork(job)'
    BY <1>1, <1>2, <1>10, <2>2, <2>3, Zenon DEF JobWork
  <2>5. JobMoves(t, id) /\ queue' \in Queues
    BY <1>4, <1>6, <2>1, <2>2, <2>3, <2>4, JobPosted
  <2>6. OthersUntouched(id) /\ CallTypes'
    BY <1>2, <2>2, <2>5 DEF OthersUntouched, CallInv, CallTypes
  <2>7. CallRight(calls'[id], runs'[id], replies'[id])
    BY <1>1, <1>2, <2>2
  <2> QED
    BY <1>5, <1>7, <2>5, <2>6, <2>7, OneCallMoves
<1> QED
  BY <1>3, <1>8, <1>9, <1>10, <1>11, ResultSent, Zenon

\* RunJob: a count, an error, a call with its result, or a result.
LEMMA RunJobKeeps ==
    ASSUME MapInv, CallInv, NEW j \in JobThreads, RunJob(j)
    PROVE  CallInv'
<1>1. PICK job \in JobType : job = Head(queue[j]) /\ HasJob(queue, job) /\ JobWork(job)
  BY FreeOfJob DEF RunJob, CallInv
<1>2. PICK id : /\ id = IF Carrying(job) THEN job.call ELSE 0
                /\ Free(Taken(queue, j), id)
  BY <1>1, FreeOfJob DEF RunJob
<1>3. UNCHANGED <<infos, pc, op, calls, counted>>
  BY DEF RunJob, map_vars
<1>4. job.call \in DOMAIN calls /\ job.call \in Nat /\ job.call # 0 /\ 0 \notin DOMAIN calls
  BY <1>1, CallIds DEF JobWork, CallInv
<1>5. ThreadMoves(None, id)
  <2>1. \A u \in Threads : Carries(u) => op[u].call \in DOMAIN calls
    BY DEF CallInv, ThreadWork
  <2>2. \A u \in Threads : Carries(u) => op[u].call # id
    BY <1>1, <1>2, <1>4, <2>1 DEF CallInv, ThreadOrJob
  <2> QED
    BY <1>3, <2>2, ProcMapNames DEF ThreadMoves
<1>6. Counting'
  BY <1>3 DEF CallInv, Counting
<1>7. CASE job.kind = "call"
  <2>1. /\ id = job.call /\ runs[id] = <<>> /\ replies[id] = <<>> /\ id \in counted
        /\ job.invoke # None /\ calls[id].error = None /\ Matches(calls[id].ret, job.invoke)
    BY <1>1, <1>2, <1>7 DEF JobWork, Carrying, Found
  <2>2. runs' = Ran(id, job.invoke) /\ SendResult(id, Taken(queue, j))
    BY <1>1, <1>7, <2>1 DEF RunJob, Taken
  <2>3. job.invoke \in HandlerOrNone \cup CallbackOrNone
    BY DEF JobType
  <2>4. /\ runs' \in Seq(Seq(RunType)) /\ Len(runs') = Len(calls)
        /\ \A i \in DOMAIN calls : i # id => runs'[i] = runs[i]
        /\ runs'[id] # <<>> /\ \E r \in RunType : runs'[id] = <<r>> /\ r.counted /\ r.invoke = job.invoke
    BY <2>1, <2>2, <2>3, RanIs DEF CallInv
  <2>5. CallRight(calls'[id], runs'[id], <<>>)
    <3>1. PICK r \in RunType : runs'[id] = <<r>> /\ r.counted /\ r.invoke = job.invoke
      BY <2>4
    <3> QED
      BY <1>3, <2>1, <3>1, Zenon DEF CallRight
  <2>6. CASE ~calls[id].send_return /\ queue' = Taken(queue, j) /\ replies' = replies
    <3>1. JobMoves(None, id) /\ queue' \in Queues
      BY <1>2, <2>6, JobsStay
    <3>2. OthersUntouched(id) /\ CallTypes'
      BY <1>3, <2>4, <2>6, <3>1 DEF OthersUntouched, CallInv, CallTypes
    <3>3. replies'[id] = <<>>
      BY <2>1, <2>6
    <3> QED
      BY <1>5, <1>6, <2>5, <3>1, <3>2, <3>3, OneCallMoves
  <2>7. CASE calls[id].send_return /\ queue' = Taken(queue, j) /\ replies' = Answer(id, "return")
    <3>1. JobMoves(None, id) /\ queue' \in Queues
      BY <1>2, <2>7, JobsStay
    <3>2. "return" \in Texts
      BY DEF Texts
    <3>3. /\ replies' \in Seq(Seq(Texts)) /\ Len(replies') = Len(calls)
          /\ \A i \in DOMAIN calls : i # id => replies'[i] = replies[i]
          /\ replies'[id] = <<>> \/ replies'[id] = <<"return">>
      BY <1>4, <2>1, <2>7, <3>2, AnswerIs DEF CallInv
    <3>4. OthersUntouched(id) /\ CallTypes'
      BY <1>3, <2>4, <3>1, <3>3 DEF OthersUntouched, CallInv, CallTypes
    <3>5. CallRight(calls'[id], runs'[id], replies'[id])
      BY <1>3, <2>4, <2>5, <2>7, <3>3, ResultRight, Zenon
    <3> QED
      BY <1>5, <1>6, <3>1, <3>4, <3>5, OneCallMoves
  <2>8. CASE /\ calls[id].send_return /\ replies' = replies
             /\ \E l \in JobThreads : queue' = Posted(Taken(queue, j), l, Job("result", id, None))
    <3>1. PICK l \in JobThreads : queue' = Posted(Taken(queue, j), l, Job("result", id, None))
      BY <2>8
    <3>2. PICK result \in JobType : result = Job("result", id, None) /\ result.kind = "result" /\ result.call = id
      BY <1>4, <2>1, JobFields DEF HandlerOrNone
    <3>3. JobWork(result)'
      BY <1>3, <1>4, <2>1, <2>4, <2>8, <3>2, Zenon DEF JobWork
    <3>4. JobMoves(None, id) /\ queue' \in Queues
      BY <1>2, <3>1, <3>2, <3>3, ProcMapNames, JobPosted
    <3>5. OthersUntouched(id) /\ CallTypes'
      BY <1>3, <2>4, <2>8, <3>4 DEF OthersUntouched, CallInv, CallTypes
    <3>6. replies'[id] = <<>>
      BY <2>1, <2>8
    <3> QED
      BY <1>5, <1>6, <2>5, <3>4, <3>5, <3>6, OneCallMoves
  <2> QED
    BY <1>4, <2>1, <2>2, <2>6, <2>7, <2>8, ResultSent, Zenon
<1>8. CASE job.kind # "call"
  <2>1. queue' = Taken(queue, j) /\ runs' = runs
    BY <1>1, <1>8 DEF RunJob, Taken
  <2>2. JobMoves(None, id) /\ queue' \in Queues
    BY <1>2, <2>1, JobsStay
  <2>3. CASE job.kind = "result"
    <3>1. /\ id = job.call /\ id \in DOMAIN calls /\ runs[id] # <<>> /\ replies[id] = <<>> /\ calls[id].send_return
          /\ CallRight(calls[id], runs[id], <<>>)
      BY <1>1, <1>2, <2>3 DEF JobWork, Carrying, CallInv
    <3>2. replies' = Answer(id, "return") /\ "return" \in Texts
      BY <1>1, <2>3, <3>1 DEF RunJob, Texts
    <3>3. /\ replies' \in Seq(Seq(Texts)) /\ Len(replies') = Len(calls)
          /\ \A i \in DOMAIN calls : i # id => replies'[i] = replies[i]
          /\ replies'[id] = <<>> \/ replies'[id] = <<"return">>
      BY <3>1, <3>2, AnswerIs DEF CallInv
    <3>4. OthersUntouched(id) /\ CallTypes'
      BY <1>3, <2>1, <2>2, <3>3 DEF OthersUntouched, CallInv, CallTypes
    <3>5. CallRight(calls'[id], runs'[id], replies'[id])
      BY <1>3, <2>1, <3>1, <3>3, ResultRight, Zenon
    <3> QED
      BY <1>5, <1>6, <2>2, <3>4, <3>5, OneCallMoves
  <2>4. CASE job.kind # "result"
    <3>1. id = 0
      BY <1>2, <1>8, <2>4 DEF Carrying
    <3>2. replies' = replies
      BY <1>1, <1>8, <2>4 DEF RunJob
    <3>3. OthersUntouched(id) /\ CallTypes'
      BY <1>3, <2>1, <2>2, <3>2 DEF OthersUntouched, CallInv, CallTypes
    <3>4. id \notin DOMAIN calls'
      BY <1>3, <1>4, <3>1
    <3> QED
      BY <1>5, <1>6, <2>2, <3>3, <3>4, OneCallMoves
  <2> QED
    BY <2>3, <2>4
<1> QED
  BY <1>7, <1>8

\* InvokeLocal begins a call with a new id.
LEMMA InvokeLocalKeeps ==
    ASSUME MapInv, CallInv, NEW t \in Threads, NEW m \in Maps, NEW k \in Keys, NEW ret \in Returns \cup {AnyReturn},
           NEW send_return \in BOOLEAN, InvokeLocal(t, m, k, ret, send_return)
    PROVE  CallInv'
<1> DEFINE i == m_name_procs[m][k]
           id == Len(calls) + 1
           h == IF i = 0 THEN None ELSE infos[i].invoke
           found == h # None /\ Matches(ret, h)
           error == IF found THEN None
                    ELSE IF h = None THEN "no_matching_call_name_parameters" ELSE "no_matching_call_return_type"
           c == [key |-> k, ret |-> ret, send_return |-> send_return, error |-> error]
<1>1. id \in Nat /\ id \notin DOMAIN calls /\ 0 \notin DOMAIN calls /\ DOMAIN calls = 1 .. Len(calls) /\ id =< MaxCalls /\ id \in 1 .. id
  BY CallIds DEF CallInv, CallTypes, InvokeLocal
<1>2. PICK o : /\ o = [NoOp EXCEPT !.map = m, !.info = i, !.invoke = IF found THEN h ELSE None,
                                   !.call = id, !.changed = IF i = 0 THEN None ELSE m_OnCallCountChanged[m]]
               /\ o.call = id /\ o.invoke = IF found THEN h ELSE None
  <2>1. PICK v : v = IF found THEN h ELSE None
    OBVIOUS
  <2>2. PICK b : b = IF i = 0 THEN None ELSE m_OnCallCountChanged[m]
    OBVIOUS
  <2>3. LET o == [NoOp EXCEPT !.map = m, !.info = i, !.invoke = v, !.call = id, !.changed = b]
        IN  o.call = id /\ o.invoke = v
    BY DEF NoOp
  <2> QED
    BY <2>1, <2>2, <2>3, Zenon
<1>3. /\ ~Carries(t) /\ pc' = [pc EXCEPT ![t] = IF i = 0 THEN "failed" ELSE "counting"] /\ op' = [op EXCEPT ![t] = o]
      /\ calls' = Append(calls, c) /\ replies' = Append(replies, <<>>) /\ runs' = Append(runs, <<>>)
      /\ UNCHANGED <<infos, counted>>
      /\ queue' = queue \/ ReportError(m, i, id)
  BY <1>2 DEF InvokeLocal, Begin, Carries, map_vars
<1>4. error \in Texts /\ (~found => error # None)
  BY ProcMapNames DEF Texts
<1>5. c \in CallType /\ c.error = error /\ c.ret = ret
  <2> HIDE DEF error
  <2> QED
    BY <1>4, Zenon DEF CallType
<1>6. PICK d \in CallType : d = c /\ d.error = error /\ d.ret = ret
  BY <1>5
<1> HIDE DEF c
<1>7. /\ calls' \in Seq(CallType) /\ Len(calls') = id /\ DOMAIN calls' = 1 .. id
      /\ calls'[id] = d /\ \A n \in DOMAIN calls : calls'[n] = calls[n]
  BY <1>1, <1>3, <1>6 DEF CallInv, CallTypes
<1>8. /\ replies' \in Seq(Seq(Texts)) /\ Len(replies') = id
      /\ replies'[id] = <<>> /\ \A n \in DOMAIN calls : replies'[n] = replies[n]
  <2>0. <<>> \in Seq(Texts)
    OBVIOUS
  <2>1. PICK e \in Seq(Texts) : e = <<>>
    BY <2>0
  <2>2. replies \in Seq(Seq(Texts)) /\ Len(replies) = Len(calls) /\ DOMAIN replies = DOMAIN calls
    BY <1>1 DEF CallInv, CallTypes
  <2> QED
    BY <1>1, <1>3, <2>1, <2>2
<1>9. /\ runs' \in Seq(Seq(RunType)) /\ Len(runs') = id
      /\ runs'[id] = <<>> /\ \A n \in DOMAIN calls : runs'[n] = runs[n]
  <2>0. <<>> \in Seq(RunType)
    OBVIOUS
  <2>1. PICK e \in Seq(RunType) : e = <<>>
    BY <2>0
  <2>2. runs \in Seq(Seq(RunType)) /\ Len(runs) = Len(calls) /\ DOMAIN runs = DOMAIN calls
    BY <1>1 DEF CallInv, CallTypes
  <2> QED
    BY <1>1, <1>3, <2>1, <2>2
<1>10. Found(d, o.invoke)
  BY <1>2, <1>4, <1>6, Zenon DEF Found
<1>11. counted \subseteq DOMAIN calls /\ id \notin counted
  BY <1>1 DEF CallInv, CallTypes
<1> HIDE DEF id, error, found
<1>12. OthersUntouched(id)
  BY <1>1, <1>3, <1>7, <1>8, <1>9 DEF OthersUntouched, id
<1>13. ThreadMoves(t, id)
  <2>1. \A u \in Threads \ {t} : pc'[u] = pc[u] /\ op'[u] = op[u]
    BY <1>3 DEF MapInv, MapTypes
  <2>2. \A u \in Threads : Carries(u) => op[u].call # id
    BY <1>1 DEF CallInv, ThreadWork
  <2>3. pc'[t] = (IF i = 0 THEN "failed" ELSE "counting") /\ op'[t] = o
    BY <1>3 DEF MapInv, MapTypes
  <2>4. i = 0 => o.invoke = None
    BY <1>2 DEF found
  <2>5. id \in DOMAIN calls'
    BY <1>1, <1>7
  <2>6. ThreadWork(t)'
    <3>1. pc'[t] = "counting" \/ (pc'[t] = "failed" /\ o.invoke = None)
      BY <2>3, <2>4
    <3>2. /\ op'[t].call = id /\ op'[t].invoke = o.invoke /\ replies'[id] = <<>> /\ runs'[id] = <<>>
          /\ Found(calls'[id], op'[t].invoke) /\ id \notin counted'
      BY <1>2, <1>3, <1>7, <1>8, <1>9, <1>10, <1>11, <2>3
    <3> QED
      BY <2>5, <3>1, <3>2 DEF ThreadWork
  <2> QED
    BY <1>2, <2>1, <2>2, <2>3, <2>6 DEF ThreadMoves
<1>14. Free(queue, id)
  <2>1. \A x : HasJob(queue, x) => x.call # id
    BY <1>1 DEF CallInv, JobWork
  <2> QED
    BY <2>1 DEF Free, CallInv, CallTypes
<1>15. JobMoves(t, id) /\ queue' \in Queues
  <2>1. CASE queue' = queue
    BY <1>14, <2>1, JobsStay
  <2>2. CASE queue' # queue
    <3>0. PICK b : b = IF i = 0 THEN m_OnInvalidRemoteCall[m] ELSE None
      OBVIOUS
    <3>1. b # None /\ b.thread # Direct /\ queue' = Posted(queue, b.thread, Job("error", id, b))
      BY <1>3, <2>2, <3>0 DEF ReportError, Post, Posted
    <3>2. b \in Callbacks
      BY <3>0, <3>1 DEF MapInv, MapTypes, CallbackOrNone
    <3>3. b.thread \in JobThreads
      BY <3>1, <3>2, ProcMapConstants
    <3>4. PICK job \in JobType : job = Job("error", id, b) /\ job.kind = "error" /\ job.call = id
      BY <1>1, <3>2, JobFields DEF CallbackOrNone
    <3>5. JobWork(job)' /\ ~Carrying(job)
      BY <1>1, <1>7, <3>4 DEF JobWork, Carrying
    <3> QED
      BY <1>14, <3>1, <3>3, <3>4, <3>5, JobPosted
  <2> QED
    BY <2>1, <2>2
<1>16. CallTypes'
  BY <1>1, <1>3, <1>7, <1>8, <1>9, <1>11, <1>15 DEF CallTypes
<1>17. Counting'
  BY <1>3 DEF CallInv, Counting
<1>18. CallRight(calls'[id], runs'[id], replies'[id])
  BY <1>8, <1>9 DEF CallRight
<1> QED
  BY <1>12, <1>13, <1>15, <1>16, <1>17, <1>18, OneCallMoves

-----------------------------------------------------------------------------
(* Every call is run and answered once                                     *)

\* No calls.
LEMMA CallInvInit == ASSUME Init PROVE CallInv
<1>1. CallTypes
  BY ProcMapConstants DEF Init, CallTypes, Queues
<1>2. ThreadsOnce /\ ThreadOrJob /\ \A t \in Threads : ~Carries(t)
  BY DEF Init, ThreadsOnce, ThreadOrJob, Carries
<1>3. JobsOnce(queue) /\ CountsFirst(queue) /\ \A job : ~HasJob(queue, job)
  BY DEF Init, JobsOnce, CountsFirst, HasJob
<1>4. Counting
  BY DEF Init, Counting
<1> QED
  BY <1>1, <1>2, <1>3, <1>4 DEF CallInv, Init

\* The invariant of the calls is inductive, given that of the maps.
LEMMA CallStep == MapInv /\ CallInv /\ [Next]_vars => CallInv'
<1> SUFFICES ASSUME MapInv, CallInv, [Next]_vars
             PROVE  CallInv'
  OBVIOUS
<1>1. CASE \E t \in Threads : SetInvoke(t)
  BY <1>1, SetInvokeCalls, CallFrameKeeps
<1>2. CASE \E t \in Threads : AddAllProcs_Copy(t)
  BY <1>2, CopyCalls, CallFrameKeeps
<1>3. CASE \E t \in Threads : IncrementCallCount(t)
  BY <1>3, IncrementCallCountKeeps
<1>4. CASE \E t \in Threads : FailCall(t)
  BY <1>4, FailCallKeeps
<1>5. CASE \E t \in Threads : Invoke(t)
  BY <1>5, InvokeKeeps
<1>6. CASE \E t \in Threads : HandlerReturns(t)
  BY <1>6, HandlerReturnsKeeps
<1>7. CASE \E t \in Threads : EndGuard(t)
  <2>1. UNCHANGED <<infos, pc, op, queue, call_vars>>
    BY <1>7, Zenon DEF EndGuard, Swap
  <2> QED
    BY <2>1, SameCalls, CallFrameKeeps
<1>8. CASE \E t \in Threads, m \in Maps : Register(t, m, Keys, Handlers, Callbacks)
  BY <1>8, RegisterCalls, CallFrameKeeps
<1>9. CASE \E t \in Threads, m \in Maps : Receive(t, m, Keys)
  BY <1>9, InvokeLocalKeeps DEF Receive
<1>10. CASE \E t \in Threads, pair \in Copies : AddAllProcs(t, pair[1], pair[2])
  BY <1>10, AddAllProcsCalls, CallFrameKeeps
<1>11. CASE \E j \in JobThreads : RunJob(j)
  BY <1>11, RunJobKeeps
<1>12. CASE ExpireTransport
  BY <1>12, SameCalls, CallFrameKeeps DEF ExpireTransport, map_vars
<1>13. CASE UNCHANGED vars
  BY <1>13, SameCalls, CallFrameKeeps DEF vars, map_vars
<1> QED
  BY <1>1, <1>2, <1>3, <1>4, <1>5, <1>6, <1>7, <1>8, <1>9, <1>10, <1>11, <1>12, <1>13 DEF Next, Step

\* For any number of threads and calls, a call is with one thread or in one job at
\* a time, with what was found for it.
THEOREM CallInvAlways == Spec => []CallInv
<1>1. Init => CallInv
  BY CallInvInit
<1> QED
  BY <1>1, CallStep, MapInvAlways, PTL DEF Spec

\* The invariant of the calls implies CalledOnce.
LEMMA CallsOnce == ASSUME CallInv PROVE CalledOnce
<1>1. ASSUME NEW id \in DOMAIN calls
      PROVE  LET c == calls[id]
             IN  /\ Len(runs[id]) =< 1 /\ Len(replies[id]) =< 1
                 /\ \A n \in DOMAIN runs[id] : runs[id][n].counted /\ c.error = None /\ Matches(c.ret, runs[id][n].invoke)
                 /\ \A n \in DOMAIN replies[id] :
                     /\ c.send_return
                     /\ replies[id][n] = IF runs[id] # <<>> THEN "return" ELSE c.error
                     /\ replies[id][n] # None
  <2> DEFINE c == calls[id]
  <2>1. CallRight(c, runs[id], replies[id])
    BY DEF CallInv
  <2>2. Len(runs[id]) =< 1
        /\ \A n \in DOMAIN runs[id] : runs[id][n].counted /\ c.error = None /\ Matches(c.ret, runs[id][n].invoke)
    <3>1. CASE runs[id] = <<>>
      BY <3>1
    <3>2. CASE runs[id] # <<>>
      <4>1. PICK r \in RunType : runs[id] = <<r>> /\ r.counted /\ c.error = None /\ Matches(c.ret, r.invoke)
        BY <2>1, <3>2 DEF CallRight
      <4>2. Len(runs[id]) = 1 /\ \A n \in DOMAIN runs[id] : runs[id][n] = r
        BY <4>1
      <4>3. Len(runs[id]) =< 1
        BY <4>2
      <4> QED
        BY <4>1, <4>2, <4>3, Zenon
    <3> QED
      BY <3>1, <3>2
  <2>3. Len(replies[id]) =< 1
        /\ \A n \in DOMAIN replies[id] :
            c.send_return /\ replies[id][n] # None /\ replies[id][n] = IF runs[id] # <<>> THEN "return" ELSE c.error
    <3>1. CASE replies[id] = <<>>
      BY <3>1
    <3>2. CASE replies[id] # <<>>
      <4>1. PICK a \in Texts \ {None} : c.send_return /\ replies[id] = <<a>> /\ a = IF runs[id] # <<>> THEN "return" ELSE c.error
        BY <2>1, <3>2 DEF CallRight
      <4>2. Len(replies[id]) = 1 /\ \A n \in DOMAIN replies[id] : replies[id][n] = a
        BY <4>1
      <4>3. Len(replies[id]) =< 1 /\ a # None
        BY <4>1, <4>2
      <4> QED
        BY <4>1, <4>2, <4>3, Zenon
    <3> QED
      BY <3>1, <3>2
  <2> QED
    BY <2>2, <2>3, Zenon
<1>2. AnsweredOnce
  BY <1>1, Zenon DEF AnsweredOnce
<1>3. DOMAIN runs = DOMAIN calls
  BY DEF CallInv, CallTypes
<1>4. CountedFirst
  BY <1>1, <1>3, Zenon DEF CountedFirst, CallInv, CountsFirst
<1> QED
  BY <1>2, <1>4 DEF CalledOnce

\* CalledOnce: a call is counted, run and answered in that order, each at most
\* once, with any number of threads at the same calls, and job threads that
\* take it over (InvokeLocal, CountJob, CallJob, ResultJob).
THEOREM CallsCorrect == Spec => []CalledOnce
<1>1. CallInv => CalledOnce
  BY CallsOnce
<1> QED
  BY <1>1, CallInvAlways, PTL

\* Both together imply the types, with the bound on counts.
LEMMA Typed == ASSUME MapInv, CallInv PROVE TypeOK
<1>1. infos \in Seq(InfoType) /\ m_name_procs \in [Maps -> [Keys -> Nat]] /\ DOMAIN infos = 1 .. Len(infos) /\ Len(infos) \in Nat
  BY DEF MapInv, MapTypes
<1>2. ASSUME NEW i \in DOMAIN infos
      PROVE  infos[i].key \in Keys /\ infos[i].invoke \in Handlers \cup {None} /\ infos[i].count \in 0 .. MaxCalls
  <2>1. infos[i] \in InfoType
    BY <1>1
  <2>2. infos[i].key \in Keys /\ infos[i].invoke \in Handlers \cup {None} /\ infos[i].count \in Nat
    BY <2>1, InfoFields DEF HandlerOrNone
  <2>3. infos[i].count =< Cardinality(counted) /\ Cardinality(counted) =< MaxCalls /\ Cardinality(counted) \in Nat
    BY CountedFinite DEF CallInv, Counting
  <2>4. MaxCalls \in Nat
    BY ProcMapConstants
  <2> QED
    BY <2>2, <2>3, <2>4
<1>3. m_name_procs \in [Maps -> [Keys -> 0 .. Len(infos)]]
  <2>1. \A m \in Maps, k \in Keys : m_name_procs[m][k] \in 0 .. Len(infos)
    BY <1>1 DEF MapInv, EntriesExist
  <2> QED
    BY <1>1, <2>1
<1> QED
  BY <1>2, <1>3 DEF TypeOK, MapInv, MapTypes, EntriesExist, CallbackOrNone, Labels

\* MapsConsistent: for any number of maps, procedures, owners and threads an
\* entry is a CallInfo that exists under its key, nothing of a cleared tag can be
\* found again, and no two threads wait for each other's map, if maps are copied
\* one way (AddAllProcs, ClearProcsWithTag).
THEOREM MapsCorrect ==
    ASSUME CopiedOneWay
    PROVE  Spec => []MapsConsistent
<1>1. MapInv /\ CallInv => MapsConsistent
  BY Typed, ClearedTags, NoCircle DEF MapsConsistent
<1> QED
  BY <1>1, MapInvAlways, CallInvAlways, PTL
=============================================================================
