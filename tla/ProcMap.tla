------------------------------ MODULE ProcMap ------------------------------
(***************************************************************************)
(* ProcMap and MAssIpcCall::Internals::InvokeLocal: how handlers are        *)
(* registered, shared and removed, and how an incoming call is matched,     *)
(* counted, handed to the thread of its handler and answered.               *)
(*                                                                         *)
(* A key is a procedure name with its parameter types.  A handler           *)
(* (InvokeRemoteBase) is a record of its return type, its tag, the thread   *)
(* it runs in and whether it is callable.  CallInfoImpl objects have        *)
(* numbers, because maps share them after AddAllProcs.  A critical section  *)
(* is one step unless it looks at what another map's lock does not guard.   *)
(***************************************************************************)
EXTENDS Integers, Sequences, FiniteSets

CONSTANTS Threads,        \* threads that register handlers or process calls
          JobThreads,     \* threads that run jobs of MAssIpc_Transthread
          Maps, Keys, Returns, Tags,
          Handlers,       \* [ret, tag, thread, callable]
          Callbacks,      \* handlers of count changes and of errors: [tag, thread]
          Copies,         \* pairs <<to, from>> of maps AddAllProcs is used with
          MaxInfos,       \* bound: CallInfoImpl objects
          MaxCalls,       \* bound: incoming calls
          Guards,         \* whether SetCallCountChangedGuard is used
          None            \* a null pointer

Direct == "direct"        \* DirectCallPseudoId, or no MAssIpc_Transthread
AnyReturn == ""           \* the caller does not ask for a return type

ASSUME ProcMapConstants ==
    /\ MaxInfos \in Nat /\ MaxCalls \in Nat /\ Guards \in BOOLEAN
    /\ Copies \subseteq Maps \X Maps
    /\ \A h \in Handlers : h.ret \in Returns /\ h.tag \in Tags
                           /\ h.thread \in JobThreads \cup {Direct} /\ h.callable \in BOOLEAN
    /\ \A b \in Callbacks : b.tag \in Tags /\ b.thread \in JobThreads \cup {Direct}

\* A null pointer is no thread and no text of an answer.
ASSUME ProcMapNames ==
    /\ None \notin Threads
    /\ None \notin {"return", "no_matching_call_name_parameters", "no_matching_call_return_type"}

VARIABLES
    infos,                  \* CallInfoImpl: key, invoke, count; for the properties, whether two maps had it
    m_name_procs,           \* of each map: for each key a number in infos, or 0
    m_OnCallCountChanged, m_OnInvalidRemoteCall,
    m_lock,                 \* the thread that holds the lock of each map
    pc, op,                 \* what each thread does
    guard,                  \* the SetCallCountChangedGuard each thread has
    queue,                  \* jobs posted to each thread
    transport,              \* whether the transport exists
    \* history: the calls received and what became of them, the tags
    \* registered in each map since they were cleared
    calls, replies, runs, counted, registered

map_vars == <<infos, m_name_procs, m_OnCallCountChanged, m_OnInvalidRemoteCall>>
call_vars == <<calls, replies, runs, counted>>
vars == <<map_vars, m_lock, pc, op, guard, queue, transport, call_vars, registered>>

NoOp == [map |-> None, other |-> None, info |-> 0, invoke |-> None, call |-> 0, changed |-> None]

Init ==
    /\ infos = <<>> /\ m_name_procs = [m \in Maps |-> [k \in Keys |-> 0]]
    /\ m_OnCallCountChanged = [m \in Maps |-> None]
    /\ m_OnInvalidRemoteCall = [m \in Maps |-> None]
    /\ m_lock = [m \in Maps |-> None]
    /\ pc = [t \in Threads |-> "idle"] /\ op = [t \in Threads |-> NoOp]
    /\ guard = [t \in Threads |-> None]
    /\ queue = [j \in JobThreads |-> <<>>] /\ transport = TRUE
    /\ calls = <<>> /\ replies = <<>> /\ runs = <<>>
    /\ counted = {} /\ registered = [m \in Maps |-> {}]

-----------------------------------------------------------------------------
(* Registration                                                            *)

Unlocked(m) == m_lock[m] = None

\* A handler runs with no lock held, so it may use the maps too.
MayUse(t, m) == pc[t] \in {"idle", "running"} /\ Unlocked(m)

IsInvokable(i) == infos[i].invoke # None

\* CallInfoImpl::CallInfoImpl.
NewInfo(k) == [key |-> k, invoke |-> None, count |-> 0, shared |-> FALSE]

Begin(t, label, o) == pc' = [pc EXCEPT ![t] = label] /\ op' = [op EXCEPT ![t] = o]

\* The number of an object to be created.
NewPosition == Len(infos) + 1

\* Variant: the assertion is left out.
Overrides_Never(i, callable) == FALSE

\* A callable handler would replace a callable one: AddProcSignature asserts.
Overrides(i, callable) == i # 0 /\ IsInvokable(i) /\ callable

\* AddProcSignature until the handler is set, for AddHandler (a handler) and
\* AddCallInfo (h = None): find or create the entry.
AddProcSignature(t, m, k, h) ==
    LET i == m_name_procs[m][k]
        callable == h # None /\ h.callable
    IN  /\ pc[t] = "idle" /\ Unlocked(m)
        /\ IF i = 0
           THEN /\ Len(infos) < MaxInfos
                /\ infos' = Append(infos, NewInfo(k))
                /\ m_name_procs' = [m_name_procs EXCEPT ![m][k] = NewPosition]
           ELSE UNCHANGED <<infos, m_name_procs>>
        /\ IF Overrides(i, callable)
           THEN UNCHANGED <<m_lock, pc, op>>
           ELSE /\ m_lock' = [m_lock EXCEPT ![m] = t]
                /\ Begin(t, "setting", [NoOp EXCEPT !.map = m, !.info = IF i = 0 THEN NewPosition ELSE i,
                                          !.invoke = IF callable THEN h ELSE None])
        /\ UNCHANGED <<m_OnCallCountChanged, m_OnInvalidRemoteCall, queue, transport, guard, call_vars, registered>>

SetInvoke(t) ==
    /\ pc[t] = "setting"
    /\ infos' = IF op[t].invoke = None THEN infos ELSE [infos EXCEPT ![op[t].info].invoke = op[t].invoke]
    /\ registered' = IF op[t].invoke = None THEN registered
                     ELSE [m \in Maps |-> IF m = op[t].map \/ \E k \in Keys : m_name_procs[m][k] = op[t].info
                                          THEN registered[m] \cup {op[t].invoke.tag} ELSE registered[m]]
    /\ m_lock' = [m_lock EXCEPT ![op[t].map] = None]
    /\ Begin(t, "idle", NoOp)
    /\ UNCHANGED <<m_name_procs, m_OnCallCountChanged, m_OnInvalidRemoteCall, queue, transport, guard, call_vars>>

AddHandler(t, m, k, h) == h # None /\ AddProcSignature(t, m, k, h)

AddCallInfo(t, m, k) == AddProcSignature(t, m, k, None)

IsOther(m, other) == m # other

\* AddAllProcs takes the lock of its own map, then that of the other one.
AddAllProcs(t, m, other) ==
    /\ pc[t] = "idle" /\ Unlocked(m) /\ IsOther(m, other)
    /\ m_lock' = [m_lock EXCEPT ![m] = t]
    /\ Begin(t, "copying", [NoOp EXCEPT !.map = m, !.other = other])
    /\ UNCHANGED <<map_vars, queue, transport, guard, call_vars, registered>>

TagsOf(m) == {infos[i].invoke.tag : i \in {m_name_procs[m][k] : k \in Keys} \cap {n \in DOMAIN infos : IsInvokable(n)}}

AddAllProcs_Copy(t) ==
    LET m == op[t].map
        other == op[t].other
        copied == {m_name_procs[other][k] : k \in {l \in Keys : m_name_procs[m][l] = 0}}
    IN  /\ pc[t] = "copying" /\ Unlocked(other)
        /\ infos' = [i \in DOMAIN infos |-> [infos[i] EXCEPT !.shared = @ \/ i \in copied]]
        /\ m_name_procs' = [m_name_procs EXCEPT ![m] =
                               [k \in Keys |-> IF @[k] # 0 THEN @[k] ELSE m_name_procs[other][k]]]
        /\ registered' = [registered EXCEPT ![m] = @ \cup TagsOf(other)]
        /\ m_lock' = [m_lock EXCEPT ![m] = None]
        /\ Begin(t, "idle", NoOp)
        /\ UNCHANGED <<m_OnCallCountChanged, m_OnInvalidRemoteCall, queue, transport, guard, call_vars>>

ClearAllProcs(t, m) ==
    /\ MayUse(t, m)
    /\ m_name_procs' = [m_name_procs EXCEPT ![m] = [k \in Keys |-> 0]]
    /\ UNCHANGED <<infos, m_OnCallCountChanged, m_OnInvalidRemoteCall, m_lock, pc, op, queue, transport, guard, call_vars, registered>>

HasTag(i, tag) == i # 0 /\ IsInvokable(i) /\ infos[i].invoke.tag = tag

\* Variant: the iterator passes over the entry after the one erased.
Cleared_FirstOnly(m, tag) ==
    LET hit == {k \in Keys : HasTag(m_name_procs[m][k], tag)}
        one == CHOOSE k \in hit : TRUE
    IN  [k \in Keys |-> IF hit # {} /\ k = one THEN 0 ELSE m_name_procs[m][k]]

Cleared(m, tag) == [k \in Keys |-> IF HasTag(m_name_procs[m][k], tag) THEN 0 ELSE m_name_procs[m][k]]

ClearCallbackTag(b, tag) == IF b # None /\ b.tag = tag THEN None ELSE b

ClearProcsWithTag(t, m, tag) ==
    /\ MayUse(t, m)
    /\ m_name_procs' = [m_name_procs EXCEPT ![m] = Cleared(m, tag)]
    /\ m_OnCallCountChanged' = [m_OnCallCountChanged EXCEPT ![m] = ClearCallbackTag(@, tag)]
    /\ m_OnInvalidRemoteCall' = [m_OnInvalidRemoteCall EXCEPT ![m] = ClearCallbackTag(@, tag)]
    /\ registered' = [registered EXCEPT ![m] = @ \ {tag}]
    /\ UNCHANGED <<infos, m_lock, pc, op, queue, transport, guard, call_vars>>

\* SetCallback with a handler or None, which it exchanges for the old one.
Swap(m, member, b) ==
    /\ IF member = "count"
       THEN m_OnCallCountChanged' = [m_OnCallCountChanged EXCEPT ![m] = b] /\ UNCHANGED m_OnInvalidRemoteCall
       ELSE m_OnInvalidRemoteCall' = [m_OnInvalidRemoteCall EXCEPT ![m] = b] /\ UNCHANGED m_OnCallCountChanged
    /\ registered' = IF b = None THEN registered ELSE [registered EXCEPT ![m] = @ \cup {b.tag}]
    /\ UNCHANGED <<infos, m_name_procs, m_lock, pc, op, queue, transport, call_vars>>

SetHandler_CallCountChanged(t, m, b) == MayUse(t, m) /\ Swap(m, "count", b) /\ UNCHANGED guard

SetHandler_ErrorOccured(t, m, b) == MayUse(t, m) /\ Swap(m, "error", b) /\ UNCHANGED guard

\* SetCallCountChangedGuard keeps the old handler and puts it back.
SetGuard(t, m, b) ==
    /\ Guards /\ MayUse(t, m) /\ guard[t] = None
    /\ Swap(m, "count", b)
    /\ guard' = [guard EXCEPT ![t] = [map |-> m, old |-> m_OnCallCountChanged[m]]]

EndGuard(t) ==
    /\ guard[t] # None /\ MayUse(t, guard[t].map)
    /\ Swap(guard[t].map, "count", guard[t].old)
    /\ guard' = [guard EXCEPT ![t] = None]

-----------------------------------------------------------------------------
(* InvokeLocal                                                             *)

Answer(id, a) == IF transport THEN [replies EXCEPT ![id] = Append(@, a)] ELSE replies

\* CallFromThread, or the call itself when the handler is to be called directly.
Post(j, job) == queue' = [queue EXCEPT ![j] = Append(@, job)]

Job(kind, id, h) == [kind |-> kind, call |-> id, invoke |-> h]

\* ReportError_FindCallInfo, SendErrorMessage: the error handler is in find_res
\* only when there is no entry.
ReportError(m, i, id) ==
    LET b == IF i = 0 THEN m_OnInvalidRemoteCall[m] ELSE None
    IN  IF b = None \/ b.thread = Direct THEN UNCHANGED queue ELSE Post(b.thread, Job("error", id, b))

Matches(ret, h) == ret = AnyReturn \/ ret = h.ret

\* InvokeLocal until the match is known: AnalizeInvokeData with FindCallInfo in
\* one critical section.
InvokeLocal(t, m, k, ret, send_return) ==
    LET i == m_name_procs[m][k]
        id == Len(calls) + 1
        h == IF i = 0 THEN None ELSE infos[i].invoke
        found == h # None /\ Matches(ret, h)
    IN  /\ pc[t] = "idle" /\ Unlocked(m) /\ transport /\ id =< MaxCalls
        /\ calls' = Append(calls, [key |-> k, ret |-> ret, send_return |-> send_return,
                                    error |-> IF found THEN None
                                              ELSE IF h = None THEN "no_matching_call_name_parameters"
                                              ELSE "no_matching_call_return_type"])
        /\ replies' = Append(replies, <<>>) /\ runs' = Append(runs, <<>>)
        /\ IF found THEN UNCHANGED queue ELSE ReportError(m, i, id)
        /\ Begin(t, IF i = 0 THEN "failed" ELSE "counting",
                 [NoOp EXCEPT !.map = m, !.info = i, !.invoke = IF found THEN h ELSE None,
                              !.call = id, !.changed = IF i = 0 THEN None ELSE m_OnCallCountChanged[m]])
        /\ UNCHANGED <<map_vars, m_lock, transport, guard, counted, registered>>

IncrementCallCount(t) ==
    LET o == op[t]
        b == o.changed
    IN  /\ pc[t] = "counting"
        /\ infos' = [infos EXCEPT ![o.info].count = @ + 1]
        /\ counted' = counted \cup {o.call}
        /\ IF b = None \/ b.thread = Direct THEN UNCHANGED queue ELSE Post(b.thread, Job("count", o.call, b))
        /\ pc' = [pc EXCEPT ![t] = IF o.invoke = None THEN "failed" ELSE "invoking"]
        /\ UNCHANGED <<m_name_procs, m_OnCallCountChanged, m_OnInvalidRemoteCall, m_lock, op, transport, guard,
                       calls, replies, runs, registered>>

\* The answer of a call that cannot be made, from the current thread.
FailCall(t) ==
    /\ pc[t] = "failed"
    /\ replies' = IF calls[op[t].call].send_return THEN Answer(op[t].call, calls[op[t].call].error) ELSE replies
    /\ Begin(t, "idle", NoOp)
    /\ UNCHANGED <<map_vars, m_lock, queue, transport, guard, calls, runs, counted, registered>>

\* CallJob::Invoke runs the handler; runs says which one and whether its call
\* had been counted.
Ran(id, h) == [runs EXCEPT ![id] = Append(@, [invoke |-> h, counted |-> id \in counted])]

InvokeReady(t) == pc[t] = "invoking"

Invoke(t) ==
    LET o == op[t]
    IN  /\ InvokeReady(t)
        /\ IF o.invoke.thread = Direct
           THEN runs' = Ran(o.call, o.invoke) /\ pc' = [pc EXCEPT ![t] = "running"] /\ UNCHANGED <<op, queue>>
           ELSE Post(o.invoke.thread, Job("call", o.call, o.invoke)) /\ Begin(t, "idle", NoOp) /\ UNCHANGED runs
        /\ UNCHANGED <<map_vars, m_lock, transport, guard, calls, replies, counted, registered>>

\* Variant: the result is sent whether the caller asked for it or not.
CalcRespondId_Always(id) == id

\* Variant: the result is never sent.
CalcRespondId_Never(id) == 0

CalcRespondId(id) == IF calls[id].send_return THEN id ELSE 0

\* The result is written at once, or by the thread GetResultSendThreadId names
\* (ResultJob): the application's MAssIpc_Transthread says which. jobs are those
\* queued apart from it.
SendResult(id, jobs) ==
    IF CalcRespondId(id) = 0 THEN queue' = jobs /\ UNCHANGED replies
    ELSE \/ queue' = jobs /\ replies' = Answer(id, "return")
         \/ \E j \in JobThreads :
                queue' = [jobs EXCEPT ![j] = Append(@, Job("result", id, None))] /\ UNCHANGED replies

HandlerReturns(t) ==
    /\ pc[t] = "running"
    /\ SendResult(op[t].call, queue)
    /\ Begin(t, "idle", NoOp)
    /\ UNCHANGED <<map_vars, m_lock, transport, guard, calls, runs, counted, registered>>

\* A thread takes the next job posted to it: CountJob, ErrorJob, CallJob with
\* its result, ResultJob.
RunJob(j) ==
    LET job == Head(queue[j])
        rest == [queue EXCEPT ![j] = Tail(@)]
    IN  /\ queue[j] # <<>>
        /\ runs' = IF job.kind = "call" THEN Ran(job.call, job.invoke) ELSE runs
        /\ IF job.kind = "call" THEN SendResult(job.call, rest)
           ELSE queue' = rest /\ replies' = IF job.kind = "result" THEN Answer(job.call, "return") ELSE replies
        /\ UNCHANGED <<map_vars, m_lock, pc, op, transport, guard, calls, counted, registered>>

ExpireTransport ==
    /\ transport /\ transport' = FALSE
    /\ UNCHANGED <<map_vars, m_lock, pc, op, guard, queue, call_vars, registered>>

-----------------------------------------------------------------------------
Step(t) == SetInvoke(t) \/ AddAllProcs_Copy(t) \/ IncrementCallCount(t) \/ FailCall(t)
           \/ Invoke(t) \/ HandlerReturns(t)

\* What a thread does with a map: registration...
Register(t, m, keys, handlers, callbacks) ==
    \/ \E k \in keys : AddCallInfo(t, m, k) \/ \E h \in handlers : AddHandler(t, m, k, h)
    \/ ClearAllProcs(t, m)
    \/ \E tag \in Tags : ClearProcsWithTag(t, m, tag)
    \/ \E b \in callbacks \cup {None} :
        SetHandler_CallCountChanged(t, m, b) \/ SetHandler_ErrorOccured(t, m, b) \/ SetGuard(t, m, b)

\* ... and calls that come in.
Receive(t, m, keys) ==
    \E k \in keys, ret \in Returns \cup {AnyReturn}, send_return \in BOOLEAN : InvokeLocal(t, m, k, ret, send_return)

Next ==
    \/ \E t \in Threads :
        \/ Step(t) \/ EndGuard(t)
        \/ \E m \in Maps : Register(t, m, Keys, Handlers, Callbacks) \/ Receive(t, m, Keys)
        \/ \E pair \in Copies : AddAllProcs(t, pair[1], pair[2])
    \/ \E j \in JobThreads : RunJob(j)
    \/ ExpireTransport

Spec == Init /\ [][Next]_vars

\* Threads go on and run the jobs posted to them.
Fairness ==
    /\ \A t \in Threads : WF_vars(Step(t))
    /\ \A j \in JobThreads : WF_vars(RunJob(j))

FairSpec == Spec /\ Fairness

-----------------------------------------------------------------------------
\* Maps refer to CallInfo objects that exist, with the key they are found
\* under.
TypeOK ==
    /\ \A i \in DOMAIN infos : infos[i].key \in Keys /\ infos[i].invoke \in Handlers \cup {None}
                               /\ infos[i].count \in 0 .. MaxCalls
    /\ m_name_procs \in [Maps -> [Keys -> 0 .. Len(infos)]]
    /\ m_OnCallCountChanged \in [Maps -> Callbacks \cup {None}]
    /\ m_OnInvalidRemoteCall \in [Maps -> Callbacks \cup {None}]
    /\ m_lock \in [Maps -> Threads \cup {None}]
    /\ pc \in [Threads -> {"idle", "setting", "copying", "counting", "failed", "invoking", "running"}]
    /\ registered \in [Maps -> SUBSET Tags]
    /\ \A m \in Maps, k \in Keys : m_name_procs[m][k] # 0 => infos[m_name_procs[m][k]].key = k

\* A handler that can be called stays the handler of its CallInfo, whoever
\* registers another one for the same procedure at the same time: what
\* AddProcSignature asserts before it sets the new one.  For a CallInfo that
\* AddAllProcs has put into a second map it is not so: two threads that hold
\* the locks of the two maps both find it without a handler and both set one.
HandlerKept ==
    [][\A i \in DOMAIN infos : IsInvokable(i) /\ ~infos[i].shared => infos'[i].invoke = infos[i].invoke]_vars

\* After ClearProcsWithTag no handler and no callback of the tag is left to be
\* found, until one is registered again, in this map or in one that shares the
\* CallInfo with it: the owner of the tag may go, but for the calls that are
\* under way.
NoHandlerOfClearedTag ==
    \A m \in Maps :
        /\ TagsOf(m) \subseteq registered[m]
        /\ \A b \in {m_OnCallCountChanged[m], m_OnInvalidRemoteCall[m]} \ {None} : b.tag \in registered[m]

\* A call runs at most one handler, once, and that handler returns what the
\* caller asked for; it is answered at most once, and only if asked to, with
\* the result after the handler has run or with the error when none was found
\* (InvokeLocal, CallJob, ResultJob).
AnsweredOnce ==
    \A id \in DOMAIN calls :
        LET c == calls[id]
        IN  /\ Len(runs[id]) =< 1 /\ Len(replies[id]) =< 1
            /\ \A n \in DOMAIN runs[id] : c.error = None /\ Matches(c.ret, runs[id][n].invoke)
            /\ \A n \in DOMAIN replies[id] :
                /\ c.send_return
                /\ replies[id][n] = IF runs[id] # <<>> THEN "return" ELSE c.error
                /\ replies[id][n] # None

\* A handler runs after its call was counted, and, when the same thread is to
\* announce the count, after the announcement: the order the events of
\* MAssIpcWaiter rely on (IncrementCallCount, CountJob, CallJob).
CountedFirst ==
    /\ \A id \in DOMAIN runs : \A n \in DOMAIN runs[id] : runs[id][n].counted
    /\ \A j \in JobThreads : \A a, b \in DOMAIN queue[j] :
        (queue[j][a].kind = "call" /\ queue[j][b].kind = "count" /\ queue[j][a].call = queue[j][b].call) => b < a

\* Whom a thread waits for: the owner of the lock AddAllProcs takes second.
WaitsFor(t) == IF pc[t] = "copying" THEN m_lock[op[t].other] ELSE None

\* No threads wait for each other's map while they copy handlers, as long as
\* maps are copied one way only.
NoCircularWait ==
    \A t \in Threads : LET u == WaitsFor(t) IN u # None => u # t /\ WaitsFor(u) # t

\* A call that asks for an answer gets one, unless the transport goes.
CallsAnswered ==
    \A id \in 1 .. MaxCalls :
        (id \in DOMAIN calls /\ calls[id].send_return) ~> (~transport \/ (id \in DOMAIN replies /\ replies[id] # <<>>))

\* Maps that several threads change and copy hold the handlers of registered
\* owners only, and nobody waits for them for ever.
MapsConsistent == TypeOK /\ NoHandlerOfClearedTag /\ NoCircularWait

\* A call is counted, run and answered in that order, each once, though three
\* threads may share the work.
CalledOnce == AnsweredOnce /\ CountedFirst
=============================================================================
