------------------------- MODULE TransthreadCaller -------------------------
(***************************************************************************)
(* MAssIpc_TransthreadCaller with its Qt implementation and the transport   *)
(* proxy built on it (IpcQt_TransthreadTransportCopy): a thread posts a     *)
(* call to another thread, wakes it, and may wait for the end of the call   *)
(* while it runs the calls others post to it.                               *)
(*                                                                         *)
(* A thread has a stack of what it is in the middle of: calls it runs and   *)
(* calls it waits for.  With an empty stack it is in its event loop.        *)
(* Receivers (ThreadCallReceiver, a QObject) have numbers, because the      *)
(* receiver of a thread can be replaced by another one.  What is done under *)
(* lock_threads or under mutex_sync is one step.                            *)
(***************************************************************************)
EXTENDS Integers, Sequences, FiniteSets

CONSTANTS Threads,
          Registered,       \* the sets of threads their creator may have registered before they start
          Routes,           \* pairs <<from, to>> of threads that call
          Kinds,            \* calls made: "job" is not waited for
          MaxCalls,         \* bound: calls
          MaxReceivers,     \* bound: receivers
          Cancels,          \* threads CancelDisableWaitingCall is used for
          Finishes,         \* threads that finish
          Spurious,         \* whether a condition variable may wake by itself
          Rebuilds          \* whether the last caller may be destroyed

ASSUME TransthreadConstants ==
    /\ Registered \subseteq SUBSET Threads /\ Cancels \subseteq Threads /\ Finishes \subseteq Threads
    /\ Routes \subseteq Threads \X (Threads \cup {"direct"})
    /\ Kinds \subseteq {"job", "WaitRespond", "ReadBytesAvailable", "Read", "Write"}
    /\ MaxCalls \in Nat /\ MaxReceivers \in Nat
    /\ Spurious \in BOOLEAN /\ Rebuilds \in BOOLEAN

\* Threads are finitely many, and none is "direct" or a place in the code.
ASSUME TransthreadNames ==
    /\ IsFiniteSet(Threads)
    /\ Threads \cap {"direct", "loop", "running", "notify", "looking", "asleep", "woken", "processing"} = {}

VARIABLES
    internals,              \* whether s_int_inter_thread can be locked
    threads,                \* Internals::threads: the receiver of each thread, or 0
    receivers,              \* ThreadCallReceiver with its WaitSync and its posted events
    calls,                  \* Call and CallWaiterPrivate
    stack,                  \* what each thread is in the middle of, innermost last
    finished                \* threads whose QThread has finished

vars == <<internals, threads, receivers, calls, stack, finished>>

DirectCallPseudoId == "direct"

\* m_call_waiters_sender exists, the flag of WaitSync, the posted events.
NewReceiver(x) == [thread |-> x, sender_set |-> TRUE, process_incoming_call |-> FALSE, posted |-> <<>>]

\* The constructor of IpcQt_TransthreadCaller and AddTargetThread for the
\* threads registered by their creators.
Init ==
    /\ internals = TRUE
    /\ \E registered \in Registered :
          /\ receivers \in {f \in [1 .. Cardinality(registered) -> {NewReceiver(x) : x \in registered}] :
                              \A x \in registered : \E r \in DOMAIN f : f[r].thread = x}
          /\ threads = [x \in Threads |-> IF x \in registered
                                          THEN CHOOSE r \in DOMAIN receivers : receivers[r].thread = x ELSE 0]
    /\ calls = <<>> /\ stack = [x \in Threads |-> <<>>] /\ finished = {}

-----------------------------------------------------------------------------
Top(t) == IF stack[t] = <<>> THEN [kind |-> "loop", call |-> 0, at |-> "loop", recv |-> 0] ELSE stack[t][Len(stack[t])]

Push(t, kind, c, at) == [stack EXCEPT ![t] = Append(@, [kind |-> kind, call |-> c, at |-> at, recv |-> 0])]

Pop(s, t) == [s EXCEPT ![t] = SubSeq(@, 1, Len(@) - 1)]

At(s, t, at) ==
    [s EXCEPT ![t][Len(stack[t])] = [@ EXCEPT !.at = at, !.recv = IF at = "processing" THEN threads[t] ELSE 0]]

\* A thread runs code of its own: in its event loop, or in a call it runs.
Free(t) == t \notin finished /\ Top(t).kind \in {"loop", "run"}

\* Variant: what is written is left to the other thread.
Waits_NotWrite(kind) == kind \notin {"job", "Write"}

Waits(kind) == kind # "job"

\* The call has a pointer to memory of the thread that made it.
UsesBuffer(kind) == kind \in {"Read", "Write"}

InFrame(t, kind, c) == \E i \in DOMAIN stack[t] : stack[t][i].kind = kind /\ stack[t][i].call = c

Waited(c) == InFrame(calls[c].from, "wait", c)

PostedTo(c, r) == \E i \in DOMAIN receivers[r].posted : receivers[r].posted[i] = c

Posted(c) == \E r \in DOMAIN receivers : PostedTo(c, r)

\* CallWaiterPrivate exists while the call or the thread that waits has it; its
\* destructor takes it out of the sets of the sender and of the receiver.
WaiterExists(c) == Waited(c) \/ Posted(c) \/ \E t \in Threads : InFrame(t, "run", c)

\* notify_all of the condition of receiver r.
Notify(s, r) ==
    [t \in Threads |->
        IF s[t] # <<>> /\ s[t][Len(s[t])].at = "asleep" /\ calls[s[t][Len(s[t])].call].sync = r
        THEN [s[t] EXCEPT ![Len(s[t])].at = "woken"] ELSE s[t]]

\* A waiter's state becomes s: CallDone, CallCancel, SetReceiverThreadFinished.
SetState(cs, s) == [c \in DOMAIN calls |-> IF c \in cs THEN [calls[c] EXCEPT !.state = s] ELSE calls[c]]

NotifyAll(s, cs) ==
    [t \in Threads |->
        IF \E c \in cs : Notify(s, calls[c].sync)[t] # s[t]
        THEN [s[t] EXCEPT ![Len(s[t])].at = "woken"] ELSE s[t]]

-----------------------------------------------------------------------------
(* Threads are registered                                                  *)

\* ProcessCalls of some thread holds a receiver while it runs its events.
Held(r) == \E t \in Threads : \E i \in DOMAIN stack[t] : stack[t][i].recv = r

\* An event is deleted with its receiver.
DropPosted(r) == IF r = 0 THEN receivers ELSE [receivers EXCEPT ![r].posted = <<>>]

\* The bound on receivers, those about to be created included.
Room(n) == Len(receivers) + Cardinality({t \in Threads : Top(t).kind = "add"}) + n =< MaxReceivers

\* AddTargetThreadId: the thread is looked up under the lock...
AddTargetThreadId(t, x) ==
    /\ Free(t) /\ internals /\ threads[x] = 0 /\ x \notin finished /\ Room(1)
    /\ stack' = Push(t, "add", 0, x)
    /\ UNCHANGED <<internals, threads, receivers, calls, finished>>

\* ... and its receiver is created and put into the map in a second section,
\* whatever is there by then.
AddTargetThreadId_Insert(t) ==
    LET x == Top(t).at
        replaced == IF Held(threads[x]) THEN 0 ELSE threads[x]
    IN  /\ Top(t).kind = "add"
        /\ receivers' = Append(IF replaced = 0 THEN receivers ELSE DropPosted(replaced), NewReceiver(x))
        /\ calls' = [c \in DOMAIN calls |-> [calls[c] EXCEPT !.lost = @ \/ (replaced # 0 /\ PostedTo(c, replaced))]]
        /\ threads' = [threads EXCEPT ![x] = Len(receivers) + 1]
        /\ stack' = Pop(stack, t)
        /\ UNCHANGED <<internals, finished>>

\* MakeFindThread, with the lock held, in the threads and receivers of m.
MakeFindThread(m, x) ==
    IF m.threads[x] # 0 THEN m
    ELSE [receivers |-> Append(m.receivers, NewReceiver(x)),
          threads |-> [m.threads EXCEPT ![x] = Len(m.receivers) + 1]]

\* The last IpcQt_TransthreadCaller goes, with the receivers and their events...
DestroyCaller ==
    /\ Rebuilds /\ internals
    /\ \A t \in Threads : \A i \in DOMAIN stack[t] : stack[t][i].kind = "run"
    /\ internals' = FALSE
    /\ threads' = [x \in Threads |-> 0]
    /\ receivers' = [r \in DOMAIN receivers |-> [receivers[r] EXCEPT !.posted = <<>>]]
    /\ UNCHANGED <<calls, stack, finished>>

\* ... and a new one registers the thread that constructs it.
CreateInternals(t) ==
    /\ Free(t) /\ ~internals /\ Room(1)
    /\ internals' = TRUE
    /\ stack' = Push(t, "add", 0, t)
    /\ UNCHANGED <<threads, receivers, calls, finished>>

-----------------------------------------------------------------------------
(* A call is posted                                                        *)

NewCall(t, x, kind, r, s, state) ==
    [from |-> t, to |-> x, kind |-> kind, recv |-> r, sync |-> s, state |-> state,
     ran |-> FALSE, result |-> "none", late |-> x \in finished, lost |-> FALSE]

\* CallFromThread with DirectCallPseudoId: the caller runs the call.
CallDirectly(t, kind) ==
    /\ Free(t) /\ Len(calls) < MaxCalls
    /\ calls' = Append(calls, [NewCall(t, DirectCallPseudoId, kind, 0, 0, "cs_no_call") EXCEPT !.ran = TRUE])
    /\ stack' = Push(t, "run", Len(calls) + 1, "running")
    /\ UNCHANGED <<internals, threads, receivers, finished>>

\* QCoreApplication::postEvent.
PostEvent(posted, c) == Append(posted, c)

\* CallFromThread under lock_threads.  The waiter of a thread whose waits are
\* disabled is cancelled, but the call is posted all the same.
CallFromThread(t, x, kind) ==
    LET found == MakeFindThread(MakeFindThread([receivers |-> receivers, threads |-> threads], x), t)
        r == found.threads[x]
        s == found.threads[t]
        c == Len(calls) + 1
        enabled == found.receivers[s].sender_set
    IN  /\ Free(t) /\ internals /\ c =< MaxCalls
        /\ Room(Len(found.receivers) - Len(receivers))
        /\ threads' = found.threads
        /\ receivers' = [found.receivers EXCEPT ![r].posted = PostEvent(@, c)]
        /\ calls' = Append(calls, NewCall(t, x, kind, r, s, IF enabled THEN "cs_inprogress" ELSE "cs_canceled"))
        /\ stack' = Push(t, "wait", c, "notify")
        /\ UNCHANGED <<internals, finished>>

\* Variant: the flag is not set, a receiver is only woken.
FlagSet_Not(r) == receivers

FlagSet(r) == [receivers EXCEPT ![r].process_incoming_call = TRUE]

\* ProcessIncomingCall of the receiver, after lock_threads is released.
ProcessIncomingCall(t) ==
    LET c == Top(t).call
        s == IF Waits(calls[c].kind) THEN At(stack, t, "looking") ELSE Pop(stack, t)
    IN  /\ Top(t).kind = "wait" /\ Top(t).at = "notify"
        /\ receivers' = FlagSet(calls[c].recv)
        /\ stack' = Notify(s, calls[c].recv)
        /\ UNCHANGED <<internals, threads, calls, finished>>

-----------------------------------------------------------------------------
(* WaitProcessing                                                          *)

\* Variant: the state is not looked at again.
Ended_Woken(c) == TRUE

Ended(c) == calls[c].state # "cs_inprogress"

Return(t, c) ==
    /\ stack' = Pop(stack, t)
    /\ calls' = [calls EXCEPT ![c].result = calls[c].state]
    /\ UNCHANGED receivers

\* The body of the loop under mutex_sync, until the wait.
Look(t) ==
    LET c == Top(t).call
        r == calls[c].sync
    IN  /\ Top(t).kind = "wait" /\ Top(t).at = "looking"
        /\ IF Ended(c) THEN Return(t, c)
           ELSE IF receivers[r].process_incoming_call
                THEN /\ receivers' = [receivers EXCEPT ![r].process_incoming_call = FALSE]
                     /\ stack' = At(stack, t, "processing") /\ UNCHANGED calls
                ELSE /\ stack' = At(stack, t, "asleep") /\ UNCHANGED <<receivers, calls>>
        /\ UNCHANGED <<internals, threads, finished>>

\* The wait returns.
Wake(t) ==
    LET c == Top(t).call
    IN  /\ Top(t).kind = "wait" /\ Top(t).at = "woken"
        /\ IF Ended(c) THEN Return(t, c)
           ELSE stack' = At(stack, t, "processing") /\ UNCHANGED <<receivers, calls>>
        /\ UNCHANGED <<internals, threads, finished>>

SpuriousWakeup(t) ==
    /\ Spurious /\ Top(t).kind = "wait" /\ Top(t).at = "asleep"
    /\ stack' = At(stack, t, "woken")
    /\ UNCHANGED <<internals, threads, receivers, calls, finished>>

\* customEvent takes the next event of receiver r.
Deliver(t, r) ==
    LET c == Head(receivers[r].posted)
    IN  /\ receivers' = [receivers EXCEPT ![r].posted = Tail(@)]
        /\ calls' = [calls EXCEPT ![c].ran = TRUE]
        /\ stack' = Push(t, "run", c, "running")
        /\ UNCHANGED <<internals, threads, finished>>

\* Variant: a thread that waits does not run the calls posted to it.
HasEvents_Never(r) == FALSE

HasEvents(r) == r # 0 /\ receivers[r].posted # <<>>

\* ProcessCalls: sendPostedEvents runs the events of the thread's receiver
\* until there are none.
ProcessCalls(t) ==
    /\ Top(t).kind = "wait" /\ Top(t).at = "processing"
    /\ IF HasEvents(Top(t).recv)
       THEN Deliver(t, Top(t).recv)
       ELSE stack' = At(stack, t, "looking") /\ UNCHANGED <<internals, threads, receivers, calls, finished>>

\* The event loop of the thread.
EventLoop(t) ==
    /\ Top(t).kind = "loop" /\ t \notin finished
    /\ threads[t] # 0 /\ receivers[threads[t]].posted # <<>>
    /\ Deliver(t, threads[t])

\* The call returns: ProcessCallFromTargetThread tells its waiter.
CallDone(t) ==
    LET c == Top(t).call
        told == IF calls[c].to = DirectCallPseudoId THEN {} ELSE {c}
    IN  /\ Top(t).kind = "run"
        /\ calls' = SetState(told, "cs_done")
        /\ stack' = NotifyAll(Pop(stack, t), told)
        /\ UNCHANGED <<internals, threads, receivers, finished>>

\* CancelDisableWaitingCall, from any thread, under lock_threads.
CancelDisableWaitingCall(x) ==
    LET r == threads[x]
        cs == {c \in DOMAIN calls : calls[c].sync = r /\ WaiterExists(c)}
    IN  /\ internals /\ r # 0 /\ receivers[r].sender_set
        /\ calls' = SetState(cs, "cs_canceled")
        /\ stack' = NotifyAll(stack, cs)
        /\ receivers' = [receivers EXCEPT ![r].sender_set = FALSE]
        /\ UNCHANGED <<internals, threads, finished>>

\* m_call_waiters_receiver.
Told(r) == {c \in DOMAIN calls : calls[c].recv = r /\ WaiterExists(c)}

\* The thread's run returns and QThread::finished runs OnFinished_ReceiverThread.
OnFinished_ReceiverThread(t) ==
    LET r == threads[t]
        cs == IF internals /\ r # 0 THEN Told(r) ELSE {}
    IN  /\ stack[t] = <<>> /\ t \notin finished
        /\ finished' = finished \cup {t}
        /\ calls' = SetState(cs, "cs_receiver_thread_finished")
        /\ stack' = NotifyAll(stack, cs)
        /\ threads' = [threads EXCEPT ![t] = 0]
        /\ receivers' = DropPosted(r)
        /\ UNCHANGED internals

\* What WaitRespond, ReadBytesAvailable and Read of the proxy return: the value
\* stored by the call, or the one the result was created with.
ProxyResult(c) == IF calls[c].ran THEN "transport" ELSE "default"

-----------------------------------------------------------------------------
Step(t) ==
    \/ AddTargetThreadId_Insert(t) \/ ProcessIncomingCall(t)
    \/ Look(t) \/ Wake(t) \/ ProcessCalls(t) \/ EventLoop(t) \/ CallDone(t)

Next ==
    \/ \E t \in Threads :
        \/ Step(t)
        \/ SpuriousWakeup(t)
        \/ CreateInternals(t)
        \/ \E x \in Threads : AddTargetThreadId(t, x)
        \/ \E x \in Threads, kind \in Kinds : <<t, x>> \in Routes /\ CallFromThread(t, x, kind)
        \/ \E kind \in Kinds : <<t, DirectCallPseudoId>> \in Routes /\ CallDirectly(t, kind)
    \/ \E t \in Cancels : CancelDisableWaitingCall(t)
    \/ \E t \in Finishes : OnFinished_ReceiverThread(t)
    \/ DestroyCaller

Spec == Init /\ [][Next]_vars

\* A thread goes on with what it does, its calls return and its event loop runs.
Fairness == \A t \in Threads : WF_vars(Step(t))

FairSpec == Spec /\ Fairness

-----------------------------------------------------------------------------
CallStates == {"cs_no_call", "cs_inprogress", "cs_canceled", "cs_done", "cs_receiver_thread_finished"}

\* The receiver found for a thread is one of that thread, and calls refer to
\* receivers that exist.
TypeOK ==
    /\ internals \in BOOLEAN /\ finished \subseteq Threads
    /\ threads \in [Threads -> 0 .. Len(receivers)]
    /\ \A x \in Threads : threads[x] # 0 => receivers[threads[x]].thread = x
    /\ \A c \in DOMAIN calls : /\ calls[c].state \in CallStates
                               /\ calls[c].result \in CallStates \cup {"none"}
                               /\ calls[c].recv \in 0 .. Len(receivers) /\ calls[c].sync \in 0 .. Len(receivers)
    /\ \A t \in Threads : \A i \in DOMAIN stack[t] : stack[t][i].kind \in {"add", "run", "wait"}

\* Nobody sleeps through what it waits for: a thread asleep in WaitProcessing
\* has a call in progress, and a call posted to the receiver it sleeps with is
\* one whose sender is about to wake it (CallFromThread posts before it sets
\* the flag, WaitProcessing takes the flag before it processes), or one that an
\* outer WaitProcessing of the same thread will run when the inner one returns.
NoLostWakeup ==
    \A t \in Threads : Top(t).at = "asleep" =>
        LET c == Top(t).call
            r == calls[c].sync
            Sender(e) == calls[e].from
        IN  /\ calls[c].state = "cs_inprogress"
            /\ receivers[r].posted # <<>> =>
                \/ \E e \in DOMAIN calls : PostedTo(e, r) /\ Top(Sender(e)).call = e /\ Top(Sender(e)).at = "notify"
                \/ \E i \in DOMAIN stack[t] : stack[t][i].recv = r

\* A wait that returns tells the truth: the call has run if it says done, the
\* receiver has finished if it says so, and a wait is cancelled only in a
\* thread whose waits are disabled.  A wait never returns while the call is in
\* progress.
ResultIsTrue ==
    \A c \in DOMAIN calls :
        LET result == calls[c].result
        IN  /\ result # "cs_inprogress"
            /\ result = "cs_done" => ProxyResult(c) = "transport"
            /\ result = "cs_receiver_thread_finished" => calls[c].to \in finished
            /\ result = "cs_canceled" => ~receivers[calls[c].sync].sender_set

\* The calls posted to a receiver run in the order they were posted in, also
\* when a call waits and others are run meanwhile: none overtakes another
\* (CallFromThread, sendPostedEvents).
RunInOrder ==
    \A c, d \in DOMAIN calls :
        (c < d /\ calls[c].recv = calls[d].recv /\ calls[d].recv # 0 /\ calls[d].ran) => calls[c].ran

\* Read and Write of the proxy give the transport's thread a pointer into the
\* caller's buffer: the call runs while its caller waits, unless the waits of
\* that thread are disabled.
BufferInUse ==
    \A t \in Threads : \A i \in DOMAIN stack[t] :
        LET c == stack[t][i].call
        IN  (stack[t][i].kind = "run" /\ calls[c].recv # 0 /\ UsesBuffer(calls[c].kind))
                => Waited(c) \/ ~receivers[calls[c].sync].sender_set

\* A call that cannot end: made to a thread that has finished, or caught by the
\* registration of its receiver or of its sender a second time.
Stranded(c) == Waited(c) /\ (calls[c].late \/ calls[c].lost \/ threads[calls[c].from] # calls[c].sync)

\* Every wait ends, though threads wait for each other, call each other back,
\* finish or have their waits cancelled, as long as no call is stranded.
WaitsEnd ==
    \A c \in 1 .. MaxCalls :
        (c \in DOMAIN calls /\ Waited(c)) ~> ((c \in DOMAIN calls /\ ~Waited(c)) \/ \E d \in DOMAIN calls : Stranded(d))

\* A call that was posted is seen by its receiver, in its turn, also when the
\* receiver itself waits for others.
PostedCallsSeen == TypeOK /\ NoLostWakeup /\ RunInOrder
=============================================================================
