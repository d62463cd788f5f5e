--------------------------- MODULE MAssIpcWaiter ---------------------------
(***************************************************************************)
(* MAssIpcWaiter: events that threads wait for, made of checks that compare *)
(* the counter of a source with a start count.                              *)
(*                                                                         *)
(* A source is a call (its CallInfo counts outside the lock, and            *)
(* OnCallCountChanged follows), a state of the connection signaling, or the *)
(* Change of a CounterEvent (both count under the lock).  Checks are shared *)
(* by the events they were bound to, so they have numbers of their own.     *)
(* Critical sections that only read what the lock guards are one step; a    *)
(* loop over checks is one step per check, with the lock held, because the  *)
(* counters of calls change meanwhile.                                      *)
(***************************************************************************)
EXTENDS Integers, Sequences, FiniteSets

CONSTANTS Threads, Events,
          Calls,          \* CallInfo objects
          States,         \* ConnectionEvent::State values signalled
          Counters,       \* Change objects of counter events
          W,              \* modulus of TCounter: 2^32 in the code
          MaxSignals,     \* bound: increments of one source
          MaxChecks,      \* bound: Check objects created
          MaxBinds,       \* bound: checks of one event
          Flags,          \* values of interpret_as_cancel used
          Initials,       \* InitialCount values used
          Resets          \* ResetType values used

Sources == Calls \cup States \cup Counters
Signaling == "signaling"      \* the address of ConnectionEvent::Signaling
Null == "nullptr"
NoThread == "none"
Results == {"ready", "timeout", "canceled"}

ASSUME WaiterConstants ==
    /\ W \in Nat /\ W > 1
    /\ MaxSignals \in Nat /\ MaxChecks \in Nat /\ MaxBinds \in Nat
    /\ Flags \subseteq BOOLEAN /\ Initials \subseteq {"zero", "current"}
    /\ Resets \subseteq {"wait_next_after_trigger", "wait_next_after_reset", "wait_next_after_zero"}

\* Distinct objects have distinct addresses, and "none" is no thread.
ASSUME WaiterNames ==
    /\ NoThread \notin Threads
    /\ Calls \cap States = {} /\ Signaling \notin Calls /\ Null \notin Calls

VARIABLES
    \* the sources: counter, and for calls whether the CallInfo exists and how
    \* many increments wait for their OnCallCountChanged
    count, alive, unannounced,
    \* ConditionWaitLock: owner of lock_events, change_filter as a bag
    owner, cancel_all_waits, change_filter,
    \* the checks, the events that exist and their m_checks
    check, live, m_checks,
    \* what each thread does
    pc, op,
    \* history: increments of each source, never reduced by the width
    total

source_vars == <<count, alive, unannounced, total>>
event_vars == <<check, live, m_checks>>
vars == <<source_vars, owner, cancel_all_waits, change_filter, event_vars, pc, op>>

NoOp == [event |-> Null, source |-> Null, cancel |-> FALSE, start |-> 0, seen |-> 0,
         timed |-> FALSE, expired |-> FALSE, next |-> 0, how |-> Null]

Init ==
    /\ count = [s \in Sources |-> 0] /\ total = [s \in Sources |-> 0]
    /\ alive = [s \in Calls |-> TRUE] /\ unannounced = [s \in Calls |-> 0]
    /\ owner = NoThread /\ cancel_all_waits = FALSE
    /\ change_filter = [i \in Sources \cup {Signaling, Null} |-> 0]
    /\ check = <<>> /\ live = {} /\ m_checks = [e \in Events |-> <<>>]
    /\ pc = [t \in Threads |-> "idle"] /\ op = [t \in Threads |-> NoOp]

-----------------------------------------------------------------------------
(* Checks                                                                  *)

Expired(s) == s \in Calls /\ ~alive[s]

Differs(current, start) == (current - start) % W > 0

Triggered(c) ==
    /\ ~Expired(check[c].source)
    /\ Differs(count[check[c].source], check[c].start)

GetFilterId(c) ==
    LET s == check[c].source
    IN  IF Expired(s) THEN Null ELSE IF s \in States THEN Signaling ELSE s

\* Check::ResetLocked: the check after a reset.  seen is the number of signals
\* it stands for.
ResetLocked(k, how) ==
    CASE how = "wait_next_after_reset" ->
           [k EXCEPT !.start = count[k.source], !.seen = total[k.source]]
      [] how = "wait_next_after_trigger" ->
           [k EXCEPT !.start = (@ + 1) % W, !.seen = @ + 1]
      [] how = "wait_next_after_zero" ->
           [k EXCEPT !.start = 0, !.seen = total[k.source] - count[k.source]]

\* notify_all: every thread blocked on condition_events has to take the lock.
NotifyAll == [t \in Threads |-> IF pc[t] = "blocked" THEN "woken" ELSE pc[t]]

Unlocked == owner = NoThread
Idle(t) == pc[t] = "idle"
InUse(e) == \E t \in Threads : ~Idle(t) /\ op[t].event = e

-----------------------------------------------------------------------------
(* Events                                                                  *)

CreateEvent(t, e) ==
    /\ Idle(t) /\ e \notin live
    /\ live' = live \cup {e}
    /\ UNCHANGED <<source_vars, owner, cancel_all_waits, change_filter, check, m_checks, pc, op>>

\* The start count a new check gets: of now, or InitialCount::zero.
InitialCount(s, initial) ==
    IF initial = "current" THEN [start |-> count[s], seen |-> total[s]]
                           ELSE [start |-> 0, seen |-> total[s] - count[s]]

Binding(t, e, s, initial, cancel) ==
    /\ Idle(t) /\ e \in live /\ Len(m_checks[e]) < MaxBinds /\ Len(check) < MaxChecks
    /\ pc' = [pc EXCEPT ![t] = "binding"]
    /\ op' = [op EXCEPT ![t] = [NoOp EXCEPT !.event = e, !.source = s, !.cancel = cancel,
                                  !.start = InitialCount(s, initial).start,
                                  !.seen = InitialCount(s, initial).seen]]
    /\ UNCHANGED <<source_vars, owner, cancel_all_waits, change_filter, event_vars>>

\* The counter is read before BindCheck takes the lock.
BindCall(t, e, s, initial, cancel) == s \in Calls /\ alive[s] /\ Binding(t, e, s, initial, cancel)

\* The counter is read in a critical section of its own.
BindConnect(t, e, s, initial, cancel) ==
    s \in States /\ (initial = "current" => Unlocked) /\ Binding(t, e, s, initial, cancel)

\* A CounterEvent is created together with the only check of its Change.
CounterEvent(t, e, s, cancel) ==
    /\ s \in Counters /\ \A c \in DOMAIN check : check[c].source # s
    /\ \A u \in Threads : op[u].source # s
    /\ e \notin live /\ Idle(t) /\ Len(check) < MaxChecks
    /\ live' = live \cup {e}
    /\ pc' = [pc EXCEPT ![t] = "binding"]
    /\ op' = [op EXCEPT ![t] = [NoOp EXCEPT !.event = e, !.source = s, !.cancel = cancel]]
    /\ UNCHANGED <<source_vars, owner, cancel_all_waits, change_filter, check, m_checks>>

\* BindCheck, which the three above end with.
BindCheck(t) ==
    LET o == op[t]
    IN  /\ pc[t] = "binding" /\ Unlocked
        /\ check' = Append(check, [source |-> o.source, cancel |-> o.cancel,
                                    start |-> o.start, seen |-> o.seen])
        /\ m_checks' = [m_checks EXCEPT ![o.event] = Append(@, Len(check) + 1)]
        /\ change_filter' = [change_filter EXCEPT
                                ![IF o.source \in States THEN Signaling ELSE o.source] = @ + 1]
        /\ pc' = [NotifyAll EXCEPT ![t] = "idle"]
        /\ op' = [op EXCEPT ![t] = NoOp]
        /\ UNCHANGED <<source_vars, owner, cancel_all_waits, live>>

\* How many of the checks of an event have the filter id i.
Entries(e, i) == Cardinality({k \in DOMAIN m_checks[e] : GetFilterId(m_checks[e][k]) = i})

BindEvent(t, e, other) ==
    /\ Idle(t) /\ Unlocked /\ {e, other} \subseteq live /\ e # other
    /\ Len(m_checks[e]) + Len(m_checks[other]) =< MaxBinds
    /\ m_checks' = [m_checks EXCEPT ![e] = @ \o m_checks[other]]
    /\ change_filter' = [i \in DOMAIN change_filter |-> change_filter[i] + Entries(other, i)]
    /\ pc' = NotifyAll
    /\ UNCHANGED <<source_vars, owner, cancel_all_waits, check, live, op>>

\* Variant: erase by key.
Erased_WholeKey(e) == [i \in DOMAIN change_filter |-> IF Entries(e, i) > 0 THEN 0 ELSE change_filter[i]]

\* One entry of the filter goes for each check, if there is one.
Erased(e) == [i \in DOMAIN change_filter |->
                 IF Entries(e, i) > change_filter[i] THEN 0 ELSE change_filter[i] - Entries(e, i)]

\* ~Event, by a thread that lets nobody else use the event.
Destroy(t, e) ==
    /\ Idle(t) /\ Unlocked /\ e \in live /\ ~InUse(e)
    /\ change_filter' = Erased(e)
    /\ pc' = IF m_checks[e] # <<>> THEN NotifyAll ELSE pc
    /\ live' = live \ {e}
    /\ m_checks' = [m_checks EXCEPT ![e] = <<>>]
    /\ UNCHANGED <<source_vars, owner, cancel_all_waits, check, op>>

\* ResetTriggered holds the lock; ResetStep looks at the next check.
ResetTriggered(t, e, how) ==
    /\ Idle(t) /\ Unlocked /\ e \in live
    /\ owner' = t
    /\ pc' = [pc EXCEPT ![t] = "resetting"]
    /\ op' = [op EXCEPT ![t] = [NoOp EXCEPT !.event = e, !.how = how, !.next = 1]]
    /\ UNCHANGED <<source_vars, cancel_all_waits, change_filter, event_vars>>

ToReset(c) == Triggered(c) /\ ~check[c].cancel

ResetStep(t) ==
    /\ pc[t] = "resetting"
    /\ IF op[t].next =< Len(m_checks[op[t].event])
       THEN LET c == m_checks[op[t].event][op[t].next]
            IN  /\ check' = IF ToReset(c) THEN [check EXCEPT ![c] = ResetLocked(@, op[t].how)] ELSE check
                /\ op' = [op EXCEPT ![t].next = @ + 1]
                /\ UNCHANGED <<owner, pc>>
       ELSE /\ owner' = NoThread
            /\ pc' = [pc EXCEPT ![t] = "idle"] /\ op' = [op EXCEPT ![t] = NoOp]
            /\ UNCHANGED check
    /\ UNCHANGED <<source_vars, cancel_all_waits, change_filter, live, m_checks>>

-----------------------------------------------------------------------------
(* WaitDuration                                                            *)

\* Wait with or without a duration: take the lock and evaluate the predicate.
Wait(t, e, timed) ==
    /\ Idle(t) /\ Unlocked /\ e \in live
    /\ owner' = t
    /\ pc' = [pc EXCEPT ![t] = "checking"]
    /\ op' = [op EXCEPT ![t] = [NoOp EXCEPT !.event = e, !.timed = timed, !.next = 1]]
    /\ UNCHANGED <<source_vars, cancel_all_waits, change_filter, event_vars>>

Return(t, r) ==
    /\ owner' = NoThread
    /\ pc' = [pc EXCEPT ![t] = r] /\ op' = [op EXCEPT ![t] = NoOp]

\* The caller has the result.
Done(t) ==
    /\ pc[t] \in Results
    /\ pc' = [pc EXCEPT ![t] = "idle"]
    /\ UNCHANGED <<source_vars, owner, cancel_all_waits, change_filter, event_vars, op>>

\* The flag of the first triggered check decides.
ResultOf(c) == IF check[c].cancel THEN "canceled" ELSE "ready"

Predicate_Canceled(t) == cancel_all_waits /\ Return(t, "canceled") /\ UNCHANGED change_filter

Predicate_Step(t) ==
    LET c == m_checks[op[t].event][op[t].next]
    IN  /\ ~cancel_all_waits
        /\ op[t].next =< Len(m_checks[op[t].event])
        /\ IF Triggered(c)
           THEN Return(t, ResultOf(c))
           ELSE op' = [op EXCEPT ![t].next = @ + 1] /\ UNCHANGED <<owner, pc>>
        /\ UNCHANGED change_filter

\* No check is triggered: sleep and release the lock in one step, or, when the
\* time is over, return.
Predicate_False(t) ==
    /\ ~cancel_all_waits /\ op[t].next > Len(m_checks[op[t].event])
    /\ IF op[t].expired
       THEN Return(t, "timeout")
       ELSE owner' = NoThread /\ pc' = [pc EXCEPT ![t] = "blocked"] /\ UNCHANGED <<op>>
    /\ UNCHANGED change_filter

WaitStep(t) ==
    /\ pc[t] = "checking"
    /\ Predicate_Canceled(t) \/ Predicate_Step(t) \/ Predicate_False(t)
    /\ UNCHANGED <<source_vars, cancel_all_waits, event_vars>>

LockFree == owner = NoThread

\* A thread that was woken, or whose time is over, evaluates the predicate
\* again once it has the lock.
Wake(t) ==
    /\ pc[t] = "woken" /\ LockFree
    /\ owner' = t
    /\ pc' = [pc EXCEPT ![t] = "checking"]
    /\ op' = [op EXCEPT ![t].next = 1]
    /\ UNCHANGED <<source_vars, cancel_all_waits, change_filter, event_vars>>

\* Variant: the predicate is not evaluated again.
Timeout_NoRecheck(t) ==
    /\ pc[t] \in {"blocked", "woken"} /\ op[t].timed /\ Unlocked
    /\ Return(t, "timeout")
    /\ UNCHANGED <<source_vars, cancel_all_waits, change_filter, event_vars>>

\* The time is over.
Timeout(t) ==
    /\ pc[t] \in {"blocked", "woken"} /\ op[t].timed /\ ~op[t].expired
    /\ pc' = [pc EXCEPT ![t] = "woken"]
    /\ op' = [op EXCEPT ![t].expired = TRUE]
    /\ UNCHANGED <<source_vars, owner, cancel_all_waits, change_filter, event_vars>>

SpuriousWakeup(t) ==
    /\ pc[t] = "blocked"
    /\ pc' = [pc EXCEPT ![t] = "woken"]
    /\ UNCHANGED <<source_vars, owner, cancel_all_waits, change_filter, event_vars, op>>

CancelAllWaits(t) ==
    /\ Idle(t) /\ Unlocked
    /\ cancel_all_waits' = TRUE
    /\ pc' = NotifyAll
    /\ UNCHANGED <<source_vars, owner, change_filter, event_vars, op>>

-----------------------------------------------------------------------------
(* Signals                                                                 *)

Count(s) ==
    /\ total[s] < MaxSignals
    /\ count' = [count EXCEPT ![s] = (@ + 1) % W]
    /\ total' = [total EXCEPT ![s] = @ + 1]

\* CallInfoImpl::IncrementCallCount, then OnCallCountChanged, which keep the
\* CallInfo alive.
IncrementCallCount(s) ==
    /\ alive[s] /\ Count(s)
    /\ unannounced' = [unannounced EXCEPT ![s] = @ + 1]
    /\ UNCHANGED <<alive, owner, cancel_all_waits, change_filter, event_vars, pc, op>>

\* CheckConditionChanged, in the lock.
CheckConditionChanged(s) ==
    /\ unannounced[s] > 0
    /\ unannounced' = [unannounced EXCEPT ![s] = @ - 1]
    /\ pc' = IF change_filter[s] > 0 THEN NotifyAll ELSE pc
    /\ UNCHANGED <<count, alive, total, owner, cancel_all_waits, change_filter, event_vars, op>>

\* Variant: the lock is not taken.
OnCallCountChanged_NoLock(s) == CheckConditionChanged(s)

OnCallCountChanged(s) == Unlocked /\ CheckConditionChanged(s)

\* The last shared_ptr to the CallInfo goes: the procedure was removed.
Expire(s) ==
    /\ alive[s] /\ unannounced[s] = 0
    /\ \A t \in Threads : ~(pc[t] = "binding" /\ op[t].source = s)
    /\ alive' = [alive EXCEPT ![s] = FALSE]
    /\ UNCHANGED <<count, unannounced, total, owner, cancel_all_waits, change_filter, event_vars, pc, op>>

\* Counting and notifying in one critical section.
SignalLocked(s) ==
    /\ Unlocked /\ Count(s)
    /\ pc' = NotifyAll
    /\ UNCHANGED <<alive, unannounced, owner, cancel_all_waits, change_filter, event_vars, op>>

SignalChangeState(s) == s \in States /\ SignalLocked(s)

Increment(s) == s \in Counters /\ (\E c \in DOMAIN check : check[c].source = s) /\ SignalLocked(s)

-----------------------------------------------------------------------------
\* What the steps of one thread are once it has begun.
ThreadStep(t) == BindCheck(t) \/ ResetStep(t) \/ WaitStep(t) \/ Wake(t) \/ Done(t)

Begin(t) ==
    \/ \E e \in Events :
        \/ CreateEvent(t, e) \/ Destroy(t, e)
        \/ \E other \in Events : BindEvent(t, e, other)
        \/ \E timed \in BOOLEAN : Wait(t, e, timed)
        \/ \E how \in Resets : ResetTriggered(t, e, how)
        \/ \E cancel \in Flags, s \in Sources :
            \/ CounterEvent(t, e, s, cancel)
            \/ \E initial \in Initials :
                BindCall(t, e, s, initial, cancel) \/ BindConnect(t, e, s, initial, cancel)
    \/ CancelAllWaits(t)

Next ==
    \/ \E t \in Threads : Begin(t) \/ ThreadStep(t) \/ Timeout(t) \/ SpuriousWakeup(t)
    \/ \E s \in Calls : IncrementCallCount(s) \/ OnCallCountChanged(s) \/ Expire(s)
    \/ \E s \in Sources : SignalChangeState(s) \/ Increment(s)

Spec == Init /\ [][Next]_vars

\* Threads go on, and one that wants lock_events gets it some time.
Fairness ==
    /\ \A t \in Threads : SF_vars(ThreadStep(t))
    /\ \A s \in Calls : SF_vars(OnCallCountChanged(s))

FairSpec == Spec /\ Fairness

-----------------------------------------------------------------------------
\* Counters keep their width and events refer to checks that exist.
TypeOK ==
    /\ count \in [Sources -> 0 .. W - 1] /\ total \in [Sources -> 0 .. MaxSignals]
    /\ alive \in [Calls -> BOOLEAN] /\ unannounced \in [Calls -> 0 .. MaxSignals]
    /\ owner \in Threads \cup {NoThread} /\ cancel_all_waits \in BOOLEAN
    /\ change_filter \in [Sources \cup {Signaling, Null} -> Nat]
    /\ \A c \in DOMAIN check : check[c].source \in Sources /\ check[c].start \in 0 .. W - 1
    /\ live \subseteq Events
    /\ \A e \in Events : \A k \in DOMAIN m_checks[e] : m_checks[e][k] \in DOMAIN check
    /\ pc \in [Threads -> {"idle", "binding", "resetting", "checking", "blocked", "woken"} \cup Results]
    /\ \A t \in Threads : owner = t <=> pc[t] \in {"checking", "resetting"}

\* A signal of the check that nobody was told of yet: the call counted and its
\* OnCallCountChanged waits for the lock.
Untold(c) == check[c].source \in Calls /\ unannounced[check[c].source] > 0

Quiet(e) ==
    \A k \in DOMAIN m_checks[e] : LET c == m_checks[e][k] IN Triggered(c) => Untold(c)

\* No wakeup is lost: a thread sleeps on an event only while none of its checks
\* is triggered, unless the announcement is still to come; and never after
\* CancelAllWaits.  It is about change_filter: the entry of a check shared by
\* several events has to outlive the first of them (CheckConditionChanged,
\* BindEvent, ~Event).
NoLostWakeup ==
    \A t \in Threads : pc[t] = "blocked" => ~cancel_all_waits /\ Quiet(op[t].event)

\* A check is triggered only by a signal it has not stood for yet, and by every
\* such signal while fewer than 2^32 are outstanding, whatever threads share
\* and reset it and wherever the counters wrap (Call, Connect and
\* Change::IsTriggeredLocked, ResetTriggered).
SignalsCounted ==
    \A c \in DOMAIN check :
        LET s == check[c].source
            outstanding == total[s] - check[c].seen
        IN  /\ outstanding >= 0
            /\ Triggered(c) => outstanding > 0
            /\ outstanding \in 1 .. W - 1 /\ ~Expired(s) => Triggered(c)

\* A wait that ends says what happened: timeout only when no check is
\* triggered (the last evaluation after the time is over), ready only for a
\* check that is not interpreted as cancel, canceled only for one that is or
\* after CancelAllWaits.
ResultIsTrue ==
    [][\A t \in Threads : pc[t] \notin Results /\ pc'[t] \in Results =>
        LET e == op[t].event
            Seen(flag) == \E k \in DOMAIN m_checks[e] :
                             Triggered(m_checks[e][k]) /\ check[m_checks[e][k]].cancel = flag
        IN  CASE pc'[t] = "timeout" -> op[t].timed /\ Quiet(e) /\ ~cancel_all_waits
              [] pc'[t] = "ready" -> Seen(FALSE) /\ ~cancel_all_waits
              [] pc'[t] = "canceled" -> Seen(TRUE) \/ cancel_all_waits]_vars

Waiting(t) == pc[t] \in {"checking", "blocked", "woken"}
Pending(e) == \E k \in DOMAIN m_checks[e] : Triggered(m_checks[e][k])

\* A thread that waits on an event with a triggered check returns, unless the
\* check is reset by another thread or its CallInfo goes; after CancelAllWaits
\* it returns in any case.
WaitsEnd ==
    \A t \in Threads :
        /\ (Waiting(t) /\ cancel_all_waits) ~> ~Waiting(t)
        /\ (Waiting(t) /\ Pending(op[t].event)) ~> (~Waiting(t) \/ ~Pending(op[t].event))

\* Every signal is counted by the checks it is for and wakes who waits for it.
SignalsSeen == TypeOK /\ NoLostWakeup /\ SignalsCounted
=============================================================================
