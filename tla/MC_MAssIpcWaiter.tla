------------------------- MODULE MC_MAssIpcWaiter -------------------------
(* An instance of MAssIpcWaiter for TLC: one of several loads in a          *)
(* behaviour.                                                              *)
EXTENDS MAssIpcWaiter

VARIABLE load

First == {CHOOSE t \in Threads : TRUE}
OneEvent == {CHOOSE e \in Events : TRUE}

\* Every thread waits on an event of a call or of a counter; every signal of a
\* call is counted and reset, up to and beyond the width of the counter; one
\* thread waits on an event of two sources, while the other cancels; one
\* thread waits on events that share the checks of a call.
Loads ==
    {[name |-> "ends", events |-> OneEvent, sources |-> Calls \cup Counters, signals |-> 1, checks |-> 1,
      flags |-> {FALSE}, waiters |-> Threads, resets |-> {"wait_next_after_trigger"}],
     [name |-> "signals", events |-> Events, sources |-> Calls, signals |-> MaxSignals, checks |-> 1,
      flags |-> {FALSE}, waiters |-> {}, resets |-> Resets],
     [name |-> "results", events |-> OneEvent, sources |-> Calls \cup States, signals |-> 1, checks |-> 2,
      flags |-> Flags, waiters |-> First, resets |-> {}],
     [name |-> "wakeups", events |-> Events, sources |-> Calls, signals |-> 1, checks |-> 2,
      flags |-> {FALSE}, waiters |-> First, resets |-> {}]}

MC_Init == Init /\ load \in Loads

MC_Begins(t) ==
    /\ pc'[t] = "checking" => t \in load.waiters
    /\ pc'[t] = "resetting" => op'[t].how \in load.resets
    /\ pc'[t] = "binding" => /\ op'[t].source \in load.sources /\ op'[t].cancel \in load.flags
                             /\ load.name # "signals" => op'[t].start = count[op'[t].source]

MC_Next ==
    /\ Next /\ load' = load
    /\ live' \subseteq load.events
    /\ Len(check') + Cardinality({t \in Threads : pc'[t] = "binding"}) =< load.checks
    /\ \A s \in Sources : total'[s] =< IF s \in load.sources THEN load.signals ELSE 0
    /\ \A t \in Threads : Idle(t) => MC_Begins(t)
    /\ load.name = "signals" => ~cancel_all_waits' /\ alive' = alive

MC_FairSpec == MC_Init /\ [][MC_Next]_<<vars, load>> /\ Fairness
===========================================================================
