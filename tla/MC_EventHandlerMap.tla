------------------------ MODULE MC_EventHandlerMap ------------------------
(* An instance of EventHandlerMap for TLC.  A behaviour has one of several *)
(* loads: what is bounded is what is begun, never how it goes on.          *)
EXTENDS EventHandlerMap

VARIABLE load

MC_Events == {<<"n", "p">>, <<"m", "p">>}

Load(threads, events, tags, skips, depth) ==
    [threads |-> threads, events |-> events, tags |-> tags, skips |-> skips, depth |-> depth]

First == {CHOOSE t \in Threads : TRUE}
OneEvent == {<<"n", "p">>}
OneTag == {CHOOSE g \in Tags : TRUE}

\* Handlers that call, add and clear, of two names or with two tags; two
\* threads that use two tags, or whose handlers begin operations too.
Loads ==
    {Load(First, Events, OneTag, BOOLEAN, 3), Load(First, OneEvent, Tags, {TRUE}, 3),
     Load(Threads, OneEvent, Tags, {TRUE}, 1), Load(Threads, OneEvent, OneTag, {TRUE}, 2)}

MC_Init == Init /\ load \in Loads

\* Threads and tags may be exchanged, so the first thread begins, with the
\* first tag; the other thread joins in after two operations.
MC_Start(t) ==
    /\ Len(stack[t]) < load.depth /\ (spent < 2 => t \in First)
    /\ Start(t, load.events, IF spent = 0 THEN OneTag ELSE load.tags, load.skips)

MC_Next ==
    /\ \/ \E t \in load.threads : Step(t) \/ MC_Start(t)
       \/ DropMap
    /\ UNCHANGED load

MC_FairSpec == MC_Init /\ [][MC_Next]_<<vars, load>> /\ Fairness
===========================================================================
