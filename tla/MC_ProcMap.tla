----------------------------- MODULE MC_ProcMap -----------------------------
(* An instance of ProcMap for TLC: one of several loads in a behaviour.     *)
EXTENDS ProcMap

VARIABLE load

Handler(ret, tag, thread, callable) == [ret |-> ret, tag |-> tag, thread |-> thread, callable |-> callable]

\* Two owners of handlers, and an empty std::function; a handler called in a
\* thread of its own.
Owners == {Handler("r", "a", Direct, TRUE), Handler("r", "b", Direct, TRUE), Handler("r", "a", Direct, FALSE)}
DirectOrNot == {Handler("r", "a", Direct, TRUE), Handler("r", "a", "job", TRUE)}
MC_Handlers == Owners \cup DirectOrNot
MC_Callbacks == {[tag |-> "a", thread |-> Direct], [tag |-> "a", thread |-> "job"]}

\* IpcQt_Net copies the handlers of the server into those of a connection.
MC_Copies == {<<"connection", "server">>, <<"server", "server">>}

Load(maps, keys, handlers, callbacks, copies, objects, incoming, threads) ==
    [maps |-> maps, keys |-> keys, handlers |-> handlers, callbacks |-> callbacks, copies |-> copies,
     infos |-> objects, calls |-> incoming, threads |-> threads]

First == {CHOOSE t \in Threads : TRUE}
On(thread) == {b \in Callbacks : b.thread = thread}

\* Two procedures of two owners; maps that are copied; a call while another
\* thread changes the handlers; two calls, received by one
\* thread or by two.
Loads ==
    {Load({"server"}, Keys, Owners, On(Direct), {}, 2, 0, Threads),
     Load(Maps, {"k"}, Owners, {}, Copies, 2, 0, Threads),
     Load({"server"}, {"k"}, DirectOrNot, Callbacks, {}, 1, 1, Threads),
     Load({"server"}, {"k"}, DirectOrNot, On("job"), {}, 1, 2, First),
     Load({"server"}, {"k"}, DirectOrNot, {}, {}, 1, 2, Threads)}

MC_Init == Init /\ load \in Loads

MC_Next ==
    /\ \/ \E t \in load.threads :
            \/ Step(t) \/ EndGuard(t)
            \/ \E m \in load.maps : Register(t, m, load.keys, load.handlers, load.callbacks) \/ Receive(t, m, load.keys)
            \/ \E pair \in load.copies : AddAllProcs(t, pair[1], pair[2])
       \/ \E j \in JobThreads : RunJob(j)
       \/ ExpireTransport
    /\ Len(infos') =< load.infos /\ Len(calls') =< load.calls
    /\ load.calls > 0 \/ load.copies # {} => \A t \in Threads : guard'[t] = None
    /\ UNCHANGED load

MC_FairSpec == MC_Init /\ [][MC_Next]_<<vars, load>> /\ Fairness
=============================================================================
