------------------------ MODULE MC_TransthreadCaller ------------------------
(* An instance of TransthreadCaller for TLC: two threads, and one of        *)
(* several loads in a behaviour.                                           *)
EXTENDS TransthreadCaller

VARIABLE load

One == CHOOSE t \in Threads : TRUE
MC_Registered == {Threads, {One}}
MC_Routes == Threads \X (Threads \cup {DirectCallPseudoId})

Others == {<<a, b>> \in Threads \X Threads : a # b}

Load(registered, routes, kinds, bound, ends, cancels, rebuilds, spurious) ==
    [registered |-> registered, routes |-> routes, kinds |-> kinds, calls |-> bound,
     finishes |-> ends, cancels |-> cancels, rebuilds |-> rebuilds, spurious |-> spurious]

\* Threads that call each other back; jobs and calls to every thread, the own
\* one and none; threads that finish or whose waits are disabled; a thread
\* that is not registered, and a caller that is destroyed.
Loads ==
    {Load(Threads, Others, {"Read"}, 4, {}, {}, FALSE, FALSE),
     Load(Threads, ({One} \X (Threads \cup {DirectCallPseudoId})) \cup Others, {"job", "Read"}, 3, {}, {}, FALSE, TRUE),
     Load(Threads, Others, {"Write"}, 3, Threads, {One}, FALSE, FALSE),
     Load({One}, Others, {"job", "WaitRespond"}, 2, Threads \ {One}, {}, TRUE, FALSE)}

MC_Init ==
    /\ Init /\ load \in Loads
    /\ {x \in Threads : threads[x] # 0} = load.registered

New == DOMAIN calls' \ DOMAIN calls

MC_Next ==
    /\ Next /\ load' = load
    /\ Len(calls') =< load.calls
    /\ \A c \in New : calls'[c].kind \in load.kinds /\ <<calls'[c].from, calls'[c].to>> \in load.routes
    /\ finished' \subseteq load.finishes
    /\ \A r \in DOMAIN receivers' : receivers'[r].thread \notin load.cancels => receivers'[r].sender_set
    /\ ~load.rebuilds => internals' /\ Len(receivers') =< 3
    /\ ~load.spurious => \A t \in Threads : ~<<SpuriousWakeup(t)>>_vars

MC_FairSpec == MC_Init /\ [][MC_Next]_<<vars, load>> /\ Fairness
=============================================================================
