--------------------------- MODULE MC_MAssIpcCall ---------------------------
(* Instances of MAssIpcCall and of its refinement for TLC: what the          *)
(* application, the peer and the connection begin is one of several loads.   *)
EXTENDS MAssIpcCallContract

CONSTANT Loads

VARIABLE load

Load(threads, calls, kinds, sends, incoming, reenter, failures) ==
    [threads |-> threads, calls |-> calls, kinds |-> kinds, sends |-> sends,
     incoming |-> incoming, reenter |-> reenter, failures |-> failures]

\* Three threads; a handler and the transport's read that call back; many
\* incoming calls; everything at once.
MC_Calls ==
    {Load(3, 3, {"wait"}, {"pt_return", "pt_enumerate"}, 1, {}, {}),
     Load(2, 3, {"wait"}, {"pt_return", "pt_call"}, 1, {"handler", "read"}, {}),
     Load(2, 2, {"wait", "process"}, {"pt_return", "pt_call"}, 3, {"handler"}, {}),
     Load(2, 2, CallKind, PeerSends, 1, Reenter, Failures)}

\* Three threads that are cancelled; calls from handlers; ids used again.
MC_Ends ==
    {Load(3, 3, {"wait"}, {"pt_return"}, 0, {}, {"cancel"}),
     Load(2, 2, {"wait"}, {"pt_return", "pt_call"}, 1, {"handler"}, {}),
     Load(2, 3, {"wait"}, {"pt_return"}, 0, {"read"}, {}),
     Load(1, 4, {"wait", "process"}, {"pt_return"}, 0, {"read"}, {})}

MC_Init == Init /\ load \in Loads

Used == {a \in Activation : pc[a] # "free"}
Busy == {t \in Thread : stack[t] # <<>>}

\* Threads outside the endpoint are alike.
NextThread == CHOOSE t \in Thread : t \notin Busy

Begin(t, a) ==
    /\ Cardinality(Used) < load.calls
    /\ Cardinality(Busy \cup {t}) <= load.threads
    /\ t \in Busy => pc[Top(t)] \in load.reenter
    /\ t \notin Busy => t = NextThread
    /\ StartCall(t, a)
    /\ kind'[a] \in load.kinds

MC_Next ==
    /\ \/ \E t \in Thread, a \in Activation : Begin(t, a)
       \/ \E a \in Activation : Step(a)
       \/ \E a \in Activation : WaitIncoming(a) /\ ReadNothing(a)
       \/ \E a \in Activation : SpuriousWakeup(a)
       \/ \E q \in peer, type \in load.sends : PeerAnswers(q, type)
       \/ /\ peer_calls < load.incoming
          /\ \/ \E send_return \in BOOLEAN :
                   "pt_call" \in load.sends /\ PeerCalls("pt_call", send_return)
             \/ "pt_enumerate" \in load.sends /\ PeerCalls("pt_enumerate", TRUE)
       \/ "cancel" \in load.failures /\ CancelWaitRespond
       \/ "expire" \in load.failures /\ Expire
    /\ UNCHANGED load

MC_Spec == MC_Init /\ [][MC_Next]_<<vars, load>>

MC_FairSpec == MC_Spec /\ Fairness
=============================================================================
