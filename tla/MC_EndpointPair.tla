--------------------------- MODULE MC_EndpointPair ---------------------------
(* An instance of EndpointPair for TLC: one of several loads in a behaviour.  *)
EXTENDS EndpointPair

VARIABLE load

\* Every kind of call; many calls of two kinds; calls that are cancelled.
Loads ==
    {[kinds |-> CallKind, calls |-> 2, cancels |-> FALSE],
     [kinds |-> {"now", "later", "enumerate"}, calls |-> 3, cancels |-> FALSE],
     [kinds |-> {"now", "async"}, calls |-> 3, cancels |-> FALSE],
     [kinds |-> {"now", "later"}, calls |-> 2, cancels |-> TRUE]}

MC_Init == Init /\ load \in Loads

MC_Next ==
    /\ \E e \in Endpoint :
          \/ \E kind \in load.kinds : m_incremental_id[e] < load.calls /\ InvokeRemote(e, kind)
          \/ ProcessTransport(e) \/ Run(e)
          \/ load.cancels /\ CancelWaitRespond(e)
    /\ UNCHANGED load

MC_FairSpec == MC_Init /\ [][MC_Next]_<<vars, load>> /\ Fairness
==============================================================================
