------------------------- MODULE MC_AutotestServer -------------------------
(* An instance of AutotestServer for TLC.  To keep it small a behaviour has *)
(* one kind of load besides the connections that come and go: autotests,    *)
(* packets from the applications, a client that gives indexes to the        *)
(* connections or a client that sets their usage (of a server that is not   *)
(* stopped).                                                               *)
EXTENDS AutotestServer

VARIABLE load

MC_Init ==
    /\ Init /\ load \in {"autotests", "packets", "indexes", "usage"}
    /\ load # "autotests" => \A tr \in Transports : tests[tr] = 0

MC_Next ==
    /\ Next /\ load' = load
    /\ IF load \in {"indexes", "usage"} THEN ending' = "no" ELSE client' = client
    /\ load = "indexes" => marked' = {}
    /\ load = "usage" => \A c \in Clients, i \in Indexes : m_client_connections'[c][i] = None
    /\ load # "packets" => sent' = sent

MC_FairSpec == MC_Init /\ [][MC_Next]_<<vars, load>> /\ Fairness
=============================================================================
