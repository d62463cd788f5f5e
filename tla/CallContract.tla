---------------------------- MODULE CallContract ----------------------------
(***************************************************************************)
(* What an endpoint promises to the callers of WaitInvoke and              *)
(* EnumerateRemote, without threads, packets or ids: a call that returns   *)
(* was answered by the peer, that very call, and a call is given up only   *)
(* when the connection is broken or when it was made from inside the       *)
(* transport's own read.                                                   *)
(***************************************************************************)
CONSTANT Call

VARIABLES status,   \* how far each call is
          inner,    \* the calls made from inside the transport's read
          broken    \* the transport failed

vars == <<status, inner, broken>>

Status == {"idle", "issued", "pending", "answered", "returned", "failed"}

\* The states a call can be in.
TypeOK ==
    /\ status \in [Call -> Status]
    /\ inner \in [Call -> BOOLEAN]
    /\ broken \in BOOLEAN

Init ==
    /\ status = [c \in Call |-> "idle"]
    /\ inner = [c \in Call |-> FALSE]
    /\ broken = FALSE

Move(c, from, to) ==
    /\ status[c] \in from
    /\ status' = [status EXCEPT ![c] = to]

Issue(c) ==
    /\ Move(c, {"idle"}, "issued")
    /\ \E nested \in BOOLEAN : inner' = [inner EXCEPT ![c] = nested]
    /\ UNCHANGED broken

Send(c) == Move(c, {"issued"}, "pending") /\ UNCHANGED <<inner, broken>>

\* The peer answers this call.
Answer(c) == Move(c, {"pending"}, "answered") /\ UNCHANGED <<inner, broken>>

\* The caller gets the answer, as data or as an error.
Return(c) == Move(c, {"answered"}, "returned") /\ UNCHANGED <<inner, broken>>

\* The caller gets nothing.
Fail(c) ==
    /\ broken \/ inner[c]
    /\ Move(c, {"issued", "pending", "answered"}, "failed")
    /\ UNCHANGED <<inner, broken>>

Break == ~broken /\ broken' = TRUE /\ UNCHANGED <<status, inner>>

Next ==
    \/ \E c \in Call : Issue(c) \/ Send(c) \/ Answer(c) \/ Return(c) \/ Fail(c)
    \/ Break

Spec == Init /\ [][Next]_vars
=============================================================================
