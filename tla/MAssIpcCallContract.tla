------------------------ MODULE MAssIpcCallContract ------------------------
(***************************************************************************)
(* The endpoint of MAssIpcCall implements CallContract, as long as no call *)
(* id is handed out while it is in use.                                    *)
(***************************************************************************)
EXTENDS MAssIpcCall

WithPeer(a) == \E q \in peer : q.of = a

\* The refinement mapping: how far an activation is, seen by its caller.
CallStatus(a) ==
    CASE pc[a] = "free" \/ kind[a] \notin WaitingKind -> "idle"
      [] pc[a] = "write" /\ kind[a] \in WaitingKind -> "issued"
      [] pc[a] = "done" /\ kind[a] \in WaitingKind ->
            IF result[a] \in {"data", "error"} THEN "returned" ELSE "failed"
      [] OTHER -> IF WithPeer(a) THEN "pending" ELSE "answered"

Contract == INSTANCE CallContract WITH
    Call <- Activation,
    status <- [a \in Activation |-> CallStatus(a)],
    inner <- [a \in Activation |-> under_read[a] /\ kind[a] \in WaitingKind],
    broken <- cancel_wait_respond \/ expired

\* Every step of the endpoint, of any thread, is a step of the contract or
\* changes nothing a caller sees: an answer reaches exactly the call it was
\* given for, after the peer gave it, and no call is dropped on a working link.
ImplementsContract == Contract!Spec
=============================================================================
