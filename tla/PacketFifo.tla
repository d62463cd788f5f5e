----------------------------- MODULE PacketFifo -----------------------------
(***************************************************************************)
(* What MAssIpcCall assumes of a transport: whole packets in the order in  *)
(* which they were written.  A lost connection takes the packets that were *)
(* not received; when it also cuts one in two (torn), nothing is promised  *)
(* any more.                                                               *)
(***************************************************************************)
EXTENDS Naturals, Sequences

VARIABLES inbox,      \* packets written and not received
          received,   \* packets received
          torn

vars == <<inbox, received, torn>>

Init == inbox = <<>> /\ received = <<>> /\ torn = FALSE

\* One packet more, at the end.
Send ==
    /\ Len(inbox') = Len(inbox) + 1
    /\ inbox = SubSeq(inbox', 1, Len(inbox))
    /\ UNCHANGED <<received, torn>>

Receive ==
    /\ inbox # <<>>
    /\ received' = Append(received, Head(inbox))
    /\ inbox' = Tail(inbox)
    /\ UNCHANGED torn

Lose ==
    /\ \E n \in 0 .. Len(inbox) : inbox' = SubSeq(inbox, 1, n)
    /\ torn => torn'
    /\ UNCHANGED received

Torn == torn /\ torn'

Next == Send \/ Receive \/ Lose \/ Torn

Spec == Init /\ [][Next]_vars
=============================================================================
