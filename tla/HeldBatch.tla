----------------------------- MODULE HeldBatch -----------------------------
(***************************************************************************)
(* What the relay promises of a batch it holds back for an operator (a     *)
(* replay event, a quarantined batch), however requests interleave and     *)
(* processes die: the batch is settled once, as delivered or as discarded, *)
(* and as delivered only when the destination has accepted it.             *)
(***************************************************************************)
VARIABLES
    state,      \* "open", "delivered" or "discarded"
    accepted    \* the destination has accepted the batch at least once

vars == <<state, accepted>>

Init == state = "open" /\ accepted = FALSE

\* The destination accepts the batch.  It may do so after a discard: a send
\* cannot be called back.
Accept ==
    /\ accepted' = TRUE
    /\ UNCHANGED state

Deliver ==
    /\ state = "open"
    /\ accepted
    /\ state' = "delivered"
    /\ UNCHANGED accepted

Discard ==
    /\ state = "open"
    /\ state' = "discarded"
    /\ UNCHANGED accepted

Next == Accept \/ Deliver \/ Discard

Spec == Init /\ [][Next]_vars

=============================================================================
