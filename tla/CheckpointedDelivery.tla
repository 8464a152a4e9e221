------------------------ MODULE CheckpointedDelivery ------------------------
(***************************************************************************)
(* What the relay promises of one stream, whatever runs it: events arrive  *)
(* in order, destinations are sent events (perhaps more than once), and a  *)
(* committed checkpoint covers an event only when every route has it or is *)
(* excused from it, some route has it, and no excuse is ever given for     *)
(* anything else.  The checkpoint may be moved back, never past what is    *)
(* accounted for.                                                          *)
(***************************************************************************)
EXTENDS Integers

CONSTANTS Routes, MaxEvents

VARIABLES source, delivered, waived, checkpoint

vars == <<source, delivered, waived, checkpoint>>

Events == 1..MaxEvents

Init ==
    /\ source = 0
    /\ delivered = {}
    /\ waived = {}
    /\ checkpoint = 0

Produce ==
    /\ source < MaxEvents
    /\ source' = source + 1
    /\ UNCHANGED <<delivered, waived, checkpoint>>

\* One route's destination accepts events the source holds.
Deliver ==
    /\ \E r \in Routes, E \in SUBSET (1..source) :
            delivered' = delivered \cup ({r} \X E)
    /\ UNCHANGED <<source, waived, checkpoint>>

\* A run commits: routes are excused from some events and the checkpoint is
\* set to a point up to which every event is accounted for.
Commit ==
    /\ checkpoint' \in 1..source
    /\ \E W \in SUBSET (Routes \X (1..source)) : waived' = waived \cup W
    /\ \A e \in 1..checkpoint' :
        /\ \A r \in Routes : <<r, e>> \in delivered \cup waived'
        /\ \E r \in Routes : <<r, e>> \in delivered
    /\ UNCHANGED <<source, delivered>>

Next == Produce \/ Deliver \/ Commit

Spec == Init /\ [][Next]_vars

=============================================================================
