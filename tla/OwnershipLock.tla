--------------------------- MODULE OwnershipLock ---------------------------
(***************************************************************************)
(* What the ownership lock of a stream promises to those who use it as one *)
(* atomic thing: it is taken only when nobody has it, it passes from one   *)
(* owner to the next only through being free, and whoever is told that it  *)
(* is free is told so while it is.  An attempt may fail at any time and an *)
(* owner may vanish.                                                       *)
(***************************************************************************)
CONSTANT Callers

VARIABLES
    owners,     \* who owns the stream
    free        \* who has been told that nobody does

vars == <<owners, free>>

Init == owners = {} /\ free = {}

Acquire ==
    /\ owners = {}
    /\ \E c \in Callers : owners' = {c}
    /\ UNCHANGED free

\* The owner lets go or dies, and with its process those who were told.
Release ==
    /\ owners' = {}
    /\ free' \subseteq free

AnswerFree ==
    /\ owners = {}
    /\ \E c \in Callers : free' = free \cup {c}
    /\ UNCHANGED owners

\* An answer is acted on, or lost with its process.
Forget ==
    /\ free' \subseteq free
    /\ UNCHANGED owners

Next == Acquire \/ Release \/ AnswerFree \/ Forget

Spec == Init /\ [][Next]_vars

=============================================================================
