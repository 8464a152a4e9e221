-------------------------- MODULE MCStreamLifecycle --------------------------
(***************************************************************************)
(* Finite instances of StreamLifecycle: one or two scheduler processes,    *)
(* and one or two request threads.                                         *)
(***************************************************************************)
EXTENDS StreamLifecycle

CONSTANTS s1, s2, c1, c2

\* c1 is served by the process of the scheduler s1, c2 by an API worker.
HomeOf == [c \in Controllers |-> IF c = c1 THEN s1 ELSE Elsewhere]
\* Two request threads start, stop and delete the stream; the second one also
\* serves configuration saves and run-once requests.
TwoOperators == [c \in Controllers |->
    {"start", "stop", "delete"} \cup IF c = c1 THEN {} ELSE {"save", "run_once"}]
OneEditor == [c \in Controllers |-> {"start", "stop", "delete", "save"}]
StopFromApi == [c \in Controllers |-> IF c = c1 THEN {"start"} ELSE {"stop"}]

=============================================================================
