---------------------------- MODULE MCRuntimeLock ----------------------------
(***************************************************************************)
(* Finite instances of RuntimeLock: two threads of the API process and one *)
(* of the scheduler process.                                               *)
(***************************************************************************)
EXTENDS RuntimeLock, TLC

CONSTANTS a1, a2, s1, api, sched

ProcessOf == [t \in Threads |-> IF t = s1 THEN sched ELSE api]
SharedDir == [p \in Processes |-> "host"]

\* Lock objects are interchangeable.
LockSymmetry == Permutations(Locks)

=============================================================================
