--------------------------- MODULE MCBackfillJobs ---------------------------
(***************************************************************************)
(* A finite instance of BackfillJobs: two processes and two jobs, of       *)
(* which the second is a dry one.                                          *)
(***************************************************************************)
EXTENDS BackfillJobs

CONSTANTS p1, p2

=============================================================================
