---------------------------- MODULE MCReplayService ----------------------------
(***************************************************************************)
(* Finite instances of ReplayService: the API's two worker processes.      *)
(***************************************************************************)
EXTENDS ReplayService, TLC

CONSTANTS w1, w2

=============================================================================
