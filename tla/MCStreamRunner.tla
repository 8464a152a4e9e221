--------------------------- MODULE MCStreamRunner ---------------------------
(***************************************************************************)
(* Finite instances of StreamRunner.                                       *)
(***************************************************************************)
EXTENDS StreamRunner

CONSTANTS sched, once, backfill

KindOf == [p \in Runners |->
    CASE p = sched -> "scheduler" [] p = once -> "run_once" [] OTHER -> "backfill"]

AllowAll == [r \in Routes |-> {"allow"}]
NoFailovers == [r \in Routes |-> FALSE]
FirstHasFailover == [r \in Routes |-> r = 1]
QuarantineSecond == [r \in Routes |-> IF r = 2 THEN {"allow", "quarantine"} ELSE {"allow"}]
QuarantineThird == [r \in Routes |-> IF r = 3 THEN {"quarantine"} ELSE {"allow"}]

RetryLog == [r \in Routes |-> IF r = 1 THEN "RETRY_AND_BACKOFF" ELSE "LOG_AND_CONTINUE"]
PauseDisable == [r \in Routes |->
    IF r = 1 THEN "PAUSE_STREAM_ON_FAILURE" ELSE "DISABLE_ROUTE_ON_FAILURE"]

=============================================================================
