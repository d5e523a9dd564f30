-------------------------- MODULE MCBacktestJobs --------------------------
(***************************************************************************)
(* Instances of the job queue for TLC.  Job ids, workers and users are      *)
(* model values; the functions on jobs are given here.                      *)
(***************************************************************************)
EXTENDS BacktestJobsLiveness, TLC

CONSTANTS j1, j2, u1

\* Both jobs queue for the same workers; the first may be tried twice and has an
\* owner, the second is anonymous and keeps the default of one attempt.
SameType == (j1 :> "backtest") @@ (j2 :> "backtest")
TwoTypes == (j1 :> "backtest") @@ (j2 :> "sweep")
RetryFirst == (j1 :> 2) @@ (j2 :> 1)
NoRetry == (j1 :> 1) @@ (j2 :> 1)
OwnFirst == (j1 :> u1) @@ (j2 :> NoUser)
OwnBoth == (j1 :> u1) @@ (j2 :> u1)

Workers == Permutations(Worker)
=============================================================================
