------------------------------ MODULE JobStore ------------------------------
(***************************************************************************)
(* One row of backtest.backtest_jobs and the SQL statements that           *)
(* PgBacktestJobStore (gr_api/jobs/persistence.py) runs on it, each as a    *)
(* function from the row before to the row after.  A statement whose WHERE  *)
(* clause does not match leaves the row as it is, exactly as the UPDATE     *)
(* changes no row.                                                          *)
(*                                                                          *)
(* Time is abstracted to what the WHERE clauses compare with NOW():         *)
(*   retry  next_retry_at: "null", still in the future ("waiting") or "due"; *)
(*   aged   updated_at is more than stale_seconds old.                      *)
(***************************************************************************)
EXTENDS Naturals

CONSTANTS User,        \* authenticated user ids
          NoUser,      \* user_id NULL: an anonymous POST
          SystemUser   \* the sentinel "*" that lifts owner scoping

Status == {"absent", "queued", "running", "completed", "failed", "cancelled"}
Settled == {"completed", "failed"}          \* terminal, set by a worker
Cancellable == {"queued", "running"}        \* _CANCELLABLE_STATUSES
RetryTime == {"null", "waiting", "due"}

Row == [status : Status, attempt : Nat, retry : RetryTime, aged : BOOLEAN]

\* No row with this job_id is visible.
NoRow == [status |-> "absent", attempt |-> 0, retry |-> "null", aged |-> FALSE]

\* _INSERT_JOB_SQL; attempt 1 and next_retry_at NULL are the column defaults.
Inserted == [status |-> "queued", attempt |-> 1, retry |-> "null", aged |-> FALSE]

\* Every UPDATE below sets updated_at = NOW().
Write(row, status) == [status |-> status, attempt |-> row.attempt,
                       retry |-> row.retry, aged |-> FALSE]

\* Variant for the checks: the stale test of a running row is dropped.
RunnableAtAnyAge(row) == \/ row.status = "queued" /\ row.retry # "waiting"
                         \/ row.status = "running"

\* The WHERE clause of _CLAIM_NEXT_JOB_SQL, its job_type test apart.
Runnable(row) == \/ row.status = "queued" /\ row.retry # "waiting"
                 \/ row.status = "running" /\ row.aged

\* Variant for the checks: ORDER BY next_retry_at alone.
RankByRetryTime(row) == << 0, IF row.retry = "null" THEN 0 ELSE 1 >>

\* Its ORDER BY: queued rows first, then next_retry_at NULLS FIRST.  The rest of
\* the order (the times themselves, updated_at) is left open.
ClaimRank(row) == << IF row.status = "queued" THEN 0 ELSE 1,
                     IF row.retry = "null" THEN 0 ELSE 1 >>

ClaimedBefore(r, s) == \/ ClaimRank(r)[1] < ClaimRank(s)[1]
                       \/ /\ ClaimRank(r)[1] = ClaimRank(s)[1]
                          /\ ClaimRank(r)[2] < ClaimRank(s)[2]

\* _RESET_RUNNING_SQL, in the transaction that holds the claimed row's lock.
ResetRunning(row) ==
  IF row.status \in Cancellable
  THEN Write(row, "running")
  ELSE row

\* _UPDATE_PROGRESS_SQL: of its columns only updated_at matters here.
TouchProgress(row) ==
  IF row.status = "running" THEN Write(row, "running") ELSE row

\* Variant for the checks: no status test.
MarkCompletedBlindly(row) == Write(row, "completed")

\* _MARK_COMPLETED_SQL
MarkCompleted(row) ==
  IF row.status = "running"
  THEN Write(row, "completed")
  ELSE row

\* Variant for the checks: only a queued row can fail.
MarkQueuedFailed(row) ==
  IF row.status = "queued" THEN Write(row, "failed")
  ELSE row

\* _MARK_FAILED_SQL
MarkFailed(row) ==
  IF row.status \in Cancellable
  THEN Write(row, "failed")
  ELSE row

\* _MARK_RETRY_SQL: its WHERE clause names the job only, not the status.
MarkRetry(row) == [status |-> "queued", attempt |-> row.attempt + 1,
                   retry |-> "waiting", aged |-> FALSE]

\* The owner test of the SELECTs and of _MARK_CANCELLED_SQL.
OwnerMatches(owner, user) == user = SystemUser \/ owner = user

\* Variant for the checks: the UPDATE trusts cancel_job's earlier status check.
MarkCancelledBlindly(row, owner, user) ==
  IF OwnerMatches(owner, user)
  THEN Write(row, "cancelled")
  ELSE row

\* _MARK_CANCELLED_SQL
MarkCancelled(row, owner, user) ==
  IF row.status \in Cancellable /\ OwnerMatches(owner, user)
  THEN Write(row, "cancelled")
  ELSE row

\* Time passes: next_retry_at is reached, or stale_seconds since updated_at are.
BecomeDue(row) == [status |-> row.status, attempt |-> row.attempt,
                   retry |-> "due", aged |-> row.aged]
BecomeAged(row) == [status |-> row.status, attempt |-> row.attempt,
                    retry |-> row.retry, aged |-> TRUE]
=============================================================================
