----------------------------- MODULE TrialRuns -----------------------------
(***************************************************************************)
(* One worker process running the sweeps of one job: the trial loop         *)
(* (SweepRunner.run, WalkForward.run), its progress callbacks, the cancel   *)
(* listener and probe, and the last row writes of BacktestJobRunner.run_once.*)
(*                                                                          *)
(* The op is a coroutine that runs the whole loop without an await, so the  *)
(* event loop stands still until the last trial.  The progress coroutines   *)
(* it scheduled start then, in order, and each commits through a connection *)
(* of its own: in any order, and next to the runner's own writes.           *)
(***************************************************************************)
EXTENDS JobStore, Sequences

CONSTANTS Trials,       \* trials of a sweep, or windows of a walk-forward
          FailFast,     \* fail_fast of the request
          MaxAttempt,   \* max_attempts of the job
          JobUser,      \* its user_id
          MaxLost       \* bound: worker processes lost

ASSUME TrialsAssumption == Trials \in Nat \ {0}
ASSUME FailFastAssumption == FailFast \in BOOLEAN
ASSUME MaxAttemptAssumption == MaxAttempt \in Nat \ {0} /\ MaxLost \in Nat

VARIABLES
  row,         \* the job's row, its progress column apart
  progress,    \* that column
  at,          \* where the worker is
  attempt,     \* attempt of the row it claimed
  done,        \* trials it has finished
  scheduled,   \* progress callbacks handed to the event loop, by trial, not started
  highest,     \* highest_boundary of this run, one up: 0 while there is none
  writing,     \* callbacks between their boundary test and their commit, by trial
  pump,        \* the task of WorkerCancelListener: "none", "alive" or "cancelled"
  listening,   \* its _running
  heard,       \* its _cancelled holds the job
  report,      \* final_status of the last run, or "none"
  wasCancelled, lost   \* history: a cancel succeeded; worker processes lost

trialVars == << row, progress, at, attempt, done, scheduled, highest, writing, pump,
                listening, heard, report, wasCancelled, lost >>
loopVars == << scheduled, highest, writing >>
listenerVars == << pump, listening, heard >>

\* Steps at which the runner awaits the database, so that the event loop turns.
Awaiting == {"save", "progress", "complete", "cancel", "retry", "fail"}
Engine == {"boundary", "trial"}
Ends == {"completed", "failed", "cancelled", "failed_retryable"}

TrialsTypeOK ==
  /\ row \in Row
  /\ progress \in 0..100
  /\ at \in {"idle", "ready", "probe", "terminal", "transient", "leave", "closing"}
             \cup Engine \cup Awaiting
  /\ attempt \in Nat
  /\ done \in 0..Trials
  /\ scheduled \in Seq(1..Trials)
  /\ highest \in 0..101
  /\ writing \subseteq 1..Trials
  /\ pump \in {"none", "alive", "cancelled"}
  /\ listening \in BOOLEAN /\ heard \in BOOLEAN
  /\ report \in Ends \cup {"none"}
  /\ wasCancelled \in BOOLEAN
  /\ lost \in Nat

TrialsInit ==
  /\ row = Inserted
  /\ progress = 0
  /\ at = "idle"
  /\ attempt = 0
  /\ done = 0
  /\ scheduled = << >>
  /\ highest = 0
  /\ writing = {}
  /\ pump = "none"
  /\ listening = FALSE
  /\ heard = FALSE
  /\ report = "none"
  /\ wasCancelled = FALSE
  /\ lost = 0
-----------------------------------------------------------------------------
(***************************************************************************)
(* Row writes, and the NOTIFY that each of them sends                       *)
(***************************************************************************)

\* _pump adds every payload to _cancelled, whatever the row write was.
Hears == heard' = (heard \/ pump = "alive")

\* Variant for the checks: a late progress write finds no status test.
ProgressWrittenAnyway(v) == v

\* The progress column after _UPDATE_PROGRESS_SQL.
ProgressWritten(v) == IF row.status = "running" THEN v ELSE progress

\* int(done * 100 / total) of _sync_progress_adapter, and the 5% boundary below it.
Percent(i) == (i * 100) \div Trials
Boundary(p) == (p \div 5) * 5

CancelJob ==
  /\ row.status \in Cancellable
  /\ row' = MarkCancelled(row, JobUser, JobUser)
  /\ wasCancelled' = TRUE
  /\ Hears
  /\ UNCHANGED << progress, at, attempt, done, scheduled, highest, writing, pump,
                  listening, report, lost >>

RetryTimeComes ==
  /\ row.status = "queued" /\ row.retry = "waiting"
  /\ row' = BecomeDue(row)
  /\ UNCHANGED << progress, at, attempt, done, loopVars, listenerVars, report,
                  wasCancelled, lost >>

\* stale_seconds pass after the worker that held the row was lost.
RowAges ==
  /\ row.status = "running" /\ ~ row.aged
  /\ at = "idle"
  /\ row' = BecomeAged(row)
  /\ UNCHANGED << progress, at, attempt, done, loopVars, listenerVars, report,
                  wasCancelled, lost >>
-----------------------------------------------------------------------------
(***************************************************************************)
(* _run_job_sync: the listener is opened, the row claimed                   *)
(***************************************************************************)

\* Variant for the checks: the loop that start() ran in is kept running.
TaskAfterItsLoop(task) == task

\* asyncio.run cancels every task that is left when its coroutine returns.
TaskAfterLoop(task) == IF task = "alive" THEN "cancelled" ELSE task

\* init_cancel_listener: start() connects, makes the pump a task and returns, and
\* with it ends the loop of asyncio.run.  start() may fail; the set stays empty.
OpenListener ==
  /\ at = "idle"
  /\ Runnable(row)
  /\ at' = "ready"
  /\ \/ pump' = TaskAfterLoop("alive") /\ listening' = TRUE
     \/ UNCHANGED << pump, listening >>
  /\ UNCHANGED << row, progress, attempt, done, loopVars, heard, report, wasCancelled,
                  lost >>

\* claim_next_queued leaves the progress column alone and sends no NOTIFY.
ClaimJob ==
  /\ at = "ready"
  /\ IF Runnable(row)
     THEN /\ row' = ResetRunning(row)
          /\ attempt' = row.attempt
          /\ at' = "boundary"
     ELSE /\ at' = "closing"
          /\ UNCHANGED << row, attempt >>
  /\ UNCHANGED << progress, done, loopVars, listenerVars, report, wasCancelled, lost >>
-----------------------------------------------------------------------------
(***************************************************************************)
(* The trial loop; the event loop is blocked                                *)
(***************************************************************************)

\* is_cancelled_fn: the listener's set, then the row's status; a failed read says
\* FALSE.
CancelAnswers == IF listening /\ heard THEN {TRUE}
                 ELSE {row.status = "cancelled", FALSE}

\* The probe before each trial; a cancelled op reports so and is left alone.
TrialBoundary ==
  /\ at = "boundary"
  /\ \/ TRUE \in CancelAnswers /\ at' = "leave" /\ report' = "cancelled"
     \/ FALSE \in CancelAnswers /\ at' = "trial" /\ UNCHANGED report
  /\ UNCHANGED << row, progress, attempt, done, loopVars, listenerVars, wasCancelled,
                  lost >>

\* A trial is over, failed ones included, and on_progress schedules its percent.
TrialEnds ==
  /\ at = "trial"
  /\ done' = done + 1
  /\ scheduled' = Append(scheduled, done + 1)
  /\ at' = IF done + 1 = Trials THEN "save" ELSE "boundary"
  /\ UNCHANGED << row, progress, attempt, highest, writing, listenerVars, report,
                  wasCancelled, lost >>

\* With fail_fast the trial's exception leaves the op.
TrialRaises ==
  /\ at = "trial"
  /\ FailFast
  /\ at' \in {"terminal", "transient"}
  /\ UNCHANGED << row, progress, attempt, done, loopVars, listenerVars, report,
                  wasCancelled, lost >>
-----------------------------------------------------------------------------
(***************************************************************************)
(* Progress callbacks: _cb of _make_progress_callback                       *)
(***************************************************************************)

\* The part before the await: only a new boundary, or 100, is written.
StartCallback ==
  /\ at \in Awaiting
  /\ scheduled # << >>
  /\ scheduled' = Tail(scheduled)
  /\ LET i == Head(scheduled)
         boundary == Boundary(Percent(i))
     IN  IF Percent(i) # 100 /\ boundary + 1 <= highest
         THEN UNCHANGED << highest, writing >>
         ELSE highest' = boundary + 1 /\ writing' = writing \cup {i}
  /\ UNCHANGED << row, progress, at, attempt, done, listenerVars, report, wasCancelled,
                  lost >>

\* update_progress commits.
CallbackCommits(i) ==
  /\ i \in writing
  /\ writing' = writing \ {i}
  /\ row' = TouchProgress(row)
  /\ progress' = ProgressWritten(Percent(i))
  /\ Hears
  /\ UNCHANGED << at, attempt, done, scheduled, highest, pump, listening, report,
                  wasCancelled, lost >>

\* Its error is swallowed.
CallbackFails(i) ==
  /\ i \in writing
  /\ writing' = writing \ {i}
  /\ UNCHANGED << row, progress, at, attempt, done, scheduled, highest, listenerVars,
                  report, wasCancelled, lost >>
-----------------------------------------------------------------------------
(***************************************************************************)
(* run_once after the op                                                    *)
(***************************************************************************)

\* The results are saved, or saving them raises.
SaveResults ==
  /\ at = "save"
  /\ at' \in {"progress", "terminal", "transient"}
  /\ UNCHANGED << row, progress, attempt, done, loopVars, listenerVars, report,
                  wasCancelled, lost >>

\* update_progress(job_id, 100), which no boundary test guards.
ReportProgress ==
  /\ at = "progress"
  /\ at' = "probe"
  /\ row' = TouchProgress(row)
  /\ progress' = ProgressWritten(100)
  /\ Hears
  /\ UNCHANGED << attempt, done, loopVars, pump, listening, report, wasCancelled, lost >>

ProbeBeforeCompletion ==
  /\ at = "probe"
  /\ \/ TRUE \in CancelAnswers /\ at' = "leave" /\ report' = "cancelled"
     \/ FALSE \in CancelAnswers /\ at' = "complete" /\ UNCHANGED report
  /\ UNCHANGED << row, progress, attempt, done, loopVars, listenerVars, wasCancelled,
                  lost >>

\* The except branch: cancelled, terminal, retry while attempts are left.
ProbeAfterError ==
  /\ at \in {"terminal", "transient"}
  /\ at' \in {IF seen THEN "cancel"
              ELSE IF at = "transient" /\ attempt < MaxAttempt THEN "retry" ELSE "fail"
              : seen \in CancelAnswers}
  /\ UNCHANGED << row, progress, attempt, done, loopVars, listenerVars, report,
                  wasCancelled, lost >>

\* The row write that ends the run; a cancel that changes nothing sends no NOTIFY.
\* mark_completed returns True whether or not it found the row running, so
\* "completed" is reported either way.
EndRun ==
  /\ at \in {"complete", "cancel", "retry", "fail"}
  /\ at' = "leave"
  /\ \/ /\ at = "complete"
        /\ row' = MarkCompleted(row)
        /\ progress' = ProgressWritten(100)
        /\ report' = "completed"
     \/ /\ at = "cancel"
        /\ row' = MarkCancelled(row, JobUser, NoUser)
        /\ report' = "cancelled" /\ UNCHANGED progress
     \/ /\ at = "retry"
        /\ row' = MarkRetry(row)
        /\ progress' = 0
        /\ report' = "failed_retryable"
     \/ /\ at = "fail"
        /\ row' = MarkFailed(row)
        /\ report' = "failed" /\ UNCHANGED progress
  /\ IF at = "cancel" /\ row' = row THEN UNCHANGED heard ELSE Hears
  /\ UNCHANGED << attempt, done, loopVars, pump, listening, wasCancelled, lost >>

\* asyncio.run of the task ends: callbacks that have not finished are cancelled.
LoopEnds ==
  /\ at = "leave"
  /\ at' = "closing"
  /\ scheduled' = << >>
  /\ writing' = {}
  /\ highest' = 0
  /\ done' = 0
  /\ UNCHANGED << row, progress, attempt, listenerVars, report, wasCancelled, lost >>

\* close_cancel_listener: stop() forgets what was heard.
CloseListener ==
  /\ at = "closing"
  /\ at' = "idle"
  /\ attempt' = 0
  /\ pump' = "none" /\ listening' = FALSE /\ heard' = FALSE
  /\ UNCHANGED << row, progress, done, loopVars, report, wasCancelled, lost >>

\* The worker process is lost; its transactions are rolled back.
WorkerLost ==
  /\ at # "idle"
  /\ lost < MaxLost
  /\ lost' = lost + 1
  /\ at' = "idle"
  /\ attempt' = 0 /\ done' = 0
  /\ scheduled' = << >> /\ writing' = {} /\ highest' = 0
  /\ pump' = "none" /\ listening' = FALSE /\ heard' = FALSE
  /\ UNCHANGED << row, progress, report, wasCancelled >>
-----------------------------------------------------------------------------
TrialsNext ==
  \/ CancelJob \/ RetryTimeComes \/ RowAges
  \/ OpenListener \/ ClaimJob
  \/ TrialBoundary \/ TrialEnds \/ TrialRaises
  \/ StartCallback
  \/ \E i \in 1..Trials : CallbackCommits(i) \/ CallbackFails(i)
  \/ SaveResults \/ ReportProgress \/ ProbeBeforeCompletion \/ ProbeAfterError
  \/ EndRun \/ LoopEnds \/ CloseListener \/ WorkerLost

TrialsSpec == TrialsInit /\ [][TrialsNext]_trialVars
-----------------------------------------------------------------------------
(***************************************************************************)
(* Properties                                                               *)
(***************************************************************************)

\* However the progress writes of a run are reordered or delayed, a completed row
\* says 100 and a row that waits for its next attempt says 0.
ProgressFitsStatus ==
  /\ row.status = "completed" => progress = 100
  /\ row.status = "queued" => progress = 0

\* A run is only given up as cancelled when the user did cancel the job: the probe's
\* three tiers never mistake another row write for a cancel.
StopsOnlyWhenCancelled == report = "cancelled" => wasCancelled

\* What the runner reports and what the row says differ only when a cancel came in
\* between: a run that reports completed leaves the row completed or cancelled.
ReportFitsRow ==
  at = "closing" /\ report = "completed" =>
    row.status = "completed" \/ row.status = "cancelled"

\* What a run reports fits what became of its job.
ReportsFit == StopsOnlyWhenCancelled /\ ReportFitsRow
=============================================================================
