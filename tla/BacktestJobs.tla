---------------------------- MODULE BacktestJobs ----------------------------
(***************************************************************************)
(* The backtest job queue of gr-api: POST handlers that insert a row and    *)
(* send a Celery message, the broker, worker processes that take a message, *)
(* claim a row and run it (BacktestJobRunner.run_once), and the cancel      *)
(* endpoint.  The rows live in PostgreSQL; every action below that writes   *)
(* them is one committed transaction.                                       *)
(*                                                                          *)
(* A worker's message only tells it a job type: what it runs is whatever    *)
(* claim_next_queued hands out.  So the message a POST sends and the row it *)
(* inserts are two separate pieces of state, and most of what can go wrong  *)
(* here is the two drifting apart.                                          *)
(***************************************************************************)
EXTENDS JobStore, FiniteSets

CONSTANTS Job,          \* job ids (uuid4: never reused)
          Worker,       \* Celery worker processes, prefetch 1
          NoJob,
          TypeOf,       \* job_type of each job
          MaxAttempts,  \* max_attempts of each job, 1..10 in the request schema
          Owner,        \* user_id of each job, NoUser when posted anonymously
          Faults,       \* which faults of the environment may happen
          MaxCrashes,   \* bound: worker processes lost
          MaxReposts    \* bound: POSTs repeated with a known Idempotency-Key

JobType == {"backtest", "sweep", "walk_forward"}

\* crash        a worker process is lost; the broker redelivers its message
\* rollback     the POST's transaction does not commit
\* store_error  a store call of run_once raises BacktestJobError
\* probe_error  sync_is_cancelled_status fails open
\* long_op      a run outlasts stale_recovery_seconds between two row writes
FaultKind == {"crash", "rollback", "store_error", "probe_error", "long_op"}

ASSUME TypeOfAssumption == TypeOf \in [Job -> JobType]
ASSUME MaxAttemptsAssumption == MaxAttempts \in [Job -> Nat \ {0}]
ASSUME OwnerAssumption == Owner \in [Job -> User \cup {NoUser}]
ASSUME UserAssumption == /\ NoUser \notin User
                         /\ SystemUser \notin User \cup {NoUser}
                         /\ "none" \notin User \cup {NoUser}
ASSUME FaultsAssumption == Faults \subseteq FaultKind
ASSUME NoJobAssumption == NoJob \notin Job
ASSUME BoundsAssumption == MaxCrashes \in Nat /\ MaxReposts \in Nat

VARIABLES
  rows,        \* backtest.backtest_jobs as other connections see it
  request,     \* the POST of each job: "new", "open", "committed", "aborted"
  messages,    \* per job id, Celery messages waiting in the broker
  pc,          \* where each worker is in _run_job_sync / run_once
  msg,         \* the message a worker holds unacknowledged, or NoJob
  run,         \* the row a worker claimed: job and its snapshot of attempt
  results,     \* the user_id the op's results were saved under, or "none"
  cancelling,  \* cancel requests between the status check and the UPDATE
  cancelled,   \* history: jobs whose cancel request was answered with success
  dropped,     \* history, per job type: messages that ended before a claim was made
  crashes, reposts   \* history, for the bounds

vars == << rows, request, messages, pc, msg, run, results, cancelling, cancelled,
           dropped, crashes, reposts >>

\* Where a worker is while it holds a claimed row.
Holding == {"op", "progress", "probe", "complete", "terminal", "transient",
            "cancel", "fail", "retry"}
\* The op has raised and the runner is about to ask whether the job is cancelled.
Raised == {"terminal", "transient"}
\* The op has returned {"progress": 100}.
Returned == {"progress", "probe", "complete"}

Idle == [job |-> NoJob, attempt |-> 0]

Executes(w, j) == pc[w] \in Holding /\ run[w].job = j

TypeOK ==
  /\ rows \in [Job -> Row]
  /\ request \in [Job -> {"new", "open", "committed", "aborted"}]
  /\ messages \in [Job -> Nat]
  /\ pc \in [Worker -> {"idle", "claim"} \cup Holding]
  /\ msg \in [Worker -> Job \cup {NoJob}]
  /\ run \in [Worker -> [job : Job \cup {NoJob}, attempt : Nat]]
  /\ results \in [Job -> {"none"} \cup User \cup {NoUser}]
  /\ cancelling \subseteq User \X Job
  /\ cancelled \subseteq Job
  /\ dropped \in [JobType -> Nat]
  /\ crashes \in Nat
  /\ reposts \in Nat

Init ==
  /\ rows = [j \in Job |-> NoRow]
  /\ request = [j \in Job |-> "new"]
  /\ messages = [j \in Job |-> 0]
  /\ pc = [w \in Worker |-> "idle"]
  /\ msg = [w \in Worker |-> NoJob]
  /\ run = [w \in Worker |-> Idle]
  /\ results = [j \in Job |-> "none"]
  /\ cancelling = {}
  /\ cancelled = {}
  /\ dropped = [t \in JobType |-> 0]
  /\ crashes = 0
  /\ reposts = 0
-----------------------------------------------------------------------------
(***************************************************************************)
(* POST /backtest-jobs/{backtest,sweep,walk-forward}                        *)
(***************************************************************************)

\* The handler body: create_*_job inserts the row in the request's transaction
\* and _enqueue sends the message, before get_db commits that transaction.
Post(j) ==
  /\ request[j] = "new"
  /\ request' = [request EXCEPT ![j] = "open"]
  /\ messages' = [messages EXCEPT ![j] = @ + 1]
  /\ UNCHANGED << rows, pc, msg, run, results, cancelling, cancelled, dropped,
                  crashes, reposts >>

\* get_db's exit: the row becomes visible.
Commit(j) ==
  /\ request[j] = "open"
  /\ request' = [request EXCEPT ![j] = "committed"]
  /\ rows' = [rows EXCEPT ![j] = Inserted]
  /\ UNCHANGED << messages, pc, msg, run, results, cancelling, cancelled, dropped,
                  crashes, reposts >>

\* The transaction is lost instead (the API process or its connection dies).
Rollback(j) ==
  /\ "rollback" \in Faults
  /\ request[j] = "open"
  /\ request' = [request EXCEPT ![j] = "aborted"]
  /\ UNCHANGED << rows, messages, pc, msg, run, results, cancelling, cancelled,
                  dropped, crashes, reposts >>

\* A repeated POST that _resolve_idempotent answers with the existing job still
\* calls _enqueue.
Repost(j) ==
  /\ reposts < MaxReposts
  /\ rows[j].status # "absent"
  /\ messages' = [messages EXCEPT ![j] = @ + 1]
  /\ reposts' = reposts + 1
  /\ UNCHANGED << rows, request, pc, msg, run, results, cancelling, cancelled,
                  dropped, crashes >>
-----------------------------------------------------------------------------
(***************************************************************************)
(* _run_job_sync: take a message, look its row up, claim                    *)
(***************************************************************************)

\* The worker goes back to the broker; a held message is acknowledged.
LetGo(w) ==
  /\ pc' = [pc EXCEPT ![w] = "idle"]
  /\ msg' = [msg EXCEPT ![w] = NoJob]
  /\ run' = [run EXCEPT ![w] = Idle]

\* Variant for the checks: a message is handed out without being there.
ReceiveFromEmpty(w, j) ==
  /\ pc[w] = "idle"
  /\ rows[j].status # "absent"
  /\ messages' = [messages EXCEPT ![j] = @ - 1]
  /\ msg' = [msg EXCEPT ![w] = j]
  /\ pc' = [pc EXCEPT ![w] = "claim"]
  /\ UNCHANGED << rows, request, run, results, cancelling, cancelled, dropped,
                  crashes, reposts >>

\* get_job finds the message's row and names the type to claim.
Receive(w, j) ==
  /\ pc[w] = "idle"
  /\ messages[j] > 0
  /\ rows[j].status # "absent"
  /\ messages' = [messages EXCEPT ![j] = @ - 1]
  /\ msg' = [msg EXCEPT ![w] = j]
  /\ pc' = [pc EXCEPT ![w] = "claim"]
  /\ UNCHANGED << rows, request, run, results, cancelling, cancelled, dropped,
                  crashes, reposts >>

\* get_job finds no row: "job not found", and the task ends.
ReceiveUnknown(w, j) ==
  /\ pc[w] = "idle"
  /\ messages[j] > 0
  /\ rows[j].status = "absent"
  /\ messages' = [messages EXCEPT ![j] = @ - 1]
  /\ dropped' = [dropped EXCEPT ![TypeOf[j]] = @ + 1]
  /\ UNCHANGED << rows, request, pc, msg, run, results, cancelling, cancelled,
                  crashes, reposts >>

Candidates(t) == {j \in Job : TypeOf[j] = t /\ Runnable(rows[j])}

\* claim_next_queued: FOR UPDATE SKIP LOCKED and _RESET_RUNNING_SQL in one
\* transaction.  The job need not be the message's.
Claim(w, j) ==
  /\ pc[w] = "claim"
  /\ j \in Candidates(TypeOf[msg[w]])
  /\ \A k \in Candidates(TypeOf[msg[w]]) : ~ ClaimedBefore(rows[k], rows[j])
  /\ rows' = [rows EXCEPT ![j] = ResetRunning(@)]
  /\ run' = [run EXCEPT ![w] = [job |-> j, attempt |-> rows[j].attempt]]
  /\ pc' = [pc EXCEPT ![w] = "op"]
  /\ UNCHANGED << request, messages, msg, results, cancelling, cancelled, dropped,
                  crashes, reposts >>

\* No runnable row of the type: claimed=False, the task ends.
ClaimNothing(w) ==
  /\ pc[w] = "claim"
  /\ Candidates(TypeOf[msg[w]]) = {}
  /\ LetGo(w)
  /\ UNCHANGED << rows, request, messages, results, cancelling, cancelled, dropped,
                  crashes, reposts >>
-----------------------------------------------------------------------------
(***************************************************************************)
(* run_once after the claim                                                 *)
(***************************************************************************)

\* A progress write of the op; it moves updated_at, so it is also the only
\* heartbeat a running row gets.
Heartbeat(w) ==
  /\ pc[w] = "op"
  /\ rows' = [rows EXCEPT ![run[w].job] = TouchProgress(@)]
  /\ rows' # rows
  /\ UNCHANGED << request, messages, pc, msg, run, results, cancelling, cancelled,
                  dropped, crashes, reposts >>

\* A trial boundary saw the cancel: the op returns {"cancelled": True} and the
\* runner leaves the row alone.
OpStops(w) ==
  /\ pc[w] = "op"
  /\ rows[run[w].job].status = "cancelled"
  /\ LetGo(w)
  /\ UNCHANGED << rows, request, messages, results, cancelling, cancelled, dropped,
                  crashes, reposts >>

\* Variant for the checks: the op returns without having saved.
OpReturnsUnsaved(w) ==
  /\ pc[w] = "op"
  /\ pc' = [pc EXCEPT ![w] = "progress"]
  /\ UNCHANGED << rows, request, messages, msg, run, results, cancelling, cancelled,
                  dropped, crashes, reposts >>

\* The op saves its results and returns {"progress": 100}.  SweepRunOp saves them
\* under job.get("user_id"), a column the claim's SELECT list does not carry.
OpReturns(w) ==
  /\ pc[w] = "op"
  /\ results' = [results EXCEPT ![run[w].job] = NoUser]
  /\ pc' = [pc EXCEPT ![w] = "progress"]
  /\ UNCHANGED << rows, request, messages, msg, run, cancelling, cancelled, dropped,
                  crashes, reposts >>

\* The op raises a TerminalError or any other exception.
OpRaises(w, kind) ==
  /\ pc[w] = "op"
  /\ pc' = [pc EXCEPT ![w] = kind]
  /\ UNCHANGED << rows, request, messages, msg, run, results, cancelling, cancelled,
                  dropped, crashes, reposts >>

\* The runner writes the progress the op reported.
WriteProgress(w) ==
  /\ pc[w] = "progress"
  /\ rows' = [rows EXCEPT ![run[w].job] = TouchProgress(@)]
  /\ pc' = [pc EXCEPT ![w] = "probe"]
  /\ UNCHANGED << request, messages, msg, run, results, cancelling, cancelled,
                  dropped, crashes, reposts >>

\* is_cancelled_fn(): the row's status now, FALSE when the read fails.
ProbeAnswers(w) ==
  {rows[run[w].job].status = "cancelled"}
    \cup (IF "probe_error" \in Faults THEN {FALSE} ELSE {})

\* The probe before mark_completed: a job seen cancelled is left alone.
ProbeStops(w) ==
  /\ pc[w] = "probe"
  /\ TRUE \in ProbeAnswers(w)
  /\ LetGo(w)
  /\ UNCHANGED << rows, request, messages, results, cancelling, cancelled, dropped,
                  crashes, reposts >>

ProbePasses(w) ==
  /\ pc[w] = "probe"
  /\ FALSE \in ProbeAnswers(w)
  /\ pc' = [pc EXCEPT ![w] = "complete"]
  /\ UNCHANGED << rows, request, messages, msg, run, results, cancelling, cancelled,
                  dropped, crashes, reposts >>

\* Variant for the checks: one attempt too many.
AfterProbeOffByOne(w, seen) ==
  IF seen THEN "cancel"
  ELSE IF pc[w] = "transient" /\ run[w].attempt <= MaxAttempts[run[w].job] THEN "retry"
  ELSE "fail"

\* The except branch: cancellation first, then TerminalError, then the attempts
\* left according to the claimed row.
AfterProbe(w, seen) ==
  IF seen THEN "cancel"
  ELSE IF pc[w] = "transient" /\ run[w].attempt < MaxAttempts[run[w].job] THEN "retry"
  ELSE "fail"

ProbeError(w) ==
  /\ pc[w] \in Raised
  /\ \E seen \in ProbeAnswers(w) : pc' = [pc EXCEPT ![w] = AfterProbe(w, seen)]
  /\ UNCHANGED << rows, request, messages, msg, run, results, cancelling, cancelled,
                  dropped, crashes, reposts >>

\* The row write that ends a run.  The runner cancels with user_id None, which
\* _MARK_CANCELLED_SQL matches with unowned rows only.
LastWrite(step, row, owner) ==
  CASE step = "complete" -> MarkCompleted(row)
    [] step = "fail"     -> MarkFailed(row)
    [] step = "retry"    -> MarkRetry(row)
    [] step = "cancel"   -> MarkCancelled(row, owner, NoUser)

Finish(w) ==
  /\ pc[w] \in {"complete", "fail", "retry", "cancel"}
  /\ rows' = [rows EXCEPT ![run[w].job] = LastWrite(pc[w], @, Owner[run[w].job])]
  /\ LetGo(w)
  /\ UNCHANGED << request, messages, results, cancelling, cancelled, dropped,
                  crashes, reposts >>

\* A store call raises out of run_once: the Celery task fails, its message is
\* acknowledged and the row stays as it was.
StoreFails(w) ==
  /\ "store_error" \in Faults
  /\ pc[w] \in {"claim", "progress", "complete", "fail", "retry", "cancel"}
  /\ LetGo(w)
  /\ dropped' = IF pc[w] = "claim" THEN [dropped EXCEPT ![TypeOf[msg[w]]] = @ + 1]
                ELSE dropped
  /\ UNCHANGED << rows, request, messages, results, cancelling, cancelled, crashes,
                  reposts >>

\* The worker process is lost: acks_late and reject_on_worker_lost put its
\* message back.
Crash(w) ==
  /\ "crash" \in Faults
  /\ crashes < MaxCrashes
  /\ pc[w] # "idle"
  /\ crashes' = crashes + 1
  /\ messages' = [messages EXCEPT ![msg[w]] = @ + 1]
  /\ LetGo(w)
  /\ UNCHANGED << rows, request, results, cancelling, cancelled, dropped, reposts >>
-----------------------------------------------------------------------------
(***************************************************************************)
(* POST /backtest-jobs/{id}/cancel                                          *)
(***************************************************************************)

\* cancel_job reads the row in the caller's scope: NotFound and Conflict end here.
CancelRequest(u, j) ==
  /\ rows[j].status \in Cancellable
  /\ OwnerMatches(Owner[j], u)
  /\ << u, j >> \notin cancelling
  /\ cancelling' = cancelling \cup {<< u, j >>}
  /\ UNCHANGED << rows, request, messages, pc, msg, run, results, cancelled, dropped,
                  crashes, reposts >>

\* Its mark_cancelled: the request succeeds when the UPDATE changed the row.
CancelWrite(u, j) ==
  /\ << u, j >> \in cancelling
  /\ rows' = [rows EXCEPT ![j] = MarkCancelled(@, Owner[j], u)]
  /\ cancelling' = cancelling \ {<< u, j >>}
  /\ cancelled' = IF rows' # rows THEN cancelled \cup {j} ELSE cancelled
  /\ UNCHANGED << request, messages, pc, msg, run, results, dropped, crashes, reposts >>
-----------------------------------------------------------------------------
(***************************************************************************)
(* Time                                                                     *)
(***************************************************************************)

\* next_retry_at is reached.
RetryDue(j) ==
  /\ rows[j].status = "queued"
  /\ rows[j].retry = "waiting"
  /\ rows' = [rows EXCEPT ![j] = BecomeDue(@)]
  /\ UNCHANGED << request, messages, pc, msg, run, results, cancelling, cancelled,
                  dropped, crashes, reposts >>

\* stale_seconds pass since the last write of a running row.  Without long_op every
\* worker that is still at work on it writes in time.
Age(j) ==
  /\ rows[j].status = "running"
  /\ ~ rows[j].aged
  /\ \A w \in Worker : Executes(w, j) => "long_op" \in Faults
  /\ rows' = [rows EXCEPT ![j] = BecomeAged(@)]
  /\ UNCHANGED << request, messages, pc, msg, run, results, cancelling, cancelled,
                  dropped, crashes, reposts >>
-----------------------------------------------------------------------------
OpEnds(w) == OpStops(w) \/ OpReturns(w) \/ \E kind \in Raised : OpRaises(w, kind)

Probe(w) == ProbeStops(w) \/ ProbePasses(w)

WorkerStep(w) ==
  \/ \E j \in Job : Receive(w, j) \/ ReceiveUnknown(w, j) \/ Claim(w, j)
  \/ ClaimNothing(w)
  \/ OpEnds(w)
  \/ WriteProgress(w)
  \/ Probe(w)
  \/ ProbeError(w)
  \/ Finish(w)

Next ==
  \/ \E j \in Job : \/ Post(j) \/ Commit(j) \/ Rollback(j) \/ Repost(j)
                    \/ RetryDue(j) \/ Age(j)
  \/ \E w \in Worker : WorkerStep(w) \/ Heartbeat(w) \/ StoreFails(w) \/ Crash(w)
  \/ \E u \in User, j \in Job : CancelRequest(u, j) \/ CancelWrite(u, j)

Spec == Init /\ [][Next]_vars
-----------------------------------------------------------------------------
(***************************************************************************)
(* Properties                                                               *)
(***************************************************************************)
NoLongRuns == "long_op" \notin Faults

\* FOR UPDATE SKIP LOCKED and the stale test of _CLAIM_NEXT_JOB_SQL keep every job
\* with one worker at a time, across crashes, redelivery, retries and cancels, as
\* long as no run outlasts stale_seconds.
OneExecution ==
  NoLongRuns =>
    \A w, v \in Worker, j \in Job : Executes(w, j) /\ Executes(v, j) => w = v

\* The column comment of max_attempts in 016_backtest_jobs.sql: it is the largest
\* attempt number a row ever carries.
AttemptsBounded == \A j \in Job : rows[j].attempt <= MaxAttempts[j]

AttemptsBoundedWhenInTime == NoLongRuns => AttemptsBounded

\* A completed job has saved results, whichever worker saved them: mark_completed is
\* only reached after save_result of a run of that very job.
CompletedHasResults == \A j \in Job : rows[j].status = "completed" => results[j] # "none"

\* runner.py: "never retry a job the user explicitly asked to stop".  Once a cancel
\* request succeeded the job is cancelled for good.
CancelIsFinal == \A j \in Job : j \in cancelled => rows[j].status = "cancelled"

\* What does hold of a cancelled job: only the retry of a job with more than one
\* attempt can undo the cancel.
CancelIsFinalWithoutRetry ==
  \A j \in Job : j \in cancelled /\ MaxAttempts[j] = 1 => rows[j].status = "cancelled"

\* A claimed job's results belong to the user who posted the job (backtest_sweep.py
\* serves a sweep to its owner only).
SweepKeepsOwner ==
  \A j \in Job : TypeOf[j] = "sweep" /\ results[j] # "none" => results[j] = Owner[j]

\* completed and failed are final: no late worker, retry or cancel moves the row.
SettledKept ==
  NoLongRuns => \A j \in Job : rows[j].status \in Settled => rows'[j] = rows[j]

SettledIsFinal == [][SettledKept]_vars

\* The queue does what JobLease promises; Revive is what MarkRetry's missing status
\* test adds to it.
Lease == INSTANCE JobLease WITH
           status <- [j \in Job |-> rows[j].status],
           lease <- {p \in Worker \X Job : Executes(p[1], p[2])},
           Retryable <- {j \in Job : MaxAttempts[j] > 1}

LeaseSpec == Lease!Spec
=============================================================================
