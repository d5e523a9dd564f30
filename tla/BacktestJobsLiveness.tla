------------------------ MODULE BacktestJobsLiveness ------------------------
(***************************************************************************)
(* What the job queue owes its users over time, and the balance between     *)
(* messages and rows that decides whether it can pay.                       *)
(***************************************************************************)
EXTENDS BacktestJobs, FiniteSetsExt

\* At any time finitely many jobs have been posted and finitely many workers run.
ASSUME FiniteAssumption == IsFiniteSet(Job) /\ IsFiniteSet(Worker)

\* The processes of the system keep going and time passes; users and faults owe
\* nothing.
Fairness ==
  /\ \A j \in Job : WF_vars(Commit(j)) /\ WF_vars(RetryDue(j)) /\ WF_vars(Age(j))
  /\ \A w \in Worker : WF_vars(WorkerStep(w))
  /\ \A u \in User, j \in Job : WF_vars(CancelWrite(u, j))

FairSpec == Spec /\ Fairness
-----------------------------------------------------------------------------
OfType(t) == {j \in Job : TypeOf[j] = t}
Claiming(t) == {w \in Worker : pc[w] = "claim" /\ TypeOf[msg[w]] = t}

\* Queued by its POST, not sent back by a retry: next_retry_at is NULL.
Waiting(t) ==
  {j \in OfType(t) : rows[j].status = "queued" /\ rows[j].retry = "null"}

\* The message a POST sends and the row it inserts are never matched again after the
\* handler, and a worker runs whatever the claim hands it.  Still the jobs of a type that
\* wait for their first attempt never outnumber the messages of that type, in the broker or
\* already in the hands of a claiming worker, plus the dropped ones.  Retried jobs and
\* running rows that nobody works on are not counted: they may have no message.  It rests
\* on the claim preferring queued rows to stale running ones and rows that were never
\* retried to retried ones, and on redelivery after a crash.
DispatchBalanced ==
  \A t \in JobType :
    Cardinality(Waiting(t)) <=
      SumFunctionOnSet(messages, OfType(t)) + Cardinality(Claiming(t)) + dropped[t]

\* A queued job that is neither cancelled nor retried is run to its end, as long as no
\* message of any job is dropped.
NoneDropped == \A t \in JobType : dropped[t] = 0
Terminal(j) == rows[j].status \in Settled \cup {"cancelled"}
QueuedJobsEnd ==
  []NoneDropped => \A j \in Job : rows[j].status = "queued" ~> Terminal(j)

\* routers/backtest_jobs.py, _enqueue: "push the task to Redis ... A separate worker
\* process picks it up".  Every job a POST committed leaves the queue.
CommittedJobsLeaveQueue ==
  \A j \in Job : rows[j].status = "queued" ~> rows[j].status # "queued"

\* persistence.py, mark_retry: "so the row is immediately re-claimable once
\* next_retry_at is reached".  A job sent back for another attempt is attempted.
RetriedJobsRun ==
  \A j \in Job : (rows[j].status = "queued" /\ rows[j].retry # "null")
                   ~> rows[j].status # "queued"
=============================================================================
