------------------------ MODULE BacktestJobs_proofs ------------------------
(***************************************************************************)
(* The safety properties of BacktestJobs for every set of jobs, workers and *)
(* users, every choice of owners, types and attempts, and every fault.      *)
(***************************************************************************)
EXTENDS BacktestJobsLiveness, SumTheorems, TLAPS

\* What the SQL statements do to a row: the facts every step below needs of them.
LEMMA RowWrites ==
  ASSUME NEW row \in Row, NEW owner, NEW user
  PROVE  /\ ResetRunning(row) \in Row
         /\ TouchProgress(row) \in Row
         /\ MarkCompleted(row) \in Row
         /\ MarkFailed(row) \in Row
         /\ MarkRetry(row) \in Row
         /\ MarkCancelled(row, owner, user) \in Row
         /\ BecomeDue(row) \in Row
         /\ BecomeAged(row) \in Row
         /\ NoRow \in Row
         /\ Inserted \in Row
  BY DEF Row, Status, RetryTime, Cancellable, Write, BecomeDue, BecomeAged, ResetRunning, TouchProgress,
         MarkCompleted, MarkFailed, MarkRetry, MarkCancelled, NoRow, Inserted

\* What the statements do to the status, attempt and age of a row.
LEMMA RowEffects ==
  ASSUME NEW row \in Row
  PROVE  /\ TouchProgress(row).status = row.status
         /\ TouchProgress(row).attempt = row.attempt
         /\ TouchProgress(row).aged => row.aged
  BY DEF Row, Write, TouchProgress

\* Whatever write ends a run leaves a row behind.
LEMMA LastWriteRow ==
  ASSUME NEW row \in Row, NEW owner,
         NEW step \in {"complete", "fail", "retry", "cancel"}
  PROVE  LastWrite(step, row, owner) \in Row
  BY RowWrites DEF LastWrite

\* Counting one more in a function of counters.
LEMMA CountUp ==
  ASSUME NEW S, NEW f \in [S -> Nat], NEW x
  PROVE  [f EXCEPT ![x] = @ + 1] \in [S -> Nat]
<1>1. CASE x \in S
  <2>1. f[x] \in Nat
    BY <1>1
  <2>2. QED BY <1>1, <2>1
<1>2. CASE x \notin S
  <2>1. [f EXCEPT ![x] = @ + 1] = f
    BY <1>2
  <2>2. QED BY <2>1
<1>3. QED BY <1>1, <1>2

\* The initial state is well typed.
LEMMA TypeInit == Init => TypeOK
<1>1. NoRow \in Row
  BY DEF NoRow, Row, Status, RetryTime
<1>2. Idle \in [job : Job \cup {NoJob}, attempt : Nat]
  BY DEF Idle
<1>3. QED BY <1>1, <1>2 DEF Init, TypeOK

\* Every handler, worker step and clock tick keeps the types.
LEMMA TypeStep == TypeOK /\ [Next]_vars => TypeOK'
<1> SUFFICES ASSUME TypeOK, [Next]_vars PROVE TypeOK'
  OBVIOUS
<1> USE DEF TypeOK
<1>0. ASSUME NEW w \in Worker, LetGo(w)
      PROVE  /\ pc' \in [Worker -> {"idle", "claim"} \cup Holding]
             /\ msg' \in [Worker -> Job \cup {NoJob}]
             /\ run' \in [Worker -> [job : Job \cup {NoJob}, attempt : Nat]]
  BY <1>0 DEF LetGo, Idle
<1>1. ASSUME NEW j \in Job, Post(j) PROVE TypeOK'
  BY <1>1 DEF Post
<1>2. ASSUME NEW j \in Job, Commit(j) PROVE TypeOK'
  BY <1>2, RowWrites DEF Commit
<1>3. ASSUME NEW j \in Job, Rollback(j) PROVE TypeOK'
  BY <1>3 DEF Rollback
<1>4. ASSUME NEW j \in Job, Repost(j) PROVE TypeOK'
  BY <1>4 DEF Repost
<1>5. ASSUME NEW w \in Worker, NEW j \in Job, Receive(w, j) PROVE TypeOK'
  BY <1>5 DEF Receive
<1>6. ASSUME NEW w \in Worker, NEW j \in Job, ReceiveUnknown(w, j) PROVE TypeOK'
  <2>1. dropped' \in [JobType -> Nat]
    BY <1>6, CountUp DEF ReceiveUnknown
  <2>2. messages' \in [Job -> Nat]
    BY <1>6 DEF ReceiveUnknown
  <2>3. QED BY <1>6, <2>1, <2>2 DEF ReceiveUnknown
<1>7. ASSUME NEW w \in Worker, NEW j \in Job, Claim(w, j) PROVE TypeOK'
  <2>1. rows[j] \in Row /\ rows[j].attempt \in Nat
    BY DEF Row
  <2>2. rows' \in [Job -> Row]
    BY <1>7, RowWrites DEF Claim
  <2>3. QED BY <1>7, <2>1, <2>2 DEF Claim, Holding
<1>8. ASSUME NEW w \in Worker, ClaimNothing(w) PROVE TypeOK'
  BY <1>8, <1>0 DEF ClaimNothing
<1>9. ASSUME NEW w \in Worker, Heartbeat(w) PROVE TypeOK'
  BY <1>9, RowWrites DEF Heartbeat
<1>10. ASSUME NEW w \in Worker, OpStops(w) PROVE TypeOK'
  BY <1>10, <1>0 DEF OpStops
<1>11. ASSUME NEW w \in Worker, OpReturns(w) PROVE TypeOK'
  BY <1>11 DEF OpReturns, Holding
<1>12. ASSUME NEW w \in Worker, NEW kind \in Raised, OpRaises(w, kind) PROVE TypeOK'
  BY <1>12 DEF OpRaises, Raised, Holding
<1>13. ASSUME NEW w \in Worker, WriteProgress(w) PROVE TypeOK'
  BY <1>13, RowWrites DEF WriteProgress, Holding
<1>14. ASSUME NEW w \in Worker, ProbeStops(w) PROVE TypeOK'
  BY <1>14, <1>0 DEF ProbeStops
<1>15. ASSUME NEW w \in Worker, ProbePasses(w) PROVE TypeOK'
  BY <1>15 DEF ProbePasses, Holding
<1>16. ASSUME NEW w \in Worker, ProbeError(w) PROVE TypeOK'
  BY <1>16 DEF ProbeError, AfterProbe, Holding
<1>17. ASSUME NEW w \in Worker, Finish(w) PROVE TypeOK'
  BY <1>17, <1>0, LastWriteRow DEF Finish
<1>18. ASSUME NEW w \in Worker, StoreFails(w) PROVE TypeOK'
  <2>1. dropped' \in [JobType -> Nat]
    BY <1>18, CountUp DEF StoreFails
  <2>2. QED BY <1>18, <1>0, <2>1 DEF StoreFails
<1>19. ASSUME NEW w \in Worker, Crash(w) PROVE TypeOK'
  <2>1. messages' \in [Job -> Nat]
    BY <1>19, CountUp DEF Crash
  <2>2. crashes' \in Nat
    BY <1>19 DEF Crash
  <2>3. QED BY <1>19, <1>0, <2>1, <2>2 DEF Crash
<1>20. ASSUME NEW u \in User, NEW j \in Job, CancelRequest(u, j) PROVE TypeOK'
  BY <1>20 DEF CancelRequest
<1>21. ASSUME NEW u \in User, NEW j \in Job, CancelWrite(u, j) PROVE TypeOK'
  BY <1>21, RowWrites DEF CancelWrite
<1>22. ASSUME NEW j \in Job, RetryDue(j) PROVE TypeOK'
  BY <1>22, RowWrites DEF RetryDue
<1>23. ASSUME NEW j \in Job, Age(j) PROVE TypeOK'
  BY <1>23, RowWrites DEF Age
<1>24. CASE UNCHANGED vars
  BY <1>24 DEF vars
<1>25. QED
  BY <1>1, <1>2, <1>3, <1>4, <1>5, <1>6, <1>7, <1>8, <1>9, <1>10, <1>11, <1>12,
     <1>13, <1>14, <1>15, <1>16, <1>17, <1>18, <1>19, <1>20, <1>21, <1>22, <1>23,
     <1>24 DEF Next, WorkerStep, OpEnds, Probe

\* Every variable keeps its type.
THEOREM TypeCorrect == Spec => []TypeOK
BY TypeInit, TypeStep, PTL DEF Spec

-----------------------------------------------------------------------------
(***************************************************************************)
(* What holds under every fault                                             *)
(***************************************************************************)
\* A row exists only once its POST committed, and counts its attempts from 1.
RowsFromPosts ==
  \A j \in Job : /\ request[j] # "committed" => rows[j].status = "absent"
                 /\ rows[j].status # "absent" => rows[j].attempt >= 1

\* What a worker holds is a job's row, at an attempt the row has had.
WorkersHoldRows ==
  \A w \in Worker :
    pc[w] \in Holding => /\ run[w].job \in Job
                         /\ rows[run[w].job].status # "absent"
                         /\ run[w].attempt >= 1

\* A worker retries only what may be attempted again.
RetryIsAllowed ==
  \A w \in Worker : pc[w] = "retry" => run[w].attempt < MaxAttempts[run[w].job]

\* A worker is past its op only with results saved.
ReturnedHasResults ==
  \A w \in Worker : pc[w] \in Returned => results[run[w].job] # "none"

Inv == /\ TypeOK
       /\ RowsFromPosts
       /\ WorkersHoldRows
       /\ RetryIsAllowed
       /\ ReturnedHasResults
       /\ CompletedHasResults
       /\ CancelIsFinalWithoutRetry

\* The general invariant holds before the first POST.
LEMMA InvInit == Init => Inv
<1> SUFFICES ASSUME Init PROVE Inv
  OBVIOUS
<1>1. TypeOK
  BY TypeInit
<1>2. RowsFromPosts /\ CompletedHasResults
  BY DEF Init, RowsFromPosts, CompletedHasResults, NoRow
<1>3. WorkersHoldRows /\ RetryIsAllowed /\ ReturnedHasResults
  BY DEF Init, WorkersHoldRows, RetryIsAllowed, ReturnedHasResults, Holding, Returned
<1>4. CancelIsFinalWithoutRetry
  BY DEF Init, CancelIsFinalWithoutRetry
<1>5. QED BY <1>1, <1>2, <1>3, <1>4 DEF Inv

\* Every step keeps the general invariant, faults included.
LEMMA InvStep == Inv /\ [Next]_vars => Inv'
<1> SUFFICES ASSUME Inv, [Next]_vars PROVE Inv'
  OBVIOUS
<1> USE DEF Inv
<1>0. TypeOK'
  BY TypeStep
<1> USE <1>0 DEF TypeOK, RowsFromPosts, WorkersHoldRows, RetryIsAllowed,
             ReturnedHasResults, CompletedHasResults, CancelIsFinalWithoutRetry,
             Holding, Returned
<1>1. ASSUME NEW j \in Job, Post(j) PROVE Inv'
  BY <1>1 DEF Post
<1>2. ASSUME NEW j \in Job, Commit(j) PROVE Inv'
  BY <1>2, MaxAttemptsAssumption DEF Commit, Inserted, Row
<1>3. ASSUME NEW j \in Job, Rollback(j) PROVE Inv'
  BY <1>3 DEF Rollback
<1>4. ASSUME NEW j \in Job, Repost(j) PROVE Inv'
  BY <1>4 DEF Repost
<1>5. ASSUME NEW w \in Worker, NEW j \in Job, Receive(w, j) PROVE Inv'
  BY <1>5 DEF Receive
<1>6. ASSUME NEW w \in Worker, NEW j \in Job, ReceiveUnknown(w, j) PROVE Inv'
  BY <1>6 DEF ReceiveUnknown
\* The claimed row is queued or running, so a cancelled job is not claimed.
<1>7. ASSUME NEW w \in Worker, NEW j \in Job, Claim(w, j) PROVE Inv'
  <2>1. rows[j] \in Row /\ rows[j].status \in {"queued", "running"}
    BY <1>7 DEF Claim, Candidates, Runnable
  <2>2. rows'[j].status = "running" /\ rows'[j].attempt = rows[j].attempt
    BY <1>7, <2>1 DEF Claim, ResetRunning, Cancellable, Write
  <2>3. RowsFromPosts'
    BY <1>7, <2>1, <2>2 DEF Claim
  <2>4. WorkersHoldRows' /\ RetryIsAllowed' /\ ReturnedHasResults'
    BY <1>7, <2>1, <2>2 DEF Claim
  <2>5. CompletedHasResults' /\ CancelIsFinalWithoutRetry'
    BY <1>7, <2>1, <2>2 DEF Claim
  <2>6. QED BY <2>3, <2>4, <2>5
<1>8. ASSUME NEW w \in Worker, ClaimNothing(w) PROVE Inv'
  BY <1>8 DEF ClaimNothing, LetGo
<1>9. ASSUME NEW w \in Worker, Heartbeat(w) PROVE Inv'
  BY <1>9, RowWrites, RowEffects DEF Heartbeat
<1>10. ASSUME NEW w \in Worker, OpStops(w) PROVE Inv'
  BY <1>10 DEF OpStops, LetGo
<1>11. ASSUME NEW w \in Worker, OpReturns(w) PROVE Inv'
  BY <1>11, UserAssumption DEF OpReturns
<1>12. ASSUME NEW w \in Worker, NEW kind \in Raised, OpRaises(w, kind) PROVE Inv'
  BY <1>12 DEF OpRaises, Raised
<1>13. ASSUME NEW w \in Worker, WriteProgress(w) PROVE Inv'
  BY <1>13, RowWrites, RowEffects DEF WriteProgress
<1>14. ASSUME NEW w \in Worker, ProbeStops(w) PROVE Inv'
  BY <1>14 DEF ProbeStops, LetGo
<1>15. ASSUME NEW w \in Worker, ProbePasses(w) PROVE Inv'
  BY <1>15 DEF ProbePasses
<1>16. ASSUME NEW w \in Worker, ProbeError(w) PROVE Inv'
  BY <1>16 DEF ProbeError, AfterProbe, Raised
\* Four writes: mark_completed has results and mark_retry attempts left.
<1>17. ASSUME NEW w \in Worker, Finish(w) PROVE Inv'
  <2> DEFINE j == run[w].job
             row == rows[j]
             new == LastWrite(pc[w], row, Owner[j])
  <2>1. j \in Job /\ row \in Row /\ row.status # "absent" /\ run[w].attempt >= 1
    BY <1>17 DEF Finish
  <2>2. /\ new.status # "absent"
        /\ new.attempt >= row.attempt
        /\ new.status = "completed" => row.status = "completed" \/ pc[w] = "complete"
        /\ row.status = "cancelled" => new.status = "cancelled" \/ pc[w] = "retry"
    <3>1. pc[w] \in {"complete", "fail", "retry", "cancel"}
      BY <1>17 DEF Finish
    <3> HIDE DEF row
    <3> USE <2>1 DEF LastWrite, Write, Cancellable, Row
    <3>2. CASE pc[w] = "complete"
      BY <3>2 DEF MarkCompleted
    <3>3. CASE pc[w] = "fail"
      BY <3>3 DEF MarkFailed
    <3>4. CASE pc[w] = "retry"
      BY <3>4 DEF MarkRetry
    <3>5. CASE pc[w] = "cancel"
      BY <3>5 DEF MarkCancelled
    <3> QED BY <3>1, <3>2, <3>3, <3>4, <3>5
  <2>3. rows' = [rows EXCEPT ![j] = new]
    BY <1>17 DEF Finish
  <2>4. RowsFromPosts'
    <3> HIDE DEF new
    <3>1. QED BY <1>17, <2>1, <2>2, <2>3 DEF Finish, Row
  <2>5. WorkersHoldRows' /\ RetryIsAllowed' /\ ReturnedHasResults'
    <3> HIDE DEF new
    <3>1. QED BY <1>17, <2>1, <2>2, <2>3 DEF Finish, LetGo
  <2>6. CompletedHasResults'
    <3> HIDE DEF new
    <3>1. QED BY <1>17, <2>1, <2>2, <2>3 DEF Finish
  <2>7. CancelIsFinalWithoutRetry'
    <3>1. pc[w] = "retry" => MaxAttempts[j] # 1
      BY <2>1, MaxAttemptsAssumption
    <3> HIDE DEF new
    <3>2. QED BY <1>17, <2>1, <2>2, <2>3, <3>1 DEF Finish
  <2>8. QED BY <2>4, <2>5, <2>6, <2>7
<1>18. ASSUME NEW w \in Worker, StoreFails(w) PROVE Inv'
  BY <1>18 DEF StoreFails, LetGo
<1>19. ASSUME NEW w \in Worker, Crash(w) PROVE Inv'
  BY <1>19 DEF Crash, LetGo
<1>20. ASSUME NEW u \in User, NEW j \in Job, CancelRequest(u, j) PROVE Inv'
  BY <1>20 DEF CancelRequest
\* A cancel request that changes the row leaves it cancelled.
<1>21. ASSUME NEW u \in User, NEW j \in Job, CancelWrite(u, j) PROVE Inv'
  BY <1>21 DEF CancelWrite, MarkCancelled, Write, Cancellable, Row
<1>22. ASSUME NEW j \in Job, RetryDue(j) PROVE Inv'
  BY <1>22 DEF RetryDue, BecomeDue, Row
<1>23. ASSUME NEW j \in Job, Age(j) PROVE Inv'
  BY <1>23 DEF Age, BecomeAged, Row
<1>24. CASE UNCHANGED vars
  BY <1>24 DEF vars
<1>25. QED
  BY <1>1, <1>2, <1>3, <1>4, <1>5, <1>6, <1>7, <1>8, <1>9, <1>10, <1>11, <1>12, <1>13,
     <1>14, <1>15, <1>16, <1>17, <1>18, <1>19, <1>20, <1>21, <1>22, <1>23, <1>24
     DEF Next, WorkerStep, OpEnds, Probe

\* Under every fault: a row is there only once its POST committed, a worker holds
\* a row that is there, and a worker past its op has saved that job's results.
THEOREM InvHolds == Spec => []Inv
BY InvInit, InvStep, PTL DEF Spec

\* mark_completed is only reached after the op saved its results, under every fault.
THEOREM CompletedHasResultsHolds == Spec => []CompletedHasResults
BY InvHolds, PTL DEF Inv

\* Only the retry of a job with several attempts can undo a cancel, under every fault.
THEOREM CancelIsFinalWithoutRetryHolds == Spec => []CancelIsFinalWithoutRetry
BY InvHolds, PTL DEF Inv
-----------------------------------------------------------------------------
(***************************************************************************)
(* What holds when no run outlasts stale_seconds                            *)
(***************************************************************************)
\* The row of a worker is running, or cancelled under it, and nobody retried it or
\* may claim it meanwhile.
HeldRowsAreFresh ==
  \A w \in Worker :
    pc[w] \in Holding => /\ rows[run[w].job].status \in {"running", "cancelled"}
                         /\ ~ rows[run[w].job].aged
                         /\ rows[run[w].job].attempt = run[w].attempt

\* A worker that saw the cancel is right about it.
CancelSeenIsTrue ==
  \A w \in Worker : pc[w] = "cancel" => rows[run[w].job].status = "cancelled"

HeldByOne ==
  \A w, v \in Worker :
    pc[w] \in Holding /\ pc[v] \in Holding /\ run[w].job = run[v].job => w = v

Timely == /\ HeldRowsAreFresh
          /\ CancelSeenIsTrue
          /\ HeldByOne
          /\ AttemptsBounded

InvInTime == NoLongRuns => Timely

\* The invariant of runs within stale_seconds holds before the first POST.
LEMMA InTimeInit == Init => InvInTime
BY MaxAttemptsAssumption
   DEF Init, InvInTime, Timely, HeldRowsAreFresh, CancelSeenIsTrue, HeldByOne,
       AttemptsBounded, Holding, NoRow

\* Every step keeps it, given the general invariant.
LEMMA InTimeStep == Inv /\ InvInTime /\ [Next]_vars => InvInTime'
<1> SUFFICES ASSUME Inv, Timely, NoLongRuns, [Next]_vars PROVE Timely'
  BY DEF InvInTime, NoLongRuns
<1>0. TypeOK /\ RowsFromPosts /\ WorkersHoldRows /\ RetryIsAllowed
  BY DEF Inv
<1> USE <1>0 DEF TypeOK, RowsFromPosts, WorkersHoldRows, Timely, HeldRowsAreFresh,
                 CancelSeenIsTrue, HeldByOne, AttemptsBounded, Holding
<1>1. ASSUME NEW j \in Job, Post(j) PROVE Timely'
  BY <1>1 DEF Post
<1>2. ASSUME NEW j \in Job, Commit(j) PROVE Timely'
  <2>1. \A w \in Worker : pc[w] \in Holding => run[w].job # j
    BY <1>2 DEF Commit
  <2>2. rows' = [rows EXCEPT ![j] = Inserted] /\ Inserted.attempt = 1
    BY <1>2 DEF Commit, Inserted
  <2>3. HeldRowsAreFresh' /\ CancelSeenIsTrue' /\ HeldByOne'
    BY <1>2, <2>1, <2>2 DEF Commit
  <2>4. Inserted.attempt <= MaxAttempts[j]
    <3>1. MaxAttempts[j] \in Nat \ {0}
      BY MaxAttemptsAssumption
    <3>2. QED BY <2>2, <3>1
  <2>5. AttemptsBounded'
    <3> HIDE DEF Inserted
    <3>1. QED BY <2>2, <2>4
  <2>6. QED BY <2>3, <2>5
<1>3. ASSUME NEW j \in Job, Rollback(j) PROVE Timely'
  BY <1>3 DEF Rollback
<1>4. ASSUME NEW j \in Job, Repost(j) PROVE Timely'
  BY <1>4 DEF Repost
<1>5. ASSUME NEW w \in Worker, NEW j \in Job, Receive(w, j) PROVE Timely'
  BY <1>5 DEF Receive
<1>6. ASSUME NEW w \in Worker, NEW j \in Job, ReceiveUnknown(w, j) PROVE Timely'
  BY <1>6 DEF ReceiveUnknown
\* The heart of it: a runnable row is queued or aged, and so in no worker's hands.
<1>7. ASSUME NEW w \in Worker, NEW j \in Job, Claim(w, j) PROVE Timely'
  <2>1. rows[j] \in Row /\ Runnable(rows[j])
    BY <1>7 DEF Claim, Candidates
  <2>2. \A v \in Worker : pc[v] \in Holding => run[v].job # j
    BY <2>1 DEF Runnable
  <2>3. /\ rows'[j].status = "running"
        /\ rows'[j].attempt = rows[j].attempt
        /\ ~ rows'[j].aged
    BY <1>7, <2>1 DEF Claim, ResetRunning, Cancellable, Write, Runnable
  <2>4. \A k \in Job : k # j => rows'[k] = rows[k]
    BY <1>7 DEF Claim
  <2>5. HeldRowsAreFresh'
    BY <1>7, <2>2, <2>3, <2>4 DEF Claim
  <2>6. CancelSeenIsTrue'
    BY <1>7, <2>2, <2>4 DEF Claim
  <2>7. HeldByOne'
    BY <1>7, <2>2 DEF Claim
  <2>8. AttemptsBounded'
    BY <2>3, <2>4
  <2>9. QED BY <2>5, <2>6, <2>7, <2>8
<1>8. ASSUME NEW w \in Worker, ClaimNothing(w) PROVE Timely'
  BY <1>8 DEF ClaimNothing, LetGo
<1>9. ASSUME NEW w \in Worker, Heartbeat(w) PROVE Timely'
  BY <1>9, RowWrites, RowEffects DEF Heartbeat
<1>10. ASSUME NEW w \in Worker, OpStops(w) PROVE Timely'
  BY <1>10 DEF OpStops, LetGo
<1>11. ASSUME NEW w \in Worker, OpReturns(w) PROVE Timely'
  BY <1>11 DEF OpReturns
<1>12. ASSUME NEW w \in Worker, NEW kind \in Raised, OpRaises(w, kind) PROVE Timely'
  BY <1>12 DEF OpRaises, Raised
<1>13. ASSUME NEW w \in Worker, WriteProgress(w) PROVE Timely'
  BY <1>13, RowWrites, RowEffects DEF WriteProgress
<1>14. ASSUME NEW w \in Worker, ProbeStops(w) PROVE Timely'
  BY <1>14 DEF ProbeStops, LetGo
<1>15. ASSUME NEW w \in Worker, ProbePasses(w) PROVE Timely'
  BY <1>15 DEF ProbePasses
\* A probe that answers TRUE has just read "cancelled".
<1>16. ASSUME NEW w \in Worker, ProbeError(w) PROVE Timely'
  <2>1. PICK seen \in ProbeAnswers(w) : pc' = [pc EXCEPT ![w] = AfterProbe(w, seen)]
    BY <1>16 DEF ProbeError
  <2>2. /\ AfterProbe(w, seen) \in {"cancel", "retry", "fail"}
        /\ AfterProbe(w, seen) = "cancel" => seen
    BY DEF AfterProbe
  <2>3. seen => rows[run[w].job].status = "cancelled"
    BY <2>1 DEF ProbeAnswers
  <2>4. pc[w] \in Holding
    BY <1>16 DEF ProbeError, Raised
  <2>5. HeldRowsAreFresh' /\ HeldByOne'
    BY <1>16, <2>1, <2>2, <2>4 DEF ProbeError
  <2>6. CancelSeenIsTrue'
    BY <1>16, <2>1, <2>2, <2>3 DEF ProbeError
  <2>7. AttemptsBounded'
    BY <1>16 DEF ProbeError
  <2>8. QED BY <2>5, <2>6, <2>7
\* The worker gives up the row it writes; no other worker held it.
<1>17. ASSUME NEW w \in Worker, Finish(w) PROVE Timely'
  <2> DEFINE j == run[w].job
             new == LastWrite(pc[w], rows[j], Owner[j])
  <2>1. pc[w] \in Holding /\ j \in Job /\ rows[j] \in Row
    BY <1>17 DEF Finish
  <2>2. new.attempt <= MaxAttempts[j]
    <3>1. CASE pc[w] = "retry"
      BY <2>1, <3>1, MaxAttemptsAssumption DEF LastWrite, MarkRetry, RetryIsAllowed, Row
    <3>2. CASE pc[w] # "retry"
      BY <1>17, <2>1, <3>2 DEF Finish, LastWrite, MarkCompleted, MarkFailed,
                               MarkCancelled, Write
    <3>3. QED BY <3>1, <3>2
  <2>3. rows' = [rows EXCEPT ![j] = new]
    BY <1>17 DEF Finish
  <2>4. \A v \in Worker : pc'[v] \in Holding => v # w /\ pc[v] = pc'[v] /\ run'[v] = run[v]
    BY <1>17 DEF Finish, LetGo
  <2>5. \A v \in Worker : v # w /\ pc[v] \in Holding => run[v].job # j
    BY <2>1
  <2> HIDE DEF new, j
  <2>6. HeldRowsAreFresh' /\ CancelSeenIsTrue' /\ HeldByOne'
    BY <2>1, <2>3, <2>4, <2>5
  <2>7. AttemptsBounded'
    BY <2>1, <2>2, <2>3
  <2>8. QED BY <2>6, <2>7
<1>18. ASSUME NEW w \in Worker, StoreFails(w) PROVE Timely'
  BY <1>18 DEF StoreFails, LetGo
<1>19. ASSUME NEW w \in Worker, Crash(w) PROVE Timely'
  BY <1>19 DEF Crash, LetGo
<1>20. ASSUME NEW u \in User, NEW j \in Job, CancelRequest(u, j) PROVE Timely'
  BY <1>20 DEF CancelRequest
<1>21. ASSUME NEW u \in User, NEW j \in Job, CancelWrite(u, j) PROVE Timely'
  BY <1>21 DEF CancelWrite, MarkCancelled, Write, Cancellable, Row
<1>22. ASSUME NEW j \in Job, RetryDue(j) PROVE Timely'
  BY <1>22 DEF RetryDue, BecomeDue, Row
\* The only action that ages a row is not taken while a worker holds it.
<1>23. ASSUME NEW j \in Job, Age(j) PROVE Timely'
  <2>1. \A w \in Worker : pc[w] \in Holding => run[w].job # j
    BY <1>23 DEF Age, Executes, NoLongRuns
  <2>2. QED BY <1>23, <2>1 DEF Age, BecomeAged, Row
<1>24. CASE UNCHANGED vars
  BY <1>24 DEF vars
<1>25. QED
  BY <1>1, <1>2, <1>3, <1>4, <1>5, <1>6, <1>7, <1>8, <1>9, <1>10, <1>11, <1>12, <1>13,
     <1>14, <1>15, <1>16, <1>17, <1>18, <1>19, <1>20, <1>21, <1>22, <1>23, <1>24
     DEF Next, WorkerStep, OpEnds, Probe

\* While no run outlasts stale_seconds a row a worker holds is fresh, carries the
\* attempt that worker claimed and is held by that worker alone.
THEOREM InTimeHolds == Spec => []InvInTime
BY InvHolds, InTimeInit, InTimeStep, PTL DEF Spec

\* SKIP LOCKED and the stale test give every job to one worker at a time.
THEOREM OneExecutionHolds == Spec => []OneExecution
<1>1. InvInTime => OneExecution
  BY DEF InvInTime, Timely, OneExecution, HeldByOne, Executes
<1>2. QED BY <1>1, InTimeHolds, PTL

\* A row's attempt never passes max_attempts.
THEOREM AttemptsBoundedHolds == Spec => []AttemptsBoundedWhenInTime
<1>1. InvInTime => AttemptsBoundedWhenInTime
  BY DEF InvInTime, Timely, AttemptsBoundedWhenInTime
<1>2. QED BY <1>1, InTimeHolds, PTL

\* completed and failed rows are never written again: no worker holds them, and the
\* cancel, the claim and the clock test the status.
THEOREM SettledIsFinalHolds == Spec => SettledIsFinal
<1>1. Inv /\ InvInTime /\ [Next]_vars => [SettledKept]_vars
  <2> SUFFICES ASSUME Inv, Timely, [Next]_vars, NEW k \in Job, rows[k].status \in Settled
               PROVE  rows'[k] = rows[k]
    BY DEF InvInTime, SettledKept
  <2>0. rows \in [Job -> Row] /\ RowsFromPosts /\ WorkersHoldRows
    BY DEF Inv, TypeOK
  <2>1. \A w \in Worker : pc[w] \in Holding => run[w].job # k
    BY DEF Timely, HeldRowsAreFresh, Settled
  <2>2. ASSUME NEW j \in Job, Commit(j) PROVE rows'[k] = rows[k]
    BY <2>0, <2>2 DEF Commit, RowsFromPosts, Settled
  <2>3. ASSUME NEW w \in Worker, NEW j \in Job, Claim(w, j) PROVE rows'[k] = rows[k]
    BY <2>0, <2>3 DEF Claim, Candidates, Runnable, Settled
  <2>4. ASSUME NEW w \in Worker, Heartbeat(w) PROVE rows'[k] = rows[k]
    BY <2>0, <2>1, <2>4 DEF Heartbeat, Holding
  <2>5. ASSUME NEW w \in Worker, WriteProgress(w) PROVE rows'[k] = rows[k]
    BY <2>0, <2>1, <2>5 DEF WriteProgress, Holding
  <2>6. ASSUME NEW w \in Worker, Finish(w) PROVE rows'[k] = rows[k]
    BY <2>0, <2>1, <2>6 DEF Finish, Holding
  <2>7. ASSUME NEW u \in User, NEW j \in Job, CancelWrite(u, j) PROVE rows'[k] = rows[k]
    BY <2>0, <2>7 DEF CancelWrite, MarkCancelled, Cancellable, Settled
  <2>8. ASSUME NEW j \in Job, RetryDue(j) \/ Age(j) PROVE rows'[k] = rows[k]
    BY <2>0, <2>8 DEF RetryDue, Age, Settled
  <2>9. CASE UNCHANGED rows
    BY <2>9
  <2>10. QED
    BY <2>2, <2>3, <2>4, <2>5, <2>6, <2>7, <2>8, <2>9
       DEF Next, WorkerStep, OpEnds, Probe, vars, Post, Rollback, Repost, Receive,
           ReceiveUnknown, ClaimNothing, OpStops, OpReturns, OpRaises, ProbeStops,
           ProbePasses, ProbeError, StoreFails, Crash, CancelRequest
<1>2. QED BY <1>1, InvHolds, InTimeHolds, PTL DEF Spec, SettledIsFinal
-----------------------------------------------------------------------------
(***************************************************************************)
(* BacktestJobs implements JobLease when no run outlasts stale_seconds.     *)
(* Most steps are steps on messages, probes and clocks that JobLease does   *)
(* not see; Commit submits, Claim takes, Finish settles, revives or gives   *)
(* up, and whatever else lets a worker go abandons its lease.               *)
(***************************************************************************)
Statuses == [j \in Job |-> rows[j].status]
Leases == {p \in Worker \X Job : Executes(p[1], p[2])}
Attemptable == {j \in Job : MaxAttempts[j] > 1}

\* A worker that lets go gives back the lease it has, if it has one.
LEMMA LeasesAfterLetGo ==
  ASSUME TypeOK, NEW w \in Worker, LetGo(w)
  PROVE  Leases' = Leases \ {<< w, run[w].job >>}
BY DEF TypeOK, LetGo, Leases, Executes, Holding

\* A worker that moves on between two places that hold a row keeps its lease.
LEMMA LeasesKept ==
  ASSUME TypeOK, NEW w \in Worker, pc[w] \in Holding, NEW to \in Holding,
         pc' = [pc EXCEPT ![w] = to], UNCHANGED run
  PROVE  Leases' = Leases
BY DEF TypeOK, Leases, Executes

\* A write that leaves every status alone is invisible to JobLease.
LEMMA StatusesKept ==
  ASSUME TypeOK, NEW j \in Job, NEW row \in Row, row.status = rows[j].status,
         rows' = [rows EXCEPT ![j] = row]
  PROVE  Statuses' = Statuses
BY DEF TypeOK, Statuses

\* A row write shows in JobLease as the new status of that job.
LEMMA StatusesAfter ==
  ASSUME TypeOK, NEW j \in Job, NEW row \in Row, rows' = [rows EXCEPT ![j] = row]
  PROVE  Statuses' = [Statuses EXCEPT ![j] = row.status]
BY DEF TypeOK, Statuses

\* The empty table and the idle workers are JobLease's initial state.
LEMMA LeaseInit == Init => Lease!Init
BY DEF Init, Lease!Init, NoRow, Executes, Holding

\* Every step of the queue is a step of JobLease or changes nothing it sees.
LEMMA LeaseStep == Inv /\ Timely /\ [Next]_vars => [Lease!Next]_(Lease!vars)
<1> SUFFICES ASSUME Inv, Timely, [Next]_vars PROVE [Lease!Next]_(Lease!vars)
  OBVIOUS
<1>0. /\ TypeOK /\ WorkersHoldRows /\ RowsFromPosts /\ RetryIsAllowed
      /\ HeldRowsAreFresh /\ CancelSeenIsTrue /\ HeldByOne
  BY DEF Inv, Timely
<1> DEFINE Seen == Lease!Next \/ UNCHANGED << Statuses, Leases >>
<1>a. Seen => [Lease!Next]_(Lease!vars)
  BY DEF Lease!vars, Statuses, Leases
\* A worker lets go of its row, or had none.
<1>b. ASSUME NEW w \in Worker, LetGo(w), UNCHANGED rows PROVE Seen
  <2>1. Leases' = Leases \ {<< w, run[w].job >>}
    BY <1>0, <1>b, LeasesAfterLetGo
  <2>2. Statuses' = Statuses
    BY <1>b DEF Statuses
  <2>3. CASE << w, run[w].job >> \in Leases
    <3>1. run[w].job \in Job
      BY <2>3 DEF Leases
    <3>2. Lease!Abandon(w, run[w].job)
      BY <2>1, <2>2, <2>3 DEF Lease!Abandon, Statuses, Leases
    <3>3. QED BY <3>1, <3>2 DEF Lease!Next
  <2>4. CASE << w, run[w].job >> \notin Leases
    BY <2>1, <2>2, <2>4
  <2>5. QED BY <2>3, <2>4
\* A worker goes on with the row it holds.
<1>c. ASSUME NEW w \in Worker, pc[w] \in Holding, NEW to \in Holding,
             pc' = [pc EXCEPT ![w] = to], UNCHANGED << run, rows >>
      PROVE  Seen
  BY <1>0, <1>c, LeasesKept DEF Statuses
\* A row is written without a change of its status.
<1>d. ASSUME NEW j \in Job, NEW row \in Row, row.status = rows[j].status,
             rows' = [rows EXCEPT ![j] = row], Leases' = Leases
      PROVE  Seen
  BY <1>0, <1>d, StatusesKept
<1>e. ASSUME NEW w \in Worker, NEW j \in Job, NEW s \in Lease!Status, Lease!Settle(w, j, s)
      PROVE  Seen
  BY <1>e DEF Lease!Next
<1>f. ASSUME NEW w \in Worker, NEW j \in Job, Lease!Revive(w, j) PROVE Seen
  BY <1>f DEF Lease!Next
<1> HIDE DEF Seen
<1>1. ASSUME NEW j \in Job, Commit(j) PROVE Seen
  <2>1. Statuses[j] = "absent" /\ Statuses' = [Statuses EXCEPT ![j] = "queued"]
    BY <1>0, <1>1, RowWrites DEF Commit, Inserted, TypeOK, Statuses, RowsFromPosts
  <2>2. Leases' = Leases
    BY <1>1 DEF Commit, Leases, Executes
  <2>3. Lease!Submit(j)
    BY <2>1, <2>2 DEF Lease!Submit, Statuses, Leases
  <2>4. QED BY <2>3 DEF Seen, Lease!Next
<1>2. ASSUME NEW w \in Worker, NEW j \in Job, Claim(w, j) PROVE Seen
  <2>1. rows[j] \in Row /\ Runnable(rows[j])
    BY <1>0, <1>2 DEF Claim, Candidates, TypeOK
  <2>2. Statuses[j] \in {"queued", "running"}
    BY <2>1 DEF Statuses, Runnable
  <2>3. Statuses' = [Statuses EXCEPT ![j] = "running"]
    BY <1>0, <1>2, <2>1 DEF Claim, Runnable, ResetRunning, Cancellable, Write, TypeOK,
                             Statuses
  <2>4. \A v \in Worker : << v, j >> \notin Leases
    BY <1>0, <2>1 DEF HeldRowsAreFresh, Leases, Executes, Runnable
  <2>5. \A k \in Job : << w, k >> \notin Leases
    BY <1>2 DEF Claim, Leases, Executes, Holding
  <2>6. Leases' = Leases \cup {<< w, j >>}
    BY <1>0, <1>2 DEF Claim, TypeOK, Leases, Executes, Holding
  <2>7. Lease!Take(w, j)
    BY <2>2, <2>3, <2>4, <2>5, <2>6
       DEF Lease!Take, Lease!Held, Lease!Busy, Statuses, Leases
  <2>8. QED BY <2>7 DEF Seen, Lease!Next
<1>3. ASSUME NEW w \in Worker, Heartbeat(w) PROVE Seen
  <2>1. run[w].job \in Job /\ rows[run[w].job] \in Row
    BY <1>0, <1>3 DEF Heartbeat, WorkersHoldRows, Holding, TypeOK
  <2>2. Leases' = Leases
    BY <1>3 DEF Heartbeat, Leases, Executes
  <2>3. QED BY <1>3, <1>d, <2>1, <2>2, RowWrites, RowEffects DEF Heartbeat
<1>4. ASSUME NEW w \in Worker, WriteProgress(w) PROVE Seen
  <2>1. run[w].job \in Job /\ rows[run[w].job] \in Row /\ pc[w] \in Holding
    BY <1>0, <1>4 DEF WriteProgress, WorkersHoldRows, Holding, TypeOK
  <2>2. Leases' = Leases
    BY <1>0, <1>4, <2>1, LeasesKept DEF WriteProgress, Holding
  <2>3. QED BY <1>4, <1>d, <2>1, <2>2, RowWrites, RowEffects DEF WriteProgress
<1>5. ASSUME NEW w \in Worker, OpReturns(w) PROVE Seen
  BY <1>5, <1>c DEF OpReturns, Holding
<1>6. ASSUME NEW w \in Worker, NEW kind \in Raised, OpRaises(w, kind) PROVE Seen
  BY <1>6, <1>c DEF OpRaises, Raised, Holding
<1>7. ASSUME NEW w \in Worker, ProbePasses(w) PROVE Seen
  BY <1>7, <1>c DEF ProbePasses, Holding
<1>8. ASSUME NEW w \in Worker, ProbeError(w) PROVE Seen
  <2>1. \A seen : AfterProbe(w, seen) \in Holding
    BY DEF AfterProbe, Holding
  <2>2. QED BY <1>8, <1>c, <2>1 DEF ProbeError, Raised, Holding
<1>9. ASSUME NEW w \in Worker,
             OpStops(w) \/ ClaimNothing(w) \/ ProbeStops(w) \/ StoreFails(w) \/ Crash(w)
      PROVE  Seen
  BY <1>9, <1>b DEF OpStops, ClaimNothing, ProbeStops, StoreFails, Crash
\* The last write settles the job, revives it, or finds nothing to write.
<1>10. ASSUME NEW w \in Worker, Finish(w) PROVE Seen
  <2> DEFINE j == run[w].job
             row == rows[j]
             new == LastWrite(pc[w], row, Owner[j])
  <2>1. /\ pc[w] \in {"complete", "fail", "retry", "cancel"}
        /\ LetGo(w)
        /\ rows' = [rows EXCEPT ![j] = new]
    BY <1>10 DEF Finish
  <2>2. /\ j \in Job /\ row \in Row
        /\ row.status \in {"running", "cancelled"}
        /\ << w, j >> \in Leases
        /\ pc[w] = "cancel" => row.status = "cancelled"
    BY <1>0, <2>1 DEF WorkersHoldRows, HeldRowsAreFresh, CancelSeenIsTrue, Holding, TypeOK,
                      Leases, Executes
  <2>3. Leases' = Leases \ {<< w, j >>}
    BY <1>0, <2>1, LeasesAfterLetGo
  <2>4. new \in Row
    BY <2>1, <2>2, LastWriteRow
  <2>5. Statuses[j] = row.status /\ Statuses' = [Statuses EXCEPT ![j] = new.status]
    BY <1>0, <2>1, <2>2, <2>4, StatusesAfter DEF Statuses
  <2>6. pc[w] = "retry" => j \in Attemptable
    BY <1>0, <2>2, MaxAttemptsAssumption
       DEF RetryIsAllowed, WorkersHoldRows, Attemptable, Holding, TypeOK
  <2>7. CASE row.status = "running"
    <3>1. new.status \in {"completed", "failed"} \cup
                         (IF j \in Attemptable THEN {"queued"} ELSE {})
      BY <2>1, <2>2, <2>6, <2>7
         DEF LastWrite, MarkCompleted, MarkFailed, MarkRetry, Write, Cancellable
    <3>2. Lease!Settle(w, j, new.status)
      BY <2>2, <2>3, <2>5, <2>7, <3>1 DEF Lease!Settle, Statuses, Leases, Attemptable
    <3>3. new.status \in Lease!Status
      BY <3>1 DEF Lease!Status
    <3>4. PICK k \in Job, s \in Lease!Status : k = j /\ s = new.status
      BY <2>2, <3>3
    <3>5. Lease!Settle(w, k, s)
      BY <3>2, <3>4 DEF Lease!Settle
    <3>6. QED BY <1>e, <3>5
  <2>8. CASE row.status = "cancelled" /\ pc[w] = "retry"
    <3>1. new.status = "queued"
      BY <2>8 DEF LastWrite, MarkRetry
    <3>2. Lease!Revive(w, j)
      BY <2>2, <2>3, <2>5, <2>6, <2>8, <3>1 DEF Lease!Revive, Statuses, Leases, Attemptable
    <3>3. PICK k \in Job : k = j
      BY <2>2
    <3>4. Lease!Revive(w, k)
      BY <3>2, <3>3 DEF Lease!Revive
    <3>5. QED BY <1>f, <3>4
  <2>9. CASE row.status = "cancelled" /\ pc[w] # "retry"
    <3>1. new = row
      BY <2>1, <2>9 DEF LastWrite, MarkCompleted, MarkFailed, MarkCancelled, Cancellable
    <3>2. Statuses' = Statuses
      BY <1>0, <2>1, <2>2, <3>1, StatusesKept
    <3>3. Lease!Abandon(w, j)
      BY <2>2, <2>3, <3>2 DEF Lease!Abandon, Statuses, Leases
    <3>4. QED BY <2>2, <3>3 DEF Seen, Lease!Next
  <2>10. QED BY <2>2, <2>7, <2>8, <2>9
<1>11. ASSUME NEW u \in User, NEW j \in Job, CancelWrite(u, j) PROVE Seen
  <2> DEFINE new == MarkCancelled(rows[j], Owner[j], u)
  <2>1. rows[j] \in Row /\ new \in Row
    BY <1>0, RowWrites DEF TypeOK
  <2>2. Leases' = Leases /\ rows' = [rows EXCEPT ![j] = new]
    BY <1>11 DEF CancelWrite, Leases, Executes
  <2>3. CASE new = rows[j]
    BY <1>d, <2>1, <2>2, <2>3
  <2>4. CASE new # rows[j]
    <3>1. rows[j].status \in {"queued", "running"} /\ new.status = "cancelled"
      BY <2>4 DEF MarkCancelled, Cancellable, Write
    <3>2. Statuses[j] = rows[j].status /\ Statuses' = [Statuses EXCEPT ![j] = "cancelled"]
      BY <1>0, <2>1, <2>2, <3>1, StatusesAfter DEF Statuses
    <3>3. Lease!Cancel(j)
      BY <2>2, <3>1, <3>2 DEF Lease!Cancel, Statuses, Leases
    <3>4. QED BY <3>3 DEF Seen, Lease!Next
  <2>5. QED BY <2>3, <2>4
<1>12. ASSUME NEW j \in Job, RetryDue(j) \/ Age(j) PROVE Seen
  <2>1. rows[j] \in Row
    BY <1>0 DEF TypeOK
  <2>2. Leases' = Leases
    BY <1>12 DEF RetryDue, Age, Leases, Executes
  <2>3. CASE RetryDue(j)
    BY <1>d, <2>1, <2>2, <2>3, RowWrites DEF RetryDue, BecomeDue
  <2>4. CASE Age(j)
    BY <1>d, <2>1, <2>2, <2>4, RowWrites DEF Age, BecomeAged
  <2>5. QED BY <1>12, <2>3, <2>4
\* Taking a message changes pc, but not to or from a place that holds a row.
<1>13. ASSUME NEW w \in Worker, NEW j \in Job, Receive(w, j) PROVE Seen
  <2>1. Leases' = Leases
    BY <1>0, <1>13 DEF Receive, TypeOK, Leases, Executes, Holding
  <2>2. QED BY <1>13, <2>1 DEF Receive, Seen, Statuses
<1>14. ASSUME UNCHANGED << rows, pc, run >> PROVE Seen
  BY <1>14 DEF Seen, Statuses, Leases, Executes
<1>15. QED
  BY <1>a, <1>1, <1>2, <1>3, <1>4, <1>5, <1>6, <1>7, <1>8, <1>9, <1>10, <1>11, <1>12,
     <1>13, <1>14
     DEF Next, WorkerStep, OpEnds, Probe, vars, Post, Rollback, Repost, ReceiveUnknown,
         CancelRequest

\* Every behaviour of the queue is one that JobLease allows.
THEOREM LeaseRefined == NoLongRuns => (Spec => LeaseSpec)
<1> SUFFICES ASSUME NoLongRuns PROVE Spec => LeaseSpec
  OBVIOUS
<1>1. Inv /\ InvInTime /\ [Next]_vars => [Lease!Next]_(Lease!vars)
  BY LeaseStep DEF InvInTime
<1>2. QED
  BY <1>1, LeaseInit, InvHolds, InTimeHolds, PTL DEF Spec, LeaseSpec, Lease!Spec
-----------------------------------------------------------------------------
(***************************************************************************)
(* Messages against rows.  That waiting jobs never outnumber the messages   *)
(* is not inductive: a claim may take a row that is not waiting, and then    *)
(* the message it uses up must not be missed by a job whose transaction is  *)
(* still open.  So open requests are counted with the waiting jobs, and each *)
(* open request still has its own message unless one was dropped.           *)
(***************************************************************************)
Open(t) == {j \in OfType(t) : request[j] = "open"}
Lost(t) == {j \in Open(t) : messages[j] = 0}
InBroker(t) == SumFunctionOnSet(messages, OfType(t))

\* A worker that is not idle holds a job's message.
MessageHeld == \A w \in Worker : pc[w] # "idle" => msg[w] \in Job

\* Waiting jobs and open requests are covered by messages, claims and drops.
Covered(t) ==
  Cardinality(Waiting(t)) + Cardinality(Open(t))
    <= InBroker(t) + Cardinality(Claiming(t)) + dropped[t]

\* An open request without its message is paid for by a drop.
LostDropped(t) == Cardinality(Lost(t)) <= dropped[t]

Balance == MessageHeld /\ \A t \in JobType : Covered(t) /\ LostDropped(t)

\* A part of a finite set, and a set with at most one element more or less.
LEMMA Counting ==
  ASSUME NEW S, IsFiniteSet(S), NEW T, NEW x
  PROVE  /\ Cardinality(S) \in Nat
         /\ T \subseteq S => Cardinality(T) <= Cardinality(S)
         /\ T \subseteq S \cup {x} => Cardinality(T) <= Cardinality(S) + 1
         /\ x \in S /\ T \subseteq S \ {x} => Cardinality(T) <= Cardinality(S) - 1
<1>1. Cardinality(S) \in Nat
  BY FS_CardinalityType
<1>2. ASSUME T \subseteq S PROVE Cardinality(T) <= Cardinality(S)
  BY <1>2, FS_Subset
<1>3. ASSUME T \subseteq S \cup {x} PROVE Cardinality(T) <= Cardinality(S) + 1
  <2>1. /\ IsFiniteSet(S \cup {x})
        /\ Cardinality(S \cup {x}) = IF x \in S THEN Cardinality(S) ELSE Cardinality(S) + 1
    BY FS_AddElement
  <2>2. IsFiniteSet(T) /\ Cardinality(T) <= Cardinality(S \cup {x})
    BY <1>3, <2>1, FS_Subset
  <2>3. Cardinality(T) \in Nat
    BY <2>2, FS_CardinalityType
  <2> QED BY <1>1, <2>1, <2>2, <2>3
<1>4. ASSUME x \in S, T \subseteq S \ {x} PROVE Cardinality(T) <= Cardinality(S) - 1
  <2>1. IsFiniteSet(S \ {x}) /\ Cardinality(S \ {x}) = Cardinality(S) - 1
    BY <1>4, FS_RemoveElement
  <2>2. Cardinality(T) <= Cardinality(S \ {x})
    BY <1>4, <2>1, FS_Subset
  <2> QED BY <2>1, <2>2
<1> QED BY <1>1, <1>2, <1>3, <1>4

\* Everything the balance counts is finite.
LEMMA FinitelyMany ==
  ASSUME NEW t
  PROVE  /\ IsFiniteSet(OfType(t)) /\ OfType(t) \subseteq Job
         /\ IsFiniteSet(Waiting(t)) /\ IsFiniteSet(Waiting(t)')
         /\ IsFiniteSet(Open(t)) /\ IsFiniteSet(Open(t)')
         /\ IsFiniteSet(Lost(t)) /\ IsFiniteSet(Lost(t)')
         /\ IsFiniteSet(Claiming(t)) /\ IsFiniteSet(Claiming(t)')
<1>1. IsFiniteSet(OfType(t)) /\ OfType(t) \subseteq Job
  BY FiniteAssumption, FS_Subset DEF OfType
<1>2. /\ Waiting(t) \subseteq OfType(t) /\ Waiting(t)' \subseteq OfType(t)
      /\ Open(t) \subseteq OfType(t) /\ Open(t)' \subseteq OfType(t)
      /\ Lost(t) \subseteq OfType(t) /\ Lost(t)' \subseteq OfType(t)
      /\ Claiming(t) \subseteq Worker /\ Claiming(t)' \subseteq Worker
  BY DEF Waiting, Open, Lost, Claiming, OfType
<1> QED BY <1>1, <1>2, FiniteAssumption, FS_Subset

\* They are numbers.
LEMMA CountsAreNumbers ==
  ASSUME TypeOK, TypeOK', NEW t \in JobType
  PROVE  /\ Cardinality(Waiting(t)) \in Nat /\ Cardinality(Waiting(t)') \in Nat
         /\ Cardinality(Open(t)) \in Nat /\ Cardinality(Open(t)') \in Nat
         /\ Cardinality(Lost(t)) \in Nat /\ Cardinality(Lost(t)') \in Nat
         /\ Cardinality(Claiming(t)) \in Nat /\ Cardinality(Claiming(t)') \in Nat
         /\ InBroker(t) \in Int /\ InBroker(t)' \in Int
         /\ dropped[t] \in Nat /\ dropped'[t] \in Nat
<1>1. \A j \in OfType(t) : messages[j] \in Int /\ messages'[j] \in Int
  BY DEF TypeOK, OfType
<1>2. InBroker(t) \in Int /\ InBroker(t)' \in Int
  BY <1>1, FinitelyMany, SumIsInteger DEF InBroker, OfType
<1>3. dropped[t] \in Nat /\ dropped'[t] \in Nat
  BY DEF TypeOK
<1> QED BY <1>2, <1>3, FinitelyMany, FS_CardinalityType

\* A message more or less counts for the type of its job.
LEMMA MessagesChange ==
  ASSUME TypeOK, TypeOK', NEW j \in Job, NEW n \in Int, messages'[j] = messages[j] + n,
         \A k \in Job : k # j => messages'[k] = messages[k], NEW t \in JobType
  PROVE  InBroker(t)' = InBroker(t) + (IF TypeOf[j] = t THEN n ELSE 0)
<1>1. \A k \in OfType(t) : messages[k] \in Int /\ messages'[k] \in Int
  BY DEF TypeOK, OfType
<1>2. IsFiniteSet(OfType(t)) /\ InBroker(t)' = SumFunctionOnSet(messages', OfType(t))
  BY FinitelyMany DEF InBroker, OfType
<1>3. CASE TypeOf[j] = t
  <2>1. j \in OfType(t) /\ \A k \in OfType(t) : k # j => messages'[k] = messages[k]
    BY <1>3 DEF OfType
  <2>2. InBroker(t)' = InBroker(t) + (messages'[j] - messages[j])
    BY <1>1, <1>2, <2>1, SumOfChanged DEF InBroker
  <2> QED BY <1>1, <1>3, <2>1, <2>2
<1>4. CASE TypeOf[j] # t
  <2>1. \A k \in OfType(t) : messages'[k] = messages[k]
    BY <1>4 DEF OfType
  <2>2. InBroker(t)' = InBroker(t)
    BY <1>2, <2>1, SumOfEqual DEF InBroker
  <2>3. InBroker(t) \in Int
    BY CountsAreNumbers
  <2> QED BY <1>4, <2>2, <2>3
<1> QED BY <1>3, <1>4

\* A job waits only from its commit: every other write leaves a row that is not queued,
\* or has a retry time, or is as it was.
Unwaiting(old, new) ==
  new.status = "queued" /\ new.retry = "null" => old.status = "queued" /\ old.retry = "null"

LEMMA WritesUnwaiting ==
  ASSUME NEW row \in Row, NEW owner, NEW user,
         NEW step \in {"complete", "fail", "retry", "cancel"}
  PROVE  /\ Unwaiting(row, ResetRunning(row))
         /\ Unwaiting(row, TouchProgress(row))
         /\ Unwaiting(row, LastWrite(step, row, owner))
         /\ Unwaiting(row, MarkCancelled(row, owner, user))
         /\ Unwaiting(row, BecomeDue(row))
         /\ row.status = "running" => Unwaiting(row, BecomeAged(row))
BY DEF Unwaiting, LastWrite, MarkCompleted, MarkFailed, MarkRetry, MarkCancelled, BecomeDue,
       BecomeAged, ResetRunning, TouchProgress, Write, Cancellable

LEMMA NoNewWaiting ==
  ASSUME TypeOK, NEW j \in Job, NEW row \in Row, Unwaiting(rows[j], row),
         rows' = [rows EXCEPT ![j] = row], NEW t
  PROVE  Waiting(t)' \subseteq Waiting(t)
BY DEF TypeOK, Unwaiting, Waiting, OfType

\* The balance is kept when nothing it counts for a type grows but the cover.
LEMMA BalanceKept ==
  ASSUME TypeOK, TypeOK', NEW t \in JobType, Covered(t), LostDropped(t),
         Waiting(t)' \subseteq Waiting(t), Open(t)' \subseteq Open(t),
         Lost(t)' \subseteq Lost(t),
         InBroker(t)' + Cardinality(Claiming(t)') + dropped'[t]
           >= InBroker(t) + Cardinality(Claiming(t)) + dropped[t],
         dropped'[t] >= dropped[t]
  PROVE  Covered(t)' /\ LostDropped(t)'
<1>1. /\ Cardinality(Waiting(t)') <= Cardinality(Waiting(t))
      /\ Cardinality(Open(t)') <= Cardinality(Open(t))
      /\ Cardinality(Lost(t)') <= Cardinality(Lost(t))
  BY FinitelyMany, Counting
<1>2. /\ Cardinality(Waiting(t)') + Cardinality(Open(t)')
           <= InBroker(t)' + Cardinality(Claiming(t)') + dropped'[t]
      /\ Cardinality(Lost(t)') <= dropped'[t]
  BY <1>1, CountsAreNumbers DEF Covered, LostDropped
<1> QED BY <1>2 DEF Covered, LostDropped

\* Where no job of a type waits, no claim is needed: its open requests have messages of
\* their own.
LEMMA OpenHaveMessages ==
  ASSUME TypeOK, TypeOK', NEW t \in JobType, LostDropped(t)
  PROVE  Cardinality(Open(t)) <= InBroker(t) + dropped[t]
<1> DEFINE Sent == {j \in Open(t) : messages[j] # 0}
<1>1. /\ IsFiniteSet(Open(t)) /\ IsFiniteSet(Lost(t)) /\ IsFiniteSet(OfType(t))
      /\ Sent \in SUBSET OfType(t) /\ Sent \in SUBSET Open(t)
  BY FinitelyMany DEF Open
<1>2. IsFiniteSet(Sent)
  BY <1>1, FS_Subset
<1>3. Cardinality(Sent) <= InBroker(t)
  <2>1. \A j \in OfType(t) : messages[j] \in Nat
    BY DEF TypeOK, OfType
  <2>2. \A j \in Sent : messages[j] >= 1
    BY <2>1, <1>1
  <2> HIDE DEF Sent
  <2> QED BY <1>1, <2>1, <2>2, SumCounts DEF InBroker
<1>4. Cardinality(Open(t)) = Cardinality(Sent) + Cardinality(Lost(t))
  <2>1. Open(t) = Sent \cup Lost(t) /\ Sent \cap Lost(t) = {}
    BY DEF Lost
  <2>2. Cardinality(Sent \cup Lost(t)) = Cardinality(Sent) + Cardinality(Lost(t))
    <3>1. Cardinality(Sent \cup Lost(t))
            = Cardinality(Sent) + Cardinality(Lost(t)) - Cardinality(Sent \cap Lost(t))
      BY <1>1, <1>2, FS_Union
    <3>2. Cardinality(Sent \cap Lost(t)) = 0
      BY <2>1, FS_EmptySet, Zenon
    <3>3. Cardinality(Sent) \in Nat /\ Cardinality(Lost(t)) \in Nat
      BY <1>1, <1>2, FS_CardinalityType
    <3> QED BY <3>1, <3>2, <3>3
  <2>3. Cardinality(Open(t)) = Cardinality(Sent \cup Lost(t))
    BY <2>1, Zenon
  <2> QED BY <2>2, <2>3
<1>5. Cardinality(Sent) \in Nat
  BY <1>2, FS_CardinalityType
<1> QED BY <1>3, <1>4, <1>5, CountsAreNumbers DEF LostDropped

\* A worker that lets go claims for no type any more.
LEMMA ClaimingAfterLetGo ==
  ASSUME TypeOK, NEW w \in Worker, LetGo(w), NEW t
  PROVE  Claiming(t)' = Claiming(t) \ {w}
BY DEF TypeOK, LetGo, Claiming

\* Nothing is balanced before the first POST but nothings.
LEMMA BalanceInit == Init => Balance
<1> SUFFICES ASSUME Init PROVE Balance
  OBVIOUS
<1>1. MessageHeld
  BY DEF Init, MessageHeld
<1>2. ASSUME NEW t \in JobType PROVE Covered(t) /\ LostDropped(t)
  <2>1. Waiting(t) = {} /\ Open(t) = {} /\ Lost(t) = {} /\ Claiming(t) = {}
    BY DEF Init, Waiting, Open, Lost, Claiming, OfType, NoRow
  <2>2. /\ Cardinality(Waiting(t)) = 0 /\ Cardinality(Open(t)) = 0
        /\ Cardinality(Lost(t)) = 0 /\ Cardinality(Claiming(t)) = 0
    BY <2>1, FS_EmptySet, Zenon
  <2>3. dropped[t] = 0
    BY DEF Init
  <2>4. 0 <= InBroker(t)
    <3>1. /\ IsFiniteSet(OfType(t)) /\ {} \in SUBSET OfType(t)
          /\ \A j \in OfType(t) : messages[j] \in Nat
          /\ \A j \in {} : messages[j] >= 1
      BY FinitelyMany DEF Init, OfType
    <3>2. Cardinality({}) <= InBroker(t)
      BY <3>1, SumCounts DEF InBroker
    <3> QED BY <3>2, FS_EmptySet
  <2>5. InBroker(t) \in Int
    <3>1. messages = [j \in Job |-> 0]
      BY DEF Init
    <3>2. \A j \in OfType(t) : messages[j] \in Int
      BY <3>1 DEF OfType
    <3> QED BY <3>2, FinitelyMany, SumIsInteger DEF InBroker
  <2> QED BY <2>2, <2>3, <2>4, <2>5 DEF Covered, LostDropped
<1> QED BY <1>1, <1>2 DEF Balance

\* Every step keeps the balance, whichever rows the claims take.
LEMMA BalanceStep == Inv /\ Balance /\ [Next]_vars => Balance'
<1> SUFFICES ASSUME Inv, Balance, [Next]_vars PROVE Balance'
  OBVIOUS
<1>0. TypeOK /\ TypeOK' /\ RowsFromPosts /\ WorkersHoldRows /\ MessageHeld
  BY TypeStep DEF Inv, Balance
\* What a worker holds after a step it held before, or has just received.
<1>1. MessageHeld'
  <2>1. ASSUME NEW w \in Worker, LetGo(w) PROVE MessageHeld'
    BY <1>0, <2>1 DEF LetGo, MessageHeld, TypeOK
  <2>2. ASSUME NEW w \in Worker, NEW j \in Job, Receive(w, j) PROVE MessageHeld'
    BY <1>0, <2>2 DEF Receive, MessageHeld, TypeOK
  <2>3. ASSUME NEW w \in Worker, pc[w] # "idle", NEW to, pc' = [pc EXCEPT ![w] = to],
               UNCHANGED msg
        PROVE  MessageHeld'
    BY <1>0, <2>3 DEF MessageHeld, TypeOK
  <2>4. CASE UNCHANGED << pc, msg >>
    BY <1>0, <2>4 DEF MessageHeld
  <2>5. ASSUME NEW w \in Worker, NEW j \in Job, Claim(w, j) PROVE MessageHeld'
    BY <2>3, <2>5 DEF Claim
  <2>6. ASSUME NEW w \in Worker,
               OpReturns(w) \/ WriteProgress(w) \/ ProbePasses(w) \/ ProbeError(w)
                 \/ \E kind \in Raised : OpRaises(w, kind)
        PROVE  MessageHeld'
    BY <2>3, <2>6 DEF OpReturns, WriteProgress, ProbePasses, ProbeError, OpRaises, Raised
  <2>7. ASSUME NEW w \in Worker,
               OpStops(w) \/ ClaimNothing(w) \/ ProbeStops(w) \/ Finish(w)
                 \/ StoreFails(w) \/ Crash(w)
        PROVE  MessageHeld'
    BY <2>1, <2>7 DEF OpStops, ClaimNothing, ProbeStops, Finish, StoreFails, Crash
  <2> QED
    BY <2>2, <2>4, <2>5, <2>6, <2>7
       DEF Next, WorkerStep, OpEnds, Probe, vars, Post, Commit, Rollback, Repost,
           ReceiveUnknown, Heartbeat, CancelRequest, CancelWrite, RetryDue, Age
<1>2. ASSUME NEW t \in JobType PROVE Covered(t)' /\ LostDropped(t)'
  <2> DEFINE Kept == Covered(t)' /\ LostDropped(t)'
  <2>0. Covered(t) /\ LostDropped(t)
    BY DEF Balance
  <2>a. /\ Cardinality(Waiting(t)) \in Nat /\ Cardinality(Waiting(t)') \in Nat
        /\ Cardinality(Open(t)) \in Nat /\ Cardinality(Open(t)') \in Nat
        /\ Cardinality(Lost(t)) \in Nat /\ Cardinality(Lost(t)') \in Nat
        /\ Cardinality(Claiming(t)) \in Nat /\ Cardinality(Claiming(t)') \in Nat
        /\ InBroker(t) \in Int /\ InBroker(t)' \in Int
        /\ dropped[t] \in Nat /\ dropped'[t] \in Nat
    BY <1>0, CountsAreNumbers
  <2>b. ASSUME UNCHANGED messages PROVE InBroker(t)' = InBroker(t)
    BY <2>b DEF InBroker, OfType
  <2>c. ASSUME UNCHANGED << pc, msg >> PROVE Claiming(t)' = Claiming(t)
    BY <2>c DEF Claiming
  <2>d. ASSUME UNCHANGED << request, messages >>
        PROVE  Open(t)' = Open(t) /\ Lost(t)' = Lost(t)
    BY <2>d DEF Open, Lost, OfType
  <2>e. ASSUME UNCHANGED rows PROVE Waiting(t)' = Waiting(t)
    BY <2>e DEF Waiting, OfType
  \* A worker that is not claiming, and does not start to, changes rows at most.
  <2>f. ASSUME Waiting(t)' \subseteq Waiting(t), Claiming(t)' = Claiming(t),
               UNCHANGED << request, messages >>, dropped'[t] = dropped[t]
        PROVE  Kept
    <3>1. Cardinality(Claiming(t)') = Cardinality(Claiming(t))
      BY <2>f, Zenon
    <3>2. InBroker(t)' = InBroker(t) /\ Open(t)' = Open(t) /\ Lost(t)' = Lost(t)
      BY <2>b, <2>d, <2>f
    <3>3. Open(t)' \subseteq Open(t) /\ Lost(t)' \subseteq Lost(t)
      BY <3>2
    <3>4. InBroker(t)' + Cardinality(Claiming(t)') + dropped'[t]
            >= InBroker(t) + Cardinality(Claiming(t)) + dropped[t]
      BY <2>a, <2>f, <3>1, <3>2
    <3>5. dropped'[t] >= dropped[t]
      BY <2>a, <2>f
    <3> QED BY <1>0, <2>0, <2>f, <3>3, <3>4, <3>5, BalanceKept
  \* A claim ends with no job of the type waiting: the worker's message is not missed.
  <2>g. ASSUME Waiting(t) = {}, Waiting(t)' \subseteq Waiting(t),
               UNCHANGED << request, messages, dropped >>
        PROVE  Kept
    <3>1. Cardinality(Waiting(t)') = 0
      BY <2>g, FS_EmptySet
    <3>2. Cardinality(Open(t)) <= InBroker(t) + dropped[t]
      BY <1>0, <2>0, OpenHaveMessages
    <3>3. Cardinality(Open(t)') = Cardinality(Open(t)) /\ Cardinality(Lost(t)') = Cardinality(Lost(t))
      BY <2>d, <2>g, Zenon
    <3>4. InBroker(t)' = InBroker(t) /\ dropped'[t] = dropped[t]
      BY <2>b, <2>g
    <3> HIDE DEF Kept
    <3>5. /\ Cardinality(Waiting(t)') + Cardinality(Open(t)')
               <= InBroker(t)' + Cardinality(Claiming(t)') + dropped'[t]
          /\ Cardinality(Lost(t)') <= dropped'[t]
      BY <2>0, <2>a, <3>1, <3>2, <3>3, <3>4 DEF LostDropped
    <3> QED BY <3>5 DEF Kept, Covered, LostDropped
  <2> HIDE DEF Kept
  <2>1. ASSUME NEW j \in Job, Post(j) PROVE Kept
    <3>1. /\ messages'[j] = messages[j] + 1
          /\ \A k \in Job : k # j => messages'[k] = messages[k]
      BY <1>0, <2>1 DEF Post, TypeOK
    <3>2. InBroker(t)' = InBroker(t) + (IF TypeOf[j] = t THEN 1 ELSE 0)
      BY <1>0, <3>1, MessagesChange
    <3>3. Cardinality(Open(t)') <= Cardinality(Open(t)) + (IF TypeOf[j] = t THEN 1 ELSE 0)
      <4>1. Open(t)' \subseteq (IF TypeOf[j] = t THEN Open(t) \cup {j} ELSE Open(t))
        BY <1>0, <2>1 DEF Post, Open, OfType, TypeOK
      <4> QED BY <4>1, FinitelyMany, Counting
    <3>4. Lost(t)' \subseteq Lost(t)
      BY <1>0, <2>1 DEF Post, Lost, Open, OfType, TypeOK
    <3>5. Cardinality(Lost(t)') <= Cardinality(Lost(t))
      BY <3>4, FinitelyMany, Counting
    <3>6. /\ Cardinality(Waiting(t)') = Cardinality(Waiting(t))
          /\ Cardinality(Claiming(t)') = Cardinality(Claiming(t))
      BY <2>1, <2>c, <2>e, Zenon DEF Post
    <3>7. dropped'[t] = dropped[t]
      BY <2>1 DEF Post
    <3>8. /\ Cardinality(Waiting(t)') + Cardinality(Open(t)')
               <= InBroker(t)' + Cardinality(Claiming(t)') + dropped'[t]
          /\ Cardinality(Lost(t)') <= dropped'[t]
      BY <2>0, <2>a, <3>2, <3>3, <3>5, <3>6, <3>7 DEF Covered, LostDropped
    <3> QED BY <3>8 DEF Kept, Covered, LostDropped
  \* The job stops being an open request and begins to wait.
  <2>2. ASSUME NEW j \in Job, Commit(j) PROVE Kept
    <3>1. CASE TypeOf[j] = t
      <4>1. j \in Open(t) /\ Open(t)' \subseteq Open(t) \ {j} /\ Lost(t)' \subseteq Lost(t)
        BY <1>0, <2>2, <3>1 DEF Commit, Lost, Open, OfType, TypeOK
      <4>2. Waiting(t)' \subseteq Waiting(t) \cup {j}
        BY <1>0, <2>2 DEF Commit, Waiting, OfType, TypeOK
      <4>3. /\ Cardinality(Open(t)') <= Cardinality(Open(t)) - 1
            /\ Cardinality(Waiting(t)') <= Cardinality(Waiting(t)) + 1
            /\ Cardinality(Lost(t)') <= Cardinality(Lost(t))
        BY <4>1, <4>2, FinitelyMany, Counting
      <4>4. InBroker(t)' = InBroker(t) /\ dropped'[t] = dropped[t]
        BY <2>2, <2>b DEF Commit
      <4>5. Cardinality(Claiming(t)') = Cardinality(Claiming(t))
        BY <2>2, <2>c, Zenon DEF Commit
      <4>6. /\ Cardinality(Waiting(t)') + Cardinality(Open(t)')
                 <= InBroker(t)' + Cardinality(Claiming(t)') + dropped'[t]
            /\ Cardinality(Lost(t)') <= dropped'[t]
        BY <2>0, <2>a, <4>3, <4>4, <4>5 DEF Covered, LostDropped
      <4> QED BY <4>6 DEF Kept, Covered, LostDropped
    <3>2. CASE TypeOf[j] # t
      <4>1. Open(t)' \subseteq Open(t) /\ Lost(t)' \subseteq Lost(t)
        BY <1>0, <2>2, <3>2 DEF Commit, Lost, Open, OfType, TypeOK
      <4>2. Waiting(t)' \subseteq Waiting(t)
        BY <1>0, <2>2, <3>2 DEF Commit, Waiting, OfType, TypeOK
      <4>3. InBroker(t)' = InBroker(t) /\ dropped'[t] = dropped[t]
        BY <2>2, <2>b DEF Commit
      <4>4. Cardinality(Claiming(t)') = Cardinality(Claiming(t))
        BY <2>2, <2>c, Zenon DEF Commit
      <4>5. /\ InBroker(t)' + Cardinality(Claiming(t)') + dropped'[t]
                 >= InBroker(t) + Cardinality(Claiming(t)) + dropped[t]
            /\ dropped'[t] >= dropped[t]
        BY <2>a, <4>3, <4>4
      <4> QED BY <1>0, <2>0, <4>1, <4>2, <4>5, BalanceKept DEF Kept
    <3> QED BY <3>1, <3>2
  <2>3. ASSUME NEW j \in Job, Rollback(j) PROVE Kept
    <3>1. Open(t)' \subseteq Open(t) /\ Lost(t)' \subseteq Lost(t)
      BY <1>0, <2>3 DEF Rollback, Lost, Open, OfType, TypeOK
    <3>2. InBroker(t)' = InBroker(t) /\ Waiting(t)' \subseteq Waiting(t)
      BY <2>3, <2>b, <2>e DEF Rollback
    <3>3. Cardinality(Claiming(t)') = Cardinality(Claiming(t))
      BY <2>3, <2>c, Zenon DEF Rollback
    <3>4. /\ InBroker(t)' + Cardinality(Claiming(t)') + dropped'[t]
               >= InBroker(t) + Cardinality(Claiming(t)) + dropped[t]
          /\ dropped'[t] >= dropped[t]
      BY <2>a, <2>3, <3>2, <3>3 DEF Rollback
    <3> QED BY <1>0, <2>0, <3>1, <3>2, <3>4, BalanceKept DEF Kept
  <2>4. ASSUME NEW j \in Job, Repost(j) PROVE Kept
    <3>1. /\ messages'[j] = messages[j] + 1
          /\ \A k \in Job : k # j => messages'[k] = messages[k]
      BY <1>0, <2>4 DEF Repost, TypeOK
    <3>2. InBroker(t)' = InBroker(t) + (IF TypeOf[j] = t THEN 1 ELSE 0)
      BY <1>0, <3>1, MessagesChange
    <3>3. Open(t)' \subseteq Open(t) /\ Lost(t)' \subseteq Lost(t)
      BY <1>0, <2>4 DEF Repost, Lost, Open, OfType, TypeOK
    <3>4. Waiting(t)' \subseteq Waiting(t)
      BY <2>4, <2>e DEF Repost
    <3>5. Cardinality(Claiming(t)') = Cardinality(Claiming(t))
      BY <2>4, <2>c, Zenon DEF Repost
    <3>6. /\ InBroker(t)' + Cardinality(Claiming(t)') + dropped'[t]
               >= InBroker(t) + Cardinality(Claiming(t)) + dropped[t]
          /\ dropped'[t] >= dropped[t]
      BY <2>a, <2>4, <3>2, <3>5 DEF Repost
    <3> QED BY <1>0, <2>0, <3>3, <3>4, <3>6, BalanceKept DEF Kept
  \* A message received names a row, so its request is not open.
  <2>5. ASSUME NEW w \in Worker, NEW j \in Job, Receive(w, j) PROVE Kept
    <3>1. /\ messages'[j] = messages[j] + (- 1)
          /\ \A k \in Job : k # j => messages'[k] = messages[k]
      BY <1>0, <2>5 DEF Receive, TypeOK
    <3>2. InBroker(t)' = InBroker(t) + (IF TypeOf[j] = t THEN - 1 ELSE 0)
      BY <1>0, <3>1, MessagesChange
    <3>3. j \notin Open(t)
      BY <1>0, <2>5 DEF Receive, RowsFromPosts, Open
    <3>4. Open(t)' \subseteq Open(t) /\ Lost(t)' \subseteq Lost(t)
      BY <1>0, <2>5, <3>3 DEF Receive, Lost, Open, OfType, TypeOK
    <3>5. Waiting(t)' \subseteq Waiting(t)
      BY <2>5, <2>e DEF Receive
    <3>6. Cardinality(Claiming(t)') >= Cardinality(Claiming(t)) + (IF TypeOf[j] = t THEN 1 ELSE 0)
      <4>1. CASE TypeOf[j] = t
        <5>1. w \in Claiming(t)' /\ Claiming(t) \subseteq Claiming(t)' \ {w}
          BY <1>0, <2>5, <4>1 DEF Receive, Claiming, TypeOK
        <5>2. Cardinality(Claiming(t)) <= Cardinality(Claiming(t)') - 1
          BY <5>1, FinitelyMany, Counting
        <5> QED BY <2>a, <4>1, <5>2
      <4>2. CASE TypeOf[j] # t
        <5>1. Claiming(t) \subseteq Claiming(t)'
          BY <1>0, <2>5, <4>2 DEF Receive, Claiming, TypeOK
        <5>2. Cardinality(Claiming(t)) <= Cardinality(Claiming(t)')
          BY <5>1, FinitelyMany, Counting
        <5> QED BY <2>a, <4>2, <5>2
      <4> QED BY <4>1, <4>2
    <3>7. /\ InBroker(t)' + Cardinality(Claiming(t)') + dropped'[t]
               >= InBroker(t) + Cardinality(Claiming(t)) + dropped[t]
          /\ dropped'[t] >= dropped[t]
      BY <2>a, <2>5, <3>2, <3>6 DEF Receive
    <3> QED BY <1>0, <2>0, <3>4, <3>5, <3>7, BalanceKept DEF Kept
  \* A message that names no row is dropped; its request may be the one that loses it.
  <2>6. ASSUME NEW w \in Worker, NEW j \in Job, ReceiveUnknown(w, j) PROVE Kept
    <3>1. /\ messages'[j] = messages[j] + (- 1)
          /\ \A k \in Job : k # j => messages'[k] = messages[k]
      BY <1>0, <2>6 DEF ReceiveUnknown, TypeOK
    <3>2. InBroker(t)' = InBroker(t) + (IF TypeOf[j] = t THEN - 1 ELSE 0)
      BY <1>0, <3>1, MessagesChange
    <3>3. dropped'[t] = dropped[t] + (IF TypeOf[j] = t THEN 1 ELSE 0)
      BY <1>0, <2>6 DEF ReceiveUnknown, TypeOK
    <3>4. Cardinality(Lost(t)') <= Cardinality(Lost(t)) + (IF TypeOf[j] = t THEN 1 ELSE 0)
      <4>1. Lost(t)' \subseteq (IF TypeOf[j] = t THEN Lost(t) \cup {j} ELSE Lost(t))
        BY <1>0, <2>6 DEF ReceiveUnknown, Lost, Open, OfType, TypeOK
      <4> QED BY <4>1, FinitelyMany, Counting
    <3>5. Open(t)' = Open(t)
      BY <2>6 DEF ReceiveUnknown, Open, OfType
    <3>6. /\ Cardinality(Open(t)') = Cardinality(Open(t))
          /\ Cardinality(Waiting(t)') = Cardinality(Waiting(t))
          /\ Cardinality(Claiming(t)') = Cardinality(Claiming(t))
      BY <2>6, <2>c, <2>e, <3>5, Zenon DEF ReceiveUnknown
    <3>7. /\ Cardinality(Waiting(t)') + Cardinality(Open(t)')
               <= InBroker(t)' + Cardinality(Claiming(t)') + dropped'[t]
          /\ Cardinality(Lost(t)') <= dropped'[t]
      BY <2>0, <2>a, <3>2, <3>3, <3>4, <3>6 DEF Covered, LostDropped
    <3> QED BY <3>7 DEF Kept, Covered, LostDropped
  \* The claim takes a waiting job, or none waits, because waiting jobs come first.
  <2>7. ASSUME NEW w \in Worker, NEW j \in Job, Claim(w, j) PROVE Kept
    <3>0. UNCHANGED << request, messages, dropped >>
      BY <2>7 DEF Claim
    <3>1. rows[j] \in Row /\ ResetRunning(rows[j]) \in Row
          /\ Unwaiting(rows[j], ResetRunning(rows[j]))
      BY <1>0, RowWrites, WritesUnwaiting DEF TypeOK
    <3>2. Waiting(t)' \subseteq Waiting(t)
      BY <1>0, <2>7, <3>1, NoNewWaiting DEF Claim
    <3>3. CASE TypeOf[msg[w]] # t
      <4>1. Claiming(t)' = Claiming(t)
        BY <1>0, <2>7, <3>3 DEF Claim, Claiming, TypeOK
      <4> QED BY <2>f, <3>0, <3>2, <4>1
    <3>4. CASE TypeOf[msg[w]] = t /\ j \in Waiting(t)
      <4>1. Waiting(t)' \subseteq Waiting(t) \ {j}
        BY <1>0, <2>7, <3>1, <3>2
           DEF Claim, Waiting, TypeOK, ResetRunning, Cancellable, Write
      <4>2. Claiming(t) \subseteq Claiming(t)' \cup {w}
        BY <1>0, <2>7 DEF Claim, Claiming, TypeOK
      <4>3. /\ Cardinality(Waiting(t)') <= Cardinality(Waiting(t)) - 1
            /\ Cardinality(Claiming(t)) <= Cardinality(Claiming(t)') + 1
        BY <3>4, <4>1, <4>2, FinitelyMany, Counting
      <4>4. /\ Cardinality(Open(t)') = Cardinality(Open(t))
            /\ Cardinality(Lost(t)') = Cardinality(Lost(t))
        BY <2>d, <3>0, Zenon
      <4>5. InBroker(t)' = InBroker(t) /\ dropped'[t] = dropped[t]
        BY <2>b, <3>0
      <4>6. /\ Cardinality(Waiting(t)') + Cardinality(Open(t)')
                 <= InBroker(t)' + Cardinality(Claiming(t)') + dropped'[t]
            /\ Cardinality(Lost(t)') <= dropped'[t]
        BY <2>0, <2>a, <4>3, <4>4, <4>5 DEF Covered, LostDropped
      <4> QED BY <4>6 DEF Kept, Covered, LostDropped
    <3>5. CASE TypeOf[msg[w]] = t /\ j \notin Waiting(t)
      <4>1. ASSUME NEW k \in Waiting(t) PROVE FALSE
        <5>1. k \in Candidates(t) /\ ClaimRank(rows[k]) = << 0, 0 >>
          BY DEF Waiting, OfType, Candidates, Runnable, ClaimRank
        <5>2. ~ ClaimedBefore(rows[k], rows[j])
          BY <2>7, <3>5, <5>1 DEF Claim
        <5>3. ~ (rows[j].status = "queued" /\ rows[j].retry = "null")
          BY <2>7, <3>5 DEF Claim, Candidates, Waiting, OfType
        <5>4. ClaimRank(rows[j]) \in {<< 0, 1 >>, << 1, 0 >>, << 1, 1 >>}
          BY <5>3 DEF ClaimRank
        <5> QED BY <5>1, <5>2, <5>4 DEF ClaimedBefore
      <4>2. Waiting(t) = {}
        BY <4>1
      <4> QED BY <2>g, <3>0, <3>2, <4>2
    <3> QED BY <3>3, <3>4, <3>5
  \* A worker finds nothing to claim: then no job of its type waits.
  <2>8. ASSUME NEW w \in Worker, ClaimNothing(w) PROVE Kept
    <3>0. UNCHANGED << request, messages, dropped >> /\ Waiting(t)' = Waiting(t)
      BY <2>8, <2>e DEF ClaimNothing
    <3>1. CASE TypeOf[msg[w]] # t
      <4>1. Claiming(t)' = Claiming(t)
        BY <1>0, <2>8, <3>1, ClaimingAfterLetGo DEF ClaimNothing, Claiming
      <4> QED BY <2>f, <3>0, <4>1
    <3>2. CASE TypeOf[msg[w]] = t
      <4>1. Waiting(t) = {}
        BY <2>8, <3>2 DEF ClaimNothing, Candidates, Waiting, OfType, Runnable
      <4> QED BY <2>g, <3>0, <4>1
    <3> QED BY <3>1, <3>2
  \* A worker that holds a row writes that row, or lets go of it, or goes on.
  <2>9. ASSUME NEW w \in Worker, pc[w] # "claim", LetGo(w),
               Waiting(t)' \subseteq Waiting(t),
               UNCHANGED << request, messages >>, dropped'[t] = dropped[t]
        PROVE  Kept
    <3>1. Claiming(t)' = Claiming(t)
      BY <1>0, <2>9, ClaimingAfterLetGo DEF Claiming
    <3> QED BY <2>f, <2>9, <3>1
  <2>10. ASSUME NEW w \in Worker, pc[w] # "claim", NEW to, to # "claim",
                pc' = [pc EXCEPT ![w] = to], UNCHANGED msg,
                Waiting(t)' \subseteq Waiting(t),
                UNCHANGED << request, messages, dropped >>
         PROVE  Kept
    <3>1. Claiming(t)' = Claiming(t)
      BY <1>0, <2>10 DEF Claiming, TypeOK
    <3> QED BY <2>f, <2>10, <3>1
  <2>11. ASSUME NEW w \in Worker, Heartbeat(w) PROVE Kept
    <3>1. run[w].job \in Job /\ rows[run[w].job] \in Row
      BY <1>0, <2>11 DEF Heartbeat, WorkersHoldRows, Holding, TypeOK
    <3>2. Waiting(t)' \subseteq Waiting(t)
      BY <1>0, <2>11, <3>1, RowWrites, WritesUnwaiting, NoNewWaiting DEF Heartbeat
    <3> QED BY <2>c, <2>f, <2>11, <3>2 DEF Heartbeat
  <2>12. ASSUME NEW w \in Worker, WriteProgress(w) PROVE Kept
    <3>1. run[w].job \in Job /\ rows[run[w].job] \in Row
      BY <1>0, <2>12 DEF WriteProgress, WorkersHoldRows, Holding, TypeOK
    <3>2. Waiting(t)' \subseteq Waiting(t)
      BY <1>0, <2>12, <3>1, RowWrites, WritesUnwaiting, NoNewWaiting DEF WriteProgress
    <3> QED BY <2>10, <2>12, <3>2 DEF WriteProgress
  <2>13. ASSUME NEW w \in Worker,
                OpReturns(w) \/ ProbePasses(w) \/ ProbeError(w)
                  \/ \E kind \in Raised : OpRaises(w, kind)
         PROVE  Kept
    <3>1. Waiting(t)' \subseteq Waiting(t)
      BY <2>13, <2>e DEF OpReturns, ProbePasses, ProbeError, OpRaises
    <3>2. \A seen : AfterProbe(w, seen) # "claim"
      BY DEF AfterProbe
    <3> QED BY <2>10, <2>13, <3>1, <3>2 DEF OpReturns, ProbePasses, ProbeError, OpRaises, Raised
  <2>14. ASSUME NEW w \in Worker, OpStops(w) \/ ProbeStops(w) PROVE Kept
    <3>1. Waiting(t)' \subseteq Waiting(t)
      BY <2>14, <2>e DEF OpStops, ProbeStops
    <3> QED BY <2>9, <2>14, <3>1 DEF OpStops, ProbeStops
  <2>15. ASSUME NEW w \in Worker, Finish(w) PROVE Kept
    <3> DEFINE row == LastWrite(pc[w], rows[run[w].job], Owner[run[w].job])
    <3>0. /\ pc[w] \in {"complete", "fail", "retry", "cancel"}
          /\ rows' = [rows EXCEPT ![run[w].job] = row]
      BY <2>15 DEF Finish
    <3>1. run[w].job \in Job /\ rows[run[w].job] \in Row
      BY <1>0, <3>0 DEF WorkersHoldRows, Holding, TypeOK
    <3>2. row \in Row /\ Unwaiting(rows[run[w].job], row)
      BY <3>0, <3>1, LastWriteRow, WritesUnwaiting
    <3> HIDE DEF row
    <3>3. Waiting(t)' \subseteq Waiting(t)
      BY <1>0, <3>0, <3>1, <3>2, NoNewWaiting
    <3> QED BY <2>9, <2>15, <3>3 DEF Finish
  \* A failed claim drops its message.
  <2>16. ASSUME NEW w \in Worker, StoreFails(w) PROVE Kept
    <3>0. UNCHANGED << request, messages >> /\ Waiting(t)' \subseteq Waiting(t) /\ LetGo(w)
      BY <2>16, <2>e DEF StoreFails
    <3>1. CASE pc[w] # "claim"
      BY <2>9, <2>16, <3>0, <3>1 DEF StoreFails
    <3>2. CASE pc[w] = "claim"
      <4>1. dropped'[t] = dropped[t] + (IF TypeOf[msg[w]] = t THEN 1 ELSE 0)
        BY <1>0, <2>16, <3>2 DEF StoreFails, TypeOK
      <4>2. Cardinality(Claiming(t))
              <= Cardinality(Claiming(t)') + (IF TypeOf[msg[w]] = t THEN 1 ELSE 0)
        <5>1. Claiming(t) \subseteq (IF TypeOf[msg[w]] = t THEN Claiming(t)' \cup {w}
                                     ELSE Claiming(t)')
          BY <1>0, <3>0, ClaimingAfterLetGo DEF Claiming
        <5> QED BY <5>1, FinitelyMany, Counting
      <4>3. InBroker(t)' = InBroker(t) /\ Open(t)' = Open(t) /\ Lost(t)' = Lost(t)
        BY <2>b, <2>d, <3>0
      <4>4. Open(t)' \subseteq Open(t) /\ Lost(t)' \subseteq Lost(t)
        BY <4>3
      <4>5. /\ InBroker(t)' + Cardinality(Claiming(t)') + dropped'[t]
                 >= InBroker(t) + Cardinality(Claiming(t)) + dropped[t]
            /\ dropped'[t] >= dropped[t]
        BY <2>a, <4>1, <4>2, <4>3
      <4> QED BY <1>0, <2>0, <3>0, <4>4, <4>5, BalanceKept DEF Kept
    <3> QED BY <3>1, <3>2
  \* A crash puts the worker's message back.
  <2>17. ASSUME NEW w \in Worker, Crash(w) PROVE Kept
    <3>0. UNCHANGED << request, dropped >> /\ Waiting(t)' \subseteq Waiting(t) /\ LetGo(w)
      BY <2>17, <2>e DEF Crash
    <3>1. /\ msg[w] \in Job /\ messages'[msg[w]] = messages[msg[w]] + 1
          /\ \A k \in Job : k # msg[w] => messages'[k] = messages[k]
      BY <1>0, <2>17 DEF Crash, MessageHeld, TypeOK
    <3>2. InBroker(t)' = InBroker(t) + (IF TypeOf[msg[w]] = t THEN 1 ELSE 0)
      BY <1>0, <3>1, MessagesChange
    <3>3. Cardinality(Claiming(t))
            <= Cardinality(Claiming(t)') + (IF TypeOf[msg[w]] = t THEN 1 ELSE 0)
      <4>1. Claiming(t) \subseteq (IF TypeOf[msg[w]] = t THEN Claiming(t)' \cup {w}
                                   ELSE Claiming(t)')
        BY <1>0, <3>0, ClaimingAfterLetGo DEF Claiming
      <4> QED BY <4>1, FinitelyMany, Counting
    <3>4. Open(t)' \subseteq Open(t)
      BY <3>0 DEF Open, OfType
    <3>5. Lost(t)' \subseteq Lost(t)
      <4>1. ASSUME NEW k \in Job, messages'[k] = 0 PROVE messages[k] = 0
        <5>1. messages[k] \in Nat /\ messages[msg[w]] \in Nat
          BY <1>0, <3>1 DEF TypeOK
        <5> QED BY <3>1, <4>1, <5>1
      <4>2. Lost(t)' = {k \in Open(t)' : messages'[k] = 0} /\ Open(t)' \subseteq Job
        BY DEF Lost, Open, OfType
      <4>3. ASSUME NEW k \in Lost(t)' PROVE k \in Lost(t)
        BY <3>4, <4>1, <4>2, <4>3 DEF Lost
      <4> QED BY <4>3
    <3>6. /\ InBroker(t)' + Cardinality(Claiming(t)') + dropped'[t]
               >= InBroker(t) + Cardinality(Claiming(t)) + dropped[t]
          /\ dropped'[t] >= dropped[t]
      BY <2>a, <3>0, <3>2, <3>3
    <3> QED BY <1>0, <2>0, <3>0, <3>4, <3>5, <3>6, BalanceKept DEF Kept
  <2>18. ASSUME NEW u \in User, NEW j \in Job, CancelRequest(u, j) PROVE Kept
    <3>1. Waiting(t)' \subseteq Waiting(t)
      BY <2>18, <2>e DEF CancelRequest
    <3> QED BY <2>c, <2>f, <2>18, <3>1 DEF CancelRequest
  <2>19. ASSUME NEW u \in User, NEW j \in Job, CancelWrite(u, j) PROVE Kept
    <3>1. rows[j] \in Row
      BY <1>0 DEF TypeOK
    <3>2. Waiting(t)' \subseteq Waiting(t)
      BY <1>0, <2>19, <3>1, RowWrites, WritesUnwaiting, NoNewWaiting DEF CancelWrite
    <3> QED BY <2>c, <2>f, <2>19, <3>2 DEF CancelWrite
  <2>20. ASSUME NEW j \in Job, RetryDue(j) PROVE Kept
    <3>1. rows[j] \in Row
      BY <1>0 DEF TypeOK
    <3>2. Waiting(t)' \subseteq Waiting(t)
      BY <1>0, <2>20, <3>1, RowWrites, WritesUnwaiting, NoNewWaiting DEF RetryDue
    <3> QED BY <2>c, <2>f, <2>20, <3>2 DEF RetryDue
  <2>21. ASSUME NEW j \in Job, Age(j) PROVE Kept
    <3>1. rows[j] \in Row
      BY <1>0 DEF TypeOK
    <3>2. Waiting(t)' \subseteq Waiting(t)
      BY <1>0, <2>21, <3>1, RowWrites, WritesUnwaiting, NoNewWaiting DEF Age
    <3> QED BY <2>c, <2>f, <2>21, <3>2 DEF Age
  <2>22. ASSUME UNCHANGED vars PROVE Kept
    <3>1. UNCHANGED << rows, request, messages, pc, msg, dropped >>
      BY <2>22 DEF vars
    <3>2. Waiting(t)' \subseteq Waiting(t) /\ Claiming(t)' = Claiming(t) /\ dropped'[t] = dropped[t]
      BY <2>c, <2>e, <3>1
    <3> QED BY <2>f, <3>1, <3>2
  <2>23. ASSUME NEW w \in Worker, WorkerStep(w) PROVE Kept
    BY <2>5, <2>6, <2>7, <2>8, <2>12, <2>13, <2>14, <2>15, <2>23 DEF WorkerStep, OpEnds, Probe
  <2>24. Kept
    BY <2>1, <2>2, <2>3, <2>4, <2>11, <2>16, <2>17, <2>18, <2>19, <2>20, <2>21, <2>22,
       <2>23 DEF Next
  <2> QED BY <2>24 DEF Kept
<1> QED BY <1>1, <1>2 DEF Balance

\* Per job type, waiting jobs and open requests never outnumber messages, claims in
\* progress and dropped messages, in every state of the queue and under every fault.
THEOREM BalanceHolds == Spec => []Balance
BY InvHolds, BalanceInit, BalanceStep, PTL DEF Spec

\* Per job type, the jobs that wait for their first attempt never outnumber the messages
\* that can make a worker claim them, plus the dropped ones.
THEOREM DispatchBalancedHolds == Spec => []DispatchBalanced
<1>1. Inv /\ Balance => DispatchBalanced
  <2> SUFFICES ASSUME TypeOK, Balance, NEW t \in JobType
               PROVE  Cardinality(Waiting(t)) <=
                        SumFunctionOnSet(messages, OfType(t)) + Cardinality(Claiming(t))
                          + dropped[t]
    BY DEF DispatchBalanced, Inv
  <2>1. Covered(t)
    BY DEF Balance
  <2>2. Cardinality(Open(t)) \in Nat /\ Cardinality(Waiting(t)) \in Nat
    BY FinitelyMany, FS_CardinalityType
  <2>3. InBroker(t) + Cardinality(Claiming(t)) + dropped[t] \in Int
    <3>1. Cardinality(Claiming(t)) \in Nat /\ dropped[t] \in Nat
      BY FinitelyMany, FS_CardinalityType DEF TypeOK
    <3>2. InBroker(t) \in Int
      <4>1. \A j \in OfType(t) : messages[j] \in Int
        BY DEF TypeOK, OfType
      <4> QED BY <4>1, FinitelyMany, SumIsInteger DEF InBroker
    <3> QED BY <3>1, <3>2
  <2>4. Cardinality(Waiting(t)) <= InBroker(t) + Cardinality(Claiming(t)) + dropped[t]
    BY <2>1, <2>2, <2>3 DEF Covered
  <2> QED BY <2>4 DEF InBroker
<1> QED BY <1>1, InvHolds, BalanceHolds, PTL
=============================================================================
