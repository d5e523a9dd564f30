-------------------------- MODULE Backtest_proofs --------------------------
(***************************************************************************)
(* Proofs about a backtest job outside its queue: JobPosts, for any number  *)
(* of requests, keys and bodies; TrialRuns, for any number of trials,       *)
(* attempts, cancels and lost workers and any order of the progress writes; *)
(* BacktestAccount, for any symbols, prices, quantities and thresholds.     *)
(***************************************************************************)
EXTENDS JobPosts, TrialRuns, BacktestAccount, SumTheorems, TLAPS

(***************************************************************************)
(* JobPosts                                                                 *)
(***************************************************************************)
\* What a request knows: one that was answered was answered with a committed row of its
\* own user and key, made from its body; a row is committed by the request it is named
\* after, and a request that inserts has found nothing but its own row.
FoundFits ==
  \A p \in Post :
    /\ posts[p] = "existing" =>
         found[p] \in made /\ SameKey(p, found[p]) /\ PostBody[found[p]] = PostBody[p]
    /\ posts[p] \in {"inserted", "created"} => found[p] = p
    /\ p \in made <=> posts[p] = "created"

\* Requests with one key that never overlapped came one after the other: when one is
\* about to insert, or has, the other has not committed a row.
NoneMissed ==
  \A p, q \in Post \ raced :
    PostKey[p] # NoKey /\ SameKey(p, q) /\ p # q =>
      /\ posts[p] \in InProgress => posts[q] \notin InProgress
      /\ posts[p] \in {"looked", "inserted", "created"} => q \notin made

PostsInv == PostsTypeOK /\ FoundFits /\ NoneMissed

\* Before the first request there are no rows.
LEMMA PostsInvInit == PostsInit => PostsInv
BY NoPostAssumption DEF PostsInit, PostsInv, PostsTypeOK, FoundFits, NoneMissed, InProgress

\* Every step of a request keeps the invariant.
LEMMA PostsInvStep == PostsInv /\ [PostsNext]_postsVars => PostsInv'
<1> SUFFICES ASSUME PostsInv, [PostsNext]_postsVars PROVE PostsInv'
  OBVIOUS
<1> USE DEF PostsInv
<1>1. ASSUME NEW p \in Post, Begin(p) PROVE PostsInv'
  <2>1. PostsTypeOK'
    BY <1>1 DEF Begin, PostsTypeOK, InProgress
  <2>2. FoundFits'
    BY <1>1 DEF Begin, PostsTypeOK, FoundFits
  <2>3. NoneMissed'
    BY <1>1 DEF Begin, PostsTypeOK, NoneMissed, FoundFits, InProgress, SameKey
  <2>4. QED BY <2>1, <2>2, <2>3
<1>2. ASSUME NEW p \in Post, Lookup(p) PROVE PostsInv'
  <2>1. PostsTypeOK'
    BY <1>2 DEF Lookup, Answer, MatchingRows, PostsTypeOK, InProgress
  <2>2. FoundFits'
    BY <1>2 DEF Lookup, Answer, MatchingRows, PostsTypeOK, FoundFits
  <2>3. NoneMissed'
    BY <1>2 DEF Lookup, Answer, MatchingRows, PostsTypeOK, NoneMissed, FoundFits,
       InProgress, SameKey
  <2>4. QED BY <2>1, <2>2, <2>3
<1>3. ASSUME NEW p \in Post, Insert(p) PROVE PostsInv'
  BY <1>3 DEF Insert, PostsTypeOK, FoundFits, NoneMissed, InProgress
<1>4. ASSUME NEW p \in Post, CommitPost(p) PROVE PostsInv'
  BY <1>4 DEF CommitPost, PostsTypeOK, FoundFits, NoneMissed, InProgress, SameKey
<1>5. ASSUME NEW p \in Post, PostFails(p) PROVE PostsInv'
  BY <1>5 DEF PostFails, PostsTypeOK, FoundFits, NoneMissed, InProgress
<1>6. CASE UNCHANGED postsVars
  BY <1>6 DEF postsVars, PostsTypeOK, FoundFits, NoneMissed
<1>7. QED BY <1>1, <1>2, <1>3, <1>4, <1>5, <1>6 DEF PostsNext

\* The invariant holds in every reachable state.
THEOREM PostsInvHolds == PostsSpec => []PostsInv
<1>1. QED BY PostsInvInit, PostsInvStep, PTL DEF PostsSpec

\* For any POSTs in any order: an Idempotency-Key is answered with a job of the same
\* user and body, and makes one job among requests that do not overlap.
THEOREM KeysKeptHolds == PostsSpec => []KeysKept
<1>1. PostsInv => KeysKept
  <2> SUFFICES ASSUME PostsInv PROVE KeysKept
    OBVIOUS
  <2>1. AnswersFit
    BY DEF PostsInv, FoundFits, AnswersFit, SameKey
  <2>2. OneJobPerKey
    BY DEF PostsInv, PostsTypeOK, FoundFits, NoneMissed, OneJobPerKey, SameKey
  <2>3. QED BY <2>1, <2>2 DEF KeysKept
<1>2. QED BY <1>1, PostsInvHolds, PTL
-----------------------------------------------------------------------------
(***************************************************************************)
(* TrialRuns                                                                *)
(***************************************************************************)
\* A percent is one.
LEMMA PercentRange == ASSUME NEW i \in 1..Trials PROVE Percent(i) \in 0..100
<1>1. Trials \in Nat /\ Trials > 0
  BY TrialsAssumption
<1>2. i * 100 \in Nat /\ i * 100 <= Trials * 100
  BY <1>1
<1>3. (i * 100) \div Trials \in Nat
  BY <1>1, <1>2
<1>4. (i * 100) \div Trials <= 100
  BY <1>1, <1>2
<1>5. QED BY <1>3, <1>4 DEF Percent

\* The boundary below a percent is one too.
LEMMA BoundaryRange == ASSUME NEW p \in 0..100 PROVE Boundary(p) + 1 \in 0..101
<1>1. p \div 5 \in Nat /\ (p \div 5) * 5 <= p
  OBVIOUS
<1>2. QED BY <1>1 DEF Boundary

\* Where a worker is while it holds the row it claimed.
Working == Engine \cup Awaiting \cup {"probe", "terminal", "transient"}

\* The listener never hears anything: asyncio.run leaves no pump alive.
Silent == pump \in {"none", "cancelled"} /\ ~ heard

\* Only the user cancels, and a step that acts on a cancel comes after one.
CancelKnown ==
  /\ row.status = "cancelled" => wasCancelled
  /\ report = "cancelled" => wasCancelled
  /\ at = "cancel" => wasCancelled

\* The row a worker holds runs or was cancelled; once a run has reported completed its
\* row is completed or cancelled, and nobody claims it again.
RowHeld ==
  /\ at \in Working => row.status \in {"running", "cancelled"}
  /\ report = "completed" => row.status \in {"completed", "cancelled"} /\ at \notin Working

\* The row is one, and the percents stay within their range: a trial that starts is not
\* one too many.
LoopTypes ==
  /\ row \in Row
  /\ progress \in 0..100
  /\ done \in 0..Trials
  /\ scheduled \in Seq(1..Trials)
  /\ highest \in 0..101
  /\ writing \subseteq 1..Trials
  /\ at \in Engine => done < Trials
  /\ at \in {"idle", "ready", "closing"} => done = 0

TrialsInv == LoopTypes /\ Silent /\ CancelKnown /\ RowHeld /\ ProgressFitsStatus

\* The statements keep the type of a row, and say what becomes of its status.
LEMMA RowWrites ==
  ASSUME NEW r \in Row
  PROVE  /\ ResetRunning(r) \in Row /\ TouchProgress(r) \in Row
         /\ MarkCompleted(r) \in Row /\ MarkFailed(r) \in Row /\ MarkRetry(r) \in Row
         /\ BecomeDue(r) \in Row /\ BecomeAged(r) \in Row
         /\ TouchProgress(r).status = r.status
         /\ BecomeDue(r).status = r.status /\ BecomeAged(r).status = r.status
         /\ MarkRetry(r).status = "queued"
         /\ r.status = "running" => MarkCompleted(r).status = "completed"
         /\ r.status # "running" => MarkCompleted(r) = r
         /\ MarkFailed(r).status \in {r.status, "failed"}
         /\ Runnable(r) => r.status \in Cancellable /\ ResetRunning(r).status = "running"
BY DEF Row, Status, RetryTime, Write, ResetRunning, TouchProgress, MarkCompleted, MarkFailed,
   MarkRetry, BecomeDue, BecomeAged, Runnable, Cancellable

\* So does a cancel.
LEMMA CancelWrites ==
  ASSUME NEW r \in Row, NEW owner, NEW user
  PROVE  /\ MarkCancelled(r, owner, user) \in Row
         /\ MarkCancelled(r, owner, user).status \in {r.status, "cancelled"}
BY DEF Row, Status, Write, MarkCancelled

\* A job that was just posted satisfies the invariant.
LEMMA TrialsInvInit == TrialsInit => TrialsInv
<1> SUFFICES ASSUME TrialsInit PROVE TrialsInv
  OBVIOUS
<1>1. LoopTypes
  BY TrialsAssumption DEF TrialsInit, LoopTypes, Inserted, Row, Status, RetryTime, Engine
<1>2. Silent /\ CancelKnown /\ RowHeld /\ ProgressFitsStatus
  BY DEF TrialsInit, Silent, CancelKnown, RowHeld, ProgressFitsStatus, Inserted, Working,
     Engine, Awaiting
<1>3. QED BY <1>1, <1>2 DEF TrialsInv

\* Every step keeps the types.
LEMMA LoopTypesStep == LoopTypes /\ [TrialsNext]_trialVars => LoopTypes'
<1> SUFFICES ASSUME LoopTypes, [TrialsNext]_trialVars PROVE LoopTypes'
  OBVIOUS
<1> USE TrialsAssumption DEF LoopTypes, Engine
<1>1. CASE CancelJob
  BY <1>1, CancelWrites DEF CancelJob
<1>2. CASE RetryTimeComes \/ RowAges
  <2>1. row' \in Row
    BY <1>2, RowWrites DEF RetryTimeComes, RowAges
  <2>2. UNCHANGED << progress, done, scheduled, highest, writing, at >>
    BY <1>2 DEF RetryTimeComes, RowAges, loopVars
  <2>3. QED BY <2>1, <2>2
<1>3. CASE OpenListener
  BY <1>3 DEF OpenListener, loopVars
<1>4. CASE ClaimJob
  BY <1>4, RowWrites DEF ClaimJob, loopVars
<1>5. CASE TrialBoundary \/ TrialRaises
  BY <1>5 DEF TrialBoundary, TrialRaises, loopVars
<1>6. CASE SaveResults \/ ProbeBeforeCompletion \/ ProbeAfterError
  BY <1>6, ZenonT(40) DEF SaveResults, ProbeBeforeCompletion, ProbeAfterError, loopVars
<1>7. CASE LoopEnds \/ CloseListener \/ WorkerLost
  <2>1. CASE LoopEnds
    BY <2>1 DEF LoopEnds
  <2>2. CASE CloseListener
    BY <2>2 DEF CloseListener, loopVars
  <2>3. CASE WorkerLost
    BY <2>3 DEF WorkerLost
  <2>4. QED BY <1>7, <2>1, <2>2, <2>3
<1>8. CASE TrialEnds
  <2>1. done + 1 \in 1..Trials
    BY <1>8 DEF TrialEnds
  <2>2. Append(scheduled, done + 1) \in Seq(1..Trials)
    BY <2>1
  <2>3. QED BY <1>8, <2>1, <2>2 DEF TrialEnds
<1>9. CASE StartCallback
  <2>1. Head(scheduled) \in 1..Trials /\ Tail(scheduled) \in Seq(1..Trials)
    BY <1>9 DEF StartCallback
  <2>2. Percent(Head(scheduled)) \in 0..100
    BY <2>1, PercentRange
  <2>3. Boundary(Percent(Head(scheduled))) + 1 \in 0..101
    BY <2>2, BoundaryRange
  <2>4. QED BY <1>9, <2>1, <2>3, ZenonT(40) DEF StartCallback
<1>10. ASSUME NEW i \in 1..Trials, CallbackCommits(i) \/ CallbackFails(i)
       PROVE LoopTypes'
  <2>1. Percent(i) \in 0..100
    BY PercentRange
  <2>2. CASE CallbackCommits(i)
    BY <2>1, <2>2, RowWrites DEF CallbackCommits, ProgressWritten
  <2>3. CASE CallbackFails(i)
    BY <2>3 DEF CallbackFails
  <2>4. QED BY <1>10, <2>2, <2>3
<1>11. CASE ReportProgress
  BY <1>11, RowWrites DEF ReportProgress, ProgressWritten, loopVars
<1>12. CASE EndRun
  <2>1. row' \in Row
    BY <1>12, RowWrites, CancelWrites DEF EndRun
  <2>2. progress' \in 0..100
    <3>1. progress' \in {0, 100, progress}
      BY <1>12, Zenon DEF EndRun, ProgressWritten
    <3>2. QED BY <3>1
  <2>3. at' = "leave" /\ UNCHANGED << done, scheduled, highest, writing >>
    BY <1>12 DEF EndRun, loopVars
  <2>4. QED BY <2>1, <2>2, <2>3
<1>13. CASE UNCHANGED trialVars
  BY <1>13 DEF trialVars
<1>14. QED BY <1>1, <1>2, <1>3, <1>4, <1>5, <1>6, <1>7, <1>8, <1>9, <1>10, <1>11, <1>12,
       <1>13 DEF TrialsNext

\* Every step keeps the rest of the invariant.
LEMMA TrialsInvStep == TrialsInv /\ [TrialsNext]_trialVars => TrialsInv'
<1> SUFFICES ASSUME TrialsInv, [TrialsNext]_trialVars PROVE TrialsInv'
  OBVIOUS
<1>t. LoopTypes'
  BY LoopTypesStep DEF TrialsInv
<1>r. row \in Row
  BY DEF TrialsInv, LoopTypes
<1>s. SUFFICES (Silent /\ CancelKnown /\ RowHeld /\ ProgressFitsStatus)'
  BY <1>t DEF TrialsInv
<1> USE DEF TrialsInv, Silent, CancelKnown, RowHeld, ProgressFitsStatus, Working, Engine,
        Awaiting
<1>1. CASE CancelJob
  BY <1>1, <1>r, CancelWrites DEF CancelJob, Hears, Cancellable
<1>2. CASE RetryTimeComes \/ RowAges
  BY <1>2, <1>r, RowWrites DEF RetryTimeComes, RowAges, loopVars, listenerVars
<1>3. CASE OpenListener
  BY <1>3 DEF OpenListener, TaskAfterLoop, loopVars
<1>4. CASE ClaimJob
  BY <1>4, <1>r, RowWrites DEF ClaimJob, loopVars, listenerVars, Cancellable
<1>5. CASE TrialBoundary \/ ProbeBeforeCompletion \/ ProbeAfterError
  <2>1. TRUE \in CancelAnswers => row.status = "cancelled"
    BY DEF CancelAnswers
  <2>2. CASE TrialBoundary
    BY <2>1, <2>2 DEF TrialBoundary, listenerVars
  <2>3. CASE ProbeBeforeCompletion
    BY <2>1, <2>3 DEF ProbeBeforeCompletion, listenerVars
  <2>4. CASE ProbeAfterError
    <3>1. at' \in {"cancel", "retry", "fail"}
      BY <2>4 DEF ProbeAfterError
    <3>2. at' = "cancel" => TRUE \in CancelAnswers
      BY <2>4 DEF ProbeAfterError, CancelAnswers
    <3>3. QED BY <2>1, <2>4, <3>1, <3>2 DEF ProbeAfterError, listenerVars
  <2>5. QED BY <1>5, <2>2, <2>3, <2>4
<1>6. CASE TrialEnds \/ TrialRaises \/ SaveResults \/ LoopEnds \/ CloseListener
           \/ WorkerLost
  BY <1>6 DEF TrialEnds, TrialRaises, SaveResults, LoopEnds, CloseListener, WorkerLost,
     loopVars, listenerVars
<1>7. CASE StartCallback
  BY <1>7 DEF StartCallback, listenerVars
<1>8. ASSUME NEW i \in 1..Trials, CallbackCommits(i) \/ CallbackFails(i)
      PROVE (Silent /\ CancelKnown /\ RowHeld /\ ProgressFitsStatus)'
  <2>1. CASE CallbackCommits(i)
    BY <2>1, <1>r, RowWrites DEF CallbackCommits, ProgressWritten, Hears
  <2>2. CASE CallbackFails(i)
    BY <2>2 DEF CallbackFails, listenerVars
  <2>3. QED BY <1>8, <2>1, <2>2
<1>9. CASE ReportProgress
  BY <1>9, <1>r, RowWrites DEF ReportProgress, ProgressWritten, Hears, loopVars
<1>10. CASE EndRun
  <2>1. row.status \in {"running", "cancelled"} /\ report # "completed"
    BY <1>10 DEF EndRun
  <2>2. at' = "leave" /\ UNCHANGED << pump, wasCancelled >> /\ Silent'
    BY <1>10 DEF EndRun, Hears
  <2>3. CASE at = "complete"
    BY <1>10, <2>1, <2>2, <2>3, <1>r, RowWrites DEF EndRun, ProgressWritten
  <2>4. CASE at = "cancel"
    BY <1>10, <2>1, <2>2, <2>4, <1>r, CancelWrites DEF EndRun
  <2>5. CASE at = "retry"
    BY <1>10, <2>1, <2>2, <2>5, <1>r, RowWrites DEF EndRun
  <2>6. CASE at = "fail"
    BY <1>10, <2>1, <2>2, <2>6, <1>r, RowWrites DEF EndRun
  <2>7. QED BY <1>10, <2>3, <2>4, <2>5, <2>6 DEF EndRun
<1>11. CASE UNCHANGED trialVars
  BY <1>11 DEF trialVars
<1>12. QED BY <1>1, <1>2, <1>3, <1>4, <1>5, <1>6, <1>7, <1>8, <1>9, <1>10, <1>11
       DEF TrialsNext

\* The invariant holds in every reachable state, the types with it.
THEOREM TrialsInvHolds == TrialsSpec => []TrialsInv
<1>1. QED BY TrialsInvInit, TrialsInvStep, PTL DEF TrialsSpec

\* The types of what is not about the loop or the row.
RunTypes ==
  /\ at \in {"idle", "ready", "probe", "terminal", "transient", "leave", "closing"}
             \cup Engine \cup Awaiting
  /\ attempt \in Nat
  /\ pump \in {"none", "alive", "cancelled"}
  /\ listening \in BOOLEAN /\ heard \in BOOLEAN
  /\ report \in Ends \cup {"none"}
  /\ wasCancelled \in BOOLEAN
  /\ lost \in Nat

LEMMA RunTypesStep == TrialsInv /\ RunTypes /\ [TrialsNext]_trialVars => RunTypes'
<1> SUFFICES ASSUME TrialsInv, RunTypes, [TrialsNext]_trialVars PROVE RunTypes'
  OBVIOUS
<1>r. row \in Row /\ row.attempt \in Nat
  BY DEF TrialsInv, LoopTypes, Row
<1>h. (heard \/ pump = "alive") \in BOOLEAN
  OBVIOUS
<1> USE DEF RunTypes, Engine, Awaiting, Ends, loopVars, listenerVars
<1>1. CASE CancelJob
  <2>1. heard' \in BOOLEAN /\ wasCancelled' \in BOOLEAN
    BY <1>1, <1>h, Zenon DEF CancelJob, Hears
  <2>2. UNCHANGED << at, attempt, pump, listening, report, lost >>
    BY <1>1 DEF CancelJob
  <2> QED BY <2>1, <2>2
<1>2. CASE RetryTimeComes \/ RowAges
  BY <1>2 DEF RetryTimeComes, RowAges
<1>3. CASE OpenListener
  BY <1>3 DEF OpenListener, TaskAfterLoop
<1>4. CASE ClaimJob
  BY <1>4, <1>r DEF ClaimJob
<1>5. CASE TrialBoundary \/ ProbeBeforeCompletion
  BY <1>5 DEF TrialBoundary, ProbeBeforeCompletion
<1>6. CASE ProbeAfterError
  <2>1. at' \in {"cancel", "retry", "fail"}
    BY <1>6 DEF ProbeAfterError
  <2> QED BY <1>6, <2>1 DEF ProbeAfterError
<1>7. CASE TrialEnds \/ TrialRaises \/ SaveResults \/ LoopEnds
  BY <1>7 DEF TrialEnds, TrialRaises, SaveResults, LoopEnds
<1>8. CASE CloseListener
  BY <1>8 DEF CloseListener
<1>9. CASE StartCallback
  BY <1>9 DEF StartCallback
<1>10. ASSUME NEW i \in 1..Trials, CallbackCommits(i) \/ CallbackFails(i) PROVE RunTypes'
  <2>1. heard' \in BOOLEAN
    BY <1>10, <1>h, Zenon DEF CallbackCommits, CallbackFails, Hears
  <2>2. UNCHANGED << at, attempt, pump, listening, report, wasCancelled, lost >>
    BY <1>10 DEF CallbackCommits, CallbackFails
  <2> QED BY <2>1, <2>2
<1>11. CASE ReportProgress
  <2>1. heard' \in BOOLEAN
    BY <1>11, <1>h, Zenon DEF ReportProgress, Hears
  <2>2. at' = "probe" /\ UNCHANGED << attempt, pump, listening, report, wasCancelled, lost >>
    BY <1>11 DEF ReportProgress
  <2> QED BY <2>1, <2>2
<1>12. CASE EndRun
  <2>1. heard' \in BOOLEAN
    BY <1>12, <1>h DEF EndRun, Hears
  <2>2. report' \in Ends
    BY <1>12 DEF EndRun
  <2> QED BY <1>12, <2>1, <2>2 DEF EndRun
<1>13. CASE UNCHANGED trialVars
  BY <1>13 DEF trialVars
<1>14. CASE WorkerLost
  <2>1. /\ at' = "idle" /\ pump' = "none" /\ listening' = FALSE /\ heard' = FALSE
        /\ lost' = lost + 1 /\ attempt' = 0
        /\ UNCHANGED << report, wasCancelled >>
    BY <1>14, Zenon DEF WorkerLost
  <2>2. lost' \in Nat
    BY <2>1
  <2> QED BY <2>1, <2>2, Zenon
<1> QED BY <1>1, <1>2, <1>3, <1>4, <1>5, <1>6, <1>7, <1>8, <1>9, <1>10, <1>11, <1>12, <1>13, <1>14
        DEF TrialsNext

\* Every variable of a worker's run keeps its type.
THEOREM TrialsTypeCorrect == TrialsSpec => []TrialsTypeOK
<1>1. TrialsInit => RunTypes
  <2> SUFFICES ASSUME TrialsInit PROVE RunTypes
    OBVIOUS
  <2>1. attempt \in Nat /\ lost \in Nat
    BY DEF TrialsInit
  <2>2. listening \in BOOLEAN /\ heard \in BOOLEAN /\ wasCancelled \in BOOLEAN
    BY Zenon DEF TrialsInit
  <2>3. at = "idle" /\ pump = "none" /\ report = "none"
    BY DEF TrialsInit
  <2> QED BY <2>1, <2>2, <2>3, Zenon DEF RunTypes
<1>2. TrialsInv /\ RunTypes => TrialsTypeOK
  BY DEF TrialsInv, LoopTypes, RunTypes, TrialsTypeOK
<1>3. QED BY <1>1, <1>2, RunTypesStep, TrialsInvHolds, PTL DEF TrialsSpec

\* A completed row says 100 and a queued one 0, for any number of trials and in
\* whatever order their progress writes commit.
THEOREM ProgressFitsStatusHolds == TrialsSpec => []ProgressFitsStatus
<1>1. TrialsInv => ProgressFitsStatus
  BY DEF TrialsInv
<1>2. QED BY <1>1, TrialsInvHolds, PTL

\* What a run reports fits what became of its job: it is given up as cancelled only
\* after a cancel, and a completed one leaves the row completed or cancelled.
THEOREM ReportsFitHolds == TrialsSpec => []ReportsFit
<1>1. TrialsInv => ReportsFit
  BY DEF TrialsInv, CancelKnown, RowHeld, ReportsFit, StopsOnlyWhenCancelled, ReportFitsRow
<1>2. QED BY <1>1, TrialsInvHolds, PTL
-----------------------------------------------------------------------------
(***************************************************************************)
(* BacktestAccount                                                          *)
(***************************************************************************)
AccountRecord == [cash : Int, frozen : Nat, margin : Int, variation : Int,
                  call : BOOLEAN, pos : [Symbol -> Position]]

\* A quotient is a number, and closing a whole position takes its whole share.
LEMMA TruncatedFits ==
  ASSUME NEW n \in Int, NEW d \in Nat, d > 0
  PROVE  /\ Truncated(n, d) \in Int
         /\ n \in Nat => Truncated(n, d) \in Nat
         /\ Truncated(n * d, d) = n
<1>1. Truncated(n, d) \in Int /\ (n \in Nat => Truncated(n, d) \in Nat)
  BY DEF Truncated
<1>2. ASSUME NEW k \in Nat PROVE (k * d) \div d = k
  OBVIOUS
<1>3. CASE n \in Nat
  <2>1. n * d \in Nat
    BY <1>3
  <2> QED BY <1>1, <1>2, <1>3, <2>1 DEF Truncated
<1>4. CASE n \notin Nat
  <2>1. - n \in Nat /\ - (n * d) = (- n) * d /\ n * d < 0
    BY <1>4
  <2>2. ((- n) * d) \div d = - n
    BY <1>2, <2>1
  <2> QED BY <1>1, <2>1, <2>2 DEF Truncated
<1> QED BY <1>3, <1>4

\* What an amount's share of an open position is.
LEMMA ShareFits ==
  ASSUME NEW a, NEW t \in Symbol, a.pos[t].qty \in Int, a.pos[t].qty # 0,
         NEW n \in Int, NEW qty \in Int
  PROVE  Share(a, t, n, qty) \in Int /\ Share(a, t, n, Size(a.pos[t].qty)) = n
<1>1. Size(a.pos[t].qty) \in Nat /\ Size(a.pos[t].qty) > 0
  BY DEF Size
<1>2. n * qty \in Int
  OBVIOUS
<1> QED BY <1>1, <1>2, TruncatedFits DEF Share

LEMMA MarginFits ==
  ASSUME NEW t \in Symbol, NEW qty \in Int, NEW price \in Nat
  PROVE  MarginOf(t, qty, price) \in Nat
<1>1. Size(qty) \in Nat /\ Multiplier[t] \in Nat /\ MarginPct[t] \in Nat
  BY AccountAssumption DEF Size
<1>2. Size(qty) * price * Multiplier[t] * MarginPct[t] \in Nat
  BY <1>1
<1> QED BY <1>2 DEF MarginOf

\* b is a with another position of t, other cash and other margin.
Touched(a, b, t) ==
  /\ b \in AccountRecord
  /\ b.variation = a.variation /\ b.call = a.call
  /\ \A u \in Symbol : u # t => b.pos[u] = a.pos[u]

\* The account with other amounts and another position is an account.
Rewritten(a, t, p, cash, frozen, margin) ==
  [a EXCEPT !.cash = cash, !.frozen = frozen, !.margin = margin,
            !.pos = [a.pos EXCEPT ![t] = p]]

LEMMA RecordFits ==
  ASSUME NEW a \in AccountRecord, NEW t \in Symbol, NEW p \in Position,
         NEW cash \in Int, NEW frozen \in Nat, NEW margin \in Int, NEW b,
         b = Rewritten(a, t, p, cash, frozen, margin)
  PROVE  /\ Touched(a, b, t)
         /\ b.cash = cash /\ b.frozen = frozen /\ b.margin = margin /\ b.pos[t] = p
<1> DEFINE g == [a.pos EXCEPT ![t] = p]
<1>1. g \in [Symbol -> Position] /\ g[t] = p /\ \A u \in Symbol : u # t => g[u] = a.pos[u]
  BY DEF AccountRecord
<1> HIDE DEF g
<1>2. b = [a EXCEPT !.cash = cash, !.frozen = frozen, !.margin = margin, !.pos = g]
  BY DEF g, Rewritten
<1>3. /\ b \in AccountRecord
      /\ b.cash = cash /\ b.frozen = frozen /\ b.margin = margin
      /\ b.variation = a.variation /\ b.call = a.call /\ b.pos = g
  BY <1>1, <1>2 DEF AccountRecord
<1> QED BY <1>1, <1>3 DEF Touched

\* The margin of the account moves with the margin of the position.
MarginFollows(a, b, t) == b.margin - b.pos[t].held = a.margin - a.pos[t].held

\* Opening a future charges its margin and moves nothing else.
LEMMA ChargedEffect ==
  ASSUME NEW a \in AccountRecord, NEW t \in Symbol, NEW qty \in Int, NEW price \in Nat,
         NEW b, b = Charged(a, t, qty, price)
  PROVE  /\ Touched(a, b, t) /\ MarginFollows(a, b, t)
         /\ b.cash = a.cash /\ b.frozen = a.frozen
         /\ b.pos[t].qty = a.pos[t].qty /\ b.pos[t].cost = a.pos[t].cost
         /\ b.pos[t].realized = a.pos[t].realized
<1> DEFINE m == MarginOf(t, qty, price)
<1>1. m \in Int
  BY MarginFits
<1>2. /\ a.pos[t] \in Position /\ a.pos[t].held \in Int /\ a.margin \in Int
      /\ a.cash \in Int /\ a.frozen \in Nat
  BY DEF AccountRecord, Position
<1> HIDE DEF m
<1>3. CASE m = 0
  <2>1. b = a
    BY <1>3 DEF Charged, m
  <2> QED BY <1>2, <2>1 DEF Touched, MarginFollows
<1>4. CASE m # 0
  <2> DEFINE p == [a.pos[t] EXCEPT !.held = @ + m, !.future = TRUE]
  <2>1. b = Rewritten(a, t, p, a.cash, a.frozen, a.margin + m)
    BY <1>4 DEF Rewritten, Charged, m, AccountRecord, Position
  <2>2. p \in Position
    <3>1. a.pos[t].held + m \in Int
      BY <1>1, <1>2
    <3> QED BY <1>2, <3>1, Zenon DEF Position
  <2>3. /\ p.held = a.pos[t].held + m
        /\ p.qty = a.pos[t].qty /\ p.cost = a.pos[t].cost /\ p.realized = a.pos[t].realized
    BY <1>2, Zenon DEF Position
  <2> HIDE DEF p
  <2>4. a.margin + m \in Int
    BY <1>1, <1>2
  <2>5. /\ Touched(a, b, t)
        /\ b.cash = a.cash /\ b.frozen = a.frozen /\ b.margin = a.margin + m /\ b.pos[t] = p
    BY <1>2, <2>1, <2>2, <2>4, RecordFits
  <2> QED BY <1>1, <1>2, <2>3, <2>5 DEF MarginFollows
<1> QED BY <1>3, <1>4

\* Closing releases margin and moves nothing else; closing all releases all.
LEMMA ReleasedEffect ==
  ASSUME NEW a \in AccountRecord, NEW t \in Symbol, NEW qty \in Int, a.pos[t].qty # 0,
         NEW b, b = Released(a, t, qty)
  PROVE  /\ Touched(a, b, t) /\ MarginFollows(a, b, t)
         /\ b.cash = a.cash /\ b.frozen = a.frozen
         /\ b.pos[t].qty = a.pos[t].qty /\ b.pos[t].cost = a.pos[t].cost
         /\ b.pos[t].realized = a.pos[t].realized
         /\ qty = Size(a.pos[t].qty) => b.pos[t].held = 0
<1> DEFINE m == Share(a, t, a.pos[t].held, qty)
           p == [a.pos[t] EXCEPT !.held = @ - m]
<1>1. /\ a.pos[t] \in Position /\ a.pos[t].held \in Int /\ a.pos[t].qty \in Int
      /\ a.margin \in Int /\ a.cash \in Int /\ a.frozen \in Nat
  BY DEF AccountRecord, Position
<1>2. m \in Int /\ (qty = Size(a.pos[t].qty) => m = a.pos[t].held)
  BY <1>1, ShareFits
<1>3. b = Rewritten(a, t, p, a.cash, a.frozen, a.margin - m)
  BY DEF Rewritten, Released, AccountRecord, Position
<1> HIDE DEF m
<1>4. /\ p \in Position /\ p.held = a.pos[t].held - m
      /\ p.qty = a.pos[t].qty /\ p.cost = a.pos[t].cost /\ p.realized = a.pos[t].realized
  <2>1. a.pos[t].held - m \in Int
    BY <1>1, <1>2
  <2> QED BY <1>1, <2>1, Zenon DEF Position
<1> HIDE DEF p
<1>5. a.margin - m \in Int
  BY <1>1, <1>2
<1>6. /\ Touched(a, b, t)
      /\ b.cash = a.cash /\ b.frozen = a.frozen /\ b.margin = a.margin - m /\ b.pos[t] = p
  BY <1>1, <1>3, <1>4, <1>5, RecordFits
<1> QED BY <1>1, <1>2, <1>4, <1>6 DEF MarginFollows

\* The same position with another quantity, cost and profit.
Repositioned(p, qty, cost, realized) ==
  [p EXCEPT !.qty = qty, !.cost = cost, !.realized = realized]

LEMMA PositionFits ==
  ASSUME NEW p \in Position, NEW qty \in Int, NEW cost \in Int, NEW realized \in Int,
         NEW q, q = Repositioned(p, qty, cost, realized)
  PROVE  /\ q \in Position
         /\ q.qty = qty /\ q.cost = cost /\ q.realized = realized /\ q.held = p.held
BY Zenon DEF Position, Repositioned

LEMMA TouchedTwice ==
  ASSUME NEW a, NEW b, NEW c, NEW t \in Symbol, Touched(a, b, t), Touched(b, c, t)
  PROVE  Touched(a, c, t)
BY Zenon DEF Touched

LEMMA AccountNumbers ==
  ASSUME NEW a \in AccountRecord, NEW t \in Symbol
  PROVE  /\ a.pos[t] \in Position
         /\ a.pos[t].qty \in Int /\ a.pos[t].cost \in Int /\ a.pos[t].held \in Int
         /\ a.pos[t].realized \in Int
         /\ a.cash \in Int /\ a.frozen \in Nat /\ a.margin \in Int
BY DEF AccountRecord, Position

\* What a position and the cash are worth together, the profit taken out.
BookOf(a, t) == a.cash + a.pos[t].cost - a.pos[t].realized

\* A position that has sold everything has no cost left, so nothing is lost with it.
LEMMA EmptiedEffect ==
  ASSUME NEW a \in AccountRecord, NEW t \in Symbol, NEW b, b = Emptied(a, t),
         a.pos[t].qty = 0 => a.pos[t].cost = 0
  PROVE  /\ Touched(a, b, t)
         /\ b.cash = a.cash /\ b.margin = a.margin
         /\ b.pos[t].qty = a.pos[t].qty /\ b.pos[t].cost = a.pos[t].cost
         /\ b.pos[t].realized = a.pos[t].realized
         /\ a.pos[t].qty # 0 \/ a.pos[t].held = 0 => b.pos[t].held = a.pos[t].held
<1>1. CASE a.pos[t].qty # 0
  <2>1. b = a
    BY <1>1 DEF Emptied
  <2> QED BY <2>1, Zenon DEF Touched
<1>2. CASE a.pos[t].qty = 0
  <2> DEFINE p == [a.pos[t] EXCEPT !.cost = 0, !.held = 0]
  <2>1. b = Rewritten(a, t, p, a.cash, a.frozen, a.margin)
    BY <1>2 DEF Emptied, Rewritten, AccountRecord, Position
  <2>2. /\ p \in Position
        /\ p.qty = a.pos[t].qty /\ p.cost = 0 /\ p.realized = a.pos[t].realized
        /\ p.held = 0
    BY AccountNumbers, 0 \in Int, Zenon DEF Position
  <2> HIDE DEF p
  <2>3. /\ Touched(a, b, t)
        /\ b.cash = a.cash /\ b.margin = a.margin /\ b.pos[t] = p
    BY <2>1, <2>2, AccountNumbers, RecordFits, SMTT(30)
  <2> QED BY <1>2, <2>2, <2>3
<1> QED BY <1>1, <1>2

\* A purchase moves money into the position, but for the fee.
LEMMA BuyEffect ==
  ASSUME NEW a \in AccountRecord, NEW t \in Symbol, NEW side, NEW qty \in Nat,
         NEW price \in Nat, NEW fee \in Nat, NEW b, b = AfterBuy(a, t, side, qty, price, fee)
  PROVE  /\ Touched(a, b, t) /\ MarginFollows(a, b, t)
         /\ BookOf(b, t) = BookOf(a, t) - fee
         /\ b.pos[t].qty = a.pos[t].qty + qty
<1> DEFINE n == qty * price
           p == Repositioned(a.pos[t], a.pos[t].qty + qty, a.pos[t].cost + n, a.pos[t].realized)
           c == [Paid(a, n + fee) EXCEPT !.pos[t].cost = @ + n, !.pos[t].qty = @ + qty]
           frozen == Larger(0, a.frozen - (n + fee))
<1>1. n \in Nat
  OBVIOUS
<1>2. b = IF side = "OPEN_LONG" THEN Charged(c, t, qty, price) ELSE c
  BY DEF AfterBuy
<1> HIDE DEF n
<1>3. c = Rewritten(a, t, p, a.cash - (n + fee), frozen, a.margin)
  <2>1. p = [a.pos[t] EXCEPT !.cost = @ + n, !.qty = @ + qty]
    BY AccountNumbers DEF Repositioned, Position
  <2> HIDE DEF p, frozen
  <2>2. c = [a EXCEPT !.cash = @ - (n + fee), !.frozen = Larger(0, @ - (n + fee)),
                      !.pos = [a.pos EXCEPT ![t] = p]]
    BY <2>1 DEF Paid, AccountRecord, Position
  <2> QED BY <2>2 DEF Rewritten, AccountRecord, frozen
<1>4. /\ p \in Position /\ p.held = a.pos[t].held /\ p.qty = a.pos[t].qty + qty
      /\ p.cost = a.pos[t].cost + n /\ p.realized = a.pos[t].realized
  <2>1. a.pos[t].qty + qty \in Int /\ a.pos[t].cost + n \in Int
    BY <1>1, AccountNumbers
  <2> HIDE DEF p
  <2> QED BY <2>1, AccountNumbers, PositionFits DEF p
<1>5. frozen \in Nat /\ a.cash - (n + fee) \in Int /\ a.margin \in Int
  BY <1>1, AccountNumbers DEF Larger
<1> HIDE DEF p, c, frozen
<1>6. /\ Touched(a, c, t)
      /\ c.cash = a.cash - (n + fee) /\ c.margin = a.margin /\ c.pos[t] = p
  BY <1>3, <1>4, <1>5, RecordFits
<1>7. BookOf(c, t) = BookOf(a, t) - fee /\ MarginFollows(a, c, t)
  BY <1>1, <1>4, <1>6, AccountNumbers DEF BookOf, MarginFollows
<1>8. CASE side = "OPEN_LONG"
  <2>1. c \in AccountRecord /\ b = Charged(c, t, qty, price) /\ qty \in Int
    BY <1>2, <1>6, <1>8 DEF Touched
  <2>2. /\ Touched(c, b, t) /\ MarginFollows(c, b, t)
        /\ b.cash = c.cash /\ b.pos[t].qty = c.pos[t].qty
        /\ b.pos[t].cost = c.pos[t].cost /\ b.pos[t].realized = c.pos[t].realized
    BY <2>1, ChargedEffect
  <2>3. Touched(a, b, t)
    BY <1>6, <2>2, TouchedTwice
  <2> QED BY <1>4, <1>6, <1>7, <2>2, <2>3 DEF BookOf, MarginFollows
<1>9. CASE side # "OPEN_LONG"
  BY <1>2, <1>4, <1>6, <1>7, <1>9
<1> QED BY <1>8, <1>9

\* The position with what is left of it, its cost and its profit after a closing fill
\* that leaves the account with this much cash.
ClosedPosition(e, t, left, cost, cash) ==
  Repositioned(e.pos[t], left, e.pos[t].cost - cost,
               e.pos[t].realized + (cash - e.cash) - cost)

\* A sale or a buy-back moves the position's share of its cost into cash and profit; if
\* it releases margin, closing the whole position releases all of it.
LEMMA ClosedEffect ==
  ASSUME NEW e \in AccountRecord, NEW t \in Symbol,
         NEW left \in Int, NEW cost \in Int, left = 0 => cost = e.pos[t].cost,
         NEW cash \in Int, NEW frozen \in Nat, NEW r, NEW b,
         r = Rewritten(e, t, ClosedPosition(e, t, left, cost, cash), cash, frozen, e.margin),
         b = Emptied(r, t)
  PROVE  /\ Touched(e, b, t)
         /\ BookOf(b, t) = BookOf(e, t)
         /\ b.pos[t].qty = left
         /\ left # 0 \/ e.pos[t].held = 0 => MarginFollows(e, b, t)
<1> DEFINE p == ClosedPosition(e, t, left, cost, cash)
           profit == e.pos[t].realized + (cash - e.cash) - cost
<1>1. /\ e.pos[t] \in Position /\ e.pos[t].cost \in Int /\ e.pos[t].realized \in Int
      /\ e.pos[t].held \in Int /\ e.cash \in Int /\ e.margin \in Int
  BY AccountNumbers
<1>2. e.pos[t].cost - cost \in Int /\ profit \in Int
  BY <1>1
<1>3. p = Repositioned(e.pos[t], left, e.pos[t].cost - cost, profit)
  BY DEF ClosedPosition
<1> HIDE DEF p, profit
<1>4. /\ p \in Position /\ p.qty = left /\ p.cost = e.pos[t].cost - cost
      /\ p.realized = profit /\ p.held = e.pos[t].held
  BY <1>1, <1>2, <1>3, PositionFits
<1>5. r = Rewritten(e, t, p, cash, frozen, e.margin)
  BY DEF p
<1>6. Touched(e, r, t) /\ r.cash = cash /\ r.margin = e.margin /\ r.pos[t] = p
  BY <1>1, <1>4, <1>5, RecordFits
<1>7. r \in AccountRecord /\ (r.pos[t].qty = 0 => r.pos[t].cost = 0)
  BY <1>1, <1>4, <1>6 DEF Touched
<1>8. /\ Touched(r, b, t)
      /\ b.cash = r.cash /\ b.margin = r.margin
      /\ b.pos[t].qty = r.pos[t].qty /\ b.pos[t].cost = r.pos[t].cost
      /\ b.pos[t].realized = r.pos[t].realized
      /\ r.pos[t].qty # 0 \/ r.pos[t].held = 0 => b.pos[t].held = r.pos[t].held
  BY <1>7, EmptiedEffect
<1>9. Touched(e, b, t)
  BY <1>6, <1>8, TouchedTwice
<1>10. BookOf(b, t) = BookOf(e, t)
  <2>1. b.cash = cash /\ b.pos[t].cost = e.pos[t].cost - cost /\ b.pos[t].realized = profit
    BY <1>4, <1>6, <1>8
  <2> QED BY <1>1, <2>1 DEF BookOf, profit
<1>11. ASSUME left # 0 \/ e.pos[t].held = 0 PROVE MarginFollows(e, b, t)
  BY <1>4, <1>6, <1>8, <1>11 DEF MarginFollows
<1> QED BY <1>4, <1>6, <1>8, <1>9, <1>10, <1>11

\* A sale of at most the position.
LEMMA SellEffect ==
  ASSUME NEW a \in AccountRecord, NEW t \in Symbol, NEW side, NEW qty \in Nat,
         qty > 0, qty <= a.pos[t].qty,
         NEW price \in Nat, NEW fee \in Nat, NEW b, b = AfterSell(a, t, side, qty, price, fee)
  PROVE  /\ Touched(a, b, t)
         /\ BookOf(b, t) = BookOf(a, t)
         /\ b.pos[t].qty = a.pos[t].qty - qty
         /\ side = "CLOSE_LONG" => MarginFollows(a, b, t)
<1> DEFINE n == qty * price
           e == IF side = "CLOSE_LONG" THEN Released(a, t, qty) ELSE a
           cost == Share(a, t, a.pos[t].cost, qty)
           left == a.pos[t].qty - qty
           r == [e EXCEPT !.cash = @ + n - fee,
                          !.pos[t].realized = @ + n - cost - fee,
                          !.pos[t].cost = @ - cost,
                          !.pos[t].qty = @ - qty]
<1>1. b = Emptied(r, t)
  BY DEF AfterSell
<1>2. n \in Nat
  OBVIOUS
<1> HIDE DEF n
<1>3. a.pos[t].qty \in Int /\ a.pos[t].qty # 0 /\ left \in Int /\ qty \in Int
  BY AccountNumbers
<1>4. left = 0 => qty = Size(a.pos[t].qty)
  BY <1>3 DEF Size
<1>5. /\ Touched(a, e, t) /\ MarginFollows(a, e, t) /\ e.cash = a.cash /\ e.frozen = a.frozen
      /\ e.pos[t].qty = a.pos[t].qty /\ e.pos[t].cost = a.pos[t].cost
      /\ e.pos[t].realized = a.pos[t].realized
      /\ side = "CLOSE_LONG" /\ left = 0 => e.pos[t].held = 0
  <2>1. CASE side = "CLOSE_LONG"
    <3>1. e = Released(a, t, qty)
      BY <2>1
    <3> HIDE DEF e
    <3> QED BY <1>3, <1>4, <3>1, ReleasedEffect
  <2>2. CASE side # "CLOSE_LONG"
    <3>1. e = a
      BY <2>2
    <3>2. MarginFollows(a, a, t)
      BY DEF MarginFollows
    <3>3. Touched(a, a, t)
      BY Zenon DEF Touched
    <3> QED BY <2>2, <3>1, <3>2, <3>3
  <2> QED BY <2>1, <2>2
<1> HIDE DEF e, cost
<1>6. e \in AccountRecord /\ e.cash \in Int /\ e.frozen \in Nat /\ e.pos[t] \in Position
  BY <1>5, AccountNumbers DEF Touched
<1>7. cost \in Int
  BY <1>3, AccountNumbers, ShareFits DEF cost
<1> DEFINE cash == e.cash + n - fee
           p == ClosedPosition(e, t, left, cost, cash)
<1>8. r = Rewritten(e, t, p, cash, e.frozen, e.margin)
  <2>1. e.pos[t].realized + n - cost - fee = e.pos[t].realized + (cash - e.cash) - cost
    BY <1>2, <1>6, <1>7 DEF Position
  <2>2. e.pos[t].qty - qty = left
    BY <1>5
  <2>3. p = [e.pos[t] EXCEPT !.realized = @ + n - cost - fee, !.cost = @ - cost,
                             !.qty = @ - qty]
    BY <1>6, <2>1, <2>2 DEF ClosedPosition, Repositioned, Position
  <2> HIDE DEF p
  <2>4. r = [e EXCEPT !.cash = @ + n - fee, !.pos = [e.pos EXCEPT ![t] = p]]
    BY <1>6, <2>3, ZenonT(40) DEF AccountRecord, Position
  <2> HIDE DEF r
  <2> QED BY <1>6, <2>4 DEF Rewritten, AccountRecord
<1>9. cash \in Int /\ BookOf(e, t) = BookOf(a, t)
  BY <1>2, <1>5, <1>6 DEF BookOf
<1>10. left = 0 => cost = e.pos[t].cost
  BY <1>3, <1>4, <1>5, AccountNumbers, ShareFits DEF cost
<1> HIDE DEF r, cash, left
<1>11. /\ Touched(e, b, t)
       /\ BookOf(b, t) = BookOf(e, t)
       /\ b.pos[t].qty = left
       /\ left # 0 \/ e.pos[t].held = 0 => MarginFollows(e, b, t)
  <2>1. /\ e \in AccountRecord /\ left \in Int /\ cost \in Int /\ cash \in Int
        /\ e.frozen \in Nat
    BY <1>3, <1>6, <1>7, <1>9
  <2> HIDE DEF p
  <2>2. r = Rewritten(e, t, ClosedPosition(e, t, left, cost, cash), cash, e.frozen, e.margin)
    BY <1>8 DEF p
  <2> QED BY <1>1, <1>10, <2>1, <2>2, ClosedEffect, SMTT(30)
<1>12. Touched(a, b, t)
  BY <1>5, <1>11, TouchedTwice
<1>13. ASSUME side = "CLOSE_LONG" PROVE MarginFollows(a, b, t)
  BY <1>5, <1>11, <1>13 DEF MarginFollows
<1> QED BY <1>9, <1>11, <1>12, <1>13 DEF left

\* A short sale makes the cost of the position more negative.
LEMMA OpenShortEffect ==
  ASSUME NEW a \in AccountRecord, NEW t \in Symbol, NEW qty \in Nat,
         NEW price \in Nat, NEW fee \in Nat, NEW b, b = AfterOpenShort(a, t, qty, price, fee)
  PROVE  /\ Touched(a, b, t) /\ MarginFollows(a, b, t)
         /\ BookOf(b, t) = BookOf(a, t) - fee
         /\ b.pos[t].qty = a.pos[t].qty - qty
<1> DEFINE n == qty * price
           cash == a.cash + n - fee
           p == Repositioned(a.pos[t], a.pos[t].qty - qty, a.pos[t].cost - n, a.pos[t].realized)
           c == [a EXCEPT !.cash = @ + n - fee, !.pos[t].cost = @ - n, !.pos[t].qty = @ - qty]
<1>1. n \in Nat
  OBVIOUS
<1>2. b = Charged(c, t, qty, price)
  BY DEF AfterOpenShort
<1> HIDE DEF n
<1>3. c = Rewritten(a, t, p, cash, a.frozen, a.margin)
  <2>1. p = [a.pos[t] EXCEPT !.cost = @ - n, !.qty = @ - qty]
    BY AccountNumbers DEF Repositioned, Position
  <2> HIDE DEF p
  <2>2. c = [a EXCEPT !.cash = @ + n - fee, !.pos = [a.pos EXCEPT ![t] = p]]
    BY <2>1 DEF AccountRecord, Position
  <2> HIDE DEF c
  <2> QED BY <2>2 DEF Rewritten, AccountRecord
<1>4. /\ p \in Position /\ p.held = a.pos[t].held /\ p.qty = a.pos[t].qty - qty
      /\ p.cost = a.pos[t].cost - n /\ p.realized = a.pos[t].realized
  <2>1. a.pos[t].qty - qty \in Int /\ a.pos[t].cost - n \in Int
    BY <1>1, AccountNumbers
  <2> HIDE DEF p
  <2> QED BY <2>1, AccountNumbers, PositionFits DEF p
<1>5. cash \in Int /\ a.margin \in Int /\ a.frozen \in Nat
  BY <1>1, AccountNumbers
<1>6. cash = a.cash + n - fee
  OBVIOUS
<1> HIDE DEF p, c, cash
<1>7. /\ Touched(a, c, t) /\ c.cash = cash /\ c.margin = a.margin /\ c.pos[t] = p
  BY <1>3, <1>4, <1>5, RecordFits, SMTT(30)
<1>8. BookOf(c, t) = BookOf(a, t) - fee /\ MarginFollows(a, c, t)
  BY <1>1, <1>4, <1>6, <1>7, AccountNumbers DEF BookOf, MarginFollows
<1>9. c \in AccountRecord /\ qty \in Int
  BY <1>7 DEF Touched
<1>10. /\ Touched(c, b, t) /\ MarginFollows(c, b, t)
       /\ b.cash = c.cash /\ b.pos[t].qty = c.pos[t].qty
       /\ b.pos[t].cost = c.pos[t].cost /\ b.pos[t].realized = c.pos[t].realized
  BY <1>2, <1>9, ChargedEffect
<1>11. Touched(a, b, t)
  BY <1>7, <1>10, TouchedTwice
<1> QED BY <1>4, <1>7, <1>8, <1>10, <1>11 DEF BookOf, MarginFollows

\* A buy-back of at most the short.
LEMMA CloseShortEffect ==
  ASSUME NEW a \in AccountRecord, NEW t \in Symbol, NEW qty \in Nat,
         qty > 0, qty <= - a.pos[t].qty,
         NEW price \in Nat, NEW fee \in Nat, NEW b, b = AfterCloseShort(a, t, qty, price, fee)
  PROVE  /\ Touched(a, b, t) /\ MarginFollows(a, b, t)
         /\ BookOf(b, t) = BookOf(a, t)
         /\ b.pos[t].qty = a.pos[t].qty + qty
<1> DEFINE n == qty * price
           e == Released(a, t, qty)
           cost == Share(a, t, a.pos[t].cost, qty)
           left == a.pos[t].qty + qty
           cash == e.cash - (n + fee)
           frozen == Larger(0, e.frozen - (n + fee))
           p == ClosedPosition(e, t, left, cost, cash)
           r == [Paid(e, n + fee) EXCEPT !.pos[t].realized = @ - cost - n - fee,
                                         !.pos[t].cost = @ - cost,
                                         !.pos[t].qty = @ + qty]
<1>1. b = Emptied(r, t)
  BY DEF AfterCloseShort
<1>2. n \in Nat
  OBVIOUS
<1> HIDE DEF n
<1>3. a.pos[t].qty \in Int /\ a.pos[t].qty # 0 /\ left \in Int /\ qty \in Int
  BY AccountNumbers
<1>4. left = 0 => qty = Size(a.pos[t].qty)
  BY <1>3 DEF Size
<1>5. e = Released(a, t, qty)
  OBVIOUS
<1> HIDE DEF e
<1>6. /\ Touched(a, e, t) /\ MarginFollows(a, e, t) /\ e.cash = a.cash
      /\ e.pos[t].qty = a.pos[t].qty /\ e.pos[t].cost = a.pos[t].cost
      /\ e.pos[t].realized = a.pos[t].realized
      /\ left = 0 => e.pos[t].held = 0
  BY <1>3, <1>4, <1>5, ReleasedEffect
<1>7. e \in AccountRecord /\ e.cash \in Int /\ e.frozen \in Nat /\ e.pos[t] \in Position
  BY <1>6, AccountNumbers DEF Touched
<1>8. cost \in Int /\ (left = 0 => cost = e.pos[t].cost)
  BY <1>3, <1>4, <1>6, AccountNumbers, ShareFits DEF cost
<1> HIDE DEF cost
<1>9. cash \in Int /\ frozen \in Nat /\ BookOf(e, t) = BookOf(a, t)
  BY <1>2, <1>6, <1>7 DEF BookOf, Larger
<1>10. r = Rewritten(e, t, p, cash, frozen, e.margin)
  <2>1. e.pos[t].realized - cost - n - fee = e.pos[t].realized + (cash - e.cash) - cost
    BY <1>2, <1>7, <1>8 DEF Position
  <2>2. e.pos[t].qty + qty = left
    BY <1>6
  <2>3. p = [e.pos[t] EXCEPT !.realized = @ - cost - n - fee, !.cost = @ - cost,
                             !.qty = @ + qty]
    BY <1>7, <2>1, <2>2 DEF ClosedPosition, Repositioned, Position
  <2> HIDE DEF p, frozen
  <2> DEFINE d == Paid(e, n + fee)
  <2>4. d = [e EXCEPT !.cash = @ - (n + fee), !.frozen = Larger(0, @ - (n + fee))]
    BY DEF Paid
  <2>5. r = [d EXCEPT !.pos[t].realized = @ - cost - n - fee, !.pos[t].cost = @ - cost,
                      !.pos[t].qty = @ + qty]
    OBVIOUS
  <2> HIDE DEF d, r
  <2> HIDE DEF left, cash, frozen
  <2>6. d \in AccountRecord /\ d.pos = e.pos
    <3>1. e.cash - (n + fee) \in Int /\ Larger(0, e.frozen - (n + fee)) \in Nat
      BY <1>9 DEF cash, frozen
    <3> QED BY <1>7, <2>4, <3>1 DEF AccountRecord
  <2>7. p = [d.pos[t] EXCEPT !.realized = @ - cost - n - fee, !.cost = @ - cost,
                             !.qty = @ + qty]
    BY <2>3, <2>6
  <2>8. r = [d EXCEPT !.pos = [d.pos EXCEPT ![t] = p]]
    BY <2>5, <2>6, <2>7 DEF AccountRecord, Position
  <2>9. e.cash - (n + fee) = cash /\ Larger(0, e.frozen - (n + fee)) = frozen
    BY DEF cash, frozen
  <2> QED BY <1>7, <2>4, <2>6, <2>8, <2>9 DEF Rewritten, AccountRecord
<1> HIDE DEF r, cash, frozen, left
<1>11. /\ Touched(e, b, t)
       /\ BookOf(b, t) = BookOf(e, t)
       /\ b.pos[t].qty = left
       /\ left # 0 \/ e.pos[t].held = 0 => MarginFollows(e, b, t)
  <2>1. e \in AccountRecord /\ left \in Int /\ cost \in Int /\ cash \in Int /\ frozen \in Nat
    BY <1>3, <1>7, <1>8, <1>9
  <2> HIDE DEF p
  <2>2. r = Rewritten(e, t, ClosedPosition(e, t, left, cost, cash), cash, frozen, e.margin)
    BY <1>10 DEF p
  <2> QED BY <1>1, <1>8, <2>1, <2>2, ClosedEffect
<1>12. Touched(a, b, t)
  BY <1>6, <1>11, TouchedTwice
<1>13. MarginFollows(a, b, t)
  BY <1>6, <1>11 DEF MarginFollows
<1> QED BY <1>9, <1>11, <1>12, <1>13 DEF left

\* What a fill of any side does: it touches one position, moves no money but the fee of
\* an opening one, moves margin with the position unless it is a plain sale, and makes
\* the position larger only on the sides the call blocks.
LEMMA AppliedEffect ==
  ASSUME NEW a \in AccountRecord, NEW t \in Symbol, NEW side \in BuySides \cup SellSides,
         NEW qty \in Nat, qty > 0, NEW price \in Nat, NEW fee \in Nat,
         side \in {"SELL", "CLOSE_LONG"} => a.pos[t].qty >= qty,
         side = "CLOSE_SHORT" => - a.pos[t].qty >= qty,
         NEW b, b = Applied(a, t, side, qty, price, fee)
  PROVE  /\ Touched(a, b, t)
         /\ BookOf(b, t) = BookOf(a, t) - (IF side \in ExposureSides THEN fee ELSE 0)
         /\ side # "SELL" => MarginFollows(a, b, t)
         /\ side \notin ExposureSides => Size(b.pos[t].qty) <= Size(a.pos[t].qty)
<1>1. a.pos[t].qty \in Int /\ BookOf(a, t) \in Int
  BY AccountNumbers DEF BookOf
<1>2. CASE side \in {"BUY", "OPEN_LONG"}
  <2>1. b = AfterBuy(a, t, side, qty, price, fee) /\ side \in ExposureSides
    BY <1>2 DEF Applied, ExposureSides
  <2>2. Touched(a, b, t) /\ MarginFollows(a, b, t) /\ BookOf(b, t) = BookOf(a, t) - fee
    BY <2>1, BuyEffect
  <2> QED BY <2>1, <2>2
<1>3. CASE side \in {"SELL", "CLOSE_LONG"}
  <2>1. b = AfterSell(a, t, side, qty, price, fee) /\ side \notin ExposureSides
    BY <1>3 DEF Applied, ExposureSides
  <2>2. qty <= a.pos[t].qty
    BY <1>1, <1>3
  <2>3. /\ Touched(a, b, t) /\ BookOf(b, t) = BookOf(a, t)
        /\ b.pos[t].qty = a.pos[t].qty - qty
        /\ side = "CLOSE_LONG" => MarginFollows(a, b, t)
    BY <2>1, <2>2, SellEffect
  <2>4. Size(b.pos[t].qty) <= Size(a.pos[t].qty)
    BY <1>1, <2>2, <2>3 DEF Size
  <2> QED BY <1>1, <1>3, <2>1, <2>3, <2>4
<1>4. CASE side = "OPEN_SHORT"
  <2>1. b = AfterOpenShort(a, t, qty, price, fee) /\ side \in ExposureSides
    BY <1>4 DEF Applied, ExposureSides
  <2>2. Touched(a, b, t) /\ MarginFollows(a, b, t) /\ BookOf(b, t) = BookOf(a, t) - fee
    BY <2>1, OpenShortEffect
  <2> QED BY <2>1, <2>2
<1>5. CASE side = "CLOSE_SHORT"
  <2>1. b = AfterCloseShort(a, t, qty, price, fee) /\ side \notin ExposureSides
    BY <1>5 DEF Applied, ExposureSides
  <2>2. qty <= - a.pos[t].qty
    BY <1>1, <1>5
  <2>3. /\ Touched(a, b, t) /\ MarginFollows(a, b, t) /\ BookOf(b, t) = BookOf(a, t)
        /\ b.pos[t].qty = a.pos[t].qty + qty
    BY <2>1, <2>2, CloseShortEffect
  <2>4. Size(b.pos[t].qty) <= Size(a.pos[t].qty)
    BY <1>1, <2>2, <2>3 DEF Size
  <2> QED BY <1>1, <2>1, <2>3, <2>4
<1> QED BY <1>2, <1>3, <1>4, <1>5 DEF BuySides, SellSides

\* The sums over all positions are numbers.
LEMMA SumsAreNumbers ==
  ASSUME NEW pos \in [Symbol -> Position]
  PROVE  CostOf(pos) \in Int /\ HeldOf(pos) \in Int /\ RealizedOf(pos) \in Int
<1>1. /\ [s \in Symbol |-> pos[s].cost] \in [Symbol -> Int]
      /\ [s \in Symbol |-> pos[s].held] \in [Symbol -> Int]
      /\ [s \in Symbol |-> pos[s].realized] \in [Symbol -> Int]
  BY DEF Position
<1>2. IsFiniteSet(Symbol) /\ Symbol \subseteq Symbol
  BY AccountAssumption
<1> QED BY <1>1, <1>2, SumIsInteger DEF CostOf, HeldOf, RealizedOf

\* When one position changes, the sums change by what it changes by.
LEMMA SumsMove ==
  ASSUME NEW a \in AccountRecord, NEW b, NEW t \in Symbol, Touched(a, b, t)
  PROVE  /\ CostOf(b.pos) = CostOf(a.pos) + (b.pos[t].cost - a.pos[t].cost)
         /\ HeldOf(b.pos) = HeldOf(a.pos) + (b.pos[t].held - a.pos[t].held)
         /\ RealizedOf(b.pos) = RealizedOf(a.pos) + (b.pos[t].realized - a.pos[t].realized)
<1>1. /\ IsFiniteSet(Symbol)
      /\ \A u \in Symbol : a.pos[u].cost \in Int /\ b.pos[u].cost \in Int
      /\ \A u \in Symbol : a.pos[u].held \in Int /\ b.pos[u].held \in Int
      /\ \A u \in Symbol : a.pos[u].realized \in Int /\ b.pos[u].realized \in Int
      /\ \A u \in Symbol : u # t => b.pos[u] = a.pos[u]
  <2>1. b \in AccountRecord /\ (\A u \in Symbol : u # t => b.pos[u] = a.pos[u])
    BY Zenon DEF Touched
  <2>2. IsFiniteSet(Symbol)
    BY AccountAssumption
  <2>3. \A u \in Symbol : /\ a.pos[u].cost \in Int /\ b.pos[u].cost \in Int
                          /\ a.pos[u].held \in Int /\ b.pos[u].held \in Int
                          /\ a.pos[u].realized \in Int /\ b.pos[u].realized \in Int
    BY <2>1, AccountNumbers
  <2> QED BY <2>1, <2>2, <2>3
<1>2. CostOf(b.pos) = CostOf(a.pos) + (b.pos[t].cost - a.pos[t].cost)
  <2> DEFINE f == [s \in Symbol |-> a.pos[s].cost]
             k == [s \in Symbol |-> b.pos[s].cost]
  <2>1. \A u \in Symbol : f[u] \in Int /\ k[u] \in Int
    BY <1>1
  <2>2. \A u \in Symbol : u # t => k[u] = f[u]
    BY <1>1
  <2>3. f[t] = a.pos[t].cost /\ k[t] = b.pos[t].cost
    OBVIOUS
  <2>4. CostOf(a.pos) = SumFunctionOnSet(f, Symbol) /\ CostOf(b.pos) = SumFunctionOnSet(k, Symbol)
    BY Zenon DEF CostOf
  <2> HIDE DEF f, k
  <2> QED BY <1>1, <2>1, <2>2, <2>3, <2>4, SumOfChanged
<1>3. HeldOf(b.pos) = HeldOf(a.pos) + (b.pos[t].held - a.pos[t].held)
  <2> DEFINE f == [s \in Symbol |-> a.pos[s].held]
             k == [s \in Symbol |-> b.pos[s].held]
  <2>1. \A u \in Symbol : f[u] \in Int /\ k[u] \in Int
    BY <1>1
  <2>2. \A u \in Symbol : u # t => k[u] = f[u]
    BY <1>1
  <2>3. f[t] = a.pos[t].held /\ k[t] = b.pos[t].held
    OBVIOUS
  <2>4. HeldOf(a.pos) = SumFunctionOnSet(f, Symbol) /\ HeldOf(b.pos) = SumFunctionOnSet(k, Symbol)
    BY Zenon DEF HeldOf
  <2> HIDE DEF f, k
  <2> QED BY <1>1, <2>1, <2>2, <2>3, <2>4, SumOfChanged
<1>4. RealizedOf(b.pos) = RealizedOf(a.pos) + (b.pos[t].realized - a.pos[t].realized)
  <2> DEFINE f == [s \in Symbol |-> a.pos[s].realized]
             k == [s \in Symbol |-> b.pos[s].realized]
  <2>1. \A u \in Symbol : f[u] \in Int /\ k[u] \in Int
    BY <1>1
  <2>2. \A u \in Symbol : u # t => k[u] = f[u]
    BY <1>1
  <2>3. f[t] = a.pos[t].realized /\ k[t] = b.pos[t].realized
    OBVIOUS
  <2>4. /\ RealizedOf(a.pos) = SumFunctionOnSet(f, Symbol)
        /\ RealizedOf(b.pos) = SumFunctionOnSet(k, Symbol)
    BY Zenon DEF RealizedOf
  <2> HIDE DEF f, k
  <2> QED BY <1>1, <2>1, <2>2, <2>3, <2>4, SumOfChanged
<1> QED BY <1>2, <1>3, <1>4

\* What BooksBalance says of one account.
Explained(a, f) == a.cash + CostOf(a.pos) = InitialCash + f + RealizedOf(a.pos)
Backed(a) == a.margin = HeldOf(a.pos)

\* A change of one position and the cash keeps the books if what it moves besides profit
\* is entered in the flows, and keeps the margin if it moves it with the position.
LEMMA BooksMove ==
  ASSUME NEW a \in AccountRecord, NEW b, NEW t \in Symbol, Touched(a, b, t),
         NEW f \in Int, NEW d \in Int, BookOf(b, t) = BookOf(a, t) + d
  PROVE  /\ Explained(a, f) => Explained(b, f + d)
         /\ MarginFollows(a, b, t) /\ Backed(a) => Backed(b)
<1>1. b \in AccountRecord
  BY Zenon DEF Touched
<1>2. /\ CostOf(a.pos) \in Int /\ HeldOf(a.pos) \in Int /\ RealizedOf(a.pos) \in Int
      /\ InitialCash \in Int
  <2>1. a.pos \in [Symbol -> Position]
    BY DEF AccountRecord
  <2> QED BY <2>1, SumsAreNumbers, AccountAssumption
<1>3. /\ a.pos[t].cost \in Int /\ a.pos[t].held \in Int /\ a.pos[t].realized \in Int
      /\ a.cash \in Int /\ a.margin \in Int
      /\ b.pos[t].cost \in Int /\ b.pos[t].held \in Int /\ b.pos[t].realized \in Int
      /\ b.cash \in Int /\ b.margin \in Int
  BY <1>1, AccountNumbers
<1>4. /\ CostOf(b.pos) = CostOf(a.pos) + (b.pos[t].cost - a.pos[t].cost)
      /\ HeldOf(b.pos) = HeldOf(a.pos) + (b.pos[t].held - a.pos[t].held)
      /\ RealizedOf(b.pos) = RealizedOf(a.pos) + (b.pos[t].realized - a.pos[t].realized)
  BY SumsMove
<1>5. ASSUME Explained(a, f) PROVE Explained(b, f + d)
  <2>1. a.cash + CostOf(a.pos) = InitialCash + f + RealizedOf(a.pos)
    BY <1>5 DEF Explained
  <2>2. b.cash + b.pos[t].cost - b.pos[t].realized
          = a.cash + a.pos[t].cost - a.pos[t].realized + d
    BY DEF BookOf
  <2>3. b.cash + CostOf(b.pos) = InitialCash + (f + d) + RealizedOf(b.pos)
    <3>1. ASSUME NEW ca \in Int, NEW cb \in Int, NEW ra \in Int, NEW rb \in Int,
                 NEW ma \in Int, NEW mb \in Int, NEW pa \in Int, NEW pb \in Int,
                 NEW qa \in Int, NEW qb \in Int,
                 ma + ca = InitialCash + f + ra, mb + pb - qb = ma + pa - qa + d,
                 cb = ca + (pb - pa), rb = ra + (qb - qa)
          PROVE  mb + cb = InitialCash + (f + d) + rb
      BY <1>2, <3>1
    <3>2. CostOf(b.pos) \in Int /\ RealizedOf(b.pos) \in Int
      BY <1>2, <1>3, <1>4
    <3> QED BY <1>2, <1>3, <1>4, <2>1, <2>2, <3>1, <3>2
  <2> QED BY <2>3 DEF Explained
<1>6. ASSUME MarginFollows(a, b, t), Backed(a) PROVE Backed(b)
  BY <1>2, <1>3, <1>4, <1>6 DEF Backed, MarginFollows
<1> QED BY <1>5, <1>6, Zenon

\* The invariant: the types, and books that balance.  It needs no strengthening, for
\* every change of a position comes with its own change of cash, cost and margin.
AccountInv == AccountTypeOK /\ CashExplained /\ MarginAdds

\* The same, part by part.
LEMMA AccountInvSays ==
  AccountInv <=> /\ account \in AccountRecord
                 /\ mark \in [Symbol -> Price \cup {0}] /\ due \subseteq Order
                 /\ phase \in {"match", "actions", "settle", "risk", "liquidate", "decide",
                               "done", "aborted"}
                 /\ bar \in 0..MaxBars /\ flows \in Int
                 /\ Explained(account, flows)
                 /\ phase \in {"risk", "liquidate", "decide"} => Backed(account)
BY DEF AccountInv, AccountTypeOK, AccountRecord, CashExplained, MarginAdds, Explained, Backed

LEMMA AccountInvSaysNext ==
  ASSUME account' \in AccountRecord, mark' \in [Symbol -> Price \cup {0}],
         due' \subseteq Order, bar' \in 0..MaxBars, flows' \in Int,
         phase' \in {"match", "actions", "settle", "risk", "liquidate", "decide", "done",
                    "aborted"},
         Explained(account', flows'),
         phase' \in {"risk", "liquidate", "decide"} => Backed(account')
  PROVE  AccountInv'
BY DEF AccountInv, AccountTypeOK, AccountRecord, CashExplained, MarginAdds, Explained, Backed

\* Freezing cash changes nothing that the books are about.
LEMMA FrozenFits ==
  ASSUME NEW x \in AccountRecord, NEW n \in Nat, NEW a, a = [x EXCEPT !.frozen = @ + n]
  PROVE  /\ a \in AccountRecord
         /\ a.cash = x.cash /\ a.margin = x.margin /\ a.pos = x.pos
<1>1. x.frozen + n \in Nat
  BY DEF AccountRecord
<1> QED BY <1>1 DEF AccountRecord

\* What an order resolves to is a number.
LEMMA ResolvedFits ==
  ASSUME NEW a \in AccountRecord, NEW o \in Order, NEW price \in Price
  PROVE  Resolved(a, o, price) \in Int
<1>1. o.qty \in Nat /\ o.symbol \in Symbol /\ price \in Nat /\ price > 0
  <2>1. o.qty \in OrderQty /\ o.symbol \in Symbol
    BY Zenon DEF Order
  <2>2. OrderQty \subseteq Nat /\ Price \subseteq Nat \ {0}
    BY AccountAssumption, Zenon
  <2>3. o.qty \in Nat
    BY <2>1, <2>2, Zenon
  <2>4. price \in Nat /\ price # 0
    BY <2>2
  <2> QED BY <2>1, <2>3, <2>4
<1>2. a.cash \in Int /\ a.pos[o.symbol].qty \in Int
  BY <1>1, AccountNumbers
<1>3. Truncated(a.cash, price) \in Int
  BY <1>1, <1>2, TruncatedFits
<1>4. Size(a.pos[o.symbol].qty) \in Int
  BY <1>2 DEF Size
<1> QED BY <1>1, <1>3, <1>4 DEF Resolved

\* A fill of an order, its guards as far as the books and the call are about them.
Fills(o, open, base) ==
  LET s == o.symbol
      reserve == Reserve(account, o, open)
      a == [account EXCEPT !.frozen = @ + reserve]
      qty == Resolved(a, o, base)
      price == IF o.side \in BuySides THEN base + Slip ELSE base - Slip
  IN  /\ ~ CallBlocks(account, o)
      /\ qty > 0 /\ price > 0
      /\ Coverable(a, o, qty)
      /\ due' = due \ {o}
      /\ \/ phase' = "aborted" /\ account' = a /\ UNCHANGED flows
         \/ /\ account' = Applied(a, s, o.side, qty, price, Fee)
            /\ flows' = IF o.side \in ExposureSides THEN flows - Fee ELSE flows
            /\ UNCHANGED phase

\* A fill keeps the books; while a margin call stands it makes no position larger.
LEMMA OrderFilledStep ==
  ASSUME AccountInv, OrderFilled
  PROVE  /\ AccountInv'
         /\ account.call => \A u \in Symbol : Size(account'.pos[u].qty) <= Size(account.pos[u].qty)
<1>1. /\ account \in AccountRecord /\ due \subseteq Order /\ flows \in Int
      /\ mark \in [Symbol -> Price \cup {0}] /\ bar \in 0..MaxBars
      /\ Explained(account, flows)
  BY AccountInvSays
<1>2. PICK o \in due, open \in Price, base \in Price : Fills(o, open, base)
  BY SMT DEF OrderFilled, Fills, BasePrices
<1> DEFINE s == o.symbol
           reserve == Reserve(account, o, open)
           a == [account EXCEPT !.frozen = @ + reserve]
           qty == Resolved(a, o, base)
           price == IF o.side \in BuySides THEN base + Slip ELSE base - Slip
<1>4. /\ ~ CallBlocks(account, o)
      /\ qty > 0 /\ price > 0
      /\ Coverable(a, o, qty)
      /\ due' = due \ {o}
      /\ \/ phase' = "aborted" /\ account' = a /\ UNCHANGED flows
         \/ /\ account' = Applied(a, s, o.side, qty, price, Fee)
            /\ flows' = IF o.side \in ExposureSides THEN flows - Fee ELSE flows
            /\ UNCHANGED phase
  BY <1>2 DEF Fills
<1>5. phase = "match" /\ UNCHANGED << mark, bar >>
  BY DEF OrderFilled
<1>6. /\ o \in Order /\ s \in Symbol /\ o.side \in BuySides \cup SellSides
      /\ base \in Price /\ base \in Nat /\ open \in Nat /\ Fee \in Nat /\ Slip \in Nat
  BY <1>1, <1>2, AccountAssumption DEF Order
<1>7. reserve \in Nat
  <2>1. Resolved(account, o, open) \in Int
    BY <1>1, <1>6, ResolvedFits
  <2>2. ASSUME NEW n \in Int, n > 0 PROVE n * open + Fee \in Nat
    <3>1. n \in Nat
      BY <2>2
    <3> QED BY <1>6, <3>1
  <2> QED BY <2>1, <2>2 DEF Reserve
<1> HIDE DEF reserve, s
<1>8. /\ a \in AccountRecord /\ a.cash = account.cash /\ a.margin = account.margin
      /\ a.pos = account.pos
  <2> HIDE DEF a
  <2> QED BY <1>1, <1>7, FrozenFits DEF a
<1>9. Explained(a, flows)
  BY <1>1, <1>8 DEF Explained
<1> HIDE DEF a
<1>10. qty \in Nat /\ price \in Nat
  <2>1. qty \in Int
    BY <1>6, <1>8, ResolvedFits
  <2> QED BY <1>4, <1>6, <2>1
<1> HIDE DEF qty, price
<1>11. CASE phase' = "aborted" /\ account' = a /\ UNCHANGED flows
  <2>1. AccountInv'
    BY <1>1, <1>4, <1>5, <1>8, <1>9, <1>11, AccountInvSaysNext
  <2>2. \A u \in Symbol : Size(account'.pos[u].qty) <= Size(account.pos[u].qty)
    BY <1>1, <1>8, <1>11, AccountNumbers DEF Size
  <2> QED BY <2>1, <2>2
<1>12. CASE /\ account' = Applied(a, s, o.side, qty, price, Fee)
            /\ flows' = IF o.side \in ExposureSides THEN flows - Fee ELSE flows
            /\ UNCHANGED phase
  <2> DEFINE d == - (IF o.side \in ExposureSides THEN Fee ELSE 0)
  <2>1. /\ o.side \in {"SELL", "CLOSE_LONG"} => a.pos[s].qty >= qty
        /\ o.side = "CLOSE_SHORT" => - a.pos[s].qty >= qty
    BY <1>4 DEF Coverable, s
  <2>2. /\ Touched(a, account', s)
        /\ BookOf(account', s) = BookOf(a, s) - (IF o.side \in ExposureSides THEN Fee ELSE 0)
        /\ o.side \notin ExposureSides => Size(account'.pos[s].qty) <= Size(a.pos[s].qty)
    BY <1>4, <1>6, <1>8, <1>10, <1>12, <2>1, AppliedEffect
  <2>3. d \in Int /\ BookOf(account', s) = BookOf(a, s) + d
    <3>1. BookOf(a, s) \in Int
      BY <1>6, <1>8, AccountNumbers DEF BookOf
    <3> QED BY <1>6, <2>2, <3>1
  <2>4. flows' = flows + d
    BY <1>1, <1>6, <1>12
  <2> HIDE DEF d
  <2>5. Explained(account', flows')
    <3>1. Explained(account', flows + d)
      BY <1>1, <1>6, <1>8, <1>9, <2>2, <2>3, BooksMove
    <3> QED BY <2>4, <3>1
  <2>6. account' \in AccountRecord /\ \A u \in Symbol : u # s => account'.pos[u] = a.pos[u]
    BY <2>2, Zenon DEF Touched
  <2>7. AccountInv'
    <3>1. due' \subseteq Order /\ flows' \in Int /\ mark' = mark /\ bar' = bar /\ phase' = "match"
      BY <1>1, <1>4, <1>5, <1>12, <2>3, <2>4
    <3> QED BY <1>1, <2>5, <2>6, <3>1, AccountInvSaysNext
  <2>8. ASSUME account.call, NEW u \in Symbol
        PROVE  Size(account'.pos[u].qty) <= Size(account.pos[u].qty)
    <3>1. o.side \notin ExposureSides
      BY <1>4, <2>8 DEF CallBlocks
    <3>2. CASE u = s
      BY <1>8, <2>2, <3>1, <3>2
    <3>3. CASE u # s
      <4>1. account'.pos[u] = account.pos[u] /\ account.pos[u].qty \in Int
        BY <1>1, <1>8, <2>6, <3>3, AccountNumbers
      <4> QED BY <4>1 DEF Size
    <3> QED BY <3>2, <3>3
  <2> QED BY <2>7, <2>8
<1> QED BY <1>4, <1>11, <1>12

\* Cash and one position change together, or the position alone.
LEMMA CorporateActionStep ==
  ASSUME AccountInv, CorporateAction
  PROVE  AccountInv'
<1>1. /\ account \in AccountRecord /\ due \subseteq Order /\ flows \in Int
      /\ mark \in [Symbol -> Price \cup {0}] /\ bar \in 0..MaxBars
      /\ Explained(account, flows)
  BY AccountInvSays
<1>2. PICK t \in Symbol :
        \/ \E d \in NetDividend :
             /\ account' = [account EXCEPT !.cash = @ + account.pos[t].qty * d]
             /\ flows' = flows + account.pos[t].qty * d
        \/ \E r \in SplitRatio :
             LET p == account.pos[t]
                 qty == Truncated(p.qty * r[1], r[2])
                 cost == IF p.qty = 0 THEN 0
                         ELSE Truncated(Share(account, t, p.cost, Size(qty)) * r[2], r[1])
             IN  /\ account' = [account EXCEPT !.pos[t].qty = qty, !.pos[t].cost = cost]
                 /\ flows' = flows + cost - p.cost
  BY DEF CorporateAction
<1>3. phase' = "settle" /\ UNCHANGED << mark, due, bar >>
  BY DEF CorporateAction
<1>4. /\ account.pos[t] \in Position
      /\ account.pos[t].qty \in Int /\ account.pos[t].cost \in Int
      /\ account.pos[t].held \in Int /\ account.pos[t].realized \in Int
      /\ account.cash \in Int /\ account.frozen \in Nat /\ account.margin \in Int
  BY <1>1, AccountNumbers
<1>5. ASSUME NEW n \in Int, Touched(account, account', t),
             BookOf(account', t) = BookOf(account, t) + n, flows' = flows + n
      PROVE  AccountInv'
  <2>1. account' \in AccountRecord
    BY <1>5, Zenon DEF Touched
  <2>2. /\ flows' \in Int /\ due' \subseteq Order /\ mark' \in [Symbol -> Price \cup {0}]
        /\ bar' \in 0..MaxBars
    BY <1>1, <1>3, <1>5
  <2>3. Explained(account', flows')
    <3>1. Explained(account', flows + n)
      BY <1>1, <1>5, BooksMove
    <3> QED BY <1>5, <3>1
  <2> QED BY <1>3, <2>1, <2>2, <2>3, AccountInvSaysNext
<1>6. CASE \E d \in NetDividend :
             /\ account' = [account EXCEPT !.cash = @ + account.pos[t].qty * d]
             /\ flows' = flows + account.pos[t].qty * d
  <2>1. PICK d \in NetDividend :
          /\ account' = [account EXCEPT !.cash = @ + account.pos[t].qty * d]
          /\ flows' = flows + account.pos[t].qty * d
    BY <1>6
  <2> DEFINE n == account.pos[t].qty * d
  <2>2. n \in Int
    <3>1. NetDividend \subseteq Nat
      BY AccountAssumption, Zenon
    <3> QED BY <1>4, <3>1
  <2> HIDE DEF n
  <2>3. flows' = flows + n
    BY <2>1 DEF n
  <2>4. account' = Rewritten(account, t, account.pos[t], account.cash + n, account.frozen,
                             account.margin)
    BY <1>1, <2>1 DEF n, Rewritten, AccountRecord
  <2>5. account.cash + n \in Int
    BY <1>4, <2>2
  <2>6. /\ Touched(account, account', t) /\ account'.cash = account.cash + n
        /\ account'.pos[t] = account.pos[t]
    <3> DEFINE b == account'
    <3>1. b = Rewritten(account, t, account.pos[t], account.cash + n, account.frozen,
                        account.margin)
      BY <2>4
    <3> HIDE DEF b
    <3>2. /\ Touched(account, b, t) /\ b.cash = account.cash + n
          /\ b.pos[t] = account.pos[t]
      BY <1>1, <1>4, <2>5, <3>1, RecordFits, SMTT(60)
    <3> QED BY <3>2 DEF b
  <2>7. BookOf(account', t) = BookOf(account, t) + n
    BY <1>4, <2>2, <2>6 DEF BookOf
  <2> QED BY <1>5, <2>2, <2>3, <2>6, <2>7
<1>7. CASE \E r \in SplitRatio :
             LET p == account.pos[t]
                 qty == Truncated(p.qty * r[1], r[2])
                 cost == IF p.qty = 0 THEN 0
                         ELSE Truncated(Share(account, t, p.cost, Size(qty)) * r[2], r[1])
             IN  /\ account' = [account EXCEPT !.pos[t].qty = qty, !.pos[t].cost = cost]
                 /\ flows' = flows + cost - p.cost
  <2>1. PICK r \in SplitRatio :
             LET p == account.pos[t]
                 qty == Truncated(p.qty * r[1], r[2])
                 cost == IF p.qty = 0 THEN 0
                         ELSE Truncated(Share(account, t, p.cost, Size(qty)) * r[2], r[1])
             IN  /\ account' = [account EXCEPT !.pos[t].qty = qty, !.pos[t].cost = cost]
                 /\ flows' = flows + cost - p.cost
    BY <1>7
  <2>2. r[1] \in Nat /\ r[2] \in Nat /\ r[1] > 0 /\ r[2] > 0
    <3>1. SplitRatio \subseteq (Nat \ {0}) \X (Nat \ {0})
      BY AccountAssumption, Zenon
    <3>2. r[1] \in Nat \ {0} /\ r[2] \in Nat \ {0}
      BY <3>1
    <3> QED BY <3>2
  <2> DEFINE qty == Truncated(account.pos[t].qty * r[1], r[2])
             share == Share(account, t, account.pos[t].cost, Size(qty))
             cost == IF account.pos[t].qty = 0 THEN 0 ELSE Truncated(share * r[2], r[1])
             q == Repositioned(account.pos[t], qty, cost, account.pos[t].realized)
  <2>3. /\ account' = [account EXCEPT !.pos[t].qty = qty, !.pos[t].cost = cost]
        /\ flows' = flows + cost - account.pos[t].cost
    BY <2>1
  <2>4. qty \in Int
    <3>1. account.pos[t].qty * r[1] \in Int
      BY <1>4, <2>2
    <3> QED BY <2>2, <3>1, TruncatedFits
  <2> HIDE DEF qty
  <2>5. cost \in Int
    <3>1. CASE account.pos[t].qty = 0
      BY <3>1
    <3>2. CASE account.pos[t].qty # 0
      <4>1. Size(qty) \in Int
        BY <2>4 DEF Size
      <4>2. share \in Int
        BY <1>4, <3>2, <4>1, ShareFits
      <4> HIDE DEF share
      <4>3. share * r[2] \in Int
        BY <2>2, <4>2
      <4>4. Truncated(share * r[2], r[1]) \in Int
        BY <2>2, <4>3, TruncatedFits
      <4> QED BY <3>2, <4>4
    <3> QED BY <3>1, <3>2
  <2> HIDE DEF cost
  <2>6. account' = Rewritten(account, t, q, account.cash, account.frozen, account.margin)
    <3>1. q = [account.pos[t] EXCEPT !.qty = qty, !.cost = cost]
      BY <1>4 DEF Repositioned, Position
    <3> HIDE DEF q
    <3>2. account' = [account EXCEPT !.pos = [account.pos EXCEPT ![t] = q]]
      BY <1>1, <2>3, <3>1 DEF AccountRecord, Position
    <3> QED BY <1>1, <3>2 DEF Rewritten, AccountRecord
  <2>7. q \in Position /\ q.cost = cost /\ q.realized = account.pos[t].realized
    <3> HIDE DEF q
    <3> QED BY <1>4, <2>4, <2>5, PositionFits DEF q
  <2> HIDE DEF q
  <2>8. /\ Touched(account, account', t) /\ account'.cash = account.cash
        /\ account'.pos[t] = q
    <3> DEFINE b == account'
    <3>1. b = Rewritten(account, t, q, account.cash, account.frozen, account.margin)
      BY <2>6
    <3> HIDE DEF b, share
    <3>2. /\ account \in AccountRecord /\ q \in Position /\ account.cash \in Int
          /\ account.frozen \in Nat /\ account.margin \in Int
      BY <1>1, <1>4, <2>7
    <3>3. Touched(account, b, t) /\ b.cash = account.cash /\ b.pos[t] = q
      BY <3>1, <3>2, RecordFits
    <3> QED BY <3>3 DEF b
  <2> DEFINE n == cost - account.pos[t].cost
  <2>9. n \in Int /\ BookOf(account', t) = BookOf(account, t) + n /\ flows' = flows + n
    BY <1>1, <1>4, <2>3, <2>5, <2>7, <2>8 DEF BookOf
  <2> HIDE DEF n
  <2> QED BY <1>5, <2>8, <2>9
<1> QED BY <1>2, <1>6, <1>7

\* The account with the call set is an account, with the books it had.
LEMMA CallFits ==
  ASSUME NEW x \in AccountRecord, NEW c \in BOOLEAN, NEW a, a = [x EXCEPT !.call = c]
  PROVE  /\ a \in AccountRecord
         /\ a.cash = x.cash /\ a.margin = x.margin /\ a.pos = x.pos
BY Zenon DEF AccountRecord

\* What settlement works with: the futures that are open, what each gains and is paid,
\* and what becomes of the positions.
SettledOf(a) == {s \in Symbol : Settles(a, s)}
GainsOf(a, close) == [s \in Symbol |-> Gain(a, s, close[s])]
PaidOf(a, close) == [s \in Symbol |-> GainsOf(a, close)[s] * Mult(a.pos[s], s)]
PositionsAt(a, close) == [s \in Symbol |-> SettledPosition(a, s, close[s])]

\* Settlement gives the cost of every open future its gain, and the flows the same.
LEMMA SettledBooks ==
  ASSUME NEW a \in AccountRecord, NEW close \in [Symbol -> Price], NEW f \in Int,
         Explained(a, f)
  PROVE  /\ PositionsAt(a, close) \in [Symbol -> Position]
         /\ SumFunctionOnSet(PaidOf(a, close), SettledOf(a)) \in Int
         /\ SumFunctionOnSet(GainsOf(a, close), SettledOf(a)) \in Int
         /\ (a.cash + SumFunctionOnSet(PaidOf(a, close), SettledOf(a)))
                + CostOf(PositionsAt(a, close))
              = InitialCash + (f + SumFunctionOnSet(PaidOf(a, close), SettledOf(a))
                                 + SumFunctionOnSet(GainsOf(a, close), SettledOf(a)))
                + RealizedOf(PositionsAt(a, close))
<1> DEFINE settled == SettledOf(a)
           gains == GainsOf(a, close)
           paid == PaidOf(a, close)
           var == SumFunctionOnSet(paid, settled)
           pos == PositionsAt(a, close)
<1>0. /\ settled = {s \in Symbol : Settles(a, s)}
      /\ gains = [s \in Symbol |-> Gain(a, s, close[s])]
      /\ paid = [s \in Symbol |-> gains[s] * Mult(a.pos[s], s)]
      /\ var = SumFunctionOnSet(paid, settled)
      /\ pos = [s \in Symbol |-> SettledPosition(a, s, close[s])]
  BY Zenon DEF SettledOf, GainsOf, PaidOf, PositionsAt
<1> HIDE DEF settled, gains, paid, var, pos
<1>1. /\ settled \subseteq Symbol /\ settled \in SUBSET Symbol
      /\ IsFiniteSet(Symbol) /\ IsFiniteSet(settled)
  <2>1. settled \subseteq Symbol /\ settled \in SUBSET Symbol
    BY <1>0
  <2>2. IsFiniteSet(Symbol)
    BY AccountAssumption, Zenon
  <2> QED BY <2>1, <2>2, FS_Subset
<1>2. ASSUME NEW s \in Symbol
      PROVE  /\ a.pos[s] \in Position /\ close[s] \in Nat
             /\ a.pos[s].qty \in Int /\ a.pos[s].cost \in Int /\ a.pos[s].realized \in Int
             /\ a.pos[s].held \in Int
  <2>1. Price \subseteq Nat \ {0}
    BY AccountAssumption, Zenon
  <2>2. close[s] \in Nat
    BY <2>1
  <2> QED BY <2>2, AccountNumbers
<1>3. ASSUME NEW s \in Symbol
      PROVE  /\ gains[s] \in Int
             /\ gains[s] = close[s] * a.pos[s].qty - a.pos[s].cost
             /\ paid[s] \in Int
  <2>1. gains[s] = close[s] * a.pos[s].qty - a.pos[s].cost
    BY <1>0, Zenon DEF Gain
  <2>2. close[s] * a.pos[s].qty \in Int
    BY <1>2
  <2>3. gains[s] \in Int
    BY <1>2, <2>1, <2>2
  <2>4. Mult(a.pos[s], s) \in Int
    <3>1. Multiplier \in [Symbol -> Nat \ {0}]
      BY AccountAssumption, Zenon
    <3> QED BY <3>1 DEF Mult
  <2>5. paid[s] = gains[s] * Mult(a.pos[s], s)
    BY <1>0, Zenon
  <2> QED BY <2>1, <2>3, <2>4, <2>5
<1>4. ASSUME NEW s \in Symbol
      PROVE  /\ pos[s] \in Position /\ pos[s].realized = a.pos[s].realized
             /\ pos[s].cost = IF s \in settled THEN a.pos[s].cost + gains[s] ELSE a.pos[s].cost
  <2>1. pos[s] = SettledPosition(a, s, close[s])
    BY <1>0, Zenon
  <2>2. CASE ~ Settles(a, s)
    BY <1>0, <1>2, <2>1, <2>2 DEF SettledPosition
  <2>3. CASE Settles(a, s)
    <3> DEFINE c == close[s] * a.pos[s].qty
               h == MarginOf(s, a.pos[s].qty, close[s])
    <3>1. c \in Int /\ h \in Int
      BY <1>2, MarginFits
    <3>2. c = a.pos[s].cost + gains[s] /\ s \in settled
      BY <1>0, <1>2, <1>3, <2>3, <3>1
    <3>3. pos[s] = [a.pos[s] EXCEPT !.cost = c, !.held = h]
      BY <2>1, <2>3 DEF SettledPosition
    <3> HIDE DEF c, h
    <3>4. pos[s] \in Position /\ pos[s].cost = c /\ pos[s].realized = a.pos[s].realized
      BY <1>2, <3>1, <3>3, Zenon DEF Position
    <3> QED BY <3>2, <3>4
  <2> QED BY <2>2, <2>3
<1>5. pos \in [Symbol -> Position]
  BY <1>0, <1>4
<1>6. var \in Int /\ SumFunctionOnSet(gains, settled) \in Int
  BY <1>0, <1>1, <1>3, SumIsInteger
<1>7. CostOf(pos) = CostOf(a.pos) + SumFunctionOnSet(gains, settled)
  <2> DEFINE before == [s \in Symbol |-> a.pos[s].cost]
             after == [s \in Symbol |-> pos[s].cost]
  <2>1. /\ \A x \in Symbol : before[x] \in Int
        /\ \A x \in settled : gains[x] \in Int
    BY <1>1, <1>2, <1>3
  <2>2. \A x \in Symbol : after[x] = IF x \in settled THEN before[x] + gains[x] ELSE before[x]
    BY <1>4
  <2>3. /\ CostOf(a.pos) = SumFunctionOnSet(before, Symbol)
        /\ CostOf(pos) = SumFunctionOnSet(after, Symbol)
    BY Zenon DEF CostOf
  <2> HIDE DEF before, after
  <2>4. SumFunctionOnSet(after, Symbol)
          = SumFunctionOnSet(before, Symbol) + SumFunctionOnSet(gains, settled)
    BY <1>1, <2>1, <2>2, SumOfSums
  <2> QED BY <2>3, <2>4
<1>8. RealizedOf(pos) = RealizedOf(a.pos)
  <2>1. [s \in Symbol |-> pos[s].realized] = [s \in Symbol |-> a.pos[s].realized]
    BY <1>4
  <2> QED BY <2>1, Zenon DEF RealizedOf
<1>9. /\ CostOf(a.pos) \in Int /\ RealizedOf(a.pos) \in Int /\ InitialCash \in Int
      /\ a.cash \in Int
  <2>1. a.pos \in [Symbol -> Position] /\ a.cash \in Int
    BY DEF AccountRecord
  <2>2. InitialCash \in Nat
    BY AccountAssumption, Zenon
  <2> QED BY <2>1, <2>2, SumsAreNumbers
<1>10. a.cash + CostOf(a.pos) = InitialCash + f + RealizedOf(a.pos)
  BY DEF Explained
<1>11. (a.cash + var) + CostOf(pos)
         = InitialCash + (f + var + SumFunctionOnSet(gains, settled)) + RealizedOf(pos)
  BY <1>6, <1>7, <1>8, <1>9, <1>10
<1> QED BY <1>5, <1>6, <1>11 DEF settled, gains, paid, var, pos

\* Settlement moves the gains through cash, cost and flows, and sets the margin to what
\* the positions hold.
LEMMA SettleStep ==
  ASSUME AccountInv, Settle
  PROVE  AccountInv'
<1>1. /\ account \in AccountRecord /\ due \subseteq Order /\ flows \in Int
      /\ bar \in 0..MaxBars /\ Explained(account, flows)
  BY AccountInvSays
<1>2. PICK close \in [Symbol -> Price] :
        LET settled == {s \in Symbol : Settles(account, s)}
            gains == [s \in Symbol |-> Gain(account, s, close[s])]
            paid == [s \in Symbol |-> gains[s] * Mult(account.pos[s], s)]
            var == SumFunctionOnSet(paid, settled)
            pos == [s \in Symbol |-> SettledPosition(account, s, close[s])]
            a == [account EXCEPT !.cash = @ + var, !.variation = @ + var, !.pos = pos,
                                 !.margin = HeldOf(pos)]
        IN  /\ mark' = close
            /\ account' = IF Below(a, 100) THEN [a EXCEPT !.call = TRUE] ELSE a
            /\ flows' = flows + var + SumFunctionOnSet(gains, settled)
  BY Zenon DEF Settle
<1> DEFINE settled == {s \in Symbol : Settles(account, s)}
           gains == [s \in Symbol |-> Gain(account, s, close[s])]
           paid == [s \in Symbol |-> gains[s] * Mult(account.pos[s], s)]
           var == SumFunctionOnSet(paid, settled)
           pos == [s \in Symbol |-> SettledPosition(account, s, close[s])]
           a == [account EXCEPT !.cash = @ + var, !.variation = @ + var, !.pos = pos,
                                !.margin = HeldOf(pos)]
           moved == SumFunctionOnSet(gains, settled)
<1>3. /\ mark' = close
      /\ account' = IF Below(a, 100) THEN [a EXCEPT !.call = TRUE] ELSE a
      /\ flows' = flows + var + moved
  BY <1>2
<1>4. phase' \in {"risk", "decide"} /\ UNCHANGED << due, bar >>
  BY DEF Settle
<1>5. /\ pos \in [Symbol -> Position] /\ var \in Int /\ moved \in Int
      /\ (account.cash + var) + CostOf(pos)
           = InitialCash + (flows + var + moved) + RealizedOf(pos)
  <2>1. /\ settled = SettledOf(account) /\ gains = GainsOf(account, close)
        /\ paid = PaidOf(account, close) /\ pos = PositionsAt(account, close)
    BY Zenon DEF SettledOf, GainsOf, PaidOf, PositionsAt
  <2>2. /\ var = SumFunctionOnSet(PaidOf(account, close), SettledOf(account))
        /\ moved = SumFunctionOnSet(GainsOf(account, close), SettledOf(account))
    BY <2>1, Zenon
  <2> HIDE DEF settled, gains, paid, var, pos, moved, a
  <2> QED BY <1>1, <2>1, <2>2, SettledBooks
<1> HIDE DEF settled, gains, paid, var, pos, moved
<1>6. HeldOf(pos) \in Int
  BY <1>5, SumsAreNumbers
<1>7. /\ a \in AccountRecord /\ a.cash = account.cash + var /\ a.pos = pos
      /\ a.margin = HeldOf(pos)
  <2>1. account.cash + var \in Int /\ account.variation + var \in Int
    BY <1>1, <1>5 DEF AccountRecord
  <2>2. a = [account EXCEPT !.cash = account.cash + var, !.variation = account.variation + var,
                            !.pos = pos, !.margin = HeldOf(pos)]
    BY <1>1 DEF AccountRecord
  <2> HIDE DEF a
  <2> QED BY <1>1, <1>5, <1>6, <2>1, <2>2, Zenon DEF AccountRecord
<1> HIDE DEF a
<1>8. /\ account' \in AccountRecord /\ account'.cash = account.cash + var
      /\ account'.pos = pos /\ account'.margin = HeldOf(pos)
  <2>1. CASE Below(a, 100)
    <3> DEFINE b == account'
    <3>1. b = [a EXCEPT !.call = TRUE]
      BY <1>3, <2>1
    <3> HIDE DEF b
    <3>2. b \in AccountRecord /\ b.cash = a.cash /\ b.margin = a.margin /\ b.pos = a.pos
      BY <1>7, <3>1, CallFits
    <3> QED BY <1>7, <3>2 DEF b
  <2>2. CASE ~ Below(a, 100)
    BY <1>3, <1>7, <2>2
  <2> QED BY <2>1, <2>2
<1>9. Explained(account', flows') /\ Backed(account')
  BY <1>3, <1>5, <1>8 DEF Explained, Backed
<1>10. mark' \in [Symbol -> Price \cup {0}] /\ flows' \in Int
  BY <1>1, <1>3, <1>5
<1> QED BY <1>1, <1>4, <1>8, <1>9, <1>10, AccountInvSaysNext

LEMMA CheckMarginStep ==
  ASSUME AccountInv, CheckMargin
  PROVE  AccountInv'
<1>1. /\ account \in AccountRecord /\ due \subseteq Order /\ flows \in Int
      /\ mark \in [Symbol -> Price \cup {0}] /\ bar \in 0..MaxBars
      /\ Explained(account, flows) /\ Backed(account)
  BY AccountInvSays DEF CheckMargin
<1>2. phase' \in {"liquidate", "decide"} /\ UNCHANGED << mark, due, bar, flows >>
  BY DEF CheckMargin
<1>3. /\ account' \in AccountRecord /\ account'.cash = account.cash
      /\ account'.margin = account.margin /\ account'.pos = account.pos
  <2> DEFINE b == account'
             c == Below(account, CallPct)
  <2>1. b = [account EXCEPT !.call = c]
    BY DEF CheckMargin
  <2>2. c \in BOOLEAN
    BY DEF Below
  <2> HIDE DEF b, c
  <2>3. b \in AccountRecord /\ b.cash = account.cash /\ b.margin = account.margin
        /\ b.pos = account.pos
    BY <1>1, <2>1, <2>2, CallFits
  <2> QED BY <2>3 DEF b
<1>4. Explained(account', flows') /\ Backed(account')
  BY <1>1, <1>2, <1>3 DEF Explained, Backed
<1> QED BY <1>1, <1>2, <1>3, <1>4, AccountInvSaysNext

\* A forced close is a fill of the whole position without a fee: the margin it held goes
\* with it.
LEMMA LiquidateStep ==
  ASSUME AccountInv, Liquidate
  PROVE  AccountInv'
<1>1. /\ account \in AccountRecord /\ due \subseteq Order /\ flows \in Int
      /\ mark \in [Symbol -> Price \cup {0}] /\ bar \in 0..MaxBars
      /\ Explained(account, flows) /\ Backed(account)
  BY AccountInvSays DEF Liquidate
<1>2. /\ phase' \in {"liquidate", "decide", "aborted"}
      /\ UNCHANGED << mark, due, bar, flows >>
  BY DEF Liquidate
<1>3. CASE UNCHANGED account
  BY <1>1, <1>2, <1>3, AccountInvSaysNext
<1>4. ASSUME NEW t \in Symbol, account.pos[t].qty # 0, NEW price \in Nat, NEW side, NEW qty,
             qty = Size(account.pos[t].qty),
             side = IF account.pos[t].qty > 0 THEN "CLOSE_LONG" ELSE "CLOSE_SHORT",
             account' = Applied(account, t, side, qty, price, 0)
      PROVE  AccountInv'
  <2>1. account.pos[t].qty \in Int /\ BookOf(account, t) \in Int
    BY <1>1, AccountNumbers DEF BookOf
  <2>2. qty \in Nat /\ qty > 0
    BY <1>4, <2>1 DEF Size
  <2>3. /\ side \in BuySides \cup SellSides /\ side \notin ExposureSides /\ side # "SELL"
        /\ side \in {"SELL", "CLOSE_LONG"} => account.pos[t].qty >= qty
        /\ side = "CLOSE_SHORT" => - account.pos[t].qty >= qty
    BY <1>4, <2>1 DEF Size, BuySides, SellSides, ExposureSides
  <2> DEFINE b == account'
  <2>4. b = Applied(account, t, side, qty, price, 0)
    BY <1>4
  <2> HIDE DEF b
  <2>5. /\ Touched(account, b, t) /\ MarginFollows(account, b, t)
        /\ BookOf(b, t) = BookOf(account, t) - (IF side \in ExposureSides THEN 0 ELSE 0)
    BY <1>1, <2>2, <2>3, <2>4, AppliedEffect
  <2>6. BookOf(b, t) = BookOf(account, t) + 0 /\ flows + 0 = flows
    BY <1>1, <2>1, <2>5
  <2>7. Explained(b, flows) /\ Backed(b)
    <3>1. 0 \in Int /\ Touched(account, b, t) /\ MarginFollows(account, b, t)
      BY <2>5
    <3>2. Explained(b, flows + 0) /\ Backed(b)
      BY <1>1, <2>6, <3>1, BooksMove
    <3> QED BY <2>6, <3>2
  <2>8. b \in AccountRecord
    BY <2>5, Zenon DEF Touched
  <2> QED BY <1>1, <1>2, <2>7, <2>8, AccountInvSaysNext DEF b
<1>5. CASE account' # account
  <2>1. PICK t \in {s \in Symbol : account.pos[s].qty # 0} :
          LET qty == Size(account.pos[t].qty)
              long == account.pos[t].qty > 0
              side == IF long THEN "CLOSE_LONG" ELSE "CLOSE_SHORT"
              price == IF long /\ mark[t] > LiquidationSlip THEN mark[t] - LiquidationSlip
                       ELSE IF long THEN mark[t] ELSE mark[t] + LiquidationSlip
          IN  account' = Applied(account, t, side, qty, price, 0)
    BY <1>5, Zenon DEF Liquidate
  <2> DEFINE long == account.pos[t].qty > 0
             price == IF long /\ mark[t] > LiquidationSlip THEN mark[t] - LiquidationSlip
                      ELSE IF long THEN mark[t] ELSE mark[t] + LiquidationSlip
  <2>2. price \in Nat
    <3>1. Price \subseteq Nat \ {0} /\ LiquidationSlip \in Nat
      BY AccountAssumption, Zenon
    <3>2. mark[t] \in Price \cup {0}
      BY <1>1, Zenon
    <3> HIDE DEF long, price
    <3>3. CASE mark[t] \in Price
      <4>1. mark[t] \in Nat
        BY <3>1, <3>3
      <4> QED BY <3>1, <4>1 DEF price
    <3>4. CASE mark[t] = 0
      BY <3>1, <3>4 DEF price
    <3> QED BY <3>2, <3>3, <3>4
  <2>3. account' = Applied(account, t, IF account.pos[t].qty > 0 THEN "CLOSE_LONG" ELSE "CLOSE_SHORT",
                           Size(account.pos[t].qty), price, 0)
    BY <2>1
  <2> HIDE DEF price
  <2> QED BY <1>4, <2>2, <2>3
<1> QED BY <1>3, <1>5

\* The sum of nothing but zeros, which is twice itself.
LEMMA SumOfZeros == SumFunctionOnSet([s \in Symbol |-> 0], Symbol) = 0
<1> DEFINE z == [s \in Symbol |-> 0]
<1>1. IsFiniteSet(Symbol)
  BY AccountAssumption, Zenon
<1>2. \A x \in Symbol : z[x] = 0
  OBVIOUS
<1> HIDE DEF z
<1>3. ASSUME NEW g, NEW h, NEW k, \A x \in Symbol : g[x] = 0 /\ h[x] = 0 /\ k[x] = 0
      PROVE  SumFunctionOnSet(k, Symbol) = SumFunctionOnSet(g, Symbol) + SumFunctionOnSet(h, Symbol)
  <2>1. /\ \A x \in Symbol : g[x] \in Int
        /\ \A x \in Symbol : h[x] \in Int
        /\ \A x \in Symbol : k[x] = IF x \in Symbol THEN g[x] + h[x] ELSE g[x]
    BY <1>3
  <2>2. Symbol \in SUBSET Symbol
    OBVIOUS
  <2> QED BY <1>1, <2>1, <2>2, SumOfSums
<1>4. SumFunctionOnSet(z, Symbol) \in Int
  <2>1. \A x \in Symbol : z[x] \in Int
    BY <1>2
  <2> QED BY <1>1, <2>1, SumIsInteger
<1>5. SumFunctionOnSet(z, Symbol) = SumFunctionOnSet(z, Symbol) + SumFunctionOnSet(z, Symbol)
  BY <1>2, <1>3
<1>6. SumFunctionOnSet(z, Symbol) = 0
  <2>1. ASSUME NEW n \in Int, n = n + n PROVE n = 0
    BY <2>1
  <2> QED BY <1>4, <1>5, <2>1
<1> QED BY <1>6 DEF z

LEMMA AccountInvInit == AccountInit => AccountInv
<1> SUFFICES ASSUME AccountInit PROVE AccountInv
  OBVIOUS
<1> DEFINE none == [s \in Symbol |-> NoPosition]
<1>1. InitialCash \in Nat /\ MaxBars \in Nat
  BY AccountAssumption, Zenon
<1>2. /\ account.cash = InitialCash /\ account.margin = 0 /\ account.pos = none
      /\ account.frozen = 0 /\ account.variation = 0 /\ account.call = FALSE
  BY DEF AccountInit
<1>3. NoPosition \in Position
  BY DEF NoPosition, Position
<1>4. account \in AccountRecord
  <2>1. none \in [Symbol -> Position]
    BY <1>3
  <2> HIDE DEF none
  <2>2. account = [cash |-> InitialCash, frozen |-> 0, margin |-> 0, variation |-> 0,
                   call |-> FALSE, pos |-> none]
    BY DEF AccountInit, none
  <2> QED BY <1>1, <2>1, <2>2 DEF AccountRecord
<1>5. CostOf(none) = 0 /\ RealizedOf(none) = 0
  <2>1. /\ [s \in Symbol |-> none[s].cost] = [s \in Symbol |-> 0]
        /\ [s \in Symbol |-> none[s].realized] = [s \in Symbol |-> 0]
    BY DEF NoPosition
  <2> HIDE DEF none
  <2> QED BY <2>1, SumOfZeros, Zenon DEF CostOf, RealizedOf
<1>6. Explained(account, flows)
  <2> HIDE DEF none
  <2> QED BY <1>1, <1>2, <1>5 DEF Explained, AccountInit
<1>7. /\ mark \in [Symbol -> Price \cup {0}] /\ due \subseteq Order
      /\ phase = "match" /\ bar \in 0..MaxBars /\ flows \in Int
  BY <1>1 DEF AccountInit
<1> QED BY <1>4, <1>6, <1>7, AccountInvSays

LEMMA AccountInvStep == AccountInv /\ [AccountNext]_accountVars => AccountInv'
<1> SUFFICES ASSUME AccountInv, [AccountNext]_accountVars PROVE AccountInv'
  OBVIOUS
<1>1. /\ account \in AccountRecord /\ due \subseteq Order /\ flows \in Int
      /\ mark \in [Symbol -> Price \cup {0}] /\ bar \in 0..MaxBars
      /\ phase \in {"match", "actions", "settle", "risk", "liquidate", "decide", "done",
                    "aborted"}
      /\ Explained(account, flows)
      /\ phase \in {"risk", "liquidate", "decide"} => Backed(account)
  BY AccountInvSays
<1>2. CASE OrderRejected
  <2>1. /\ due' \subseteq Order /\ phase' = "match" /\ UNCHANGED << account, mark, bar, flows >>
    BY <1>1, <1>2 DEF OrderRejected
  <2> QED BY <1>1, <2>1, AccountInvSaysNext
<1>3. CASE AllMatched
  <2>1. phase' = "actions" /\ UNCHANGED << account, mark, due, bar, flows >>
    BY <1>3 DEF AllMatched
  <2> QED BY <1>1, <2>1, AccountInvSaysNext
<1>4. CASE NoCorporateAction
  <2>1. phase' = "settle" /\ UNCHANGED << account, mark, due, bar, flows >>
    BY <1>4 DEF NoCorporateAction
  <2> QED BY <1>1, <2>1, AccountInvSaysNext
<1>5. CASE Decide
  <2>1. /\ due' \subseteq Order /\ phase' \in {"match", "done"} /\ bar' \in 0..MaxBars
        /\ UNCHANGED << account, mark, flows >>
    <3>1. MaxBars \in Nat
      BY AccountAssumption, Zenon
    <3> QED BY <1>1, <1>5, <3>1 DEF Decide
  <2> QED BY <1>1, <2>1, AccountInvSaysNext
<1>6. CASE UNCHANGED accountVars
  <2>1. UNCHANGED << account, mark, due, phase, bar, flows >>
    BY <1>6 DEF accountVars
  <2> QED BY <1>1, <2>1, AccountInvSaysNext
<1> QED BY <1>2, <1>3, <1>4, <1>5, <1>6, OrderFilledStep, CorporateActionStep, SettleStep,
           CheckMarginStep, LiquidateStep DEF AccountNext

THEOREM AccountInvHolds == AccountSpec => []AccountInv
<1>1. QED BY AccountInvInit, AccountInvStep, PTL DEF AccountSpec

\* Every number of the account stays a number, what is frozen one that is not negative,
\* and every order one of a symbol that exists.
THEOREM AccountTypeCorrect == AccountSpec => []AccountTypeOK
<1>1. AccountInv => AccountTypeOK
  BY DEF AccountInv
<1>2. QED BY <1>1, AccountInvHolds, PTL

\* Cash, cost and profit tell one story and the margin is the positions', for any
\* symbols, prices, ratios, fees and any sequence of fills, settlements, splits,
\* dividends and forced closes.
THEOREM BooksBalanceHolds == AccountSpec => []BooksBalance
<1>1. AccountInv => BooksBalance
  BY DEF AccountInv, BooksBalance
<1>2. QED BY <1>1, AccountInvHolds, PTL

\* While a margin call stands, matching makes no position of any symbol larger.
THEOREM CallStopsExposureHolds == AccountSpec => CallStopsExposure
<1> DEFINE Kept == account.call /\ phase = "match" =>
                     \A s \in Symbol : Size(account'.pos[s].qty) <= Size(account.pos[s].qty)
<1>1. ASSUME AccountInv, [AccountNext]_accountVars, account.call, phase = "match",
             NEW s \in Symbol
      PROVE  Size(account'.pos[s].qty) <= Size(account.pos[s].qty)
  <2>1. CASE OrderFilled
    BY <1>1, <2>1, OrderFilledStep
  <2>2. CASE UNCHANGED account
    <3>1. account.pos[s].qty \in Int
      BY <1>1, AccountInvSays, AccountNumbers
    <3>2. account'.pos[s].qty = account.pos[s].qty
      BY <2>2
    <3> QED BY <3>1, <3>2 DEF Size
  <2>3. OrderFilled \/ UNCHANGED account
    BY <1>1 DEF AccountNext, accountVars, OrderRejected, AllMatched, CorporateAction,
                NoCorporateAction, Settle, CheckMargin, Liquidate, Decide
  <2> QED BY <2>1, <2>2, <2>3
<1>2. AccountInv /\ [AccountNext]_accountVars => [Kept]_accountVars
  BY <1>1
<1>3. QED BY <1>2, AccountInvHolds, PTL DEF AccountSpec, CallStopsExposure
=============================================================================
