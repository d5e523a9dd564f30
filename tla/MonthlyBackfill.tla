--------------------------- MODULE MonthlyBackfill ---------------------------
(***************************************************************************)
(* The supervised backfill of the risk models                               *)
(* (gr-data: ops/ricequant_backfill/run_monthly_accounts.py).  One runner    *)
(* walks the calendar job by job: raw child, choice of the bundle, ingest    *)
(* child, audit, ledger.  The ledger is one JSON file, replaced whole at     *)
(* every save: what the runner holds in memory and has not saved is lost     *)
(* with it, while its children live on and keep its lock.                    *)
(***************************************************************************)
EXTENDS RiskImport

CONSTANTS Models,     \* jobs of one trading day: a job's next day is Models jobs later
          Approved,   \* the importer version the approved policy names
          Repair,     \* job -> the observation the policy selects, or NoObservation
          Gap,        \* observations with a known IPO, whose first return is missing
          Recovers,   \* observations that include the IPOs due that day
          Child       \* the ingest process the runner starts

ASSUME BackfillAssumption ==
  /\ Models \in Nat \ {0} /\ Approved \in Version /\ Child \in Importer
  /\ Repair \in [Job -> Observation \cup {NoObservation}]
  /\ Gap \subseteq Observation /\ Recovers \subseteq Observation

VARIABLES
  ledgerStatus,   \* the ledger's "status"
  attempt,        \* status of its last attempt; no older one is ever "running"
  jobs,           \* its jobs
  chosen,         \* their observations
  ipos,           \* pending_ipos, by the job of their origin
  quotaStop,      \* a quota stop of this local day is recorded, of some account
  runner,         \* the runner's process
  owed            \* history: a stop that asks for a review has had none

ledgerVars == << ledgerStatus, attempt, jobs, chosen, ipos, quotaStop >>
backfillVars == << ledgerVars, runner, owed, riskVars >>

RunnerOff == [at |-> "off", job |-> 1, through |-> 1, queued |-> FALSE,
              obs |-> NoObservation, exit |-> "nothing", quota |-> FALSE]

RunnerStage ==
  {"off", "pick", "quota", "raw", "bundle", "ingest", "check", "audit", "failing"}

BackfillTypeOK ==
  /\ RiskTypeOK
  /\ ledgerStatus \in {"initialized", "running", "needs_attention", "budget_deferred",
                       "through_month_completed", "completed"}
  /\ attempt \in {"none", "running", "complete", "failed", "quota_deferred", "interrupted"}
  /\ jobs \in [Job -> {"none", "pending", "complete", "complete_degraded"}]
  /\ chosen \in [Job -> Observation \cup {NoObservation}]
  /\ ipos \in [Job -> {"none", "pending", "confirmed"}]
  /\ quotaStop \in BOOLEAN /\ owed \in BOOLEAN
  /\ runner \in [at : RunnerStage,
                 job : Job, through : Job, queued : BOOLEAN,
                 obs : Observation \cup {NoObservation},
                 exit : {"nothing", "ok", "ineligible"}, quota : BOOLEAN]

BackfillInit ==
  /\ RiskInit
  /\ ledgerStatus = "initialized" /\ attempt = "none"
  /\ jobs = [j \in Job |-> "none"]
  /\ chosen = [j \in Job |-> NoObservation]
  /\ ipos = [j \in Job |-> "none"]
  /\ quotaStop = FALSE /\ owed = FALSE
  /\ runner = RunnerOff

Complete(j) == jobs[j] \in {"complete", "complete_degraded"}
Unfinished(through) == {j \in 1..through : ~ Complete(j)}

\* The first job of the calendar that is not complete.
First(j, through) == j \in Unfinished(through) /\ \A k \in Unfinished(through) : j <= k
-----------------------------------------------------------------------------
(***************************************************************************)
(* Runner.run                                                               *)
(***************************************************************************)

\* The children hold the runner's lock (pass_fds).
Alone ==
  /\ runner.at = "off" /\ ~ runner.queued
  /\ raw.at = "off" \/ raw.owner # "runner"
  /\ imp[Child].at = "off"

\* Variant for the checks: an attempt left running is taken up again.
InterruptedForgotten == FALSE

\* A runner died in the middle of an attempt.
Interrupted == attempt = "running"

\* A start, with or without --resume-after-review: the interrupted attempt is marked, an
\* unreviewed stop or a quota stop of its account today ends it, and else the work begins.
StartRunner(through, reviewed) ==
  /\ Alone /\ checkout = Approved
  /\ attempt' = IF Interrupted THEN "interrupted" ELSE attempt
  /\ IF (Interrupted \/ ledgerStatus = "needs_attention") /\ ~ reviewed
     THEN /\ ledgerStatus' = "needs_attention"
          /\ UNCHANGED << runner, owed >>
     ELSE /\ owed' = (owed /\ ~ reviewed)
          /\ \/ /\ quotaStop
                /\ ledgerStatus' = "budget_deferred" /\ UNCHANGED runner
             \/ /\ ledgerStatus' = "running"
                /\ runner' = [RunnerOff EXCEPT !.at = "pick", !.through = through]
  /\ UNCHANGED << jobs, chosen, ipos, quotaStop, riskVars >>

\* The next job is begun: its attempt is saved as running.
BeginJob ==
  /\ runner.at = "pick"
  /\ \E j \in Job :
       /\ First(j, runner.through)
       /\ attempt' = "running"
       /\ jobs' = [jobs EXCEPT ![j] = "pending"]
       /\ runner' = [runner EXCEPT !.at = "quota", !.job = j]
  /\ UNCHANGED << ledgerStatus, chosen, ipos, quotaStop, owed, riskVars >>

\* The day's config or the save of the attempt fails: run's save stops the ledger, without
\* the attempt or with it.
PickFails ==
  /\ runner.at = "pick"
  /\ \E j \in Job :
       /\ First(j, runner.through)
       /\ \/ UNCHANGED << attempt, jobs >>
          \/ attempt' = "running" /\ jobs' = [jobs EXCEPT ![j] = "pending"]
  /\ ledgerStatus' = "needs_attention" /\ owed' = TRUE
  /\ runner' = RunnerOff
  /\ UNCHANGED << chosen, ipos, quotaStop, riskVars >>

\* None is left up to the month asked for; at the calendar's end no IPO may be pending.
\* Reports that cannot be written are a failure like any other.
ThroughDone ==
  /\ runner.at = "pick" /\ Unfinished(runner.through) = {}
  /\ \/ ledgerStatus' =
          IF runner.through < Jobs THEN "through_month_completed"
          ELSE IF \E j \in Job : ipos[j] = "pending" THEN "needs_attention"
          ELSE "completed"
     \/ ledgerStatus' = "needs_attention"
  /\ owed' = (owed \/ ledgerStatus' = "needs_attention")
  /\ runner' = RunnerOff
  /\ UNCHANGED << attempt, jobs, chosen, ipos, quotaStop, riskVars >>

\* run_job's handler: the attempt's failure is saved ...
Fails(quota) ==
  /\ attempt' = IF quota THEN "quota_deferred" ELSE "failed"
  /\ runner' = [runner EXCEPT !.at = "failing", !.quota = quota]

\* ... and run's, in a second save, stops the ledger.
Stop ==
  /\ runner.at = "failing"
  /\ ledgerStatus' = IF runner.quota THEN "budget_deferred" ELSE "needs_attention"
  /\ quotaStop' = (quotaStop \/ runner.quota)
  /\ owed' = (owed \/ ~ runner.quota)
  /\ runner' = RunnerOff
  /\ UNCHANGED << attempt, jobs, chosen, ipos, riskVars >>

\* The process dies; a child that still waits for the raw lock does not.
RunnerKilled ==
  /\ runner.at # "off"
  /\ owed' = (owed \/ attempt = "running")
  /\ runner' = IF runner.queued THEN [RunnerOff EXCEPT !.queued = TRUE, !.job = runner.job]
               ELSE RunnerOff
  /\ UNCHANGED << ledgerVars, riskVars >>

\* A quota stop is of one local day.
Midnight ==
  /\ quotaStop' = FALSE /\ quotaStop
  /\ UNCHANGED << ledgerStatus, attempt, jobs, chosen, ipos, runner, owed, riskVars >>
-----------------------------------------------------------------------------
(***************************************************************************)
(* Runner.run_job                                                           *)
(***************************************************************************)

\* The account's quota, before anything is asked of the supplier; the child's exit
\* code is not known yet.
AskQuota ==
  /\ runner.at = "quota"
  /\ \/ /\ checkout = Approved
        /\ runner' = [runner EXCEPT !.at = "raw", !.queued = TRUE]
        /\ raw' = [raw EXCEPT !.told = "nothing"]
        /\ UNCHANGED attempt
     \/ Fails(TRUE) /\ UNCHANGED raw
  /\ UNCHANGED << ledgerStatus, jobs, chosen, ipos, quotaStop, owed, checkout, roundDone,
                  published, rowVars, imp >>

\* The raw child gets the variant's lock, or dies waiting for it.
RawChild ==
  /\ runner.queued
  /\ runner' = [runner EXCEPT !.queued = FALSE]
  /\ \/ StartRaw(runner.job, "init", "runner")
     \/ UNCHANGED riskVars
  /\ UNCHANGED << ledgerVars, owed >>

\* Its exit code; a spent quota defers, anything else needs a review.
RawReturned ==
  /\ runner.at = "raw" /\ ~ runner.queued /\ (raw.at = "off" \/ raw.owner # "runner")
  /\ IF raw.told = "ok"
     THEN runner' = [runner EXCEPT !.at = "bundle"] /\ UNCHANGED attempt
     ELSE Fails(raw.told = "budget")
  /\ UNCHANGED << ledgerStatus, jobs, chosen, ipos, quotaStop, owed, riskVars >>

Selected(j) ==
  IF Repair[j] = NoObservation THEN Made(j) ELSE Made(j) \cap {Repair[j]}

\* The IPOs of the day before that this job must recover.
Due(j) == {k \in Job : k + Models <= j /\ (j - k) % Models = 0 /\ ipos[k] = "pending"}

\* One bundle and no choice; due IPOs are of the day before and in it; the ingest child is
\* started on it.
ChooseBundle ==
  /\ runner.at = "bundle" /\ checkout = Approved
  /\ \E o \in Selected(runner.job) :
       /\ Selected(runner.job) = {o}
       /\ Due(runner.job) \subseteq {runner.job - Models}
       /\ Due(runner.job) # {} => o \in Recovers
       /\ runner' = [runner EXCEPT !.at = "ingest", !.obs = o]
       /\ StartImport(Child, {o})
  /\ UNCHANGED << ledgerVars, owed >>

\* Variant for the checks: an import with numeric warnings is taken for a success too.
IngestReturnedWarned ==
  /\ runner.at = "ingest" /\ imp[Child].at = "off"
  /\ IF imp[Child].told \in {"ok", "warned", "ineligible"}
     THEN /\ runner' = [runner EXCEPT !.at = "check", !.exit = imp[Child].told]
          /\ UNCHANGED attempt
     ELSE Fails(FALSE)
  /\ UNCHANGED << ledgerStatus, jobs, chosen, ipos, quotaStop, owed, riskVars >>

\* Exit codes 0 and 4 only.
IngestReturned ==
  /\ runner.at = "ingest" /\ imp[Child].at = "off"
  /\ IF imp[Child].told \in {"ok", "ineligible"}
     THEN /\ runner' = [runner EXCEPT !.at = "check", !.exit = imp[Child].told]
          /\ UNCHANGED attempt
     ELSE Fails(FALSE)
  /\ UNCHANGED << ledgerStatus, jobs, chosen, ipos, quotaStop, owed, riskVars >>

\* Variant for the checks: the child's exit code is evidence enough.
AuditPassesByExit(o, exit) == exit = "ok" \/ o \in Gap

\* audit_import_evidence and the runner's own checks of it.
AuditPasses(o, exit) ==
  /\ binding[o] = Approved /\ << o, Approved >> \in receipts
  /\ o \in captured /\ o \in imported
  /\ IF exit = "ineligible" THEN o \in Gap /\ o \notin Eligible ELSE o \in Eligible

\* Variant for the checks: an IPO is due on the day it is found.
IposAfterEarly(j, o) ==
  [k \in Job |-> IF k \in Due(j) \/ (k = j /\ o \in Gap) THEN "confirmed" ELSE ipos[k]]

\* The due IPOs are confirmed, and the new one waits for its next trading day.
IposAfter(j, o) ==
  [k \in Job |-> IF k \in Due(j) THEN "confirmed"
                 ELSE IF k = j /\ o \in Gap THEN "pending" ELSE ipos[k]]

\* The audit is begun under the approved checkout, which may move while it reads.
BeginAudit ==
  /\ runner.at = "check" /\ checkout = Approved
  /\ runner' = [runner EXCEPT !.at = "audit"]
  /\ UNCHANGED << ledgerVars, owed, riskVars >>

\* The job, its IPOs and its attempt, in one save; reports follow, and may fail.
Record ==
  /\ runner.at = "audit" /\ AuditPasses(runner.obs, runner.exit)
  /\ jobs' = [jobs EXCEPT ![runner.job] =
                IF runner.obs \in Eligible THEN "complete" ELSE "complete_degraded"]
  /\ chosen' = [chosen EXCEPT ![runner.job] = runner.obs]
  /\ ipos' = IposAfter(runner.job, runner.obs)
  /\ \/ /\ attempt' = "complete"
        /\ runner' = [RunnerOff EXCEPT !.at = "pick", !.through = runner.through]
     \/ Fails(FALSE)
  /\ UNCHANGED << ledgerStatus, quotaStop, owed, riskVars >>

\* A check that does not hold, or an error, while no child is running.
StageFails ==
  /\ runner.at \in {"quota", "bundle", "check", "audit"}
  /\ Fails(FALSE)
  /\ UNCHANGED << ledgerStatus, jobs, chosen, ipos, quotaStop, owed, riskVars >>
-----------------------------------------------------------------------------
RunnerNext ==
  \/ \E through \in Job, reviewed \in BOOLEAN : StartRunner(through, reviewed)
  \/ BeginJob \/ PickFails \/ ThroughDone \/ Stop \/ RunnerKilled \/ Midnight
  \/ AskQuota \/ RawChild \/ RawReturned \/ ChooseBundle \/ IngestReturned
  \/ BeginAudit \/ Record \/ StageFails

\* Whatever else happens to the checkout, the raw files and the database: the children's
\* steps, and an operator's own rounds and imports.
AroundRunner ==
  /\ \/ CheckoutMoves
     \/ RawNext
     \/ \E j \in Job, m \in Mode : StartRaw(j, m, "operator")
     \/ \E p \in Importer : ImportNext(p)
     \/ \E p \in Importer \ {Child}, sel \in SUBSET published : StartImport(p, sel)
  /\ UNCHANGED << ledgerVars, runner, owed >>

BackfillNext == RunnerNext \/ AroundRunner

BackfillSpec == BackfillInit /\ [][BackfillNext]_backfillVars
-----------------------------------------------------------------------------
(***************************************************************************)
(* Properties                                                               *)
(***************************************************************************)

\* A job the ledger calls complete stands on an observation of its day that is captured,
\* imported and bound to the approved version, whatever the checkout did meanwhile, and
\* every job before it in the calendar is complete.
CompleteIsImported ==
  \A j \in Job : Complete(j) =>
    /\ chosen[j] \in captured \cap imported
    /\ JobOf[chosen[j]] = j /\ binding[chosen[j]] = Approved
    /\ jobs[j] = "complete" <=> chosen[j] \in Eligible
    /\ \A k \in 1..j : Complete(k)

\* Every IPO gap of a complete job is on the list, once, and is confirmed exactly when
\* the next trading day's job is complete, by an observation that includes it.
IposFollow ==
  \A j \in Job :
    /\ ipos[j] = "none" <=> ~ Complete(j) \/ chosen[j] \notin Gap
    /\ ipos[j] = "confirmed" =>
         j + Models \in Job /\ Complete(j + Models) /\ chosen[j + Models] \in Recovers
    /\ ipos[j] = "pending" /\ j + Models \in Job => ~ Complete(j + Models)

\* "遇到新质量问题暂停": after a stop that asks for a review, or a death in the middle of an
\* attempt, no runner works until it is started with one.
ReviewFirst == owed => runner.at = "off"
=============================================================================
