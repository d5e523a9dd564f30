----------------------------- MODULE RiskImport -----------------------------
(***************************************************************************)
(* The risk bundles of a supplier, from the raw download to PostgreSQL      *)
(* (gr_data: raw/ricequant, ingest/ricequant/riskmodel.py,                  *)
(* db/risk_receipts.py).  `gr-data raw` publishes an observation of a       *)
(* model's trading day on disk and registers its capture; `gr-data ingest`  *)
(* writes it in one transaction with its receipt, its run binding, its      *)
(* checkpoint and its log row.  Processes die anywhere, a commit may lose   *)
(* its answer, and the source checkout may move under a running process.    *)
(***************************************************************************)
EXTENDS Naturals, FiniteSets

CONSTANTS Jobs,          \* trading days of the models, each a raw range of its own
          Observation,   \* observations that can be made
          JobOf,         \* the day each of them is made of
          Eligible,      \* those whose coverage passes the publication gate
          Version,       \* commits of the importer's source
          NoVersion,
          Importer,      \* ingest processes
          NoObservation

Job == 1..Jobs
Mode == {"init", "update"}

ASSUME RiskAssumption ==
  /\ Jobs \in Nat \ {0}
  /\ JobOf \in [Observation -> Job] /\ Eligible \subseteq Observation
  /\ NoVersion \notin Version /\ NoObservation \notin Observation

VARIABLES
  checkout,    \* the latest commit of the importer's source
  raw,         \* the raw process; a variant has one at a time (flock)
  roundDone,   \* "completed" entries of the journals: << mode, observation >>
  published,   \* observations with a manifest on disk
  captured,    \* observations with a row in import_checkpoint
  imported,    \* those whose row names a receipt
  receipts,    \* import_receipt: << observation, importer version >>
  binding,     \* model_run_binding: the version a run's receipt is of
  loads,       \* transactions that wrote the business rows of each observation
  imp          \* the ingest processes

rawVars == << raw, roundDone, published >>
rowVars == << captured, imported, receipts, binding, loads >>
riskVars == << checkout, rawVars, rowVars, imp >>

RawIdle == [at |-> "off", job |-> 1, mode |-> "init", bound |-> NoVersion, todo |-> {},
            owner |-> "operator", told |-> "nothing"]
ImpIdle == [at |-> "off", sel |-> {}, todo |-> {}, obs |-> NoObservation,
            bound |-> NoVersion, own |-> FALSE, told |-> "nothing"]

RiskTypeOK ==
  /\ checkout \in Version
  /\ raw \in [at : {"off", "fetch", "record", "capture"}, job : Job, mode : Mode,
              bound : Version \cup {NoVersion}, todo : SUBSET Observation,
              owner : {"operator", "runner"},
              told : {"nothing", "ok", "budget", "failed"}]
  /\ roundDone \subseteq Mode \X Observation
  /\ published \subseteq Observation
  /\ captured \subseteq Observation /\ imported \subseteq Observation
  /\ receipts \subseteq Observation \X Version
  /\ binding \in [Observation -> Version \cup {NoVersion}]
  /\ loads \in [Observation -> Nat]
  /\ imp \in [Importer -> [at : {"off", "read", "check", "commit", "ask"},
                           sel : SUBSET Observation, todo : SUBSET Observation,
                           obs : Observation \cup {NoObservation},
                           bound : Version \cup {NoVersion}, own : BOOLEAN,
                           told : {"nothing", "ok", "warned", "failed", "ineligible",
                                   "confirmed", "unknown"}]]

RiskInit ==
  /\ checkout \in Version
  /\ raw = RawIdle
  /\ roundDone = {} /\ published = {} /\ captured = {} /\ imported = {} /\ receipts = {}
  /\ binding = [o \in Observation |-> NoVersion]
  /\ loads = [o \in Observation |-> 0]
  /\ imp = [p \in Importer |-> ImpIdle]
-----------------------------------------------------------------------------
\* A commit that touches the importer's source reaches the checkout.
CheckoutMoves ==
  /\ checkout' \in Version \ {checkout}
  /\ UNCHANGED << rawVars, rowVars, imp >>

\* LOCK TABLE ops.table_ownership: one writing transaction at a time.
Locked == \E p \in Importer : imp[p].at = "commit"

\* get_importer_version binds a process to the commit of its first call, and raises
\* once the checkout has moved on.
VersionHolds(bound) == bound \in {NoVersion, checkout}
-----------------------------------------------------------------------------
(***************************************************************************)
(* raw: run_risk_raw for one day                                            *)
(***************************************************************************)
Made(j) == {o \in published : JobOf[o] = j}
Completed(j, m) == {o \in Observation : JobOf[o] = j /\ << m, o >> \in roundDone}

\* Variant for the checks: only the journal is asked, not the disk.
AlreadyMadeByJournal(j, m) == Completed(j, m)

\* What a round finds done: its journal's entry; in init mode, whatever is published.
AlreadyMade(j, m) ==
  IF Completed(j, m) # {} THEN Completed(j, m)
  ELSE IF m = "init" THEN Made(j)
  ELSE {}

\* The variant's lock, and the journal, kept or begun.  prepare_capture has bound the
\* process before it waited for the lock, perhaps to a checkout that has moved since.
StartRaw(j, m, owner) ==
  /\ raw.at = "off"
  /\ \E v \in Version :
       raw' = [at |-> IF AlreadyMade(j, m) = {} THEN "fetch" ELSE "capture", job |-> j,
               mode |-> m, bound |-> v, todo |-> AlreadyMade(j, m), owner |-> owner,
               told |-> raw.told]
  /\ UNCHANGED << checkout, roundDone, published, rowVars, imp >>

\* The process ends; the runner that waits for its child reads its exit code.
RawTells(told) ==
  raw' = [RawIdle EXCEPT !.told = IF raw.owner = "runner" THEN told ELSE raw.told]

\* The downloaded day is validated and renamed into place.
Publish ==
  /\ raw.at = "fetch"
  /\ \E o \in Observation \ published :
       /\ JobOf[o] = raw.job
       /\ published' = published \cup {o}
       /\ raw' = [raw EXCEPT !.at = "record", !.todo = {o}]
  /\ UNCHANGED << checkout, roundDone, rowVars, imp >>

\* The journal's "completed" entry.
RecordRound ==
  /\ raw.at = "record"
  /\ roundDone' = roundDone \cup ({raw.mode} \X raw.todo)
  /\ raw' = [raw EXCEPT !.at = "capture"]
  /\ UNCHANGED << checkout, published, rowVars, imp >>

\* capture_callback: record_capture, in a transaction of its own; a replay finds its row.
RawCaptures ==
  /\ raw.at = "capture"
  /\ ~ Locked /\ VersionHolds(raw.bound)
  /\ \E o \in raw.todo :
       /\ captured' = captured \cup {o}
       /\ raw' = [raw EXCEPT !.todo = @ \ {o}]
  /\ UNCHANGED << checkout, roundDone, published, imported, receipts,
                  binding, loads, imp >>

\* journal.unlink()
RawEnds ==
  /\ raw.at = "capture" /\ raw.todo = {}
  /\ roundDone' = roundDone \ ({raw.mode} \X Completed(raw.job, raw.mode))
  /\ RawTells("ok")
  /\ UNCHANGED << checkout, published, rowVars, imp >>

\* An error; while downloading it may be the spent quota.  Nothing is published.
RawFails ==
  /\ raw.at # "off"
  /\ \/ RawTells("failed")
     \/ raw.at = "fetch" /\ RawTells("budget")
  /\ UNCHANGED << checkout, roundDone, published, rowVars, imp >>

RawKilled ==
  /\ raw.at # "off"
  /\ RawTells("nothing")
  /\ UNCHANGED << checkout, roundDone, published, rowVars, imp >>
-----------------------------------------------------------------------------
(***************************************************************************)
(* ingest: run_risk_ingest                                                  *)
(***************************************************************************)

\* A process ends and says so by its exit code.
Tells(p, told) == imp' = [imp EXCEPT ![p] = [ImpIdle EXCEPT !.told = told]]

StartImport(p, sel) ==
  /\ imp[p].at = "off"
  /\ sel # {} /\ sel \subseteq published
  /\ imp' = [imp EXCEPT ![p] = [ImpIdle EXCEPT !.at = "read", !.sel = sel, !.todo = sel]]
  /\ UNCHANGED << checkout, rawVars, rowVars >>

\* The next observation is read and its capture registered.
Register(p) ==
  /\ imp[p].at = "read"
  /\ ~ Locked /\ VersionHolds(imp[p].bound)
  /\ \E o \in imp[p].todo :
       /\ captured' = captured \cup {o}
       /\ imp' = [imp EXCEPT ![p].at = "check", ![p].obs = o, ![p].bound = checkout]
  /\ UNCHANGED << checkout, rawVars, imported, receipts, binding, loads >>

\* probe_receipt
HasReceipt(p) == << imp[p].obs, imp[p].bound >> \in receipts

\* Variant for the checks: another version's binding is no obstacle.
UnboundForVersion(o, v) == binding[o] # v

\* The run has no binding; commit_receipt would refuse it too.
Unbound(o, v) == binding[o] = NoVersion

\* The transaction's body, under the lock of the ownership table, up to its log row: a
\* replay verifies what is there, a first import needs a run nobody is bound to.
RunBody(p) ==
  /\ imp[p].at = "check"
  /\ ~ Locked /\ VersionHolds(imp[p].bound)
  /\ \/ HasReceipt(p) /\ binding[imp[p].obs] = imp[p].bound /\ imp[p].obs \in imported
     \/ ~ HasReceipt(p) /\ Unbound(imp[p].obs, imp[p].bound)
  /\ imp' = [imp EXCEPT ![p].at = "commit"]
  /\ UNCHANGED << checkout, rawVars, rowVars >>

\* Any other outcome before COMMIT: the transaction is rolled back, and a failed log row
\* is written if it can be.
ImportFails(p) ==
  /\ imp[p].at \in {"read", "check"}
  /\ imp[p].todo # {}
  /\ Tells(p, "failed")
  /\ UNCHANGED << checkout, rawVars, rowVars >>

\* What the transaction leaves behind when it commits.
Committed(p) ==
  LET o == imp[p].obs
      v == imp[p].bound
  IN  /\ receipts' = receipts \cup {<< o, v >>}
      /\ binding' = [binding EXCEPT ![o] = v]
      /\ imported' = imported \cup {o}
      /\ loads' = IF HasReceipt(p) THEN loads ELSE [loads EXCEPT ![o] = @ + 1]

\* COMMIT is answered; an observation that fails the publication gate ends the process.
CommitAnswered(p) ==
  /\ imp[p].at = "commit"
  /\ Committed(p)
  /\ IF imp[p].obs \in Eligible
     THEN imp' = [imp EXCEPT ![p].at = "read", ![p].todo = @ \ {imp[p].obs},
                             ![p].obs = NoObservation]
     ELSE Tells(p, "ineligible")
  /\ UNCHANGED << checkout, rawVars, captured >>

\* COMMIT happened, and its answer was lost.
CommitUnanswered(p) ==
  /\ imp[p].at = "commit"
  /\ Committed(p)
  /\ imp' = [imp EXCEPT ![p].at = "ask", ![p].own = TRUE]
  /\ UNCHANGED << checkout, rawVars, captured >>

\* COMMIT did not happen: an SQLSTATE that says so (23..., 40001, 40P01), or none.
CommitFails(p) ==
  /\ imp[p].at = "commit"
  /\ \/ Tells(p, "failed")
     \/ imp' = [imp EXCEPT ![p].at = "ask"]
  /\ UNCHANGED << checkout, rawVars, rowVars >>

\* Variant for the checks: an exception always means that nothing was written.
AskAlwaysFailed(p) ==
  /\ imp[p].at = "ask"
  /\ Tells(p, "failed")
  /\ UNCHANGED << checkout, rawVars, rowVars >>

\* The receipt is looked for on the same connection, if that still works.
Ask(p) ==
  /\ imp[p].at = "ask"
  /\ \/ Tells(p, "unknown")
     \/ VersionHolds(imp[p].bound) /\ HasReceipt(p) /\ Tells(p, "confirmed")
  /\ UNCHANGED << checkout, rawVars, rowVars >>

\* Nothing is left to import; numeric warnings have an exit code of their own.
EndImport(p) ==
  /\ imp[p].at = "read" /\ imp[p].todo = {}
  /\ \E t \in {"ok", "warned"} : Tells(p, t)
  /\ UNCHANGED << checkout, rawVars, rowVars >>

ImportKilled(p) ==
  /\ imp[p].at # "off"
  /\ Tells(p, "nothing")
  /\ UNCHANGED << checkout, rawVars, rowVars >>
-----------------------------------------------------------------------------
RawNext == Publish \/ RecordRound \/ RawCaptures \/ RawEnds \/ RawFails \/ RawKilled

ImportNext(p) ==
  \/ Register(p) \/ RunBody(p) \/ ImportFails(p)
  \/ CommitAnswered(p) \/ CommitUnanswered(p) \/ CommitFails(p)
  \/ Ask(p) \/ EndImport(p) \/ ImportKilled(p)

RiskNext ==
  \/ CheckoutMoves
  \/ \E j \in Job, m \in Mode : StartRaw(j, m, "operator")
  \/ RawNext
  \/ \E p \in Importer : ImportNext(p) \/ \E sel \in SUBSET published : StartImport(p, sel)

RiskSpec == RiskInit /\ [][RiskNext]_riskVars
-----------------------------------------------------------------------------
(***************************************************************************)
(* Properties                                                               *)
(***************************************************************************)

\* An observation is imported whole and once, by one version of the importer: whoever
\* retries, replays or dies, its receipt, its run's binding, its checkpoint and its rows
\* come together, and only after its capture.
ImportedOnce ==
  \A o \in Observation :
    /\ \A v \in Version : << o, v >> \in receipts <=> binding[o] = v
    /\ o \in imported <=> binding[o] # NoVersion
    /\ o \in imported => o \in captured
    /\ loads[o] = IF o \in imported THEN 1 ELSE 0

\* "It must not be recorded as a failed run" (IngestStopError): a process says failed only
\* of an observation that it did not commit, also when the answer to its COMMIT was lost,
\* and says ok, ineligible or confirmed only of what is there.
ReportsHonest ==
  [][\A p \in Importer : imp[p].at # "off" /\ imp'[p].at = "off" =>
       /\ imp'[p].told = "failed" => ~ imp[p].own
       /\ imp'[p].told \in {"ineligible", "confirmed"} => imp[p].obs \in imported'
       /\ imp'[p].told \in {"ok", "warned"} => imp[p].sel \subseteq imported']_riskVars

\* A day is downloaded at most once in init mode, wherever the process died before, and
\* a round that ends well leaves a captured observation of its day.
InitFetchesOnce ==
  [][/\ published' # published /\ raw.mode = "init" => Made(raw.job) = {}
     /\ raw.at = "capture" /\ raw.todo = {} => Made(raw.job) \cap captured # {}]_riskVars
=============================================================================
