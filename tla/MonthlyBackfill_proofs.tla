----------------------- MODULE MonthlyBackfill_proofs -----------------------
(***************************************************************************)
(* Proofs about RiskImport and MonthlyBackfill, for any calendar, any       *)
(* observations, importer versions and number of ingest processes.          *)
(***************************************************************************)
EXTENDS MonthlyBackfill, TLAPS

\* The lock: one process at most stands before its COMMIT, and its run is still bound to
\* nobody or to its own version.
WriterFits ==
  /\ \A p, q \in Importer : imp[p].at = "commit" /\ imp[q].at = "commit" => p = q
  /\ \A p \in Importer :
       imp[p].at = "commit" => binding[imp[p].obs] \in {NoVersion, imp[p].bound}

\* What an ingest process has on its hands: a captured observation and the version that it
\* bound itself to; what it is through with is imported.
ImportersFit ==
  \A p \in Importer :
    /\ imp[p].at \in {"check", "commit", "ask"} =>
         imp[p].obs \in captured /\ imp[p].bound \in Version
    /\ imp[p].own => imp[p].at = "ask" /\ imp[p].obs \in imported
    /\ imp[p].at # "off" => imp[p].sel \ imp[p].todo \subseteq imported

RiskInv == RiskTypeOK /\ ImportedOnce /\ WriterFits /\ ImportersFit

\* Steps of the raw processes leave the importers and their rows alone; captures only grow.
LEMMA RawStepKeeps ==
  ASSUME RiskInv,
         CheckoutMoves \/ RawNext \/ \E j \in Job, m \in Mode, w \in {"operator", "runner"} :
                                       StartRaw(j, m, w)
  PROVE  RiskInv'
<1> USE DEF RiskInv
<1>1. /\ UNCHANGED << imported, receipts, binding, loads, imp >>
      /\ captured \subseteq captured'
  BY DEF CheckoutMoves, RawNext, StartRaw, Publish, RecordRound, RawCaptures, RawEnds, RawFails,
         RawKilled, rawVars, rowVars
<1>2. RiskTypeOK'
  <2>1. CASE CheckoutMoves
    BY <2>1 DEF CheckoutMoves, RiskTypeOK, rawVars, rowVars
  <2>2. CASE \E j \in Job, m \in Mode, w \in {"operator", "runner"} : StartRaw(j, m, w)
    <3> PICK j \in Job, m \in Mode, w \in {"operator", "runner"} : StartRaw(j, m, w)
      BY <2>2
    <3>1. AlreadyMade(j, m) \subseteq Observation
      BY DEF AlreadyMade, Completed, Made, RiskTypeOK
    <3>2. QED BY <3>1 DEF StartRaw, RiskTypeOK, rowVars
  <2>3. CASE Publish
    <3> PICK o \in Observation \ published :
          /\ published' = published \cup {o}
          /\ raw' = [raw EXCEPT !.at = "record", !.todo = {o}]
          /\ UNCHANGED << checkout, roundDone, rowVars, imp >>
      BY <2>3 DEF Publish
    <3> QED BY DEF RiskTypeOK, rowVars
  <2>4. CASE RecordRound
    BY <2>4 DEF RecordRound, RiskTypeOK, rowVars
  <2>5. CASE RawCaptures
    BY <2>5 DEF RawCaptures, RiskTypeOK, rowVars
  <2>6. CASE RawEnds \/ RawFails \/ RawKilled
    <3>1. RawIdle \in [at : {"off"}, job : Job, mode : Mode, bound : {NoVersion},
                       todo : {{}}, owner : {"operator"}, told : {"nothing"}]
      BY RiskAssumption DEF RawIdle, Job, Mode
    <3>2. \E told \in {"ok", "budget", "failed", "nothing"} : RawTells(told)
      BY <2>6 DEF RawEnds, RawFails, RawKilled
    <3>3. raw' \in [at : {"off", "fetch", "record", "capture"}, job : Job, mode : Mode,
                    bound : Version \cup {NoVersion}, todo : SUBSET Observation,
                    owner : {"operator", "runner"},
                    told : {"nothing", "ok", "budget", "failed"}]
      BY <3>1, <3>2 DEF RawTells, RiskTypeOK
    <3>4. /\ UNCHANGED << checkout, published, captured >>
          /\ roundDone' \subseteq Mode \X Observation
      BY <2>6 DEF RawEnds, RawFails, RawKilled, RiskTypeOK, rowVars
    <3>5. QED BY <1>1, <3>3, <3>4 DEF RiskTypeOK
  <2>7. QED BY <2>1, <2>2, <2>3, <2>4, <2>5, <2>6 DEF RawNext
<1>3. ImportedOnce'
  BY <1>1 DEF ImportedOnce
<1>4. WriterFits' /\ ImportersFit'
  BY <1>1 DEF WriterFits, ImportersFit
<1>5. QED BY <1>2, <1>3, <1>4

\* The types of an ingest process.
ImpType == [at : {"off", "read", "check", "commit", "ask"},
            sel : SUBSET Observation, todo : SUBSET Observation,
            obs : Observation \cup {NoObservation},
            bound : Version \cup {NoVersion}, own : BOOLEAN,
            told : {"nothing", "ok", "warned", "failed", "ineligible", "confirmed", "unknown"}]

\* What ImportersFit says of one process, of the rows that are there.
Fits(r, cap, loaded) ==
  /\ r.at \in {"check", "commit", "ask"} => r.obs \in cap /\ r.bound \in Version
  /\ r.own => r.at = "ask" /\ r.obs \in loaded
  /\ r.at # "off" => r.sel \ r.todo \subseteq loaded

\* A step of one ingest process that writes no rows but a capture.
LEMMA ImporterStep ==
  ASSUME RiskInv, NEW p \in Importer, NEW r \in ImpType,
         imp' = [imp EXCEPT ![p] = r],
         UNCHANGED << checkout, rawVars, imported, receipts, binding, loads >>,
         captured \subseteq captured', captured' \subseteq Observation,
         Fits(r, captured', imported),
         r.at = "commit" => ~ Locked /\ binding[r.obs] \in {NoVersion, r.bound}
  PROVE  RiskInv'
<1> USE DEF RiskInv
<1>1. imp'[p] = r /\ \A q \in Importer : q # p => imp'[q] = imp[q]
  BY DEF RiskTypeOK
<1>2. RiskTypeOK'
  BY DEF RiskTypeOK, ImpType, rawVars
<1>3. ImportedOnce'
  BY DEF ImportedOnce
<1>4. WriterFits'
  BY <1>1 DEF WriterFits, Locked
<1>5. ImportersFit'
  BY <1>1 DEF ImportersFit, Fits
<1>6. QED BY <1>2, <1>3, <1>4, <1>5

\* The transaction commits: the only step that writes receipts, bindings and rows.
LEMMA CommitStep ==
  ASSUME RiskInv, NEW p \in Importer, NEW r \in ImpType,
         imp[p].at = "commit", Committed(p),
         imp' = [imp EXCEPT ![p] = r],
         UNCHANGED << checkout, rawVars, captured >>,
         Fits(r, captured, imported'), r.at # "commit"
  PROVE  RiskInv'
<1> USE DEF RiskInv
<1> DEFINE o == imp[p].obs
           v == imp[p].bound
<1>1. /\ o \in Observation /\ v \in Version /\ v # NoVersion /\ o \in captured
      /\ binding[o] \in {NoVersion, v}
  BY RiskAssumption DEF RiskTypeOK, WriterFits, ImportersFit
<1>2. /\ receipts' = receipts \cup {<< o, v >>}
      /\ binding' = [binding EXCEPT ![o] = v]
      /\ imported' = imported \cup {o}
      /\ loads' = IF << o, v >> \in receipts THEN loads ELSE [loads EXCEPT ![o] = @ + 1]
  BY DEF Committed, HasReceipt
<1>3. imp'[p] = r /\ \A q \in Importer : q # p => imp'[q] = imp[q]
  BY DEF RiskTypeOK
<1> HIDE DEF o, v
<1>4. RiskTypeOK'
  BY <1>1, <1>2 DEF RiskTypeOK, ImpType, rawVars
<1>5. ImportedOnce'
  <2>1. o \in imported <=> << o, v >> \in receipts
    BY <1>1 DEF ImportedOnce
  <2>2. /\ binding'[o] = v /\ \A n \in Observation : n # o => binding'[n] = binding[n]
        /\ loads'[o] = 1 /\ \A n \in Observation : n # o => loads'[n] = loads[n]
    BY <1>1, <1>2, <2>1 DEF RiskTypeOK, ImportedOnce
  <2>3. \A n \in Observation, w \in Version : << n, w >> \in receipts' <=> binding'[n] = w
    <3>1. \A w \in Version : << o, w >> \in receipts => w = v
      BY <1>1, RiskAssumption DEF ImportedOnce
    <3>2. \A n \in Observation, w \in Version :
            << n, w >> \in receipts' <=> << n, w >> \in receipts \/ (n = o /\ w = v)
      BY <1>2
    <3>3. QED BY <1>1, <2>2, <3>1, <3>2, ZenonT(40) DEF ImportedOnce
  <2>4. QED BY <1>1, <1>2, <2>2, <2>3 DEF ImportedOnce
<1>6. WriterFits'
  BY <1>3 DEF WriterFits
<1>7. ImportersFit'
  BY <1>2, <1>3 DEF ImportersFit, Fits
<1>8. QED BY <1>4, <1>5, <1>6, <1>7

\* An ingest process is started on published observations.
LEMMA StartImportKeeps ==
  ASSUME RiskInv, NEW p \in Importer, NEW sel, StartImport(p, sel)
  PROVE  RiskInv'
<1> DEFINE r == [ImpIdle EXCEPT !.at = "read", !.sel = sel, !.todo = sel]
<1>1. sel \subseteq Observation
  BY DEF StartImport, RiskInv, RiskTypeOK
<1>2. r \in ImpType /\ Fits(r, captured, imported) /\ r.at = "read"
  BY <1>1 DEF ImpType, ImpIdle, Fits
<1>3. imp' = [imp EXCEPT ![p] = r] /\ UNCHANGED << checkout, rawVars, rowVars >>
  BY DEF StartImport
<1>4. captured \subseteq Observation
  BY DEF RiskInv, RiskTypeOK
<1> HIDE DEF r
<1>5. QED BY <1>2, <1>3, <1>4, ImporterStep DEF rowVars

\* Every step of an ingest process keeps the invariant.
LEMMA ImportKeeps ==
  ASSUME RiskInv, NEW p \in Importer, ImportNext(p)
  PROVE  RiskInv'
<1>1. /\ imp[p] \in ImpType /\ Fits(imp[p], captured, imported) /\ captured \subseteq Observation
      /\ imp \in [Importer -> ImpType]
  BY DEF RiskInv, RiskTypeOK, ImpType, ImportersFit, Fits
<1>2. \A told \in {"nothing", "ok", "warned", "failed", "ineligible", "confirmed", "unknown"} :
        LET r == [ImpIdle EXCEPT !.told = told]
        IN  /\ r \in ImpType /\ r.at = "off"
            /\ \A cap, loaded : Fits(r, cap, loaded)
  BY ZenonT(40) DEF ImpType, ImpIdle, Fits
<1>3. CASE \E told \in {"nothing", "ok", "warned", "failed", "confirmed", "unknown"} :
             Tells(p, told) /\ UNCHANGED << checkout, rawVars, rowVars >>
  <2> PICK told \in {"nothing", "ok", "warned", "failed", "confirmed", "unknown"} :
             Tells(p, told) /\ UNCHANGED << checkout, rawVars, rowVars >>
    BY <1>3
  <2> DEFINE r == [ImpIdle EXCEPT !.told = told]
  <2>1. /\ r \in ImpType /\ r.at = "off" /\ Fits(r, captured, imported)
        /\ imp' = [imp EXCEPT ![p] = r]
    BY <1>2 DEF Tells
  <2> HIDE DEF r
  <2>2. QED BY <1>1, <2>1, ImporterStep DEF rowVars
<1>4. CASE Register(p)
  <2> PICK o \in imp[p].todo :
        /\ captured' = captured \cup {o}
        /\ imp' = [imp EXCEPT ![p].at = "check", ![p].obs = o, ![p].bound = checkout]
    BY <1>4 DEF Register
  <2> DEFINE r == [imp[p] EXCEPT !.at = "check", !.obs = o, !.bound = checkout]
  <2>1. o \in Observation /\ checkout \in Version /\ imp[p].at = "read"
    BY <1>1, <1>4 DEF ImpType, RiskInv, RiskTypeOK, Register
  <2>2. r \in ImpType /\ r.at = "check" /\ Fits(r, captured', imported)
    BY <1>1, <2>1 DEF ImpType, Fits
  <2>3. imp' = [imp EXCEPT ![p] = r]
    BY <1>1
  <2> HIDE DEF r
  <2>4. /\ UNCHANGED << checkout, rawVars, imported, receipts, binding, loads >>
        /\ captured \subseteq captured' /\ captured' \subseteq Observation
    BY <1>1, <1>4, <2>1 DEF Register
  <2>5. QED BY <2>2, <2>3, <2>4, ImporterStep
<1>5. CASE RunBody(p)
  <2> DEFINE r == [imp[p] EXCEPT !.at = "commit"]
  <2>1. /\ imp[p].at = "check" /\ binding[imp[p].obs] \in {NoVersion, imp[p].bound}
        /\ ~ Locked /\ imp' = [imp EXCEPT ![p] = r]
        /\ UNCHANGED << checkout, rawVars, rowVars >>
    BY <1>1, <1>5 DEF RunBody, Unbound
  <2>2. /\ r \in ImpType /\ r.at = "commit" /\ r.obs = imp[p].obs /\ r.bound = imp[p].bound
        /\ Fits(r, captured, imported)
    BY <1>1, <2>1 DEF ImpType, Fits
  <2> HIDE DEF r
  <2>3. QED BY <1>1, <2>1, <2>2, ImporterStep DEF rowVars
<1>6. CASE CommitAnswered(p)
  <2>1. /\ imp[p].at = "commit" /\ Committed(p) /\ imported' = imported \cup {imp[p].obs}
        /\ UNCHANGED << checkout, rawVars, captured >>
    BY <1>6 DEF CommitAnswered, Committed
  <2>2. CASE imp[p].obs \in Eligible
    <3> DEFINE r == [imp[p] EXCEPT !.at = "read", !.todo = @ \ {imp[p].obs},
                                   !.obs = NoObservation]
    <3>1. imp' = [imp EXCEPT ![p] = r]
      BY <1>1, <1>6, <2>2 DEF CommitAnswered
    <3>2. r \in ImpType /\ r.at = "read" /\ Fits(r, captured, imported')
      BY <1>1, <2>1 DEF ImpType, Fits
    <3> HIDE DEF r
    <3>3. QED BY <2>1, <3>1, <3>2, CommitStep
  <2>3. CASE imp[p].obs \notin Eligible
    <3> DEFINE r == [ImpIdle EXCEPT !.told = "ineligible"]
    <3>1. r \in ImpType /\ r.at = "off" /\ Fits(r, captured, imported')
      BY <1>2
    <3>2. imp' = [imp EXCEPT ![p] = r]
      BY <1>6, <2>3 DEF CommitAnswered, Tells
    <3> HIDE DEF r
    <3>3. QED BY <2>1, <3>1, <3>2, CommitStep
  <2>4. QED BY <2>2, <2>3
<1>7. CASE CommitUnanswered(p)
  <2> DEFINE r == [imp[p] EXCEPT !.at = "ask", !.own = TRUE]
  <2>1. /\ imp[p].at = "commit" /\ Committed(p) /\ imported' = imported \cup {imp[p].obs}
        /\ UNCHANGED << checkout, rawVars, captured >> /\ imp' = [imp EXCEPT ![p] = r]
    BY <1>1, <1>7 DEF CommitUnanswered, Committed
  <2>2. r \in ImpType /\ r.at = "ask" /\ Fits(r, captured, imported')
    BY <1>1, <2>1 DEF ImpType, Fits
  <2> HIDE DEF r
  <2>3. QED BY <2>1, <2>2, CommitStep
<1>8. CASE CommitFails(p) /\ imp' = [imp EXCEPT ![p].at = "ask"]
  <2> DEFINE r == [imp[p] EXCEPT !.at = "ask"]
  <2>1. imp[p].at = "commit" /\ UNCHANGED << checkout, rawVars, rowVars >>
        /\ imp' = [imp EXCEPT ![p] = r]
    BY <1>1, <1>8 DEF CommitFails
  <2>2. r \in ImpType /\ r.at = "ask" /\ Fits(r, captured, imported)
    BY <1>1, <2>1 DEF ImpType, Fits
  <2> HIDE DEF r
  <2>3. QED BY <1>1, <2>1, <2>2, ImporterStep DEF rowVars
<1>9. QED
  BY <1>3, <1>4, <1>5, <1>6, <1>7, <1>8
     DEF ImportNext, ImportFails, CommitFails, Ask, EndImport, ImportKilled

\* Nothing is imported yet.
LEMMA RiskInvInit ==
  ASSUME RiskInit
  PROVE  RiskInv
<1> USE DEF RiskInit
<1>1. RiskTypeOK
  BY RiskAssumption DEF RiskTypeOK, RawIdle, ImpIdle, Job, Mode
<1>2. ImportedOnce
  BY RiskAssumption DEF ImportedOnce
<1>3. WriterFits /\ ImportersFit
  BY DEF WriterFits, ImportersFit, ImpIdle
<1>4. QED BY <1>1, <1>2, <1>3 DEF RiskInv

\* Every step of the download and the import keeps the invariant.
LEMMA RiskStepKeeps ==
  ASSUME RiskInv, [RiskNext]_riskVars
  PROVE  RiskInv'
<1>1. CASE CheckoutMoves \/ RawNext
  BY <1>1, RawStepKeeps
<1>2. CASE \E j \in Job, m \in Mode : StartRaw(j, m, "operator")
  BY <1>2, RawStepKeeps
<1>3. CASE \E p \in Importer : ImportNext(p) \/ \E sel \in SUBSET published : StartImport(p, sel)
  BY <1>3, ImportKeeps, StartImportKeeps
<1>4. CASE UNCHANGED riskVars
  BY <1>4 DEF riskVars, rawVars, rowVars, RiskInv, RiskTypeOK, ImportedOnce, WriterFits,
              ImportersFit
<1>5. QED BY <1>1, <1>2, <1>3, <1>4 DEF RiskNext

\* The inductive invariant of the download and the import.
THEOREM RiskInvHolds == RiskSpec => []RiskInv
<1>1. RiskInit => RiskInv
  BY RiskInvInit
<1>2. RiskInv /\ [RiskNext]_riskVars => RiskInv'
  BY RiskStepKeeps
<1>3. QED BY <1>1, <1>2, PTL DEF RiskSpec

\* riskmodel.py's transaction: however many processes import, replay, retry or die, an
\* observation is imported whole and once, by one version of the importer.
THEOREM ImportedOnceHolds == RiskSpec => []ImportedOnce
<1>1. RiskInv => ImportedOnce
  BY DEF RiskInv
<1>2. QED BY <1>1, RiskInvHolds, PTL

\* What one process says when it ends.
LEMMA EndsHonestly ==
  ASSUME RiskInv, NEW p \in Importer, ImportNext(p), imp[p].at # "off", imp'[p].at = "off"
  PROVE  /\ imp'[p].told = "failed" => ~ imp[p].own
         /\ imp'[p].told \in {"ineligible", "confirmed"} => imp[p].obs \in imported'
         /\ imp'[p].told \in {"ok", "warned"} => imp[p].sel \subseteq imported'
<1>1. /\ imp \in [Importer -> ImpType]
      /\ imp[p].own => imp[p].at = "ask"
      /\ imp[p].sel \ imp[p].todo \subseteq imported
  BY DEF RiskInv, RiskTypeOK, ImpType, ImportersFit
<1>2. \A told \in {"nothing", "ok", "warned", "failed", "ineligible", "confirmed", "unknown"} :
        Tells(p, told) => imp'[p].told = told
  BY <1>1 DEF Tells, ImpIdle
<1>3. CASE Register(p) \/ RunBody(p) \/ CommitUnanswered(p)
  <2>1. imp[p] \in ImpType
    BY <1>1
  <2>2. CASE Register(p)
    <3> PICK o \in imp[p].todo :
          imp' = [imp EXCEPT ![p].at = "check", ![p].obs = o, ![p].bound = checkout]
      BY <2>2 DEF Register
    <3>1. imp'[p].at = "check"
      BY <1>1, <2>1 DEF ImpType
    <3>2. QED BY <3>1
  <2>3. CASE RunBody(p)
    BY <1>1, <2>1, <2>3 DEF RunBody, ImpType
  <2>4. CASE CommitUnanswered(p)
    <3>1. imp'[p].at = "ask"
      BY <1>1, <2>1, <2>4 DEF CommitUnanswered, ImpType
    <3>2. QED BY <3>1
  <2>5. QED BY <1>3, <2>2, <2>3, <2>4
<1>4. CASE ImportFails(p) \/ (CommitFails(p) /\ Tells(p, "failed"))
  BY <1>1, <1>2, <1>4 DEF ImportFails, CommitFails
<1>5. CASE CommitFails(p) /\ imp' = [imp EXCEPT ![p].at = "ask"]
  BY <1>1, <1>5 DEF ImpType
<1>6. CASE CommitAnswered(p)
  <2>1. CASE imp[p].obs \in Eligible
    BY <1>1, <1>6, <2>1 DEF CommitAnswered, ImpType
  <2>2. CASE imp[p].obs \notin Eligible
    BY <1>2, <1>6, <2>2 DEF CommitAnswered, Committed
  <2>3. QED BY <2>1, <2>2
<1>7. CASE Ask(p)
  <2>1. CASE Tells(p, "unknown")
    BY <1>2, <2>1
  <2>2. CASE HasReceipt(p) /\ Tells(p, "confirmed")
    <3>1. imp[p].obs \in Observation /\ imp[p].bound \in Version
      BY <1>7 DEF Ask, RiskInv, RiskTypeOK, ImportersFit
    <3>2. imp[p].obs \in imported
      BY <2>2, <3>1, RiskAssumption DEF HasReceipt, RiskInv, ImportedOnce
    <3>3. QED BY <1>2, <1>7, <2>2, <3>2 DEF Ask, rowVars
  <2>3. QED BY <1>7, <2>1, <2>2 DEF Ask
<1>8. CASE EndImport(p)
  BY <1>1, <1>2, <1>8 DEF EndImport, rowVars
<1>9. CASE ImportKilled(p)
  BY <1>2, <1>9 DEF ImportKilled
<1>10. QED
  BY <1>3, <1>4, <1>5, <1>6, <1>7, <1>8, <1>9 DEF ImportNext, CommitFails

\* IngestStopError: no process calls an observation failed that it committed, nor done
\* what is not there.
THEOREM ReportsHonestHolds == RiskSpec => ReportsHonest
<1> DEFINE Honest(p) ==
      imp[p].at # "off" /\ imp'[p].at = "off" =>
        /\ imp'[p].told = "failed" => ~ imp[p].own
        /\ imp'[p].told \in {"ineligible", "confirmed"} => imp[p].obs \in imported'
        /\ imp'[p].told \in {"ok", "warned"} => imp[p].sel \subseteq imported'
<1>1. RiskInv /\ [RiskNext]_riskVars => [\A p \in Importer : Honest(p)]_riskVars
  <2> SUFFICES ASSUME RiskInv, RiskNext, NEW p \in Importer
               PROVE  Honest(p)
    OBVIOUS
  <2>1. CASE imp'[p] = imp[p]
    BY <2>1
  <2>2. CASE ImportNext(p)
    BY <2>2, EndsHonestly
  <2>3. CASE \E sel \in SUBSET published : StartImport(p, sel)
    BY <2>3 DEF StartImport
  <2>4. imp'[p] = imp[p] \/ ImportNext(p) \/ \E sel \in SUBSET published : StartImport(p, sel)
    <3>1. CASE CheckoutMoves \/ RawNext
      BY <3>1 DEF CheckoutMoves, RawNext, Publish, RecordRound, RawCaptures, RawEnds, RawFails,
                  RawKilled
    <3>2. CASE \E j \in Job, m \in Mode : StartRaw(j, m, "operator")
      BY <3>2 DEF StartRaw
    <3>3. CASE \E q \in Importer : ImportNext(q) \/ \E sel \in SUBSET published : StartImport(q, sel)
      <4>1. PICK q \in Importer : ImportNext(q) \/ \E sel \in SUBSET published : StartImport(q, sel)
        BY <3>3
      <4>2. q = p \/ imp'[p] = imp[p]
        BY <4>1 DEF ImportNext, Register, RunBody, ImportFails, CommitAnswered, CommitUnanswered,
                    CommitFails, Ask, EndImport, ImportKilled, StartImport, Tells, RiskInv,
                    RiskTypeOK
      <4>3. QED BY <4>1, <4>2
    <3>4. QED BY <3>1, <3>2, <3>3 DEF RiskNext
  <2>5. QED BY <2>1, <2>2, <2>3, <2>4
<1>2. QED BY <1>1, RiskInvHolds, PTL DEF RiskSpec, ReportsHonest
\* The journals name published observations, nothing is fetched in init mode while the day
\* has one, and what a round has left to capture, or has captured, is of its day.
RawFits ==
  /\ roundDone \subseteq Mode \X published
  /\ raw.at = "fetch" /\ raw.mode = "init" => Made(raw.job) = {}
  /\ raw.at = "record" => raw.todo # {} /\ raw.todo \subseteq Made(raw.job)
  /\ raw.at = "capture" => \E o \in Made(raw.job) : o \in raw.todo \cup captured

\* Every step of the download and the import keeps it.
LEMMA RawFitsStep ==
  ASSUME RiskInv, RawFits, [RiskNext]_riskVars
  PROVE  RawFits'
<1>1. CASE UNCHANGED << raw, roundDone, published >> /\ captured \subseteq captured'
  BY <1>1 DEF RawFits, Made
<1>2. CASE \E j \in Job, m \in Mode : StartRaw(j, m, "operator")
  <2> PICK j \in Job, m \in Mode : StartRaw(j, m, "operator")
    BY <1>2
  <2>1. UNCHANGED << roundDone, published, captured >>
    BY DEF StartRaw, rowVars
  <2>2. AlreadyMade(j, m) \subseteq Made(j) /\ (m = "init" /\ AlreadyMade(j, m) = {} => Made(j) = {})
    BY DEF AlreadyMade, Completed, Made, RawFits
  <2>3. /\ raw'.job = j /\ raw'.mode = m /\ raw'.todo = AlreadyMade(j, m)
        /\ raw'.at = IF AlreadyMade(j, m) = {} THEN "fetch" ELSE "capture"
    BY DEF StartRaw
  <2>4. QED BY <2>1, <2>2, <2>3 DEF RawFits, Made
<1>3. CASE Publish
  <2> PICK o \in Observation \ published :
        /\ JobOf[o] = raw.job /\ published' = published \cup {o}
        /\ raw' = [raw EXCEPT !.at = "record", !.todo = {o}]
        /\ UNCHANGED << checkout, roundDone, rowVars, imp >>
    BY <1>3 DEF Publish
  <2>1. raw'.at = "record" /\ raw'.todo = {o} /\ raw'.job = raw.job
    BY DEF RiskInv, RiskTypeOK
  <2>2. QED BY <2>1 DEF RawFits, Made
<1>4. CASE RecordRound
  <2>1. /\ raw.at = "record" /\ raw' = [raw EXCEPT !.at = "capture"]
        /\ roundDone' = roundDone \cup ({raw.mode} \X raw.todo)
        /\ UNCHANGED << published, captured >>
    BY <1>4 DEF RecordRound, rowVars
  <2>2. raw'.at = "capture" /\ raw'.todo = raw.todo /\ raw'.job = raw.job /\ raw.mode \in Mode
    BY <2>1 DEF RiskInv, RiskTypeOK
  <2>3. QED BY <2>1, <2>2 DEF RawFits, Made
<1>5. CASE RawCaptures
  <2> PICK o \in raw.todo :
        /\ captured' = captured \cup {o} /\ raw' = [raw EXCEPT !.todo = @ \ {o}]
        /\ UNCHANGED << roundDone, published >> /\ raw.at = "capture"
    BY <1>5 DEF RawCaptures
  <2>1. raw'.at = "capture" /\ raw'.todo = raw.todo \ {o} /\ raw'.job = raw.job
    BY DEF RiskInv, RiskTypeOK
  <2>2. QED BY <2>1 DEF RawFits, Made
<1>6. CASE RawEnds \/ RawFails \/ RawKilled
  <2>1. raw'.at = "off" /\ published' = published /\ roundDone' \subseteq roundDone
    BY <1>6 DEF RawEnds, RawFails, RawKilled, RawTells, RawIdle
  <2>2. QED BY <2>1 DEF RawFits
<1>7. CASE \E p \in Importer : ImportNext(p) \/ \E sel \in SUBSET published : StartImport(p, sel)
  <2>1. UNCHANGED << raw, roundDone, published >> /\ captured \subseteq captured'
    BY <1>7 DEF ImportNext, Register, RunBody, ImportFails, CommitAnswered, CommitUnanswered,
                CommitFails, Ask, EndImport, ImportKilled, StartImport, rawVars, rowVars
  <2>2. QED BY <1>1, <2>1
<1>8. CASE CheckoutMoves \/ UNCHANGED riskVars
  BY <1>1, <1>8 DEF CheckoutMoves, riskVars, rawVars, rowVars
<1>9. QED BY <1>2, <1>3, <1>4, <1>5, <1>6, <1>7, <1>8 DEF RiskNext, RawNext

\* risk_dynamic.py's journal and manifest: wherever the process died, a day is fetched once
\* in init mode, and a round that ends has a captured observation of its day.
THEOREM InitFetchesOnceHolds == RiskSpec => InitFetchesOnce
<1> DEFINE FetchesOnce ==
      /\ published' # published /\ raw.mode = "init" => Made(raw.job) = {}
      /\ raw.at = "capture" /\ raw.todo = {} => Made(raw.job) \cap captured # {}
<1>1. RiskInit => RiskInv /\ RawFits
  BY RiskInvInit DEF RiskInit, RawFits, RawIdle
<1>2. RiskInv /\ RawFits /\ [RiskNext]_riskVars => RiskInv' /\ RawFits'
  BY RiskStepKeeps, RawFitsStep
<1>3. RiskInv /\ RawFits /\ [RiskNext]_riskVars => [FetchesOnce]_riskVars
  <2> SUFFICES ASSUME RiskInv, RawFits, RiskNext
               PROVE  FetchesOnce
    OBVIOUS
  <2>1. published' # published => raw.at = "fetch"
    BY DEF RiskNext, CheckoutMoves, RawNext, StartRaw, Publish, RecordRound, RawCaptures, RawEnds,
           RawFails, RawKilled, ImportNext, Register, RunBody, ImportFails, CommitAnswered,
           CommitUnanswered, CommitFails, Ask, EndImport, ImportKilled, StartImport, rawVars, rowVars
  <2>2. QED BY <2>1 DEF RawFits
<1>4. QED BY <1>1, <1>2, <1>3, PTL DEF RiskSpec, InitFetchesOnce
-----------------------------------------------------------------------------
(***************************************************************************)
(* The runner                                                               *)
(***************************************************************************)

\* A stop that asks for a review is in the ledger, whatever died when.
StopsRecorded ==
  owed => runner.at = "off" /\ (attempt = "running" \/ ledgerStatus = "needs_attention")

\* The job under way is the first one of the calendar that is not complete, and the
\* bundle that was chosen is of its day and has the IPOs due there.
JobUnderWay ==
  /\ runner.at \in {"quota", "raw", "bundle", "ingest", "check", "audit"} =>
       /\ attempt = "running" /\ ~ Complete(runner.job)
       /\ \A k \in Job : k < runner.job => Complete(k)
  /\ runner.at \in {"ingest", "check", "audit"} =>
       /\ runner.obs \in Observation /\ JobOf[runner.obs] = runner.job
       /\ Due(runner.job) # {} => runner.obs \in Recovers

BackfillInv ==
  /\ BackfillTypeOK /\ RiskInv /\ StopsRecorded /\ JobUnderWay
  /\ CompleteIsImported /\ IposFollow

\* The ledger's evidence lasts: captures and imports are never taken back, and a run's
\* binding never changes.
RowsLast ==
  /\ captured \subseteq captured' /\ imported \subseteq imported'
  /\ \A o \in Observation : binding[o] # NoVersion => binding'[o] = binding[o]

\* Whatever happens to the raw files and the database, evidence lasts.
LEMMA RowsLastStep ==
  ASSUME RiskInv,
         \/ CheckoutMoves \/ RawNext
         \/ \E j \in Job, m \in Mode, w \in {"operator", "runner"} : StartRaw(j, m, w)
         \/ \E p \in Importer : ImportNext(p) \/ \E sel : StartImport(p, sel)
  PROVE  RowsLast
<1>1. CASE \/ CheckoutMoves \/ RawNext
           \/ \E j \in Job, m \in Mode, w \in {"operator", "runner"} : StartRaw(j, m, w)
  BY <1>1 DEF CheckoutMoves, RawNext, StartRaw, Publish, RecordRound, RawCaptures, RawEnds, RawFails,
              RawKilled, rawVars, rowVars, RowsLast
<1>2. CASE \E p \in Importer : \E sel : StartImport(p, sel)
  BY <1>2 DEF StartImport, rowVars, RowsLast
<1>3. CASE \E p \in Importer : ImportNext(p)
  <2> PICK p \in Importer : ImportNext(p)
    BY <1>3
  <2>1. CASE CommitAnswered(p) \/ CommitUnanswered(p)
    <3>1. Committed(p) /\ captured' = captured /\ imp[p].at = "commit"
      BY <2>1 DEF CommitAnswered, CommitUnanswered
    <3>2. binding[imp[p].obs] \in {NoVersion, imp[p].bound}
      BY <3>1 DEF RiskInv, WriterFits
    <3>3. QED BY <3>1, <3>2 DEF Committed, RowsLast, RiskInv, RiskTypeOK
  <2>2. CASE UNCHANGED << imported, receipts, binding, loads >> /\ captured \subseteq captured'
    BY <2>2 DEF RowsLast
  <2>3. QED
    BY <2>1, <2>2 DEF ImportNext, Register, RunBody, ImportFails, CommitFails, Ask, EndImport,
       ImportKilled, rowVars
<1>4. QED BY <1>1, <1>2, <1>3

\* What the ledger says stays true while evidence lasts and the runner waits.
LEMMA LedgerKeeps ==
  ASSUME BackfillInv, RiskInv', RowsLast, UNCHANGED << ledgerVars, runner, owed >>
  PROVE  BackfillInv'
<1> USE DEF BackfillInv, RunnerStage
<1>1. BackfillTypeOK'
  BY DEF BackfillTypeOK, RiskInv, ledgerVars
<1>2. (StopsRecorded /\ JobUnderWay /\ IposFollow)'
  BY DEF StopsRecorded, JobUnderWay, IposFollow, ledgerVars, Complete, Due
<1>3. CompleteIsImported'
  BY RiskAssumption, BackfillAssumption
     DEF CompleteIsImported, ledgerVars, Complete, RowsLast, RiskInv, RiskTypeOK
<1>4. QED BY <1>1, <1>2, <1>3

\* The operator's and the children's steps.
LEMMA AroundStep ==
  ASSUME BackfillInv, AroundRunner
  PROVE  BackfillInv'
<1>1. RiskInv
  BY DEF BackfillInv
<1>2. RowsLast
  BY <1>1, RowsLastStep DEF AroundRunner
<1>3. RiskInv'
  BY <1>1, RawStepKeeps, ImportKeeps, StartImportKeeps DEF AroundRunner
<1>4. QED BY <1>2, <1>3, LedgerKeeps DEF AroundRunner

\* A step of the runner that leaves the jobs and the rows alone: the attempt, the ledger's
\* status and the runner's place change.
LEMMA RunnerStep ==
  ASSUME BackfillInv, RiskInv',
         UNCHANGED << jobs, chosen, ipos, captured, imported, binding >>,
         BackfillTypeOK', StopsRecorded', JobUnderWay'
  PROVE  BackfillInv'
<1> USE DEF BackfillInv
<1>1. CompleteIsImported' /\ IposFollow'
  BY DEF CompleteIsImported, IposFollow, Complete
<1>2. QED BY <1>1

\* Starts, stops, deaths and the midnight, by themselves.
LEMMA StandingStep ==
  ASSUME BackfillInv,
         \/ \E through \in Job, reviewed \in BOOLEAN : StartRunner(through, reviewed)
         \/ ThroughDone \/ Stop \/ RunnerKilled \/ Midnight
         \/ RawReturned \/ IngestReturned \/ BeginAudit \/ StageFails
  PROVE  BackfillInv'
<1> USE DEF BackfillInv, RunnerStage
<1>1. UNCHANGED << riskVars, jobs, chosen, ipos >>
  BY DEF StartRunner, ThroughDone, Stop, RunnerKilled, Midnight, RawReturned, IngestReturned,
         BeginAudit, StageFails, ledgerVars
<1>2. RiskInv'
  BY <1>1, RiskStepKeeps
<1>3. \A j \in Job : Complete(j)' = Complete(j) /\ Due(j)' = Due(j)
  BY <1>1 DEF Complete, Due
<1>4. RunnerOff \in [at : {"off"}, job : Job, through : Job, queued : {FALSE},
                      obs : {NoObservation}, exit : {"nothing"}, quota : {FALSE}]
  BY RiskAssumption DEF RunnerOff, Job
<1>5. BackfillTypeOK'
  <2>1. CASE \E through \in Job, reviewed \in BOOLEAN : StartRunner(through, reviewed)
    <3> PICK through \in Job, reviewed \in BOOLEAN : StartRunner(through, reviewed)
      BY <2>1
    <3>1. runner' = runner \/ runner' = [RunnerOff EXCEPT !.at = "pick", !.through = through]
      BY DEF StartRunner
    <3>2. owed' = owed \/ owed' = (owed /\ ~ reviewed)
      BY DEF StartRunner
    <3>3. /\ attempt' \in {attempt, "interrupted"} /\ quotaStop' = quotaStop
          /\ ledgerStatus' \in {"needs_attention", "budget_deferred", "running"}
      BY DEF StartRunner
    <3>4. owed' \in BOOLEAN
      BY <3>2 DEF BackfillTypeOK
    <3>5. QED BY <1>1, <1>2, <1>4, <3>1, <3>3, <3>4, ZenonT(40) DEF BackfillTypeOK, RiskInv
  <2>2. CASE ThroughDone
    <3>1. owed' \in BOOLEAN
      BY <2>2 DEF ThroughDone, BackfillTypeOK
    <3>2. QED BY <1>1, <1>2, <1>4, <2>2, <3>1 DEF ThroughDone, BackfillTypeOK, RiskInv
  <2>3. CASE Stop
    <3>1. owed' \in BOOLEAN /\ quotaStop' \in BOOLEAN
      BY <2>3 DEF Stop, BackfillTypeOK
    <3>2. QED BY <1>1, <1>2, <1>4, <2>3, <3>1 DEF Stop, BackfillTypeOK, RiskInv
  <2>4. CASE RunnerKilled
    <3>1. owed' \in BOOLEAN
      BY <2>4 DEF RunnerKilled, BackfillTypeOK
    <3>2. QED BY <1>1, <1>2, <1>4, <2>4, <3>1
              DEF RunnerKilled, BackfillTypeOK, RiskInv, ledgerVars
  <2>5. CASE Midnight
    <3>1. owed' \in BOOLEAN /\ quotaStop' \in BOOLEAN
      BY <2>5, Zenon DEF Midnight, BackfillTypeOK
    <3>2. UNCHANGED << ledgerStatus, attempt, runner >>
      BY <2>5 DEF Midnight
    <3>3. QED BY <1>1, <1>2, <3>1, <3>2 DEF BackfillTypeOK, RiskInv
  <2>6. CASE RawReturned \/ IngestReturned \/ BeginAudit \/ StageFails
    <3>1. /\ attempt' \in {attempt, "failed", "quota_deferred"}
          /\ UNCHANGED << ledgerStatus, quotaStop, owed >>
      BY <2>6 DEF RawReturned, IngestReturned, BeginAudit, StageFails, Fails, ledgerVars
    <3>2. \/ \E quota \in BOOLEAN : runner' = [runner EXCEPT !.at = "failing", !.quota = quota]
          \/ runner' = [runner EXCEPT !.at = "bundle"]
          \/ \E exit \in {"ok", "ineligible"} :
               runner' = [runner EXCEPT !.at = "check", !.exit = exit]
          \/ runner' = [runner EXCEPT !.at = "audit"]
      <4>1. CASE RawReturned
        BY <4>1 DEF RawReturned, Fails
      <4>2. CASE IngestReturned
        BY <4>2 DEF IngestReturned, Fails
      <4>3. CASE StageFails
        BY <4>3 DEF StageFails, Fails
      <4>4. CASE BeginAudit
        BY <4>4 DEF BeginAudit
      <4>5. QED BY <2>6, <4>1, <4>2, <4>3, <4>4
    <3>3. owed' \in BOOLEAN /\ quotaStop' \in BOOLEAN
      BY <3>1, Zenon DEF BackfillTypeOK
    <3>4. runner' \in [at : RunnerStage,
                       job : Job, through : Job, queued : BOOLEAN,
                       obs : Observation \cup {NoObservation},
                       exit : {"nothing", "ok", "ineligible"}, quota : BOOLEAN]
      BY <3>2, ZenonT(40) DEF BackfillTypeOK
    <3>5. /\ attempt' \in {"none", "running", "complete", "failed", "quota_deferred", "interrupted"}
          /\ ledgerStatus' = ledgerStatus
      BY <3>1 DEF BackfillTypeOK
    <3>6. QED BY <1>1, <1>2, <3>3, <3>4, <3>5 DEF BackfillTypeOK, RiskInv
  <2>7. QED BY <2>1, <2>2, <2>3, <2>4, <2>5, <2>6
<1>6. StopsRecorded'
  <2>1. CASE \E through \in Job, reviewed \in BOOLEAN : StartRunner(through, reviewed)
    <3> PICK through \in Job, reviewed \in BOOLEAN : StartRunner(through, reviewed)
      BY <2>1
    <3>1. CASE (Interrupted \/ ledgerStatus = "needs_attention") /\ ~ reviewed
      BY <3>1 DEF StartRunner, StopsRecorded, Alone
    <3>2. CASE ~ ((Interrupted \/ ledgerStatus = "needs_attention") /\ ~ reviewed)
      <4>1. owed' = (owed /\ ~ reviewed)
        BY <3>2 DEF StartRunner
      <4>2. ~ owed'
        BY <3>2, <4>1 DEF StopsRecorded, Interrupted
      <4>3. QED BY <4>2 DEF StopsRecorded
    <3>3. QED BY <3>1, <3>2
  <2>2. CASE ThroughDone
    BY <2>2 DEF ThroughDone, StopsRecorded, RunnerOff
  <2>3. CASE Stop
    BY <2>3 DEF Stop, StopsRecorded, RunnerOff
  <2>4. CASE RunnerKilled
    BY <2>4 DEF RunnerKilled, StopsRecorded, RunnerOff, ledgerVars
  <2>5. CASE Midnight
    BY <2>5 DEF Midnight, StopsRecorded
  <2>6. CASE RawReturned \/ IngestReturned \/ BeginAudit \/ StageFails
    BY <2>6 DEF RawReturned, IngestReturned, BeginAudit, StageFails, StopsRecorded, ledgerVars
  <2>7. QED BY <2>1, <2>2, <2>3, <2>4, <2>5, <2>6
<1>7. JobUnderWay'
  <2> DEFINE Waits ==
        /\ attempt' = attempt /\ runner'.job = runner.job /\ runner'.obs = runner.obs
        /\ \/ runner'.at = runner.at
           \/ runner.at = "raw" /\ runner'.at = "bundle"
           \/ runner.at = "ingest" /\ runner'.at = "check"
           \/ runner.at = "check" /\ runner'.at = "audit"
  <2>1. CASE \E through \in Job, reviewed \in BOOLEAN : StartRunner(through, reviewed)
    BY <1>4, <2>1 DEF StartRunner, Alone, JobUnderWay
  <2>2. CASE ThroughDone \/ Stop \/ RunnerKilled
    <3>1. runner'.at = "off"
      BY <1>4, <2>2 DEF ThroughDone, Stop, RunnerKilled
    <3>2. QED BY <3>1 DEF JobUnderWay
  <2>3. CASE Midnight \/ RawReturned \/ IngestReturned \/ BeginAudit \/ StageFails
    <3>1. runner'.at = "failing" \/ Waits
      <4>1. CASE Midnight
        BY <4>1 DEF Midnight
      <4>2. CASE RawReturned
        BY <4>2 DEF RawReturned, Fails, BackfillTypeOK
      <4>3. CASE IngestReturned
        BY <4>3 DEF IngestReturned, Fails, BackfillTypeOK
      <4>4. CASE StageFails
        BY <4>4 DEF StageFails, Fails, BackfillTypeOK
      <4>5. CASE BeginAudit
        BY <4>5 DEF BeginAudit, BackfillTypeOK, ledgerVars
      <4>6. QED BY <2>3, <4>1, <4>2, <4>3, <4>4, <4>5
    <3>2. runner.job \in Job
      BY DEF BackfillTypeOK
    <3>3. QED BY <1>3, <3>1, <3>2 DEF JobUnderWay
  <2>4. QED BY <2>1, <2>2, <2>3
<1>8. QED BY <1>1, <1>2, <1>5, <1>6, <1>7, RunnerStep DEF riskVars, rowVars

\* A job becomes pending that was not complete: no other job changes, and all before it are.
LEMMA PendingKeeps ==
  ASSUME BackfillInv, NEW j \in Job, First(j, runner.through),
         jobs' = [jobs EXCEPT ![j] = "pending"], UNCHANGED << chosen, ipos, riskVars >>
  PROVE  /\ RiskInv' /\ CompleteIsImported' /\ IposFollow'
         /\ jobs' \in [Job -> {"none", "pending", "complete", "complete_degraded"}]
         /\ ~ Complete(j)' /\ \A k \in Job : k < j => Complete(k)'
<1> USE DEF BackfillInv
<1>1. ~ Complete(j) /\ \A k \in Job : k < j => Complete(k)
  BY RiskAssumption DEF First, Unfinished, BackfillTypeOK, Job
<1>2. \A k \in Job : Complete(k)' = Complete(k) /\ (Complete(k) => jobs'[k] = jobs[k])
  BY <1>1 DEF Complete, BackfillTypeOK
<1>3. RiskInv'
  BY RiskStepKeeps
<1>4. jobs' \in [Job -> {"none", "pending", "complete", "complete_degraded"}]
  BY DEF BackfillTypeOK
<1>5. CompleteIsImported'
  BY <1>2, RiskAssumption DEF CompleteIsImported, riskVars, rowVars, Job
<1>6. IposFollow'
  BY <1>2 DEF IposFollow
<1>7. QED BY <1>1, <1>2, <1>3, <1>4, <1>5, <1>6

\* A job is begun.
LEMMA BeginStep ==
  ASSUME BackfillInv, BeginJob
  PROVE  BackfillInv'
<1> USE DEF BackfillInv, RunnerStage
<1>1. PICK j \in Job :
        /\ First(j, runner.through) /\ attempt' = "running"
        /\ jobs' = [jobs EXCEPT ![j] = "pending"]
        /\ runner' = [runner EXCEPT !.at = "quota", !.job = j]
  BY DEF BeginJob
<1>2. /\ runner.at = "pick"
      /\ UNCHANGED << ledgerStatus, chosen, ipos, quotaStop, owed, riskVars >>
  BY DEF BeginJob
<1>3. /\ RiskInv' /\ CompleteIsImported' /\ IposFollow'
      /\ jobs' \in [Job -> {"none", "pending", "complete", "complete_degraded"}]
      /\ ~ Complete(j)' /\ \A k \in Job : k < j => Complete(k)'
  BY <1>1, <1>2, PendingKeeps
<1>4. BackfillTypeOK'
  <2>1. runner' \in [at : RunnerStage, job : Job, through : Job, queued : BOOLEAN,
                     obs : Observation \cup {NoObservation},
                     exit : {"nothing", "ok", "ineligible"}, quota : BOOLEAN]
    BY <1>1 DEF BackfillTypeOK
  <2>2. owed' \in BOOLEAN /\ quotaStop' \in BOOLEAN
    BY <1>2, Zenon DEF BackfillTypeOK
  <2>3. QED BY <1>1, <1>2, <1>3, <2>1, <2>2 DEF BackfillTypeOK, RiskInv
<1>5. StopsRecorded'
  BY <1>2 DEF StopsRecorded
<1>6. JobUnderWay'
  <2>1. runner'.at = "quota" /\ runner'.job = j
    BY <1>1 DEF BackfillTypeOK
  <2>2. QED BY <1>1, <1>3, <2>1 DEF JobUnderWay
<1>7. QED BY <1>3, <1>4, <1>5, <1>6

\* A job could not be begun: the runner has stopped, with that in the ledger.
LEMMA PickFailsStep ==
  ASSUME BackfillInv, PickFails
  PROVE  BackfillInv'
<1> USE DEF BackfillInv, RunnerStage
<1>1. PICK j \in Job :
        /\ First(j, runner.through)
        /\ \/ UNCHANGED << attempt, jobs >>
           \/ attempt' = "running" /\ jobs' = [jobs EXCEPT ![j] = "pending"]
  BY DEF PickFails
<1>2. /\ ledgerStatus' = "needs_attention" /\ owed' = TRUE /\ runner' = RunnerOff
      /\ UNCHANGED << chosen, ipos, quotaStop, riskVars >>
  BY DEF PickFails
<1>3. /\ RiskInv' /\ CompleteIsImported' /\ IposFollow'
      /\ jobs' \in [Job -> {"none", "pending", "complete", "complete_degraded"}]
  <2>1. CASE UNCHANGED jobs
    BY <1>2, <2>1, RiskStepKeeps
       DEF BackfillTypeOK, CompleteIsImported, IposFollow, Complete, riskVars, rowVars
  <2>2. CASE jobs' = [jobs EXCEPT ![j] = "pending"]
    BY <1>1, <1>2, <2>2, PendingKeeps
  <2>3. QED BY <1>1, <2>1, <2>2
<1>4. runner'.at = "off"
  BY <1>2 DEF RunnerOff
<1>5. BackfillTypeOK'
  <2>1. runner' \in [at : RunnerStage, job : Job, through : Job, queued : BOOLEAN,
                     obs : Observation \cup {NoObservation},
                     exit : {"nothing", "ok", "ineligible"}, quota : BOOLEAN]
    BY <1>2, RiskAssumption DEF RunnerOff, Job
  <2>2. owed' \in BOOLEAN /\ quotaStop' \in BOOLEAN
    BY <1>2, Zenon DEF BackfillTypeOK
  <2>3. QED BY <1>1, <1>2, <1>3, <2>1, <2>2 DEF BackfillTypeOK, RiskInv
<1>6. StopsRecorded' /\ JobUnderWay'
  BY <1>2, <1>4 DEF StopsRecorded, JobUnderWay
<1>7. QED BY <1>3, <1>5, <1>6

\* The runner goes on to a child, or to the ingest of a bundle it has checked.
LEMMA ChildStep ==
  ASSUME BackfillInv, AskQuota \/ RawChild \/ ChooseBundle
  PROVE  BackfillInv'
<1> USE DEF BackfillInv, RunnerStage
<1>1. /\ UNCHANGED << ledgerStatus, jobs, chosen, ipos, quotaStop, owed >>
      /\ UNCHANGED << captured, imported, binding >>
  BY DEF AskQuota, RawChild, ChooseBundle, StartRaw, StartImport, ledgerVars, riskVars, rowVars
<1>2. RiskInv'
  <2>1. CASE AskQuota
    <3>1. UNCHANGED << checkout, roundDone, published, rowVars, imp >>
          /\ raw' \in {raw, [raw EXCEPT !.told = "nothing"]}
      BY <2>1 DEF AskQuota
    <3>2. RiskTypeOK'
      BY <3>1 DEF RiskInv, RiskTypeOK, rowVars
    <3>3. QED BY <3>1, <3>2 DEF RiskInv, ImportedOnce, WriterFits, ImportersFit, rowVars
  <2>2. CASE RawChild
    <3>1. UNCHANGED riskVars \/ StartRaw(runner.job, "init", "runner")
      BY <2>2 DEF RawChild
    <3>2. runner.job \in Job /\ "init" \in Mode
      BY DEF BackfillTypeOK, Mode
    <3>3. QED BY <3>1, <3>2, RawStepKeeps, RiskStepKeeps
  <2>3. CASE ChooseBundle
    BY <2>3, StartImportKeeps, BackfillAssumption DEF ChooseBundle
  <2>4. QED BY <2>1, <2>2, <2>3
<1>3. \A j \in Job : Complete(j)' = Complete(j) /\ Due(j)' = Due(j)
  BY <1>1 DEF Complete, Due
<1>4. \/ /\ attempt' \in {"failed", "quota_deferred"} /\ runner'.at = "failing"
         /\ \E quota \in BOOLEAN : runner' = [runner EXCEPT !.at = "failing", !.quota = quota]
      \/ /\ attempt' = attempt
         /\ \/ runner.at = "quota" /\ runner' = [runner EXCEPT !.at = "raw", !.queued = TRUE]
            \/ runner' = [runner EXCEPT !.queued = FALSE]
            \/ \E o \in Observation :
                 /\ JobOf[o] = runner.job /\ (Due(runner.job) # {} => o \in Recovers)
                 /\ runner.at = "bundle" /\ runner' = [runner EXCEPT !.at = "ingest", !.obs = o]
  <2>1. CASE AskQuota
    BY <2>1 DEF AskQuota, Fails, BackfillTypeOK
  <2>2. CASE RawChild
    BY <2>2 DEF RawChild, ledgerVars
  <2>3. CASE ChooseBundle
    <3>1. Selected(runner.job) \subseteq {o \in Observation : JobOf[o] = runner.job}
      BY DEF Selected, Made, RiskInv, RiskTypeOK
    <3>2. QED BY <2>3, <3>1 DEF ChooseBundle, ledgerVars
  <2>4. QED BY <2>1, <2>2, <2>3
<1>5. BackfillTypeOK'
  <2>1. runner' \in [at : RunnerStage,
                     job : Job, through : Job, queued : BOOLEAN,
                     obs : Observation \cup {NoObservation},
                     exit : {"nothing", "ok", "ineligible"}, quota : BOOLEAN]
    BY <1>4, ZenonT(40) DEF BackfillTypeOK
  <2>2. owed' \in BOOLEAN /\ quotaStop' \in BOOLEAN
    BY <1>1, Zenon DEF BackfillTypeOK
  <2>3. attempt' \in {"none", "running", "complete", "failed", "quota_deferred", "interrupted"}
    BY <1>4 DEF BackfillTypeOK
  <2>4. QED BY <1>1, <1>2, <2>1, <2>2, <2>3 DEF BackfillTypeOK, RiskInv
<1>6. StopsRecorded'
  <2>1. owed => runner.at = "off" /\ runner'.at = "off" /\ attempt' = attempt
    <3>1. CASE AskQuota \/ ChooseBundle
      BY <3>1 DEF AskQuota, ChooseBundle, StopsRecorded
    <3>2. CASE RawChild
      BY <3>2 DEF RawChild, StopsRecorded, BackfillTypeOK, ledgerVars
    <3>3. QED BY <3>1, <3>2
  <2>2. QED BY <1>1, <2>1 DEF StopsRecorded
<1>7. JobUnderWay'
  <2>1. CASE runner'.at = "failing"
    BY <2>1 DEF JobUnderWay
  <2>2. CASE attempt' = attempt
    <3>1. /\ runner'.job = runner.job /\ runner.job \in Job
          /\ \/ runner'.at = runner.at /\ runner'.obs = runner.obs
             \/ runner.at = "quota" /\ runner'.at = "raw"
             \/ /\ runner.at = "bundle" /\ runner'.at = "ingest"
                /\ runner'.obs \in Observation /\ JobOf[runner'.obs] = runner.job
                /\ (Due(runner.job) # {} => runner'.obs \in Recovers)
             \/ runner'.at = "failing"
      BY <1>4, <2>2 DEF BackfillTypeOK
    <3>2. QED BY <1>3, <2>2, <3>1 DEF JobUnderWay
  <2>3. QED BY <1>4, <2>1, <2>2
<1>8. QED BY <1>1, <1>2, <1>5, <1>6, <1>7, RunnerStep

\* A trading day is a whole number of model rounds after itself.
LEMMA NextDay == \A m \in Nat \ {0}, k \in Nat : ((k + m) - k) % m = 0
<1>1. \A m \in Nat \ {0} : m % m = 0
  OBVIOUS
<1>2. \A m \in Nat \ {0}, k \in Nat : (k + m) - k = m
  OBVIOUS
<1>3. QED BY <1>1, <1>2

\* The IPOs due at the job under way are those of the trading day before it: older ones
\* would have been recovered there.
LEMMA DueIsYesterday ==
  ASSUME BackfillInv, NEW j \in Job, \A k \in Job : k < j => Complete(k)
  PROVE  \A k \in Job : k \in Due(j) <=> k + Models = j /\ ipos[k] = "pending"
<1>1. Models \in Nat \ {0} /\ Jobs \in Nat \ {0}
  BY BackfillAssumption, RiskAssumption
<1>2. ASSUME NEW k \in Job, k \in Due(j)
      PROVE  k + Models = j
  <2>1. ipos[k] = "pending" /\ k + Models <= j
    BY <1>2 DEF Due
  <2>2. k + Models \in Job
    BY <1>1, <2>1 DEF Job
  <2>3. ~ Complete(k + Models)
    BY <2>1, <2>2 DEF BackfillInv, IposFollow
  <2>4. ~ (k + Models < j)
    BY <2>2, <2>3
  <2>5. QED BY <1>1, <2>1, <2>4 DEF Job
<1>3. ASSUME NEW k \in Job, k + Models = j, ipos[k] = "pending"
      PROVE  k \in Due(j)
  <2>1. (j - k) % Models = 0
    BY <1>1, <1>3, NextDay DEF Job
  <2>2. QED BY <1>1, <1>3, <2>1 DEF Due, Job
<1>4. QED BY <1>2, <1>3 DEF Due

\* A job is recorded on evidence that is there now.
LEMMA RecordStep ==
  ASSUME BackfillInv, Record
  PROVE  BackfillInv'
<1> USE DEF BackfillInv, RunnerStage
<1> DEFINE j == runner.job
           o == runner.obs
<1>1. /\ runner.at = "audit" /\ AuditPasses(o, runner.exit)
      /\ jobs' = [jobs EXCEPT ![j] = IF o \in Eligible THEN "complete" ELSE "complete_degraded"]
      /\ chosen' = [chosen EXCEPT ![j] = o] /\ ipos' = IposAfter(j, o)
      /\ UNCHANGED << ledgerStatus, quotaStop, owed, riskVars >>
  BY DEF Record
<1>2. /\ j \in Job /\ o \in Observation /\ JobOf[o] = j /\ ~ Complete(j)
      /\ \A k \in Job : k < j => Complete(k)
      /\ Due(j) # {} => o \in Recovers
      /\ Job \subseteq Nat \ {0}
  BY <1>1, RiskAssumption DEF JobUnderWay, BackfillTypeOK, Job
<1>3. /\ attempt' \in {"complete", "failed"}
      /\ \/ runner' = [RunnerOff EXCEPT !.at = "pick", !.through = runner.through]
         \/ runner' = [runner EXCEPT !.at = "failing", !.quota = FALSE]
  BY DEF Record, Fails
<1> HIDE DEF j, o
<1>4. RiskInv'
  BY <1>1, RiskStepKeeps
<1>5. \A k \in Job : /\ k # j => jobs'[k] = jobs[k] /\ chosen'[k] = chosen[k]
                     /\ chosen'[j] = o
                     /\ jobs'[j] = IF o \in Eligible THEN "complete" ELSE "complete_degraded"
  BY <1>1, <1>2 DEF BackfillTypeOK
<1>6. \A k \in Job : Complete(k)' <=> Complete(k) \/ k = j
  BY <1>2, <1>5 DEF Complete
<1>7. BackfillTypeOK'
  <2>1. RunnerOff \in [at : {"off"}, job : Job, through : Job, queued : {FALSE},
                      obs : {NoObservation}, exit : {"nothing"}, quota : {FALSE}]
    BY RiskAssumption DEF RunnerOff, Job
  <2>2. runner' \in [at : RunnerStage,
                     job : Job, through : Job, queued : BOOLEAN,
                     obs : Observation \cup {NoObservation},
                     exit : {"nothing", "ok", "ineligible"}, quota : BOOLEAN]
    BY <1>3, <2>1, ZenonT(40) DEF BackfillTypeOK
  <2>3. /\ jobs' \in [Job -> {"none", "pending", "complete", "complete_degraded"}]
        /\ chosen' \in [Job -> Observation \cup {NoObservation}]
        /\ ipos' \in [Job -> {"none", "pending", "confirmed"}]
    BY <1>1, <1>2 DEF BackfillTypeOK, IposAfter
  <2>4. owed' \in BOOLEAN /\ quotaStop' \in BOOLEAN
    BY <1>1, Zenon DEF BackfillTypeOK
  <2>5. QED BY <1>1, <1>3, <1>4, <2>2, <2>3, <2>4 DEF BackfillTypeOK, RiskInv
<1>8. StopsRecorded' /\ JobUnderWay'
  <2>1. runner'.at \in {"pick", "failing"}
    BY <1>3 DEF BackfillTypeOK, RunnerOff
  <2>2. ~ owed'
    BY <1>1 DEF StopsRecorded
  <2>3. QED BY <2>1, <2>2 DEF StopsRecorded, JobUnderWay
<1>9. CompleteIsImported'
  <2>1. ASSUME NEW k \in Job, Complete(k)'
        PROVE  /\ chosen'[k] \in captured \cap imported
               /\ JobOf[chosen'[k]] = k /\ binding[chosen'[k]] = Approved
               /\ jobs'[k] = "complete" <=> chosen'[k] \in Eligible
    <3>1. CASE k = j
      BY <1>1, <1>2, <1>5, <3>1 DEF AuditPasses
    <3>2. CASE k # j
      BY <1>5, <1>6, <2>1, <3>2 DEF CompleteIsImported
    <3>3. QED BY <3>1, <3>2
  <2>2. ASSUME NEW k \in Job, Complete(k)', NEW i \in 1..k
        PROVE  Complete(i)'
    <3>1. i \in Job
      BY RiskAssumption DEF Job
    <3>2. CASE k = j
      BY <1>2, <1>6, <3>1, <3>2
    <3>3. CASE k # j
      BY <1>6, <2>2, <3>1, <3>3 DEF CompleteIsImported
    <3>4. QED BY <3>2, <3>3
  <2>3. QED BY <1>1, <2>1, <2>2 DEF CompleteIsImported, riskVars, rowVars
<1>10. IposFollow'
  <2> SUFFICES ASSUME NEW k \in Job
               PROVE  /\ ipos'[k] = "none" <=> ~ Complete(k)' \/ chosen'[k] \notin Gap
                      /\ ipos'[k] = "confirmed" =>
                           /\ k + Models \in Job /\ Complete(k + Models)'
                           /\ chosen'[k + Models] \in Recovers
                      /\ ipos'[k] = "pending" /\ k + Models \in Job => ~ Complete(k + Models)'
    BY DEF IposFollow
  <2>1. k \in Due(j) <=> k + Models = j /\ ipos[k] = "pending"
    BY <1>2, DueIsYesterday
  <2>2. ipos'[k] = IF k \in Due(j) THEN "confirmed"
                   ELSE IF k = j /\ o \in Gap THEN "pending" ELSE ipos[k]
    BY <1>1 DEF IposAfter
  <2>3. /\ ipos[k] = "none" <=> ~ Complete(k) \/ chosen[k] \notin Gap
        /\ ipos[k] = "confirmed" =>
             k + Models \in Job /\ Complete(k + Models) /\ chosen[k + Models] \in Recovers
        /\ ipos[k] = "pending" /\ k + Models \in Job => ~ Complete(k + Models)
        /\ ipos[k] \in {"none", "pending", "confirmed"}
    BY DEF IposFollow, BackfillTypeOK
  <2>4. Models \in Nat \ {0} /\ k \in Nat /\ j \in Nat /\ Jobs \in Nat
    BY <1>2, BackfillAssumption, RiskAssumption
  <2>5. CASE k \in Due(j)
    <3>1. k # j /\ k + Models = j /\ ipos[k] = "pending"
      BY <2>1, <2>4, <2>5
    <3>2. QED BY <1>2, <1>5, <1>6, <2>2, <2>3, <2>5, <3>1
  <2>6. CASE k = j
    <3>1. k \notin Due(j) /\ ipos[k] = "none" /\ k + Models # j /\ j < k + Models
      BY <1>2, <2>1, <2>3, <2>4, <2>6
    <3>2. k + Models \in Job => ~ Complete(k + Models)
      BY <1>2, <2>4, <2>6, RiskAssumption DEF CompleteIsImported, Job
    <3>3. QED BY <1>5, <1>6, <2>2, <2>6, <3>1, <3>2
  <2>7. CASE k \notin Due(j) /\ k # j
    <3>1. CASE k + Models = j
      BY <1>2, <1>5, <1>6, <2>1, <2>2, <2>3, <2>7, <3>1
    <3>2. CASE k + Models # j
      BY <1>5, <1>6, <2>2, <2>3, <2>7, <3>2
    <3>3. QED BY <3>1, <3>2
  <2>8. QED BY <2>5, <2>6, <2>7
<1>11. QED BY <1>4, <1>7, <1>8, <1>9, <1>10

\* An empty ledger.
LEMMA BackfillInvInit ==
  ASSUME BackfillInit
  PROVE  BackfillInv
<1> USE DEF BackfillInit, RunnerStage
<1>1. RiskInv
  BY RiskInvInit
<1>2. BackfillTypeOK
  <2>1. owed \in BOOLEAN /\ quotaStop \in BOOLEAN
    OBVIOUS
  <2>2. RunnerOff \in [at : {"off"}, job : Job, through : Job, queued : {FALSE},
                      obs : {NoObservation}, exit : {"nothing"}, quota : {FALSE}]
    BY RiskAssumption DEF RunnerOff, Job
  <2>3. QED BY <1>1, <2>1, <2>2 DEF BackfillTypeOK, RiskInv
<1>3. StopsRecorded /\ JobUnderWay /\ CompleteIsImported /\ IposFollow
  BY DEF StopsRecorded, JobUnderWay, CompleteIsImported, IposFollow, Complete, RunnerOff
<1>4. QED BY <1>1, <1>2, <1>3 DEF BackfillInv

\* The inductive invariant of the supervised backfill.
THEOREM BackfillInvHolds == BackfillSpec => []BackfillInv
<1>1. BackfillInit => BackfillInv
  BY BackfillInvInit
<1>2. BackfillInv /\ [BackfillNext]_backfillVars => BackfillInv'
  <2> SUFFICES ASSUME BackfillInv, [BackfillNext]_backfillVars
               PROVE  BackfillInv'
    OBVIOUS
  <2>1. CASE RunnerNext
    BY <2>1, StandingStep, BeginStep, PickFailsStep, ChildStep, RecordStep DEF RunnerNext
  <2>2. CASE AroundRunner
    BY <2>2, AroundStep
  <2>3. CASE UNCHANGED backfillVars
    <3>1. RiskInv'
      BY <2>3, RiskStepKeeps DEF BackfillInv, backfillVars
    <3>2. RowsLast
      BY <2>3 DEF backfillVars, riskVars, rowVars, RowsLast
    <3>3. QED BY <2>3, <3>1, <3>2, LedgerKeeps DEF backfillVars
  <2>4. QED BY <2>1, <2>2, <2>3 DEF BackfillNext
<1>3. QED BY <1>1, <1>2, PTL DEF BackfillSpec

\* run_monthly_accounts.py's ledger: a job it calls complete has its evidence in the
\* database, and every job before it in the calendar is complete, whatever dies or moves.
THEOREM CompleteIsImportedHolds == BackfillSpec => []CompleteIsImported
<1>1. BackfillInv => CompleteIsImported
  BY DEF BackfillInv
<1>2. QED BY <1>1, BackfillInvHolds, PTL

\* Its ledger, the raw files and the import tables stay well formed.
THEOREM BackfillTypesHold == BackfillSpec => []BackfillTypeOK
<1>1. BackfillInv => BackfillTypeOK
  BY DEF BackfillInv
<1>2. QED BY <1>1, BackfillInvHolds, PTL

\* Its pending_ipos: every gap is followed up on its next trading day, and only there.
THEOREM IposFollowHolds == BackfillSpec => []IposFollow
<1>1. BackfillInv => IposFollow
  BY DEF BackfillInv
<1>2. QED BY <1>1, BackfillInvHolds, PTL

\* Its needs_attention stops: no runner works on while one is owed a review.
THEOREM ReviewFirstHolds == BackfillSpec => []ReviewFirst
<1>1. BackfillInv => ReviewFirst
  BY DEF BackfillInv, StopsRecorded, ReviewFirst
<1>2. QED BY <1>1, BackfillInvHolds, PTL
=============================================================================
