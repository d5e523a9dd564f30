-------------------------- MODULE MCMonthlyBackfill --------------------------
(***************************************************************************)
(* Two trading days of one model: the first has a known IPO and fails the   *)
(* publication gate, the second recovers it.  The initial state picks a part *)
(* of the system.  In "runner" the backfill runs, and an operator's own      *)
(* ingest process has its steps while the second day is audited, and another *)
(* account works beside a quota stop on the first day only; in               *)
(* "importers" the runner is off, and two ingest processes and a raw process *)
(* work on the second day at once; in "rounds" raw processes alone work on   *)
(* both days, and only there can the second day have two observations.       *)
(***************************************************************************)
EXTENDS MonthlyBackfill, TLC

cJobOf  == ("o1" :> 1) @@ ("o2" :> 2) @@ ("o3" :> 2)
cRepair == (1 :> "o1") @@ (2 :> NoObservation)

VARIABLE focus

MCInit == BackfillInit /\ focus \in {"runner", "importers", "rounds"}

RunnerMoves ==
  /\ BackfillNext
  /\ quotaStop /\ runner.at = "off" /\ runner'.at # "off" => runner'.through = 1 /\ ~ Complete(1)
  /\ \A p \in Importer \ {Child} :
       /\ imp[p].at # "off" => imp'[p] # imp[p]
       /\ imp[p].at = "off" /\ imp'[p].at # "off" => runner.at = "audit" /\ runner.job = 2

ImportersMove ==
  /\ RiskNext /\ (raw'.at # "off" => raw'.job = 2)
  /\ UNCHANGED << ledgerVars, runner, owed >>

RoundsMove ==
  /\ CheckoutMoves \/ RawNext \/ \E j \in Job, m \in Mode : StartRaw(j, m, "operator")
  /\ UNCHANGED << ledgerVars, runner, owed >>

MCNext ==
  /\ focus' = focus
  /\ \/ focus = "runner" /\ RunnerMoves /\ "o3" \notin published'
     \/ focus = "importers" /\ ImportersMove /\ "o3" \notin published'
     \/ focus = "rounds" /\ RoundsMove

MCSpec == MCInit /\ [][MCNext]_<< focus, backfillVars >>
=============================================================================
