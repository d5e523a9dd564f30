----------------------------- MODULE MCPlatform -----------------------------
(***************************************************************************)
(* One run over seven components that share no state: the initial state picks *)
(* the one that moves, and the others stand still.  What is checked is each *)
(* component's own specification, on the instances below.                   *)
(***************************************************************************)
EXTENDS TrialRuns, JobPosts, BacktestAccount, Migrations, ConnectionPool, TradeBook,
        PickImport, TLC

\* Three POSTs of one user with one key, the last with another body, and an anonymous one.
cPostUser == ("p1" :> "u1") @@ ("p2" :> "u1") @@ ("p3" :> "u1") @@ ("p4" :> "null")
cPostKey  == [p \in {"p1", "p2", "p3", "p4"} |-> "k1"]
cPostBody == ("p1" :> "b1") @@ ("p2" :> "b1") @@ ("p3" :> "b2") @@ ("p4" :> "b1")

\* A stock and a future.
cMultiplier == ("stk" :> 1) @@ ("fut" :> 2)
cMarginPct  == ("stk" :> 0) @@ ("fut" :> 50)
cSplitRatio == {<< 2, 1 >>, << 3, 2 >>}

TradeSymmetry == Permutations(Trade)

VARIABLE focus

allVars == << focus, trialVars, postsVars, accountVars, migrationVars, poolVars, tradeVars,
              pickVars >>

PlatformTypeOK ==
  /\ TrialsTypeOK /\ PostsTypeOK /\ AccountTypeOK
  /\ MigrationsTypeOK /\ PoolTypeOK /\ TradeTypeOK /\ PicksTypeOK

\* Where a component may begin in several states, only its own run tries them all.
PlatformInit ==
  /\ focus \in {"trials", "posts", "account", "migrations", "pool", "trades", "picks"}
  /\ TrialsInit /\ PostsInit /\ AccountInit /\ MigrationsInit /\ PoolInit /\ TradesInit
  /\ PicksInit
  /\ focus # "migrations" => backend = "postgres"
  /\ focus # "pool" => pool = {}
  /\ focus # "trades" => inTable = {}

PlatformNext ==
  /\ focus' = focus
  /\ \/ /\ focus = "trials" /\ TrialsNext
        /\ UNCHANGED << postsVars, accountVars, migrationVars, poolVars, tradeVars, pickVars >>
     \/ /\ focus = "posts" /\ PostsNext
        /\ UNCHANGED << trialVars, accountVars, migrationVars, poolVars, tradeVars, pickVars >>
     \/ /\ focus = "account" /\ AccountNext
        /\ UNCHANGED << trialVars, postsVars, migrationVars, poolVars, tradeVars, pickVars >>
     \/ /\ focus = "migrations" /\ MigrationsNext
        /\ UNCHANGED << trialVars, postsVars, accountVars, poolVars, tradeVars, pickVars >>
     \/ /\ focus = "pool" /\ PoolNext
        /\ UNCHANGED << trialVars, postsVars, accountVars, migrationVars, tradeVars, pickVars >>
     \/ /\ focus = "trades" /\ TradesNext
        /\ UNCHANGED << trialVars, postsVars, accountVars, migrationVars, poolVars, pickVars >>
     \/ /\ focus = "picks" /\ PicksNext
        /\ UNCHANGED << trialVars, postsVars, accountVars, migrationVars, poolVars, tradeVars >>

PlatformSpec == PlatformInit /\ [][PlatformNext]_allVars
=============================================================================
