-------------------------- MODULE Platform_proofs --------------------------
(***************************************************************************)
(* The run over seven components is a run of each of them: what is proved of *)
(* a component holds of MCPlatform.                                          *)
(***************************************************************************)
EXTENDS MCPlatform, Backtest_proofs, Data_proofs

\* Every component begins as it does alone.
LEMMA ComponentsBegin ==
  PlatformInit => /\ TrialsInit /\ PostsInit /\ AccountInit /\ MigrationsInit
                  /\ PoolInit /\ TradesInit /\ PicksInit
BY DEF PlatformInit

\* A step of the run is a step of each component, or leaves it alone.
LEMMA ComponentsStep ==
  [PlatformNext]_allVars =>
    /\ [TrialsNext]_trialVars /\ [PostsNext]_postsVars /\ [AccountNext]_accountVars
    /\ [MigrationsNext]_migrationVars /\ [PoolNext]_poolVars /\ [TradesNext]_tradeVars
    /\ [PicksNext]_pickVars
<1> SUFFICES ASSUME [PlatformNext]_allVars
             PROVE  /\ [TrialsNext]_trialVars /\ [PostsNext]_postsVars /\ [AccountNext]_accountVars
                    /\ [MigrationsNext]_migrationVars /\ [PoolNext]_poolVars
                    /\ [TradesNext]_tradeVars /\ [PicksNext]_pickVars
  OBVIOUS
<1>1. CASE PlatformNext
  BY <1>1, Zenon DEF PlatformNext
<1>2. CASE UNCHANGED allVars
  <2>1. UNCHANGED << trialVars, postsVars, accountVars, migrationVars, poolVars, tradeVars,
                     pickVars >>
    BY <1>2 DEF allVars
  <2> QED BY <2>1, Zenon
<1> QED BY <1>1, <1>2

\* The run implements the specification of every component, so that each theorem about
\* one of them, on its invariants and on its actions, is a theorem about the run.
THEOREM PlatformImplements ==
  PlatformSpec => /\ TrialsSpec /\ PostsSpec /\ AccountSpec /\ MigrationsSpec
                  /\ PoolSpec /\ TradesSpec /\ PicksSpec
<1>1. QED BY ComponentsBegin, ComponentsStep, PTL
          DEF PlatformSpec, TrialsSpec, PostsSpec, AccountSpec, MigrationsSpec, PoolSpec,
              TradesSpec, PicksSpec

\* Every variable of the seven components keeps its type, for any constants.
THEOREM PlatformTypeCorrect == PlatformSpec => []PlatformTypeOK
<1>1. PostsInv => PostsTypeOK
  BY DEF PostsInv
<1>2. PoolInv => PoolTypeOK
  BY DEF PoolInv
<1>3. TrialsTypeOK /\ PostsTypeOK /\ AccountTypeOK /\ MigrationsTypeOK /\ PoolTypeOK
        /\ TradeTypeOK /\ PicksTypeOK => PlatformTypeOK
  BY DEF PlatformTypeOK
<1>4. QED BY <1>1, <1>2, <1>3, PlatformImplements, TrialsTypeCorrect, PostsInvHolds,
             AccountTypeCorrect, MigrationsTypeCorrect, PoolInvHolds, TradeTypeCorrect,
             PicksTypeCorrect, PTL
=============================================================================
