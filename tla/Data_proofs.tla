---------------------------- MODULE Data_proofs ----------------------------
(***************************************************************************)
(* Proofs about the components that keep data in a database: ConnectionPool, *)
(* for any number of threads and clients and any sizes of the pool,          *)
(* Migrations, for any number of runs, files and statements, PickImport, for  *)
(* any number of imports, symbols and days, any calendar and any files, and   *)
(* TradeBook, for any number of trades.                                       *)
(***************************************************************************)
EXTENDS ConnectionPool, Migrations, PickImport, TradeBook, SumTheorems,
        FiniteSetTheorems, WellFoundedInduction, TLAPS

\* Who has what: a connection in use is some thread's and of the pool, and what close_all
\* took away stays out of the pool while a thread has it.
HandedOut ==
  /\ \A c \in inUse \cup closedAll : \E t \in Thread : client[t] = c
  /\ pool \cap closedAll = {}

PoolInv == PoolTypeOK /\ PoolSound /\ HandedOut

\* What is taken out is counted out.
LEMMA CountOut ==
  ASSUME NEW s \in SUBSET Client, NEW gone \in SUBSET s
  PROVE  /\ Cardinality(s \ gone) = Cardinality(s) - Cardinality(gone)
         /\ Cardinality(s) \in Nat /\ Cardinality(gone) \in Nat /\ Cardinality(s \ gone) \in Nat
         /\ Cardinality(s \ gone) <= Cardinality(s)
<1>1. IsFiniteSet(s) /\ IsFiniteSet(gone) /\ IsFiniteSet(s \ gone)
  BY ClientAssumption, FS_Subset
<1>2. /\ Cardinality(s) \in Nat /\ Cardinality(gone) \in Nat /\ Cardinality(s \ gone) \in Nat
  BY <1>1, FS_CardinalityType
<1>3. (s \ gone) \cup gone = s /\ (s \ gone) \cap gone = {}
  OBVIOUS
<1>4. Cardinality((s \ gone) \cup gone) =
        Cardinality(s \ gone) + Cardinality(gone) - Cardinality((s \ gone) \cap gone)
  BY <1>1, FS_Union
<1>5. Cardinality({}) = 0
  BY FS_EmptySet
<1>6. Cardinality(s) = Cardinality(s \ gone) + Cardinality(gone) - 0
  BY <1>3, <1>4, <1>5
<1>7. QED BY <1>2, <1>6

\* What is put in is counted in.
LEMMA CountIn ==
  ASSUME NEW s \in SUBSET Client, NEW new \in SUBSET (Client \ s)
  PROVE  /\ Cardinality(s \cup new) = Cardinality(s) + Cardinality(new)
         /\ Cardinality(s) \in Nat /\ Cardinality(new) \in Nat
<1>1. IsFiniteSet(s) /\ IsFiniteSet(new)
  BY ClientAssumption, FS_Subset
<1>2. Cardinality(s) \in Nat /\ Cardinality(new) \in Nat
  BY <1>1, FS_CardinalityType
<1>3. s \cap new = {}
  OBVIOUS
<1>4. Cardinality(s \cup new) = Cardinality(s) + Cardinality(new) - Cardinality({})
  BY <1>1, <1>3, FS_Union
<1>5. Cardinality({}) = 0
  BY FS_EmptySet
<1>6. Cardinality(s \cup new) = Cardinality(s) + Cardinality(new) - 0
  BY <1>4, <1>5
<1>7. QED BY <1>2, <1>6

\* The last client is counted too.
LEMMA CountOne ==
  ASSUME NEW s \in SUBSET Client, NEW c \in Client
  PROVE  /\ c \notin s => Cardinality(s \cup {c}) = Cardinality(s) + 1
         /\ c \in s => Cardinality(s \ {c}) = Cardinality(s) - 1
         /\ Cardinality(s) \in Nat
BY ClientAssumption, FS_Subset, FS_AddElement, FS_RemoveElement, FS_CardinalityType

\* Taking idle connections out, alone: wait, shrink and health_check.
LEMMA ShrinkStep ==
  ASSUME PoolInv, NEW gone \in SUBSET Idle,
         pool' = pool \ gone, total' = total - Cardinality(gone), open' \subseteq Client,
         UNCHANGED << inUse, active, client, closedAll >>
  PROVE  PoolInv'
<1> USE DEF PoolInv, PoolSound
<1>1. gone \in SUBSET pool /\ pool \in SUBSET Client
  BY DEF Idle, PoolTypeOK
<1>2. /\ Cardinality(pool') = Cardinality(pool) - Cardinality(gone)
      /\ Cardinality(pool') <= Cardinality(pool) /\ Cardinality(pool) \in Nat
      /\ Cardinality(gone) \in Nat
  BY <1>1, CountOut
<1>3. PoolTypeOK'
  BY <1>1, <1>2 DEF PoolTypeOK, Idle
<1>4. OneThreadPerClient' /\ HandedOut'
  BY DEF OneThreadPerClient, HandedOut
<1>5. PoolCounts'
  BY <1>2, PoolSizeAssumption DEF PoolCounts, PoolTypeOK
<1>6. QED BY <1>3, <1>4, <1>5

\* A connection is marked in use for a thread that had none: it was in the pool and idle,
\* or nobody's.
LEMMA TakeStep ==
  ASSUME PoolInv, NEW t \in Thread, client[t] = NoClient, NEW c \in Client,
         c \notin inUse, c \notin closedAll, \A u \in Thread : client[u] # c,
         pool' \subseteq Client, inUse \subseteq pool', c \in pool', pool' \cap closedAll = {},
         total' = Cardinality(pool'), Cardinality(pool') <= MaxSize, open' \subseteq Client,
         inUse' = inUse \cup {c}, active' = active + 1,
         client' = [client EXCEPT ![t] = c], closedAll' = closedAll
  PROVE  PoolInv'
<1> USE DEF PoolInv, PoolSound
<1>1. inUse \in SUBSET Client /\ c # NoClient
  BY NoClientAssumption DEF PoolTypeOK
<1>2. Cardinality(inUse') = Cardinality(inUse) + 1 /\ Cardinality(inUse) \in Nat
  BY <1>1, CountOne
<1>3. client'[t] = c /\ \A u \in Thread : u # t => client'[u] = client[u]
  BY DEF PoolTypeOK
<1>4. PoolTypeOK'
  <2>1. Cardinality(pool') \in Nat
    BY ClientAssumption, FS_Subset, FS_CardinalityType
  <2>2. QED BY <2>1 DEF PoolTypeOK
<1>5. OneThreadPerClient'
  BY <1>3 DEF OneThreadPerClient
<1>6. HandedOut'
  <2>1. \A d \in inUse \cup closedAll : \E u \in Thread : u # t /\ client[u] = d
    BY NoClientAssumption DEF HandedOut, PoolTypeOK
  <2>2. \A d \in inUse' \cup closedAll' : \E u \in Thread : client'[u] = d
    BY <1>3, <2>1
  <2>3. QED BY <2>2 DEF HandedOut
<1>7. PoolCounts'
  BY <1>2 DEF PoolCounts
<1>8. QED BY <1>4, <1>5, <1>6, <1>7

\* Every step keeps the invariant.
LEMMA PoolStep ==
  ASSUME PoolInv, [PoolNext]_poolVars
  PROVE  PoolInv'
<1> USE DEF PoolInv, PoolSound
<1>1. pool \in SUBSET Client /\ inUse \in SUBSET pool /\ open \in SUBSET Client
  BY DEF PoolTypeOK
<1>2. ASSUME NEW t \in Thread, Reuse(t)
      PROVE  PoolInv'
  <2> PICK c \in Idle \cap open :
        /\ RemoveSome(Idle \ {c})
        /\ inUse' = inUse \cup {c}
        /\ client' = [client EXCEPT ![t] = c]
    BY <1>2 DEF Reuse
  <2> PICK gone \in SUBSET (Idle \ {c}) :
        /\ pool' = pool \ gone /\ total' = total - Cardinality(gone) /\ open' = open \ gone
    BY DEF RemoveSome
  <2>1. gone \in SUBSET pool /\ c \in pool /\ c \notin inUse /\ c \notin gone
    BY DEF Idle
  <2>2. /\ Cardinality(pool') = Cardinality(pool) - Cardinality(gone)
        /\ Cardinality(pool') <= Cardinality(pool) /\ Cardinality(pool) \in Nat
        /\ Cardinality(pool') \in Nat
    BY <1>1, <2>1, CountOut
  <2>3. total' = Cardinality(pool') /\ Cardinality(pool') <= MaxSize
    BY <2>2, PoolSizeAssumption DEF PoolCounts
  <2>4. c \notin closedAll /\ \A u \in Thread : client[u] # c
    BY <1>1, <2>1, NoClientAssumption DEF HandedOut, OneThreadPerClient
  <2>5. inUse \subseteq pool' /\ pool' \cap closedAll = {} /\ pool' \subseteq Client
        /\ open' \subseteq Client
    BY <1>1 DEF Idle, HandedOut
  <2>6. client[t] = NoClient /\ active' = active + 1 /\ closedAll' = closedAll
    BY <1>2 DEF Reuse
  <2>7. c \in pool'
    BY <2>1
  <2>8. QED BY <1>1, <2>1, <2>3, <2>4, <2>5, <2>6, <2>7, TakeStep
<1>3. ASSUME NEW t \in Thread, Grow(t)
      PROVE  PoolInv'
  <2> PICK gone \in SUBSET Idle, c \in Unused :
        /\ BelowMax(Cardinality(pool \ gone))
        /\ pool' = (pool \ gone) \cup {c} /\ open' = (open \ gone) \cup {c}
        /\ total' = total - Cardinality(gone) + 1
        /\ inUse' = inUse \cup {c} /\ client' = [client EXCEPT ![t] = c]
    BY <1>3 DEF Grow
  <2>1. gone \in SUBSET pool /\ c \in Client /\ c \notin pool /\ \A u \in Thread : client[u] # c
    BY DEF Idle, Unused
  <2>2. /\ Cardinality(pool \ gone) = Cardinality(pool) - Cardinality(gone)
        /\ Cardinality(pool) \in Nat /\ Cardinality(gone) \in Nat
        /\ Cardinality(pool \ gone) \in Nat
    BY <1>1, <2>1, CountOut
  <2>3. Cardinality(pool') = Cardinality(pool \ gone) + 1
    BY <1>1, <2>1, CountOne
  <2>4. total' = Cardinality(pool') /\ Cardinality(pool') <= MaxSize
    BY <2>2, <2>3, PoolSizeAssumption DEF PoolCounts, BelowMax
  <2>5. c \notin inUse /\ c \notin closedAll
    BY <1>1, <2>1 DEF HandedOut
  <2>6. inUse \subseteq pool' /\ pool' \cap closedAll = {} /\ pool' \subseteq Client
        /\ open' \subseteq Client /\ c \in pool'
    BY <1>1, <2>1, <2>5 DEF Idle, HandedOut
  <2>7. client[t] = NoClient /\ active' = active + 1 /\ closedAll' = closedAll
    BY <1>3 DEF Grow
  <2>8. QED BY <2>1, <2>4, <2>5, <2>6, <2>7, TakeStep
<1>4. ASSUME NEW t \in Thread, Wait(t)
      PROVE  PoolInv'
  <2> PICK gone \in SUBSET Idle :
        /\ pool' = pool \ gone /\ total' = total - Cardinality(gone) /\ open' = open \ gone
    BY <1>4 DEF Wait, RemoveSome
  <2>1. QED BY <1>1, <1>4, ShrinkStep DEF Wait
<1>5. CASE Shrink
  <2> PICK old \in SUBSET Idle :
        /\ pool' = pool \ old /\ total' = total - Cardinality(old) /\ open' = open \ old
    BY <1>5 DEF Shrink
  <2>1. QED BY <1>1, <1>5, ShrinkStep DEF Shrink
<1>6. CASE HealthCheck
  <2> PICK gone \in SUBSET Idle :
        /\ pool' = pool \ gone /\ total' = total - Cardinality(gone)
        /\ open' = (open \ gone) \cup (Idle \ gone)
    BY <1>6 DEF HealthCheck
  <2>1. open' \subseteq Client
    BY <1>1 DEF Idle
  <2>2. QED BY <1>6, <2>1, ShrinkStep DEF HealthCheck
<1>7. ASSUME NEW t \in Thread, Release(t)
      PROVE  PoolInv'
  <2> DEFINE c == client[t]
  <2>1. /\ c \in Client /\ client' = [client EXCEPT ![t] = NoClient]
        /\ closedAll' = closedAll \ {c} /\ UNCHANGED << pool, total, open >>
        /\ IF c \in inUse THEN inUse' = inUse \ {c} /\ active' = active - 1
                          ELSE UNCHANGED << inUse, active >>
    BY <1>7 DEF Release, PoolTypeOK
  <2>2. \A u \in Thread : u # t => client[u] # c
    BY <2>1, NoClientAssumption DEF OneThreadPerClient
  <2>3. client'[t] = NoClient /\ \A u \in Thread : u # t => client'[u] = client[u]
    BY <2>1 DEF PoolTypeOK
  <2> HIDE DEF c
  <2>4. inUse' = inUse \ {c}
    BY <2>1
  <2>5. active' = Cardinality(inUse') /\ active' \in Int
    <3>1. CASE c \in inUse
      BY <1>1, <2>1, <3>1, CountOne DEF PoolCounts, PoolTypeOK
    <3>2. CASE c \notin inUse
      BY <2>1, <3>2 DEF PoolCounts, PoolTypeOK
    <3>3. QED BY <3>1, <3>2
  <2>6. PoolTypeOK'
    BY <2>1, <2>4, <2>5 DEF PoolTypeOK
  <2>7. OneThreadPerClient'
    BY <2>1, <2>2, <2>3, <2>4 DEF OneThreadPerClient
  <2>8. HandedOut'
    <3>1. \A d \in inUse' \cup closedAll' : d # c /\ d \in inUse \cup closedAll
      BY <2>1, <2>4
    <3>2. \A d \in inUse' \cup closedAll' : \E u \in Thread : u # t /\ client[u] = d
      BY <3>1 DEF HandedOut, c
    <3>3. \A d \in inUse' \cup closedAll' : \E u \in Thread : client'[u] = d
      BY <2>3, <3>2
    <3>4. QED BY <2>1, <3>3 DEF HandedOut
  <2>9. PoolCounts'
    BY <2>1, <2>5 DEF PoolCounts
  <2>10. QED BY <2>6, <2>7, <2>8, <2>9
<1>8. ASSUME NEW t \in Thread, Use(t)
      PROVE  PoolInv'
  <2>1. open' \subseteq Client /\ UNCHANGED << pool, inUse, active, total, client, closedAll >>
    BY <1>1, <1>8 DEF Use, PoolTypeOK
  <2>2. QED BY <2>1 DEF PoolTypeOK, OneThreadPerClient, PoolCounts, HandedOut
<1>9. CASE Cleanup
  <2> PICK gone \in SUBSET Idle, new \in SUBSET Unused :
        /\ new # {} => Cardinality(pool \ gone) + Cardinality(new) <= MinSize
        /\ pool' = (pool \ gone) \cup new /\ open' = (open \ gone) \cup new
        /\ total' = total - Cardinality(gone) + Cardinality(new)
    BY <1>9 DEF Cleanup
  <2>1. gone \in SUBSET pool /\ new \in SUBSET (Client \ (pool \ gone)) /\ pool \ gone \in SUBSET Client
    BY <1>1 DEF Idle, Unused
  <2>2. /\ Cardinality(pool \ gone) = Cardinality(pool) - Cardinality(gone)
        /\ Cardinality(pool) \in Nat /\ Cardinality(gone) \in Nat
        /\ Cardinality(pool \ gone) \in Nat
    BY <1>1, <2>1, CountOut
  <2>3. Cardinality(pool') = Cardinality(pool \ gone) + Cardinality(new) /\ Cardinality(new) \in Nat
    BY <2>1, CountIn
  <2>4. total' = Cardinality(pool') /\ Cardinality(pool') <= MaxSize
    <3>1. CASE new = {}
      <4>1. Cardinality(new) = 0
        BY <3>1, FS_EmptySet
      <4>2. QED BY <2>2, <2>3, <4>1, PoolSizeAssumption DEF PoolCounts
    <3>2. CASE new # {}
      BY <2>2, <2>3, <3>2, PoolSizeAssumption DEF PoolCounts
    <3>3. QED BY <3>1, <3>2
  <2>5. UNCHANGED << inUse, active, client, closedAll >>
    BY <1>9 DEF Cleanup
  <2>6. PoolTypeOK'
    BY <1>1, <2>1, <2>2, <2>3, <2>4, <2>5 DEF PoolTypeOK, Idle
  <2>7. OneThreadPerClient' /\ PoolCounts'
    BY <2>4, <2>5 DEF OneThreadPerClient, PoolCounts
  <2>8. HandedOut'
    <3>1. \A d \in new : \A u \in Thread : client[u] # d
      BY DEF Unused
    <3>2. new \cap closedAll = {}
      BY <3>1 DEF HandedOut
    <3>3. QED BY <2>5, <3>2 DEF HandedOut
  <2>9. QED BY <2>6, <2>7, <2>8
<1>10. CASE CloseAll
  <2>1. /\ pool' = {} /\ inUse' = {} /\ total' = 0 /\ active' = 0 /\ open' = open \ pool
        /\ closedAll' = closedAll \cup inUse /\ client' = client
    BY <1>10 DEF CloseAll
  <2>2. Cardinality({}) = 0
    BY FS_EmptySet
  <2>3. PoolTypeOK'
    BY <1>1, <2>1 DEF PoolTypeOK
  <2>4. OneThreadPerClient' /\ HandedOut'
    BY <2>1 DEF OneThreadPerClient, HandedOut
  <2>5. PoolCounts'
    BY <2>1, <2>2, PoolSizeAssumption DEF PoolCounts
  <2>6. QED BY <2>3, <2>4, <2>5
<1>11. CASE UNCHANGED poolVars
  BY <1>11 DEF poolVars, PoolTypeOK, OneThreadPerClient, PoolCounts, HandedOut
<1>12. QED
  BY <1>2, <1>3, <1>4, <1>5, <1>6, <1>7, <1>8, <1>9, <1>10, <1>11 DEF PoolNext

\* The inductive invariant holds in every reachable state.
THEOREM PoolInvHolds == PoolSpec => []PoolInv
<1>1. PoolInit => PoolInv
  <2> SUFFICES ASSUME PoolInit
               PROVE  PoolInv
    OBVIOUS
  <2> USE DEF PoolInit
  <2>1. pool \in SUBSET Client /\ Cardinality(pool) <= MinSize
    OBVIOUS
  <2>2. Cardinality(pool) \in Nat /\ Cardinality({}) = 0
    BY <2>1, ClientAssumption, FS_Subset, FS_CardinalityType, FS_EmptySet
  <2>3. PoolTypeOK
    BY <2>1, <2>2 DEF PoolTypeOK
  <2>4. OneThreadPerClient /\ HandedOut
    BY DEF OneThreadPerClient, HandedOut
  <2>5. PoolCounts
    BY <2>1, <2>2, PoolSizeAssumption DEF PoolCounts
  <2>6. QED BY <2>3, <2>4, <2>5 DEF PoolInv, PoolSound
<1>2. PoolInv /\ [PoolNext]_poolVars => PoolInv'
  BY PoolStep
<1>3. QED BY <1>1, <1>2, PTL DEF PoolSpec

\* pool.py: no two threads ever share a client, maintenance never takes one that is in
\* use, and the counters and the limit are exact, for any sizes and interleaving.
THEOREM PoolSoundHolds == PoolSpec => []PoolSound
<1>1. PoolInv => PoolSound
  BY DEF PoolInv
<1>2. QED BY <1>1, PoolInvHolds, PTL
-----------------------------------------------------------------------------
\* Of a file a run has yet to apply, every file before it is recorded; of the one it is
\* at, so many statements took effect.
PlanFits ==
  \A r \in Run :
    /\ Len(discovered[r]) <= Files
    /\ runs[r] = "apply" => plan[r] # {} /\ plan[r] \subseteq 1..Len(discovered[r])
    /\ runs[r] # "apply" => plan[r] = {} /\ next[r] = 0
    /\ \A f \in 1..Len(discovered[r]) :
         runs[r] = "apply" /\ f \notin plan[r] => ledger[f] # 0
    /\ \A n \in 1..next[r] : StatementOf(r, n) \in schema

\* A run with the database to itself: no other run is active beside it, nor is any active
\* that it did not see begin.
Alone ==
  \A r \in Run \ overlapped, q \in Run :
    r # q /\ runs[q] \in Active => runs[r] \notin Active /\ last # r

\* What such a run is through with is recorded as it found it.
DoneIsCurrent ==
  \A r \in Run \ overlapped :
    runs[r] = "apply" \/ (runs[r] = "ok" /\ last = r) =>
      \A f \in (1..Len(discovered[r])) \ plan[r] : ledger[f] = discovered[r][f]

LedgerInv == MigrationsTypeOK /\ LedgerBacked /\ PlanFits /\ Alone /\ DoneIsCurrent
-----------------------------------------------------------------------------
\* Min of a set of numbers, a plan's files or a history's days, is one of them, and none
\* comes before it.
LEMMA LeastOf ==
  ASSUME NEW S \in SUBSET Nat, S # {}
  PROVE  Min(S) \in S /\ \A y \in S : Min(S) <= y
BY LeastNumber DEF Min

\* The file a run is at: it discovered it, and is through with those before it.
LEMMA CurrentFits ==
  ASSUME LedgerInv, NEW r \in Run, runs[r] = "apply"
  PROVE  /\ Current(r) \in plan[r] /\ Current(r) \in File
         /\ Current(r) \in 1..Len(discovered[r])
         /\ discovered[r][Current(r)] \in Nat \ {0}
         /\ \A e \in 1..(Current(r) - 1) : e \in 1..Len(discovered[r]) /\ e \notin plan[r]
<1>1. plan[r] \in SUBSET Nat /\ plan[r] # {} /\ plan[r] \subseteq 1..Len(discovered[r])
  BY MigrationsAssumption, SMTT(30) DEF LedgerInv, PlanFits, MigrationsTypeOK, File
<1>2. Current(r) \in plan[r] /\ \A e \in plan[r] : Current(r) <= e
  BY <1>1, LeastOf DEF Current
<1>3. discovered[r] \in Seq(Nat \ {0}) /\ Len(discovered[r]) \in Nat
  BY DEF LedgerInv, MigrationsTypeOK
<1> QED BY <1>1, <1>2, <1>3, SMTT(30) DEF LedgerInv, MigrationsTypeOK

\* Before the first run nothing is recorded.
LEMMA LedgerInvInit == MigrationsInit => LedgerInv
<1> SUFFICES ASSUME MigrationsInit PROVE LedgerInv
  OBVIOUS
<1>1. MigrationsTypeOK
  BY MigrationsAssumption DEF MigrationsInit, MigrationsTypeOK
<1>2. LedgerBacked
  BY DEF MigrationsInit, LedgerBacked
<1>3. PlanFits
  BY MigrationsAssumption DEF MigrationsInit, PlanFits
<1>4. Alone /\ DoneIsCurrent
  BY DEF MigrationsInit, Alone, DoneIsCurrent, Active
<1> QED BY <1>1, <1>2, <1>3, <1>4 DEF LedgerInv

\* A row recorded by a run that is through with a file's statements: the ledger claims no
\* more than was done, and a run that was alone finds what it recorded.
LEMMA RecordedKeeps ==
  ASSUME LedgerInv, NEW r \in Run, runs[r] = "apply", Recorded(r), schema \subseteq schema',
         schema' \subseteq File \X Nat \X (1..Statements),
         \A n \in 1..Statements : StatementOf(r, n) \in schema',
         UNCHANGED << backend, disk, discovered, overlapped, last >>
  PROVE  LedgerInv'
<1> DEFINE f == Current(r)
           v == discovered[r][f]
<1>1. /\ f \in plan[r] /\ f \in File /\ f \in 1..Len(discovered[r]) /\ v \in Nat \ {0}
      /\ \A e \in 1..(f - 1) : e \in 1..Len(discovered[r]) /\ e \notin plan[r]
  BY CurrentFits
<1>2. /\ ledger'[f] = v /\ \A e \in File \ {f} : ledger'[e] = ledger[e]
      /\ plan'[r] = plan[r] \ {f} /\ next'[r] = 0
      /\ runs'[r] = IF plan[r] \ {f} = {} THEN "ok" ELSE "apply"
      /\ \A q \in Run \ {r} : plan'[q] = plan[q] /\ next'[q] = next[q] /\ runs'[q] = runs[q]
  BY <1>1 DEF Recorded, LedgerInv, MigrationsTypeOK
<1>3. MigrationsTypeOK'
  <2>1. ledger' \in [File -> Nat] /\ plan' \in [Run -> SUBSET File]
    BY <1>1 DEF Recorded, LedgerInv, MigrationsTypeOK
  <2>2. runs' \in [Run -> {"new", "ok", "failed"} \cup Active]
    BY DEF Recorded, LedgerInv, MigrationsTypeOK, Active
  <2>3. next' \in [Run -> 0..Statements]
    BY MigrationsAssumption DEF Recorded, LedgerInv, MigrationsTypeOK
  <2> QED BY <2>1, <2>2, <2>3 DEF LedgerInv, MigrationsTypeOK
<1>4. \A e \in File : ledger[e] # 0 => ledger'[e] # 0
  BY <1>1, <1>2
<1>5. LedgerBacked'
  <2> SUFFICES ASSUME NEW e \in File, ledger'[e] # 0
               PROVE  /\ \A n \in 1..Statements : << e, ledger'[e], n >> \in schema'
                      /\ \A d \in 1..(e - 1) : ledger'[d] # 0
    BY DEF LedgerBacked
  <2>1. CASE e = f
    <3>1. \A n \in 1..Statements : << e, ledger'[e], n >> \in schema'
      BY <1>2, <2>1 DEF StatementOf
    <3>2. \A d \in 1..(e - 1) : ledger[d] # 0
      BY <1>1, <2>1 DEF LedgerInv, PlanFits
    <3> QED BY <1>4, <2>1, <3>1, <3>2, MigrationsAssumption DEF File
  <2>2. CASE e # f
    <3>1. /\ \A n \in 1..Statements : << e, ledger[e], n >> \in schema
          /\ \A d \in 1..(e - 1) : ledger[d] # 0
      BY <1>2, <2>2 DEF LedgerInv, LedgerBacked
    <3> QED BY <1>2, <1>4, <2>2, <3>1, MigrationsAssumption DEF File
  <2> QED BY <2>1, <2>2
<1>6. PlanFits'
  <2> SUFFICES ASSUME NEW q \in Run
               PROVE  /\ Len(discovered[q]) <= Files
                      /\ runs'[q] = "apply"
                           => plan'[q] # {} /\ plan'[q] \subseteq 1..Len(discovered[q])
                      /\ runs'[q] # "apply" => plan'[q] = {} /\ next'[q] = 0
                      /\ \A e \in 1..Len(discovered[q]) :
                           runs'[q] = "apply" /\ e \notin plan'[q] => ledger'[e] # 0
                      /\ \A n \in 1..next'[q] : StatementOf(q, n)' \in schema'
    BY DEF PlanFits
  <2>1. Len(discovered[q]) <= Files /\ Len(discovered[q]) \in Nat
    BY DEF LedgerInv, PlanFits, MigrationsTypeOK
  <2>2. 1..Len(discovered[q]) \subseteq File
    BY <2>1, MigrationsAssumption, SMTT(30) DEF File
  <2>3. CASE q = r
    <3>1. \A e \in 1..Len(discovered[r]) : e \notin plan'[r] => ledger'[e] # 0
      BY <1>1, <1>2, <1>4, <2>2, <2>3 DEF LedgerInv, PlanFits
    <3>2. /\ runs'[r] = "apply" => plan'[r] # {} /\ plan'[r] \subseteq 1..Len(discovered[r])
          /\ runs'[r] # "apply" => plan'[r] = {}
      BY <1>2 DEF LedgerInv, PlanFits
    <3>3. next'[r] = 0 /\ 1..next'[r] = {}
      BY <1>2
    <3> QED BY <2>1, <2>3, <3>1, <3>2, <3>3
  <2>4. CASE q # r
    <3>1. \A n \in 1..next[q] : StatementOf(q, n)' = StatementOf(q, n)
      BY <1>2, <2>4 DEF StatementOf, Current
    <3>2. \A n \in 1..next[q] : StatementOf(q, n)' \in schema'
      BY <1>4, <3>1 DEF LedgerInv, PlanFits
    <3>3. runs'[q] = runs[q] /\ plan'[q] = plan[q] /\ next'[q] = next[q]
      BY <1>2, <2>4
    <3>4. \A e \in 1..Len(discovered[q]) :
            runs'[q] = "apply" /\ e \notin plan'[q] => ledger'[e] # 0
      BY <1>4, <2>2, <3>3 DEF LedgerInv, PlanFits
    <3> QED BY <2>1, <3>2, <3>3, <3>4 DEF LedgerInv, PlanFits
  <2> QED BY <2>3, <2>4
<1>7. Alone'
  BY <1>2 DEF LedgerInv, Alone, Active
<1>8. DoneIsCurrent'
  <2> SUFFICES ASSUME NEW q \in Run, q \notin overlapped,
                      runs'[q] = "apply" \/ (runs'[q] = "ok" /\ last = q),
                      NEW e \in 1..Len(discovered[q]), e \notin plan'[q]
               PROVE  ledger'[e] = discovered[q][e]
    BY DEF DoneIsCurrent
  <2>1. q = r
    BY <1>2 DEF LedgerInv, Alone, Active
  <2>2. e \in File
    BY MigrationsAssumption DEF LedgerInv, PlanFits, MigrationsTypeOK, File
  <2>3. CASE e = f
    BY <1>2, <2>1, <2>3
  <2>4. CASE e # f
    BY <1>2, <2>1, <2>2, <2>4 DEF LedgerInv, DoneIsCurrent
  <2> QED BY <2>3, <2>4
<1> QED BY <1>3, <1>5, <1>6, <1>7, <1>8 DEF LedgerInv

\* Every step of the releases and the runs keeps the invariant.
LEMMA LedgerInvStep == LedgerInv /\ [MigrationsNext]_migrationVars => LedgerInv'
<1> SUFFICES ASSUME LedgerInv, [MigrationsNext]_migrationVars PROVE LedgerInv'
  OBVIOUS
<1>1. CASE NewRelease
  <2>1. MigrationsTypeOK'
    <3>1. CASE Len(disk) < Files /\ disk' = Append(disk, 1)
      BY <1>1, <3>1, MigrationsAssumption DEF NewRelease, LedgerInv, MigrationsTypeOK
    <3>2. CASE \E f \in 1..Len(disk) :
                 disk[f] <= MaxEdits /\ disk' = [disk EXCEPT ![f] = @ + 1]
      BY <1>1, <3>2, SMTT(30) DEF NewRelease, LedgerInv, MigrationsTypeOK
    <3> QED BY <1>1, <3>1, <3>2 DEF NewRelease
  <2>2. LedgerBacked' /\ PlanFits' /\ Alone' /\ DoneIsCurrent'
    BY <1>1 DEF NewRelease, LedgerInv, LedgerBacked, PlanFits, StatementOf, Current, Alone, DoneIsCurrent
  <2> QED BY <2>1, <2>2 DEF LedgerInv
<1>2. ASSUME NEW r \in Run, Discover(r) PROVE LedgerInv'
  <2>1. /\ runs[r] = "new" /\ runs'[r] = "read" /\ discovered'[r] = disk /\ last' = r
        /\ \A q \in Run \ {r} : runs'[q] = runs[q] /\ discovered'[q] = discovered[q]
    BY <1>2 DEF Discover, LedgerInv, MigrationsTypeOK
  <2>2. MigrationsTypeOK'
    BY <1>2 DEF Discover, LedgerInv, MigrationsTypeOK, Active
  <2>3. LedgerBacked'
    BY <1>2 DEF Discover, LedgerInv, LedgerBacked
  <2>4. PlanFits'
    <3> SUFFICES ASSUME NEW q \in Run
                 PROVE  /\ Len(discovered'[q]) <= Files
                        /\ runs'[q] = "apply"
                             => plan[q] # {} /\ plan[q] \subseteq 1..Len(discovered'[q])
                        /\ runs'[q] # "apply" => plan[q] = {} /\ next[q] = 0
                        /\ \A e \in 1..Len(discovered'[q]) :
                             runs'[q] = "apply" /\ e \notin plan[q] => ledger[e] # 0
                        /\ \A n \in 1..next[q] : StatementOf(q, n)' \in schema
      BY <1>2 DEF Discover, PlanFits
    <3>1. CASE q = r
      <4>1. plan[r] = {} /\ next[r] = 0 /\ 1..next[r] = {}
        BY <2>1 DEF LedgerInv, PlanFits
      <4>2. Len(discovered'[r]) <= Files
        BY <2>1 DEF LedgerInv, MigrationsTypeOK
      <4> QED BY <2>1, <3>1, <4>1, <4>2
    <3>2. CASE q # r
      <4>1. \A n \in 1..next[q] : StatementOf(q, n)' = StatementOf(q, n)
        BY <1>2, <2>1, <3>2 DEF Discover, StatementOf, Current
      <4> QED BY <2>1, <3>2, <4>1 DEF LedgerInv, PlanFits
    <3> QED BY <3>1, <3>2
  <2>5. overlapped \subseteq overlapped'
        /\ \A q \in Run \ {r} : runs[q] \in Active => q \in overlapped' /\ r \in overlapped'
    BY <1>2 DEF Discover
  <2>6. Alone'
    BY <2>1, <2>5 DEF LedgerInv, Alone, Active
  <2>7. DoneIsCurrent'
    BY <1>2, <2>1, <2>5 DEF Discover, LedgerInv, DoneIsCurrent
  <2> QED BY <2>2, <2>3, <2>4, <2>6, <2>7 DEF LedgerInv
<1>3. ASSUME NEW r \in Run, Plan(r) PROVE LedgerInv'
  <2> DEFINE files == {f \in 1..Len(discovered[r]) : ledger[f] # discovered[r][f]}
  <2>1. /\ runs[r] = "read" /\ plan'[r] = files /\ next[r] = 0
        /\ runs'[r] = IF files = {} THEN "ok" ELSE "apply"
        /\ \A q \in Run \ {r} : runs'[q] = runs[q] /\ plan'[q] = plan[q]
    BY <1>3 DEF Plan, Pending, LedgerInv, MigrationsTypeOK, PlanFits
  <2>2. files \subseteq File /\ 1..Len(discovered[r]) \subseteq File
    BY MigrationsAssumption DEF LedgerInv, PlanFits, MigrationsTypeOK, File
  <2>3. MigrationsTypeOK'
    BY <1>3, <2>2 DEF Plan, Pending, LedgerInv, MigrationsTypeOK, Active
  <2>4. LedgerBacked'
    BY <1>3 DEF Plan, LedgerInv, LedgerBacked
  <2>5. \A f \in 1..Len(discovered[r]) : discovered[r][f] # 0
    BY DEF LedgerInv, MigrationsTypeOK
  <2>6. PlanFits'
    <3> SUFFICES ASSUME NEW q \in Run
                 PROVE  /\ Len(discovered[q]) <= Files
                        /\ runs'[q] = "apply"
                             => plan'[q] # {} /\ plan'[q] \subseteq 1..Len(discovered[q])
                        /\ runs'[q] # "apply" => plan'[q] = {} /\ next[q] = 0
                        /\ \A e \in 1..Len(discovered[q]) :
                             runs'[q] = "apply" /\ e \notin plan'[q] => ledger[e] # 0
                        /\ \A n \in 1..next[q] : StatementOf(q, n)' \in schema
      BY <1>3 DEF Plan, PlanFits
    <3>1. CASE q = r
      BY <2>1, <2>5, <3>1 DEF LedgerInv, PlanFits
    <3>2. CASE q # r
      <4>1. \A n \in 1..next[q] : StatementOf(q, n)' = StatementOf(q, n)
        BY <1>3, <2>1, <3>2 DEF Plan, StatementOf, Current
      <4> QED BY <2>1, <3>2, <4>1 DEF LedgerInv, PlanFits
    <3> QED BY <3>1, <3>2
  <2>7. Alone'
    BY <1>3, <2>1 DEF Plan, LedgerInv, Alone, Active
  <2>8. DoneIsCurrent'
    BY <1>3, <2>1 DEF Plan, LedgerInv, DoneIsCurrent
  <2> QED BY <2>3, <2>4, <2>6, <2>7, <2>8 DEF LedgerInv
<1>4. ASSUME NEW r \in Run, ApplyFile(r) PROVE LedgerInv'
  <2>1. runs[r] = "apply"
    BY <1>4 DEF ApplyFile
  <2>2. Current(r) \in File /\ discovered[r][Current(r)] \in Nat
    BY <2>1, CurrentFits
  <2>3. schema' \subseteq File \X Nat \X (1..Statements)
    BY <1>4, <2>2 DEF ApplyFile, StatementOf, LedgerInv, MigrationsTypeOK
  <2> QED BY <1>4, <2>1, <2>3, RecordedKeeps DEF ApplyFile
<1>5. ASSUME NEW r \in Run, ExecuteStatement(r) PROVE LedgerInv'
  <2>1. /\ runs[r] = "apply" /\ next'[r] = next[r] + 1 /\ next[r] < Statements
        /\ next[r] \in Nat /\ schema' = schema \cup {StatementOf(r, next[r] + 1)}
        /\ \A q \in Run \ {r} : next'[q] = next[q]
    BY <1>5, MigrationsAssumption DEF ExecuteStatement, LedgerInv, MigrationsTypeOK
  <2>2. Current(r) \in File /\ discovered[r][Current(r)] \in Nat
    BY <2>1, CurrentFits
  <2>3. MigrationsTypeOK'
    BY <1>5, <2>1, <2>2, MigrationsAssumption, SMTT(30)
       DEF ExecuteStatement, StatementOf, LedgerInv, MigrationsTypeOK
  <2>4. LedgerBacked'
    BY <1>5, <2>1 DEF ExecuteStatement, LedgerInv, LedgerBacked
  <2>5. \A q \in Run, n \in Nat : StatementOf(q, n)' = StatementOf(q, n)
    BY <1>5 DEF ExecuteStatement, StatementOf, Current
  <2>6. PlanFits'
    BY <1>5, <2>1, <2>5 DEF ExecuteStatement, LedgerInv, PlanFits
  <2>7. Alone' /\ DoneIsCurrent'
    BY <1>5 DEF ExecuteStatement, LedgerInv, Alone, DoneIsCurrent
  <2> QED BY <2>3, <2>4, <2>6, <2>7 DEF LedgerInv
<1>6. ASSUME NEW r \in Run, InsertRow(r) PROVE LedgerInv'
  <2>1. runs[r] = "apply" /\ \A n \in 1..Statements : StatementOf(r, n) \in schema
    BY <1>6 DEF InsertRow, LedgerInv, PlanFits
  <2> QED BY <1>6, <2>1, RecordedKeeps DEF InsertRow, LedgerInv, MigrationsTypeOK
<1>7. ASSUME NEW r \in Run, RunFails(r) PROVE LedgerInv'
  <2>1. /\ runs'[r] = "failed" /\ plan'[r] = {} /\ next'[r] = 0
        /\ \A q \in Run \ {r} : plan'[q] = plan[q] /\ next'[q] = next[q] /\ runs'[q] = runs[q]
    BY <1>7 DEF RunFails, LedgerInv, MigrationsTypeOK
  <2>2. MigrationsTypeOK'
    BY <1>7, MigrationsAssumption DEF RunFails, LedgerInv, MigrationsTypeOK
  <2>3. LedgerBacked'
    BY <1>7 DEF RunFails, LedgerInv, LedgerBacked
  <2>4. PlanFits'
    <3> SUFFICES ASSUME NEW q \in Run
                 PROVE  /\ Len(discovered[q]) <= Files
                        /\ runs'[q] = "apply"
                             => plan'[q] # {} /\ plan'[q] \subseteq 1..Len(discovered[q])
                        /\ runs'[q] # "apply" => plan'[q] = {} /\ next'[q] = 0
                        /\ \A e \in 1..Len(discovered[q]) :
                             runs'[q] = "apply" /\ e \notin plan'[q] => ledger[e] # 0
                        /\ \A n \in 1..next'[q] : StatementOf(q, n)' \in schema
      BY <1>7 DEF RunFails, PlanFits
    <3>1. CASE q = r
      BY <2>1, <3>1 DEF LedgerInv, PlanFits
    <3>2. CASE q # r
      <4>1. \A n \in 1..next[q] : StatementOf(q, n)' = StatementOf(q, n)
        BY <1>7, <2>1, <3>2 DEF RunFails, StatementOf, Current
      <4> QED BY <2>1, <3>2, <4>1 DEF LedgerInv, PlanFits
    <3> QED BY <3>1, <3>2
  <2>5. Alone'
    BY <1>7, <2>1 DEF RunFails, LedgerInv, Alone, Active
  <2>6. DoneIsCurrent'
    BY <1>7, <2>1 DEF RunFails, LedgerInv, DoneIsCurrent
  <2> QED BY <2>2, <2>3, <2>4, <2>5, <2>6 DEF LedgerInv
<1>8. CASE UNCHANGED migrationVars
  BY <1>8 DEF migrationVars, LedgerInv, MigrationsTypeOK, LedgerBacked, PlanFits, StatementOf,
     Current, Alone, DoneIsCurrent
<1> QED BY <1>1, <1>2, <1>3, <1>4, <1>5, <1>6, <1>7, <1>8 DEF MigrationsNext

\* The state of the runner keeps its types in every reachable state.
THEOREM MigrationsTypeCorrect == MigrationsSpec => []MigrationsTypeOK
<1>1. LedgerInv => MigrationsTypeOK
  BY DEF LedgerInv
<1> QED BY LedgerInvInit, LedgerInvStep, <1>1, PTL DEF MigrationsSpec

\* What schema_migrations tells its readers and the next run (gr_db/runner.py,
\* executors.py): whatever fails, overlaps or is edited, a recorded file took effect whole
\* and every file before it is recorded; a run that was alone and ended well leaves the
\* ledger as it found the files.
THEOREM LedgerIsSound == MigrationsSpec => []LedgerSound
<1>1. LedgerInv => SuccessIsCurrent
  BY DEF LedgerInv, PlanFits, DoneIsCurrent, SuccessIsCurrent
<1>2. LedgerInv => LedgerSound
  BY <1>1 DEF LedgerInv, LedgerSound
<1> QED BY LedgerInvInit, LedgerInvStep, <1>2, PTL DEF MigrationsSpec
-----------------------------------------------------------------------------
(***************************************************************************)
(* PickImport                                                               *)
(***************************************************************************)
Checked  == {"derive", "update", "supersede", "insert", "commit"}
Prepared == {"update", "supersede", "insert", "commit"}
Holding  == {"insert", "commit"}

\* An import that has not begun has left nothing behind; a batch is there once it is done,
\* and what it is to write is for its day and under its name.
OwnItems ==
  \A i \in Import :
    /\ step[i] = "idle" => request[i] = NoRequest /\ derived[i] = {}
    /\ step[i] # "idle" => request[i].day \in PickDay
    /\ step[i] = "done" <=> status[i] # "none"
    /\ \A r \in derived[i] : r.batch = i /\ r.day = request[i].day

\* What an UPDATE found are batches of its day, and those it holds stay active: no other
\* import holds them.
Held ==
  /\ \A i \in Import :
       /\ aim[i] # {} => step[i] \in {"supersede"} \cup Holding
       /\ \A b \in aim[i] : /\ status[b] # "none" /\ request[b].day = request[i].day
                            /\ step[i] \in Holding => status[b] = "active"
  /\ \A i, j \in Import : i # j /\ step[i] \in Holding /\ step[j] \in Holding
                            => aim[i] \cap aim[j] = {}

\* uq_batch_active, while an INSERT is not committed and when it is.
OneBatch ==
  /\ \A i \in Import : step[i] = "commit" => ActiveOn(request[i].day) \subseteq aim[i]
  /\ \A i, j \in Import :
       step[i] = "commit" /\ step[j] = "commit" /\ request[i].day = request[j].day => i = j
  /\ \A b, c \in Import :
       status[b] = "active" /\ status[c] = "active" /\ request[b].day = request[c].day => b = c

\* The items are those of the active batches.
RowsOfActive ==
  \A r \in Item : r \in rows <=> status[r.batch] = "active" /\ r \in derived[r.batch]

\* Two imports that run at once have both been noted.
Noted == \A i, j \in Running : i # j => i \in concurrent

\* An import that was alone may replace what it will replace, and a day once imported
\* keeps a pool.
Permitted ==
  /\ \A i \in Import \ concurrent :
       step[i] \in Checked => request[i].overwrite \/ ActiveOn(request[i].day) = {}
  /\ \A b \in Import : status[b] = "superseded" => ActiveOn(request[b].day) # {}

\* The two dates of a row, by the rows it goes on from.
ExplainedBy(r, history) ==
  /\ r.source = "derived" => r.entry = Min({q.entry : q \in history} \cup {r.day})
  /\ r.product = Min({q.product : q \in history} \cup {r.entry})

ExplainedRow(r) == ExplainedBy(r, GoesOnFrom(r))

\* The items an import is about to write are explained as its rows will be.
Prepares ==
  \A i \in Import \ concurrent :
    step[i] \in Prepared /\ PrevDay(request[i].day) = request[i].day - 1
      => \A r \in derived[i] : ExplainedRow(r)

\* Past the check of the order, only pools that were imported meanwhile are of later days.
InOrder ==
  \A i \in Import, b \in Import \ concurrent :
    step[i] \in {"existing"} \cup Checked /\ status[b] = "active"
      => request[b].day <= request[i].day

PicksInv ==
  /\ PicksTypeOK /\ OwnItems /\ Held /\ OneBatch /\ RowsOfActive
  /\ Noted /\ Permitted /\ ReplacedOnPurpose
  /\ Prepares /\ InOrder /\ PoolsExplained
-----------------------------------------------------------------------------
\* Max of trading days is one of them, and none is later.
LEMMA MaxOfDays ==
  ASSUME NEW S \in SUBSET (0..LastDay), S # {}
  PROVE  Max(S) \in S /\ \A y \in S : y <= Max(S)
<1> DEFINE T == {LastDay - y : y \in S}
<1>1. LastDay \in Nat
  BY PickAssumption
<1>2. T \subseteq Nat /\ T # {}
  <2>1. ASSUME NEW y \in S PROVE LastDay - y \in Nat
    BY <1>1
  <2> QED BY <2>1
<1>3. PICK t \in T : \A u \in T : t <= u
  BY <1>2, LeastNumber
<1>4. PICK x \in S : t = LastDay - x
  OBVIOUS
<1>5. ASSUME NEW y \in S PROVE y <= x
  <2>1. LastDay - x <= LastDay - y
    BY <1>3, <1>4
  <2>2. x \in Nat /\ y \in Nat
    OBVIOUS
  <2> QED BY <1>1, <2>1, <2>2
<1>6. \A y \in S : x >= y
  BY <1>5, <1>1
<1>7. Max(S) \in S /\ \A y \in S : Max(S) >= y
  BY <1>6 DEF Max
<1> QED BY <1>7, <1>1

\* Before the first import there are no pools.
LEMMA PicksInvInit == PicksInit => PicksInv
<1> SUFFICES ASSUME PicksInit PROVE PicksInv
  OBVIOUS
<1> USE DEF PicksInit
<1>1. PicksTypeOK
  BY DEF PicksTypeOK
<1>2. OwnItems /\ Held
  BY DEF OwnItems, Held, Holding
<1>3. OneBatch /\ RowsOfActive
  BY DEF OneBatch, RowsOfActive, Item
<1>4. Noted /\ Permitted /\ ReplacedOnPurpose
  BY DEF Noted, Running, Permitted, ReplacedOnPurpose, Checked
<1>5. Prepares /\ InOrder /\ PoolsExplained
  BY DEF Prepares, Prepared, InOrder, Checked, PoolsExplained
<1> QED BY <1>1, <1>2, <1>3, <1>4, <1>5 DEF PicksInv
-----------------------------------------------------------------------------
\* Nothing is committed by the step, and no pool is forgotten to have overlapped.
Quiet ==
  /\ UNCHANGED << status, rows >>
  /\ \A b \in Import : status[b] # "none" => request'[b] = request[b]
  /\ \A b \in concurrent : status[b] # "none" => b \in concurrent'

\* Such a step leaves the history, and what is promised of it, as it is.
LEMMA QuietKeeps ==
  ASSUME PicksInv, Quiet
  PROVE  /\ \A d : ActiveOn(d)' = ActiveOn(d)
         /\ \A r : GoesOnFrom(r)' = GoesOnFrom(r)
         /\ ReplacedOnPurpose' /\ PoolsExplained'
<1>1. \A d : ActiveOn(d)' = ActiveOn(d)
  BY DEF Quiet, ActiveOn
<1>2. \A r : GoesOnFrom(r)' = GoesOnFrom(r)
  <2> TAKE r
  <2>1. LastItem(r.day, r.symbol)' = LastItem(r.day, r.symbol)
    BY DEF LastItem, Earlier, Quiet
  <2>2. ActiveOn(r.day - 1)' = ActiveOn(r.day - 1)
    BY <1>1
  <2> QED BY <2>1, <2>2 DEF GoesOnFrom
<1>3. ReplacedOnPurpose'
  <2> SUFFICES ASSUME NEW b \in Import, status[b] = "superseded",
                      NEW c \in Import, status[c] = "active",
                      request[c].day = request[b].day, c \notin concurrent
               PROVE  request[c].overwrite
    BY DEF Quiet, ReplacedOnPurpose, ActiveOn
  <2> QED BY DEF PicksInv, ReplacedOnPurpose, ActiveOn
<1>4. PoolsExplained'
  <2> SUFFICES ASSUME NEW r \in rows, r.batch \notin concurrent', PrevDay(r.day) = r.day - 1
               PROVE  ExplainedBy(r, GoesOnFrom(r)')
    BY DEF Quiet, PoolsExplained, ExplainedBy
  <2>1. r \in Item /\ status[r.batch] = "active" /\ r.batch \in Import
    BY DEF PicksInv, PicksTypeOK, RowsOfActive, Item
  <2>2. r.batch \notin concurrent
    BY <2>1 DEF Quiet
  <2>3. ExplainedBy(r, GoesOnFrom(r))
    BY <2>2 DEF PicksInv, PoolsExplained, ExplainedBy
  <2> QED BY <1>2, <2>3
<1> QED BY <1>1, <1>2, <1>3, <1>4
-----------------------------------------------------------------------------
\* An import that begins: it holds nothing yet, and overlaps with those that run.
LEMMA BeginKeeps ==
  ASSUME PicksInv, NEW i \in Import, BeginImport(i)
  PROVE  PicksInv'
<1> USE DEF BeginImport
<1>1. step[i] = "idle" /\ status[i] = "none" /\ derived[i] = {} /\ aim[i] = {}
  BY DEF PicksInv, PicksTypeOK, OwnItems, Held, Holding
<1>2. PICK d \in PickDay, o \in BOOLEAN, f \in PoolFile :
        request' = [request EXCEPT ![i] = [day |-> d, overwrite |-> o, file |-> f]]
  OBVIOUS
<1>3. Quiet
  BY <1>1, <1>2 DEF Quiet, PicksInv, PicksTypeOK
<1>4. /\ \A e : ActiveOn(e)' = ActiveOn(e)
      /\ \A r : GoesOnFrom(r)' = GoesOnFrom(r)
      /\ ReplacedOnPurpose' /\ PoolsExplained'
  BY <1>3, QuietKeeps
<1>5. PicksTypeOK'
  BY <1>2 DEF PicksInv, PicksTypeOK, Running
<1>6. \A j \in Import \ {i} : step'[j] = step[j] /\ request'[j] = request[j]
  BY <1>2 DEF PicksInv, PicksTypeOK
<1>7. step'[i] = "order" /\ request'[i].day = d
  BY <1>2 DEF PicksInv, PicksTypeOK
<1>8. OwnItems'
  BY <1>1, <1>6, <1>7 DEF PicksInv, OwnItems
<1>9. Held'
  BY <1>1, <1>6, <1>7 DEF PicksInv, Held, Holding
<1>10. OneBatch'
  BY <1>1, <1>6, <1>7 DEF PicksInv, OneBatch, ActiveOn
<1>11. RowsOfActive'
  BY DEF PicksInv, RowsOfActive
<1>12. Noted'
  BY <1>6, <1>7 DEF PicksInv, Noted, Running
<1>13. Permitted'
  <2>1. ASSUME NEW j \in Import, j \notin concurrent', step'[j] \in Checked
        PROVE  request'[j].overwrite \/ ActiveOn(request'[j].day) = {}
    BY <2>1, <1>6, <1>7 DEF PicksInv, Permitted, Checked
  <2>2. ASSUME NEW b \in Import, status[b] = "superseded"
        PROVE  ActiveOn(request'[b].day) # {}
    BY <2>2, <1>1, <1>6 DEF PicksInv, Permitted
  <2> QED BY <2>1, <2>2, <1>4 DEF Permitted, ActiveOn
<1>14. Prepares'
  <2> SUFFICES ASSUME NEW j \in Import, j \notin concurrent', step'[j] \in Prepared,
                      PrevDay(request'[j].day) = request'[j].day - 1, NEW r \in derived[j]
               PROVE  ExplainedBy(r, GoesOnFrom(r)')
    BY DEF Prepares, ExplainedRow
  <2>1. j # i /\ j \notin concurrent
    BY <1>7 DEF Prepared
  <2>2. ExplainedBy(r, GoesOnFrom(r))
    BY <2>1, <1>6 DEF PicksInv, Prepares, ExplainedRow
  <2> QED BY <2>2, <1>4
<1>15. InOrder'
  BY <1>1, <1>6, <1>7 DEF PicksInv, InOrder, Checked
<1> QED BY <1>4, <1>5, <1>8, <1>9, <1>10, <1>11, <1>12, <1>13, <1>14, <1>15 DEF PicksInv

\* An import that ends without a trace.
LEMMA GivesUpKeeps ==
  ASSUME PicksInv, NEW i \in Import, step[i] \notin {"idle", "done"}, GivesUp(i)
  PROVE  PicksInv'
<1> USE DEF GivesUp
<1>1. status[i] = "none"
  BY DEF PicksInv, PicksTypeOK, OwnItems
<1>2. Quiet
  BY <1>1 DEF Quiet, PicksInv, PicksTypeOK
<1>3. /\ \A e : ActiveOn(e)' = ActiveOn(e)
      /\ \A r : GoesOnFrom(r)' = GoesOnFrom(r)
      /\ ReplacedOnPurpose' /\ PoolsExplained'
  BY <1>2, QuietKeeps
<1>4. PicksTypeOK'
  BY DEF PicksInv, PicksTypeOK
<1>5. \A j \in Import \ {i} : /\ step'[j] = step[j] /\ request'[j] = request[j]
                              /\ derived'[j] = derived[j] /\ aim'[j] = aim[j]
  BY DEF PicksInv, PicksTypeOK
<1>6. /\ step'[i] = "idle" /\ request'[i] = NoRequest
      /\ derived'[i] = {} /\ aim'[i] = {}
  BY DEF PicksInv, PicksTypeOK
<1>7. OwnItems'
  BY <1>1, <1>5, <1>6 DEF PicksInv, OwnItems
<1>8. Held'
  BY <1>1, <1>5, <1>6 DEF PicksInv, Held, Holding
<1>9. OneBatch'
  BY <1>1, <1>5, <1>6 DEF PicksInv, OneBatch, ActiveOn
<1>10. RowsOfActive'
  BY <1>1, <1>5, <1>6 DEF PicksInv, RowsOfActive, Item
<1>11. Noted'
  BY <1>5, <1>6 DEF PicksInv, Noted, Running
<1>12. Permitted'
  <2>1. ASSUME NEW j \in Import, j \notin concurrent', step'[j] \in Checked
        PROVE  request'[j].overwrite \/ ActiveOn(request'[j].day) = {}
    BY <2>1, <1>5, <1>6 DEF PicksInv, Permitted, Checked
  <2>2. ASSUME NEW b \in Import, status[b] = "superseded"
        PROVE  ActiveOn(request'[b].day) # {}
    BY <2>2, <1>1, <1>5 DEF PicksInv, Permitted
  <2> QED BY <2>1, <2>2, <1>3, SMTT(30) DEF Permitted, ActiveOn
<1>13. Prepares'
  <2> SUFFICES ASSUME NEW j \in Import, j \notin concurrent', step'[j] \in Prepared,
                      PrevDay(request'[j].day) = request'[j].day - 1, NEW r \in derived'[j]
               PROVE  ExplainedBy(r, GoesOnFrom(r)')
    BY DEF Prepares, ExplainedRow
  <2>1. j # i /\ j \notin concurrent
    BY <1>6 DEF Prepared
  <2>2. ExplainedBy(r, GoesOnFrom(r))
    BY <2>1, <1>5 DEF PicksInv, Prepares, ExplainedRow
  <2> QED BY <2>2, <1>3
<1>14. InOrder'
  BY <1>1, <1>5, <1>6 DEF PicksInv, InOrder, Checked
<1> QED BY <1>3, <1>4, <1>7, <1>8, <1>9, <1>10, <1>11, <1>12, <1>13, <1>14 DEF PicksInv

\* LatestDay is a day, and no pool is of a later one.
LEMMA LatestIsLast ==
  ASSUME PicksInv
  PROVE  /\ LatestDay \in 0..LastDay
         /\ \A b \in Import : status[b] = "active" => request[b].day <= LatestDay
<1> DEFINE S == {request[b].day : b \in {c \in Import : status[c] = "active"}} \cup {0}
<1>1. S \in SUBSET (0..LastDay) /\ S # {}
  BY PickAssumption DEF PicksInv, OwnItems, PickDay
<1>2. Max(S) \in S /\ \A y \in S : y <= Max(S)
  BY <1>1, MaxOfDays
<1> QED BY <1>1, <1>2 DEF LatestDay

\* The check of the order lets an import go on.
LEMMA OrderedKeeps ==
  ASSUME PicksInv, NEW i \in Import, step[i] = "order", ~ OutOfOrder(i),
         Goes(i, "existing"), UNCHANGED << request, derived, aim >>
  PROVE  PicksInv'
<1> USE DEF Goes
<1>1. Quiet
  BY DEF Quiet
<1>2. /\ \A e : ActiveOn(e)' = ActiveOn(e)
      /\ \A r : GoesOnFrom(r)' = GoesOnFrom(r)
      /\ ReplacedOnPurpose' /\ PoolsExplained'
  BY <1>1, QuietKeeps
<1>3. PicksTypeOK'
  BY DEF PicksInv, PicksTypeOK
<1>4. step'[i] = "existing" /\ \A j \in Import \ {i} : step'[j] = step[j]
  BY DEF PicksInv, PicksTypeOK
<1>5. OwnItems' /\ Held'
  BY <1>4 DEF PicksInv, OwnItems, Held, Holding
<1>6. OneBatch' /\ RowsOfActive'
  BY <1>4 DEF PicksInv, OneBatch, ActiveOn, RowsOfActive
<1>7. Noted'
  BY <1>4 DEF PicksInv, Noted, Running
<1>8. Permitted'
  BY <1>4 DEF PicksInv, Permitted, Checked, ActiveOn
<1>9. Prepares'
  BY <1>2, <1>4 DEF PicksInv, Prepares, Prepared, ExplainedRow
<1>10. InOrder'
  <2>1. \A b \in Import : status[b] = "active" => request[b].day <= request[i].day
    <3>1. ~ (request[i].day < LatestDay)
      BY DEF OutOfOrder
    <3>2. /\ \A b \in Import : status[b] = "active" => request[b].day \in 1..LastDay
          /\ request[i].day \in 1..LastDay
      BY DEF PicksInv, OwnItems, PickDay
    <3> QED BY <3>1, <3>2, LatestIsLast, PickAssumption
  <2> QED BY <2>1, <1>4 DEF PicksInv, InOrder, Checked
<1> QED BY <1>2, <1>3, <1>5, <1>6, <1>7, <1>8, <1>9, <1>10 DEF PicksInv

\* The check of the day's pool, and of the rows, lets an import go on.
LEMMA UnopposedKeeps ==
  ASSUME PicksInv, NEW i \in Import, step[i] = "existing",
         ActiveOn(request[i].day) = {} \/ request[i].overwrite,
         Goes(i, "derive"), UNCHANGED << request, derived, aim >>
  PROVE  PicksInv'
<1> USE DEF Goes
<1>1. Quiet
  BY DEF Quiet
<1>2. /\ \A e : ActiveOn(e)' = ActiveOn(e)
      /\ \A r : GoesOnFrom(r)' = GoesOnFrom(r)
      /\ ReplacedOnPurpose' /\ PoolsExplained'
  BY <1>1, QuietKeeps
<1>3. PicksTypeOK'
  BY DEF PicksInv, PicksTypeOK
<1>4. step'[i] = "derive" /\ \A j \in Import \ {i} : step'[j] = step[j]
  BY DEF PicksInv, PicksTypeOK
<1>5. OwnItems' /\ Held'
  BY <1>4 DEF PicksInv, OwnItems, Held, Holding
<1>6. OneBatch' /\ RowsOfActive'
  BY <1>4 DEF PicksInv, OneBatch, ActiveOn, RowsOfActive
<1>7. Noted' /\ InOrder'
  BY <1>4 DEF PicksInv, Noted, Running, InOrder, Checked
<1>8. Permitted'
  BY <1>4 DEF PicksInv, Permitted, Checked, ActiveOn
<1>9. Prepares'
  BY <1>2, <1>4 DEF PicksInv, Prepares, Prepared, ExplainedRow
<1> QED BY <1>2, <1>3, <1>5, <1>6, <1>7, <1>8, <1>9 DEF PicksInv

\* A derived item is well formed: its two dates are days.
LEMMA DerivedTypes ==
  ASSUME PicksInv, NEW i \in Import, step[i] = "derive",
         NEW s \in PickSymbol, request[i].file[s] # Out
  PROVE  DerivedItem(i, s) \in Item
<1> DEFINE d == request[i].day
           given == request[i].file[s]
           prev == Previous(d, s)
           entry == IF given # Blank THEN given ELSE Min({r.entry : r \in prev} \cup {d})
<1>1. d \in PickDay /\ PickDay \subseteq Nat
  BY PickAssumption DEF PicksInv, OwnItems, PickDay
<1>2. given \in Given \cup {Blank}
  BY DEF PicksInv, PicksTypeOK, OwnItems, PoolFile, NoRequest, NoFile
<1>3. prev \subseteq Item
  BY DEF Previous, LastItem, Earlier, PicksInv, PicksTypeOK
<1>4. {r.entry : r \in prev} \cup {d} \in SUBSET PickDay
  BY <1>1, <1>3 DEF Item
<1>5. entry \in PickDay
  <2>1. Min({r.entry : r \in prev} \cup {d}) \in PickDay
    BY <1>1, <1>4, LeastOf
  <2> QED BY <1>2, <2>1, PickAssumption
<1>6. {r.product : r \in prev} \cup {entry} \in SUBSET PickDay
  BY <1>3, <1>5 DEF Item
<1>7. Min({r.product : r \in prev} \cup {entry}) \in PickDay
  BY <1>1, <1>6, LeastOf
<1> QED BY <1>1, <1>5, <1>7 DEF DerivedItem, Item

\* What an item inherits its dates from is what its row goes on from, when the calendar
\* knows the day before.
LEMMA GoesOnFromPrevious ==
  ASSUME PicksInv, NEW r \in Item, PrevDay(r.day) = r.day - 1
  PROVE  GoesOnFrom(r) = Previous(r.day, r.symbol)
<1>1. \A q \in Earlier(r.day, r.symbol) : q.day \in Nat /\ q.day <= r.day - 1
  BY PickAssumption DEF Earlier, PicksInv, PicksTypeOK, Item, PickDay
<1>2. CASE ActiveOn(r.day - 1) = {}
  BY <1>2 DEF GoesOnFrom, Previous, LastItem
<1>3. CASE ActiveOn(r.day - 1) # {}
  <2>1. GoesOnFrom(r) = {q \in LastItem(r.day, r.symbol) : q.day = r.day - 1}
    BY <1>3 DEF GoesOnFrom
  <2>2. Previous(r.day, r.symbol) = {q \in Earlier(r.day, r.symbol) : q.day = r.day - 1}
    BY <1>3 DEF Previous
  <2> QED BY <1>1, <2>1, <2>2 DEF LastItem
<1> QED BY <1>2, <1>3

\* A derived item is for the import's day, under its name, and explained by the history.
LEMMA DerivedExplained ==
  ASSUME PicksInv, NEW i \in Import, step[i] = "derive",
         NEW s \in PickSymbol, request[i].file[s] # Out
  PROVE  LET r == DerivedItem(i, s)
         IN  /\ r.batch = i /\ r.day = request[i].day
             /\ PrevDay(r.day) = r.day - 1 => ExplainedRow(r)
<1> DEFINE r == DerivedItem(i, s)
           d == request[i].day
<1>1. r \in Item
  BY DerivedTypes
<1>2. r.batch = i /\ r.day = d /\ r.symbol = s
  BY DEF DerivedItem
<1>3. ExplainedBy(r, Previous(d, s))
  BY DEF ExplainedBy, DerivedItem
<1>4. ASSUME PrevDay(r.day) = r.day - 1 PROVE ExplainedRow(r)
  <2>1. GoesOnFrom(r) = Previous(d, s)
    BY <1>1, <1>2, <1>4, GoesOnFromPrevious
  <2> QED BY <1>3, <2>1 DEF ExplainedRow
<1> QED BY <1>2, <1>4

\* Deriving the items of the file.
LEMMA DeriveKeeps ==
  ASSUME PicksInv, NEW i \in Import, step[i] = "derive",
         derived' = [derived EXCEPT ![i] =
             {DerivedItem(i, s) : s \in {t \in PickSymbol : request[i].file[t] # Out}}],
         request' = [request EXCEPT ![i].file = NoFile],
         Goes(i, "update"), UNCHANGED aim
  PROVE  PicksInv'
<1> USE DEF Goes
<1>1. status[i] = "none" /\ request[i].day \in PickDay
  BY DEF PicksInv, PicksTypeOK, OwnItems
<1>2. /\ step'[i] = "update"
      /\ request'[i].day = request[i].day /\ request'[i].overwrite = request[i].overwrite
  BY <1>1 DEF PicksInv, PicksTypeOK
<1>3. \A j \in Import \ {i} : /\ step'[j] = step[j] /\ request'[j] = request[j]
                              /\ derived'[j] = derived[j]
  BY DEF PicksInv, PicksTypeOK
<1>4. ASSUME NEW r \in derived'[i]
      PROVE  /\ r \in Item /\ r.batch = i /\ r.day = request[i].day
             /\ PrevDay(r.day) = r.day - 1 => ExplainedRow(r)
  <2>1. PICK s \in PickSymbol : request[i].file[s] # Out /\ r = DerivedItem(i, s)
    BY <1>4 DEF PicksInv, PicksTypeOK
  <2> QED BY <2>1, DerivedTypes, DerivedExplained
<1>5. Quiet
  BY <1>1, <1>3 DEF Quiet
<1>6. /\ \A e : ActiveOn(e)' = ActiveOn(e)
      /\ \A r : GoesOnFrom(r)' = GoesOnFrom(r)
      /\ ReplacedOnPurpose' /\ PoolsExplained'
  BY <1>5, QuietKeeps
<1>7. PicksTypeOK'
  <2>1. derived'[i] \subseteq Item
    BY <1>4
  <2>2. derived' \in [Import -> SUBSET Item]
    BY <2>1, <1>3 DEF PicksInv, PicksTypeOK
  <2>3. request'[i] \in [day : PickDay, overwrite : BOOLEAN, file : PoolFile]
    <3>1. NoFile \in PoolFile
      BY DEF NoFile, PoolFile
    <3>2. request[i] \in [day : PickDay, overwrite : BOOLEAN, file : PoolFile]
      BY <1>1, PickAssumption DEF PicksInv, PicksTypeOK, NoRequest, PickDay
    <3>3. request'[i] = [request[i] EXCEPT !.file = NoFile]
      BY DEF PicksInv, PicksTypeOK
    <3> QED BY <3>1, <3>2, <3>3
  <2>4. request' \in [Import -> {NoRequest} \cup
                            [day : PickDay, overwrite : BOOLEAN, file : PoolFile]]
    BY <2>3, <1>3 DEF PicksInv, PicksTypeOK
  <2> QED BY <2>2, <2>4 DEF PicksInv, PicksTypeOK
<1>8. OwnItems'
  BY <1>1, <1>2, <1>3, <1>4 DEF PicksInv, OwnItems
<1>9. Held'
  BY <1>1, <1>2, <1>3 DEF PicksInv, Held, Holding
<1>10. OneBatch'
  BY <1>1, <1>2, <1>3 DEF PicksInv, OneBatch, ActiveOn
<1>11. RowsOfActive'
  BY <1>1, <1>3 DEF PicksInv, RowsOfActive, Item
<1>12. Noted'
  BY <1>2, <1>3 DEF PicksInv, Noted, Running
<1>13. Permitted'
  <2>1. ASSUME NEW j \in Import, j \notin concurrent', step'[j] \in Checked
        PROVE  request'[j].overwrite \/ ActiveOn(request'[j].day) = {}
    BY <2>1, <1>2, <1>3 DEF PicksInv, Permitted, Checked
  <2>2. ASSUME NEW b \in Import, status[b] = "superseded"
        PROVE  ActiveOn(request'[b].day) # {}
    BY <2>2, <1>1, <1>3 DEF PicksInv, Permitted
  <2> QED BY <2>1, <2>2, <1>6 DEF Permitted, ActiveOn
<1>14. Prepares'
  <2> SUFFICES ASSUME NEW j \in Import, j \notin concurrent, step'[j] \in Prepared,
                      PrevDay(request'[j].day) = request'[j].day - 1, NEW r \in derived'[j]
               PROVE  ExplainedBy(r, GoesOnFrom(r)')
    BY DEF Prepares, ExplainedRow
  <2>1. CASE j = i
    BY <2>1, <1>2, <1>4, <1>6 DEF ExplainedRow
  <2>2. CASE j # i
    BY <2>2, <1>3, <1>6 DEF PicksInv, Prepares, ExplainedRow
  <2> QED BY <2>1, <2>2
<1>15. InOrder'
  BY <1>1, <1>2, <1>3 DEF PicksInv, InOrder, Checked
<1> QED BY <1>6, <1>7, <1>8, <1>9, <1>10, <1>11, <1>12, <1>13, <1>14, <1>15 DEF PicksInv

\* The UPDATE finds the active batches of its day.
LEMMA FindActiveKeeps ==
  ASSUME PicksInv, NEW i \in Import, FindActive(i)
  PROVE  PicksInv'
<1> USE DEF FindActive, Goes
<1>1. Quiet
  BY DEF Quiet
<1>2. /\ \A e : ActiveOn(e)' = ActiveOn(e)
      /\ \A r : GoesOnFrom(r)' = GoesOnFrom(r)
      /\ ReplacedOnPurpose' /\ PoolsExplained'
  BY <1>1, QuietKeeps
<1>3. PicksTypeOK'
  BY DEF PicksInv, PicksTypeOK, ActiveOn
<1>4. /\ step'[i] = "supersede"
      /\ \A j \in Import \ {i} : step'[j] = step[j] /\ aim'[j] = aim[j]
  BY DEF PicksInv, PicksTypeOK
<1>5. OwnItems'
  BY <1>4 DEF PicksInv, OwnItems
<1>6. Held'
  <2>1. step[i] = "update" /\ aim'[i] = ActiveOn(request[i].day)
    BY DEF FindActive, PicksInv, PicksTypeOK
  <2> QED BY <2>1, <1>4 DEF PicksInv, Held, Holding, ActiveOn
<1>7. OneBatch'
  BY <1>4 DEF FindActive, PicksInv, OneBatch, ActiveOn
<1>8. RowsOfActive' /\ Noted' /\ InOrder'
  BY <1>4 DEF PicksInv, RowsOfActive, Noted, Running, InOrder, Checked
<1>9. Permitted'
  BY <1>4 DEF PicksInv, Permitted, Checked, ActiveOn
<1>10. Prepares'
  BY <1>2, <1>4 DEF PicksInv, Prepares, Prepared, ExplainedRow
<1> QED BY <1>2, <1>3, <1>5, <1>6, <1>7, <1>8, <1>9, <1>10 DEF PicksInv

\* The UPDATE waits for those who hold what it found, and takes what is active still.
LEMMA SupersedeKeeps ==
  ASSUME PicksInv, NEW i \in Import, Supersede(i)
  PROVE  PicksInv'
<1> USE DEF Supersede, Goes
<1>1. Quiet
  BY DEF Quiet
<1>2. /\ \A e : ActiveOn(e)' = ActiveOn(e)
      /\ \A r : GoesOnFrom(r)' = GoesOnFrom(r)
      /\ ReplacedOnPurpose' /\ PoolsExplained'
  BY <1>1, QuietKeeps
<1>3. PicksTypeOK'
  BY DEF PicksInv, PicksTypeOK, ActiveOn
<1>4. /\ step'[i] = "insert"
      /\ \A j \in Import \ {i} : step'[j] = step[j] /\ aim'[j] = aim[j]
  BY DEF PicksInv, PicksTypeOK
<1>5. OwnItems'
  BY <1>4 DEF PicksInv, OwnItems
<1>6. Held'
  <2>1. /\ step[i] = "supersede" /\ aim'[i] = {b \in aim[i] : status[b] = "active"}
        /\ \A j \in Import \ {i} : step[j] \in Holding => aim[i] \cap aim[j] = {}
    BY DEF Supersede, PicksInv, PicksTypeOK, Holding
  <2> QED BY <2>1, <1>4 DEF PicksInv, Held, Holding
<1>7. OneBatch'
  BY <1>4 DEF Supersede, PicksInv, OneBatch, ActiveOn
<1>8. RowsOfActive' /\ Noted' /\ InOrder'
  BY <1>4 DEF PicksInv, RowsOfActive, Noted, Running, InOrder, Checked
<1>9. Permitted'
  BY <1>4 DEF PicksInv, Permitted, Checked, ActiveOn
<1>10. Prepares'
  BY <1>2, <1>4 DEF PicksInv, Prepares, Prepared, ExplainedRow
<1> QED BY <1>2, <1>3, <1>5, <1>6, <1>7, <1>8, <1>9, <1>10 DEF PicksInv

\* The INSERT finds no other active batch of the day, committed or not.
LEMMA InsertedKeeps ==
  ASSUME PicksInv, NEW i \in Import, step[i] = "insert", Ahead(i) = {},
         ActiveOn(request[i].day) \subseteq aim[i],
         Goes(i, "commit"), UNCHANGED << request, derived, aim >>
  PROVE  PicksInv'
<1> USE DEF Goes
<1>1. Quiet
  BY DEF Quiet
<1>2. /\ \A e : ActiveOn(e)' = ActiveOn(e)
      /\ \A r : GoesOnFrom(r)' = GoesOnFrom(r)
      /\ ReplacedOnPurpose' /\ PoolsExplained'
  BY <1>1, QuietKeeps
<1>3. PicksTypeOK'
  BY DEF PicksInv, PicksTypeOK, ActiveOn
<1>4. /\ step'[i] = "commit"
      /\ \A j \in Import \ {i} : step'[j] = step[j] /\ aim'[j] = aim[j]
  BY DEF PicksInv, PicksTypeOK
<1>5. OwnItems'
  BY <1>4 DEF PicksInv, OwnItems
<1>6. Held'
  BY <1>4 DEF PicksInv, Held, Holding
<1>7. OneBatch'
  <2>1. \A j \in Import \ {i} : step[j] = "commit" => request[j].day # request[i].day
    BY DEF Ahead
  <2> QED BY <2>1, <1>4 DEF PicksInv, OneBatch, ActiveOn
<1>8. RowsOfActive' /\ Noted' /\ InOrder'
  BY <1>4 DEF PicksInv, RowsOfActive, Noted, Running, InOrder, Checked
<1>9. Permitted'
  BY <1>4 DEF PicksInv, Permitted, Checked, ActiveOn
<1>10. Prepares'
  BY <1>2, <1>4 DEF PicksInv, Prepares, Prepared, ExplainedRow
<1> QED BY <1>2, <1>3, <1>5, <1>6, <1>7, <1>8, <1>9, <1>10 DEF PicksInv

\* The commit: the new pool takes the place of the one its import held, the history of
\* earlier days stands, and whoever still runs has overlapped with this import.
LEMMA CommitKeeps ==
  ASSUME PicksInv, NEW i \in Import, CommitImport(i)
  PROVE  PicksInv'
<1> DEFINE d == request[i].day
<1> USE DEF CommitImport
<1>1. /\ step[i] = "commit" /\ status[i] = "none" /\ i \notin aim[i] /\ d \in PickDay
      /\ \A b \in aim[i] : b \in Import /\ status[b] = "active" /\ request[b].day = d
      /\ \A b \in Import : status[b] = "active" /\ request[b].day = d => b \in aim[i]
  BY DEF PicksInv, PicksTypeOK, OwnItems, Held, Holding, OneBatch, ActiveOn
<1>2. /\ step'[i] = "done" /\ status'[i] = "active" /\ aim'[i] = {}
      /\ derived'[i] = derived[i]
      /\ \A j \in Import \ {i} : step'[j] = step[j] /\ aim'[j] = aim[j]
      /\ \A b \in aim[i] : status'[b] = "superseded" /\ derived'[b] = {}
      /\ \A b \in Import \ ({i} \cup aim[i]) : status'[b] = status[b] /\ derived'[b] = derived[b]
  BY <1>1 DEF PicksInv, PicksTypeOK
<1>3. PicksTypeOK'
  BY DEF PicksInv, PicksTypeOK
<1>4. \A e : e # d => ActiveOn(e)' = ActiveOn(e)
  BY <1>1, <1>2 DEF ActiveOn
<1>5. ActiveOn(d)' = {i}
  BY <1>1, <1>2 DEF ActiveOn
<1>6. \A q : q.day # d => (q \in rows' <=> q \in rows)
  BY DEF PicksInv, OwnItems
<1>7. \A r \in Item : r.day <= d => GoesOnFrom(r)' = GoesOnFrom(r)
  <2> TAKE r \in Item
  <2> HAVE r.day <= d
  <2>1. r.day \in Nat /\ d \in Nat /\ rows \subseteq Item /\ rows' \subseteq Item
    BY <1>1, <1>3, PickAssumption DEF Item, PickDay, PicksInv, PicksTypeOK
  <2>2. \A q \in Item : q.day < r.day => q.day # d
    BY <2>1, PickAssumption DEF Item, PickDay
  <2>3. Earlier(r.day, r.symbol)' = Earlier(r.day, r.symbol)
    BY <1>6, <2>1, <2>2 DEF Earlier
  <2>4. LastItem(r.day, r.symbol)' = LastItem(r.day, r.symbol)
    BY <2>3 DEF LastItem
  <2>5. ActiveOn(r.day - 1)' = ActiveOn(r.day - 1)
    BY <1>4, <2>1
  <2> QED BY <2>4, <2>5 DEF GoesOnFrom
<1>8. \A j \in Import \ {i} : step[j] \notin {"idle", "done"} => i \in concurrent' /\ j \in concurrent'
  BY <1>1 DEF PicksInv, Noted, Running, OwnItems
<1>9. OwnItems'
  BY <1>1, <1>2 DEF PicksInv, OwnItems
<1>10. Held'
  <2>1. ASSUME NEW j \in Import, NEW b \in aim'[j]
        PROVE  /\ j # i /\ status'[b] # "none" /\ request[b].day = request[j].day
               /\ step'[j] \in Holding => status'[b] = "active"
    <3>1. j # i /\ b \in aim[j] /\ b \in Import /\ status[b] # "none"
      BY <1>2, <2>1 DEF PicksInv, PicksTypeOK, Held
    <3>2. request[b].day = request[j].day /\ status'[b] # "none"
      BY <1>2, <3>1 DEF PicksInv, Held
    <3>3. ASSUME step'[j] \in Holding PROVE status'[b] = "active"
      BY <1>1, <1>2, <3>1, <3>3 DEF PicksInv, Held, Holding
    <3> QED BY <3>1, <3>2, <3>3
  <2>2. \A j \in Import : aim'[j] # {} => step'[j] \in {"supersede"} \cup Holding
    BY <1>2 DEF PicksInv, Held
  <2>3. \A j, k \in Import : j # k /\ step'[j] \in Holding /\ step'[k] \in Holding
                               => aim'[j] \cap aim'[k] = {}
    BY <1>2 DEF PicksInv, Held, Holding
  <2> QED BY <2>1, <2>2, <2>3, SMTT(30) DEF Held
<1>11. OneBatch'
  <2>1. ASSUME NEW j \in Import, step'[j] = "commit"
        PROVE  ActiveOn(request[j].day)' \subseteq aim'[j]
    <3>1. j # i /\ step[j] = "commit" /\ request[j].day # d
      BY <1>1, <1>2, <2>1 DEF PicksInv, OneBatch
    <3> QED BY <1>2, <3>1 DEF PicksInv, OneBatch, ActiveOn
  <2>2. \A j, k \in Import : step'[j] = "commit" /\ step'[k] = "commit"
                               /\ request[j].day = request[k].day => j = k
    BY <1>2 DEF PicksInv, OneBatch
  <2>3. \A b, c \in Import : status'[b] = "active" /\ status'[c] = "active"
                               /\ request[b].day = request[c].day => b = c
    BY <1>1, <1>2 DEF PicksInv, OneBatch
  <2> QED BY <2>1, <2>2, <2>3 DEF OneBatch
<1>12. RowsOfActive'
  <2> SUFFICES ASSUME NEW r \in Item
               PROVE  r \in rows' <=> status'[r.batch] = "active" /\ r \in derived'[r.batch]
    BY DEF RowsOfActive
  <2>1. r.batch \in Import /\ (r \in rows <=> status[r.batch] = "active" /\ r \in derived[r.batch])
    BY DEF Item, PicksInv, RowsOfActive
  <2>2. \A b \in Import : r \in derived[b] => r.batch = b /\ r.day = request[b].day
    BY DEF PicksInv, OwnItems
  <2> QED BY <1>1, <1>2, <2>1, <2>2
<1>13. Noted'
  BY <1>2, <1>8 DEF PicksInv, Noted, Running
<1>14. Permitted'
  <2>1. \A j \in Import \ concurrent' : step'[j] \notin Checked
    BY <1>2, <1>8 DEF Checked
  <2>2. ASSUME NEW b \in Import, status'[b] = "superseded"
        PROVE  ActiveOn(request[b].day)' # {}
    <3>1. CASE request[b].day = d
      BY <1>5, <3>1
    <3>2. CASE request[b].day # d
      BY <1>1, <1>2, <1>4, <2>2, <3>2 DEF PicksInv, Permitted
    <3> QED BY <3>1, <3>2
  <2> QED BY <2>1, <2>2 DEF Permitted, ActiveOn
<1>15. ReplacedOnPurpose'
  <2> SUFFICES ASSUME NEW b \in Import, status'[b] = "superseded",
                      NEW c \in Import, status'[c] = "active",
                      request[c].day = request[b].day, c \notin concurrent'
               PROVE  request[c].overwrite
    BY DEF ReplacedOnPurpose, ActiveOn
  <2>1. CASE request[b].day = d
    <3>1. c = i /\ i \notin concurrent
      BY <1>1, <1>2, <2>1
    <3>2. request[i].overwrite \/ ActiveOn(d) = {}
      BY <1>1, <3>1 DEF PicksInv, Permitted, Checked
    <3>3. ActiveOn(d) # {}
      <4>1. CASE b \in aim[i]
        BY <1>1, <4>1 DEF ActiveOn
      <4>2. CASE b \notin aim[i]
        BY <1>2, <2>1, <4>2 DEF PicksInv, Permitted
      <4> QED BY <4>1, <4>2
    <3> QED BY <3>1, <3>2, <3>3
  <2>2. CASE request[b].day # d
    <3>1. status[b] = "superseded" /\ status[c] = "active" /\ c \notin concurrent
      BY <1>1, <1>2, <2>2
    <3> QED BY <3>1 DEF PicksInv, ReplacedOnPurpose, ActiveOn
  <2> QED BY <2>1, <2>2
<1>16. Prepares'
  BY <1>2, <1>8 DEF Prepares, Prepared
<1>17. InOrder'
  BY <1>1, <1>2, <1>8 DEF PicksInv, InOrder, Checked
<1>18. PoolsExplained'
  <2> SUFFICES ASSUME NEW r \in rows', r.batch \notin concurrent', PrevDay(r.day) = r.day - 1
               PROVE  ExplainedBy(r, GoesOnFrom(r)')
    BY DEF PoolsExplained, ExplainedBy
  <2>1. r \in Item
    BY <1>3 DEF PicksTypeOK
  <2>2. CASE r \in derived[i]
    <3>1. r.batch = i /\ r.day = d /\ i \notin concurrent
      BY <1>1, <2>2 DEF PicksInv, OwnItems
    <3>2. ExplainedBy(r, GoesOnFrom(r))
      BY <1>1, <2>2, <3>1 DEF PicksInv, Prepares, Prepared, ExplainedRow
    <3>3. r.day <= d
      BY <3>1, <1>1, PickAssumption DEF PickDay
    <3> QED BY <1>7, <2>1, <3>2, <3>3
  <2>3. CASE r \notin derived[i]
    <3>1. r \in rows /\ r.day # d
      BY <2>3
    <3>2. /\ r.batch \in Import /\ status[r.batch] = "active"
          /\ request[r.batch].day = r.day /\ r.batch \notin concurrent
      BY <1>1, <2>1, <3>1 DEF PicksInv, RowsOfActive, Item, OwnItems
    <3>3. r.day <= d
      BY <1>1, <3>2 DEF PicksInv, InOrder, Checked
    <3>4. ExplainedBy(r, GoesOnFrom(r))
      BY <3>1, <3>2 DEF PicksInv, PoolsExplained, ExplainedBy
    <3> QED BY <1>7, <2>1, <3>3, <3>4
  <2> QED BY <2>2, <2>3
<1> QED
  BY <1>3, <1>9, <1>10, <1>11, <1>12, <1>13, <1>14, <1>15, <1>16, <1>17, <1>18 DEF PicksInv
-----------------------------------------------------------------------------
\* Every step of an import keeps the invariant.
LEMMA PicksInvStep == PicksInv /\ [PicksNext]_pickVars => PicksInv'
<1> SUFFICES ASSUME PicksInv, [PicksNext]_pickVars PROVE PicksInv'
  OBVIOUS
<1>1. ASSUME NEW i \in Import, BeginImport(i) PROVE PicksInv'
  BY <1>1, BeginKeeps
<1>2. ASSUME NEW i \in Import, CheckOrder(i) PROVE PicksInv'
  BY <1>2, GivesUpKeeps, OrderedKeeps DEF CheckOrder
<1>3. ASSUME NEW i \in Import, CheckExisting(i) PROVE PicksInv'
  BY <1>3, GivesUpKeeps, UnopposedKeeps DEF CheckExisting
<1>4. ASSUME NEW i \in Import, DeriveItems(i) PROVE PicksInv'
  BY <1>4, GivesUpKeeps, DeriveKeeps DEF DeriveItems
<1>5. ASSUME NEW i \in Import, FindActive(i) PROVE PicksInv'
  BY <1>5, FindActiveKeeps
<1>6. ASSUME NEW i \in Import, Supersede(i) PROVE PicksInv'
  BY <1>6, SupersedeKeeps
<1>7. ASSUME NEW i \in Import, InsertBatch(i) PROVE PicksInv'
  BY <1>7, GivesUpKeeps, InsertedKeeps DEF InsertBatch
<1>8. ASSUME NEW i \in Import, CommitImport(i) PROVE PicksInv'
  BY <1>8, CommitKeeps
<1>9. ASSUME NEW i \in Import, ImportFails(i) PROVE PicksInv'
  BY <1>9, GivesUpKeeps DEF ImportFails, Running
<1>10. CASE UNCHANGED pickVars
  <2>1. Quiet
    BY <1>10 DEF pickVars, Quiet
  <2>2. /\ \A r : GoesOnFrom(r)' = GoesOnFrom(r)
        /\ ReplacedOnPurpose' /\ PoolsExplained'
    BY <2>1, QuietKeeps
  <2>3. PicksTypeOK' /\ OwnItems' /\ Held' /\ OneBatch' /\ RowsOfActive'
    BY <1>10 DEF pickVars, PicksInv, PicksTypeOK, OwnItems, Held, OneBatch, RowsOfActive, ActiveOn
  <2>4. Noted' /\ Permitted' /\ InOrder'
    BY <1>10 DEF pickVars, PicksInv, Noted, Running, Permitted, ActiveOn, InOrder
  <2>5. Prepares'
    BY <1>10, <2>2 DEF pickVars, PicksInv, Prepares, ExplainedRow
  <2> QED BY <2>2, <2>3, <2>4, <2>5 DEF PicksInv
<1> QED
  BY <1>1, <1>2, <1>3, <1>4, <1>5, <1>6, <1>7, <1>8, <1>9, <1>10 DEF PicksNext

\* The invariant gives whole pools: the rows of a day are the items of its active batch,
\* and there is at most one.
LEMMA InvGivesPools == PicksInv => PoolsIntact
<1> SUFFICES ASSUME PicksInv PROVE PoolsIntact
  OBVIOUS
<1>1. ASSUME NEW d \in PickDay
      PROVE  {r \in rows : r.day = d} = UNION {derived[b] : b \in ActiveOn(d)}
  <2>1. ASSUME NEW r \in rows, r.day = d PROVE \E b \in ActiveOn(d) : r \in derived[b]
    <3>1. r \in Item /\ r.batch \in Import
      BY DEF PicksInv, PicksTypeOK, Item
    <3>2. status[r.batch] = "active" /\ r \in derived[r.batch] /\ request[r.batch].day = d
      BY <2>1, <3>1 DEF PicksInv, RowsOfActive, OwnItems
    <3> QED BY <3>1, <3>2 DEF ActiveOn
  <2>2. ASSUME NEW b \in ActiveOn(d), NEW r \in derived[b] PROVE r \in rows /\ r.day = d
    <3>1. b \in Import /\ status[b] = "active" /\ request[b].day = d
      BY DEF ActiveOn
    <3>2. r \in Item /\ r.batch = b /\ r.day = d
      BY <3>1 DEF PicksInv, PicksTypeOK, OwnItems
    <3> QED BY <3>1, <3>2 DEF PicksInv, RowsOfActive
  <2> QED BY <2>1, <2>2
<1>2. ASSUME NEW d \in PickDay PROVE Cardinality(ActiveOn(d)) <= 1
  <2>1. CASE ActiveOn(d) = {}
    BY <2>1, FS_EmptySet
  <2>2. CASE ActiveOn(d) # {}
    <3>1. PICK b \in Import : ActiveOn(d) = {b}
      BY <2>2 DEF PicksInv, OneBatch, ActiveOn
    <3> QED BY <3>1, FS_Singleton
  <2> QED BY <2>1, <2>2
<1> QED BY <1>1, <1>2 DEF PoolsIntact

\* The state of the imports keeps its types in every reachable state.
THEOREM PicksTypeCorrect == PicksSpec => []PicksTypeOK
<1>1. PicksInv => PicksTypeOK
  BY DEF PicksInv
<1> QED BY PicksInvInit, PicksInvStep, <1>1, PTL DEF PicksSpec

\* The promise of pick.batch and pick.item (services/pick_import.py): however imports
\* interleave, fail or replace one another, the rows of a day are one whole pool; what an
\* import that ran alone derived is what the history explains; and a pool is replaced
\* without leave only where imports overlap.
THEOREM PicksAreSound == PicksSpec => []PicksSound
<1>1. PicksInv => PicksSound
  BY InvGivesPools DEF PicksInv, PicksSound
<1> QED BY PicksInvInit, PicksInvStep, <1>1, PTL DEF PicksSpec
-----------------------------------------------------------------------------
(***************************************************************************)
(* TradeBook                                                                *)
(***************************************************************************)
TradeRow == [action : {"none", "buy", "sell"}, qty : TradeQty \cup {0},
             price : TradePrice \cup {0}, at : TradeTime \cup {0},
             realized : Int, cum : Int \cup {NoPnl}]
Book == [net : Int, cost : Int, cum : Int, realized : Int]

\* What the constants give: times and amounts are numbers.
LEMMA TradeConstants ==
  /\ TradeQty \cup {0} \subseteq Nat /\ TradePrice \cup {0} \subseteq Nat
  /\ TradeTime \subseteq Nat \ {0} /\ (Trade # {} => 1 \in TradeTime)
<1>1. IsFiniteSet(Trade) /\ TradeQty \subseteq Nat \ {0} /\ TradePrice \subseteq Nat
  BY TradeAssumption, Zenon
<1>2. Cardinality(Trade) \in Nat /\ (Trade # {} => Cardinality(Trade) # 0)
  BY <1>1, FS_CardinalityType, FS_EmptySet
<1> QED BY <1>1, <1>2 DEF TradeTime

LEMMA NumbersOfRow ==
  ASSUME NEW r \in TradeRow
  PROVE  r.qty \in Nat /\ r.price \in Nat /\ r.at \in Nat
<1>1. r.qty \in TradeQty \cup {0} /\ r.price \in TradePrice \cup {0} /\ r.at \in TradeTime \cup {0}
  BY Zenon DEF TradeRow
<1> QED BY <1>1, TradeConstants

\* A trade makes a book of a book, whichever way it goes.
LEMMA BookedFits ==
  ASSUME NEW book \in Book, NEW t, t.qty \in Nat, t.price \in Nat
  PROVE  Booked(book, t) \in Book
<1> DEFINE avg == IF book.net = 0 THEN 0 ELSE book.cost \div Shares(book.net)
           closed == Lesser(t.qty, Shares(book.net))
           pnl == IF ~ Turns(book, t) THEN 0
                  ELSE closed * (IF book.net > 0 THEN t.price - avg ELSE avg - t.price)
           net == book.net + Signed(t)
           cost == IF ~ Turns(book, t) THEN book.cost + t.qty * t.price
                   ELSE IF t.qty <= Shares(book.net) THEN avg * Shares(net)
                   ELSE t.price * Shares(net)
<1>1. book.net \in Int /\ book.cost \in Int /\ book.cum \in Int
  BY DEF Book
<1>2. Shares(book.net) \in Nat /\ (book.net # 0 => Shares(book.net) > 0)
  BY <1>1 DEF Shares
<1>3. avg \in Int
  BY <1>1, <1>2
<1>4. closed \in Nat
  BY <1>2 DEF Lesser
<1>5. net \in Int /\ Shares(net) \in Nat
  BY <1>1 DEF Signed, Shares
<1> HIDE DEF avg, closed, net
<1>6. pnl \in Int
  <2>1. t.price - avg \in Int /\ avg - t.price \in Int
    BY <1>3
  <2>2. closed * (t.price - avg) \in Int /\ closed * (avg - t.price) \in Int
    BY <1>4, <2>1
  <2> QED BY <2>2
<1>7. cost \in Int
  <2>1. /\ book.cost + t.qty * t.price \in Int /\ avg * Shares(net) \in Int
        /\ t.price * Shares(net) \in Int
    BY <1>1, <1>3, <1>5
  <2> QED BY <2>1
<1>8. Booked(book, t) = [net |-> net, realized |-> pnl, cum |-> book.cum + pnl, cost |-> cost]
  BY Zenon DEF Booked, net, avg, closed
<1> HIDE DEF pnl, cost
<1>9. book.cum + pnl \in Int
  BY <1>1, <1>6
<1> QED BY <1>5, <1>6, <1>7, <1>8, <1>9 DEF Book

\* The book after the trade at position k, and the books up to position n.
NextBook(r, S, k, book) ==
  LET at == {t \in S : r[t].at = k}
  IN  IF at = {} THEN book ELSE Booked(book, r[CHOOSE t \in at : TRUE])
Books(r, S, n, g) ==
  g = [k \in 0..n |-> IF k = 0 THEN FlatBook ELSE NextBook(r, S, k, g[k - 1])]

LEMMA BookIsChosen ==
  ASSUME NEW r, NEW S, NEW n
  PROVE  BookAt(r, S, n) = (CHOOSE g : Books(r, S, n, g))[n]
BY DEF BookAt, Books, NextBook

\* The books of a position are those before it and one more, so there are some for each.
LEMMA BooksExist ==
  ASSUME NEW r, NEW S, NEW n \in Nat
  PROVE  \E g : Books(r, S, n, g)
<1> DEFINE Missing == {m \in Nat : ~ \E g : Books(r, S, m, g)}
<1>1. CASE Missing = {}
  BY <1>1
<1>2. CASE Missing # {}
  <2>1. PICK m \in Missing : \A j \in Missing : m <= j
    <3>1. Missing \in SUBSET Nat
      OBVIOUS
    <3> HIDE DEF Missing
    <3> QED BY <1>2, <3>1, LeastNumber
  <2>2. m \in Nat /\ ~ \E g : Books(r, S, m, g)
    OBVIOUS
  <2>3. CASE m = 0
    <3> DEFINE h == [k \in 0..m |-> FlatBook]
    <3>1. h = [k \in 0..m |-> IF k = 0 THEN FlatBook ELSE NextBook(r, S, k, h[k - 1])]
      BY <2>3
    <3>2. Books(r, S, m, h)
      BY <3>1, Zenon DEF Books
    <3> QED BY <2>2, <3>2
  <2>4. CASE m # 0
    <3>1. m - 1 \in Nat /\ m - 1 \notin Missing
      BY <2>1, <2>2, <2>4
    <3>2. PICK g : Books(r, S, m - 1, g)
      BY <3>1
    <3> DEFINE h == [k \in 0..m |-> IF k = m THEN NextBook(r, S, k, g[k - 1]) ELSE g[k]]
    <3>3. \A k \in 0..(m - 1) : g[k] = IF k = 0 THEN FlatBook ELSE NextBook(r, S, k, g[k - 1])
      BY <3>2 DEF Books
    <3>4. ASSUME NEW k \in 0..m
          PROVE  h[k] = IF k = 0 THEN FlatBook ELSE NextBook(r, S, k, h[k - 1])
      <4>1. CASE k = 0
        BY <2>2, <2>4, <3>1, <3>3, <4>1
      <4>2. CASE k # 0
        <5>1. k - 1 \in 0..(m - 1) /\ k - 1 \in 0..m /\ k - 1 # m
          BY <2>2, <4>2
        <5>2. h[k - 1] = g[k - 1]
          BY <5>1
        <5>3. h[k] = NextBook(r, S, k, g[k - 1])
          <6>1. CASE k = m
            BY <6>1
          <6>2. CASE k # m
            <7>1. k \in 0..(m - 1)
              BY <2>2, <6>2
            <7> QED BY <3>3, <4>2, <6>2, <7>1
          <6> QED BY <6>1, <6>2
        <5> QED BY <4>2, <5>2, <5>3
      <4> QED BY <4>1, <4>2
    <3> DEFINE h2 == [k \in 0..m |-> IF k = 0 THEN FlatBook ELSE NextBook(r, S, k, h[k - 1])]
    <3>5. h = h2
      <4>1. DOMAIN h = 0..m /\ DOMAIN h2 = 0..m /\ h = [k \in 0..m |-> h[k]]
        OBVIOUS
      <4>2. \A k \in 0..m : h[k] = h2[k]
        BY <3>4
      <4> HIDE DEF h
      <4> QED BY <4>1, <4>2
    <3>6. Books(r, S, m, h)
      <4> HIDE DEF h
      <4> QED BY <3>5, Zenon DEF Books
    <3> QED BY <2>2, <3>6
  <2> QED BY <2>3, <2>4
<1> QED BY <1>1, <1>2

\* Every position has a book.
LEMMA BookAtFits ==
  ASSUME NEW r \in [Trade -> TradeRow], NEW S \in SUBSET Trade, NEW n \in Nat
  PROVE  BookAt(r, S, n) \in Book
<1> DEFINE g == CHOOSE h : Books(r, S, n, h)
<1>1. Books(r, S, n, g)
  BY BooksExist, Zenon
<1> HIDE DEF g
<1>2. \A k \in 0..n : g[k] = IF k = 0 THEN FlatBook ELSE NextBook(r, S, k, g[k - 1])
  BY <1>1 DEF Books
<1>3. ASSUME NEW k, NEW book \in Book PROVE NextBook(r, S, k, book) \in Book
  <2> DEFINE at == {t \in S : r[t].at = k}
             c == CHOOSE t \in at : TRUE
  <2>1. CASE at = {}
    BY <2>1 DEF NextBook
  <2>2. CASE at # {}
    <3>1. c \in at
      BY <2>2, Zenon
    <3>2. r[c] \in TradeRow
      BY <3>1
    <3>3. NextBook(r, S, k, book) = Booked(book, r[c])
      BY <2>2 DEF NextBook
    <3> HIDE DEF at, c
    <3>4. r[c].qty \in Nat /\ r[c].price \in Nat
      BY <3>2, NumbersOfRow
    <3> QED BY <3>3, <3>4, BookedFits
  <2> QED BY <2>1, <2>2
<1> DEFINE Wrong == {k \in Nat : k <= n /\ g[k] \notin Book}
<1>4. Wrong = {}
  <2> SUFFICES ASSUME Wrong # {} PROVE FALSE
    OBVIOUS
  <2>1. PICK k \in Wrong : \A j \in Wrong : k <= j
    <3>1. Wrong \in SUBSET Nat
      OBVIOUS
    <3> HIDE DEF Wrong
    <3> QED BY <3>1, LeastNumber
  <2>2. k \in Nat /\ k \in 0..n /\ g[k] \notin Book
    OBVIOUS
  <2>3. CASE k = 0
    <3>1. FlatBook \in Book
      BY DEF FlatBook, Book
    <3> QED BY <1>2, <2>2, <2>3, <3>1
  <2>4. CASE k # 0
    <3>1. k - 1 \in Nat /\ k - 1 <= n /\ k - 1 \notin Wrong
      BY <2>1, <2>2, <2>4
    <3>2. g[k - 1] \in Book
      BY <3>1
    <3>3. g[k] = NextBook(r, S, k, g[k - 1])
      BY <1>2, <2>2, <2>4
    <3> QED BY <1>3, <2>2, <3>2, <3>3
  <2> QED BY <2>3, <2>4
<1>5. g[n] \in Book
  BY <1>4
<1> QED BY <1>5, BookIsChosen, Zenon DEF g

\* A reconciliation rewrites rows to rows.
LEMMA ReconciledFits ==
  ASSUME NEW r \in [Trade -> TradeRow], NEW S \in SUBSET Trade
  PROVE  Reconciled(r, S) \in [Trade -> TradeRow]
<1>1. ASSUME NEW t \in Trade
      PROVE  (IF t \notin S THEN r[t]
              ELSE LET book == BookAt(r, S, r[t].at)
                   IN  [r[t] EXCEPT !.realized = book.realized, !.cum = book.cum]) \in TradeRow
  <2> DEFINE book == BookAt(r, S, r[t].at)
  <2>1. r[t] \in TradeRow /\ r[t].at \in Nat
    BY NumbersOfRow
  <2>2. book \in Book
    BY <2>1, BookAtFits
  <2> HIDE DEF book
  <2>3. book.realized \in Int /\ book.cum \in Int
    BY <2>2 DEF Book
  <2>4. book.cum \in Int \cup {NoPnl}
    BY <2>3
  <2>5. [r[t] EXCEPT !.realized = book.realized, !.cum = book.cum] \in TradeRow
    BY <2>1, <2>3, <2>4, Zenon DEF TradeRow
  <2> QED BY <2>1, <2>5 DEF book
<1> QED BY <1>1 DEF Reconciled

LEMMA TradeTypes ==
  TradeTypeOK <=> /\ trades \in [Trade -> TradeRow] /\ inTable \subseteq Trade
                  /\ stage \in [Writer -> {"no", "select", "update", "commit"}]
                  /\ seen \in [Writer -> SUBSET Trade]
                  /\ beside \in [Writer -> SUBSET Trade] /\ missed \subseteq Trade
BY DEF TradeTypeOK, TradeRow

LEMMA TradeTypesNext ==
  ASSUME trades' \in [Trade -> TradeRow], inTable' \subseteq Trade,
         stage' \in [Writer -> {"no", "select", "update", "commit"}],
         seen' \in [Writer -> SUBSET Trade],
         beside' \in [Writer -> SUBSET Trade], missed' \subseteq Trade
  PROVE  TradeTypeOK'
BY DEF TradeTypeOK, TradeRow

LEMMA NewRowsFit ==
  /\ NoTrade \in TradeRow
  /\ [action : {"buy", "sell"}, qty : TradeQty, price : TradePrice, at : FreeTime,
      realized : {0}, cum : {NoPnl}] \subseteq TradeRow
<1>1. FreeTime \subseteq TradeTime
  BY DEF FreeTime
<1> QED BY <1>1 DEF NoTrade, TradeRow

LEMMA BesideFits ==
  ASSUME beside \in [Writer -> SUBSET Trade], NEW S \in SUBSET Trade
  PROVE  CommittedBeside(S) \in [Writer -> SUBSET Trade]
BY DEF CommittedBeside

LEMMA TradeTypesInit == TradesInit => TradeTypeOK
<1> SUFFICES ASSUME TradesInit PROVE TradeTypeOK
  OBVIOUS
<1> DEFINE Old(q, p) == [NoTrade EXCEPT !.action = "buy", !.qty = q, !.price = p, !.at = 1]
<1>1. inTable \in SUBSET Trade
  BY Zenon DEF TradesInit
<1>2. PICK q \in TradeQty, p \in TradePrice :
        trades = [t \in Trade |-> IF t \in inTable THEN Old(q, p) ELSE NoTrade]
  BY Zenon DEF TradesInit
<1>3. NoTrade \in TradeRow
  BY NewRowsFit
<1>4. ASSUME NEW t \in Trade PROVE Old(q, p) \in TradeRow
  <2>1. 1 \in TradeTime \cup {0}
    BY TradeConstants
  <2>2. q \in TradeQty \cup {0} /\ p \in TradePrice \cup {0}
    OBVIOUS
  <2> QED BY <1>3, <2>1, <2>2, Zenon DEF TradeRow
<1> HIDE DEF Old
<1>5. trades \in [Trade -> TradeRow]
  BY <1>2, <1>3, <1>4
<1>6. /\ stage \in [Writer -> {"no", "select", "update", "commit"}]
      /\ seen \in [Writer -> SUBSET Trade]
      /\ beside \in [Writer -> SUBSET Trade] /\ missed = inTable
  BY DEF TradesInit
<1> QED BY <1>1, <1>5, <1>6, TradeTypes

LEMMA TradeTypesStep == TradeTypeOK /\ [TradesNext]_tradeVars => TradeTypeOK'
<1> SUFFICES ASSUME TradeTypeOK, [TradesNext]_tradeVars PROVE TradeTypeOK'
  OBVIOUS
<1>1. /\ trades \in [Trade -> TradeRow] /\ inTable \subseteq Trade
      /\ stage \in [Writer -> {"no", "select", "update", "commit"}]
      /\ seen \in [Writer -> SUBSET Trade]
      /\ beside \in [Writer -> SUBSET Trade] /\ missed \subseteq Trade
  BY TradeTypes
<1>2. ASSUME NEW t \in Trade, Execute(t) PROVE TradeTypeOK'
  <2>1. trades' \in [Trade -> TradeRow]
    <3>1. PICK row \in NewTrade(t) : trades' = [trades EXCEPT ![t] = row]
      BY <1>2 DEF Execute
    <3>2. row \in TradeRow
      BY <3>1, NewRowsFit, Zenon DEF NewTrade
    <3> QED BY <1>1, <3>1, <3>2
  <2>2. stage' \in [Writer -> {"no", "select", "update", "commit"}]
    BY <1>1, <1>2 DEF Execute
  <2>3. UNCHANGED << inTable, seen, beside, missed >>
    BY <1>2 DEF Execute
  <2> QED BY <1>1, <2>1, <2>2, <2>3, TradeTypesNext
<1>3. CASE RepairGaps
  <2>1. /\ stage' \in [Writer -> {"no", "select", "update", "commit"}]
        /\ UNCHANGED << trades, inTable, seen, beside, missed >>
    BY <1>1, <1>3 DEF RepairGaps
  <2> QED BY <1>1, <2>1, TradeTypesNext
<1>4. CASE ImportFills
  <2>1. PICK S \in SUBSET Fresh \ {{}} :
          \E fill \in [S -> [action : {"buy", "sell"}, qty : TradeQty, price : TradePrice,
                             at : FreeTime, realized : {0}, cum : {NoPnl}]] :
            /\ trades' = Reconciled([t \in Trade |-> IF t \in S THEN fill[t] ELSE trades[t]], S)
            /\ inTable' = inTable \cup S /\ beside' = CommittedBeside(S)
    BY <1>4, Zenon DEF ImportFills
  <2>2. PICK fill \in [S -> [action : {"buy", "sell"}, qty : TradeQty, price : TradePrice,
                             at : FreeTime, realized : {0}, cum : {NoPnl}]] :
          /\ trades' = Reconciled([t \in Trade |-> IF t \in S THEN fill[t] ELSE trades[t]], S)
          /\ inTable' = inTable \cup S /\ beside' = CommittedBeside(S)
    BY <2>1
  <2> DEFINE r == [t \in Trade |-> IF t \in S THEN fill[t] ELSE trades[t]]
  <2>3. S \in SUBSET Trade
    BY DEF Fresh
  <2>4. \A t \in S : fill[t] \in TradeRow
    <3>1. \A t \in S : fill[t] \in [action : {"buy", "sell"}, qty : TradeQty,
                                    price : TradePrice, at : FreeTime, realized : {0},
                                    cum : {NoPnl}]
      BY <2>2, Zenon
    <3> QED BY <3>1, NewRowsFit, Zenon
  <2>5. r \in [Trade -> TradeRow]
    BY <1>1, <2>4
  <2>6. trades' = Reconciled(r, S) /\ inTable' = inTable \cup S
    BY <2>2
  <2> HIDE DEF r
  <2>7. trades' \in [Trade -> TradeRow] /\ inTable' \subseteq Trade
    BY <1>1, <2>3, <2>5, <2>6, ReconciledFits
  <2>8. UNCHANGED << stage, seen >> /\ missed' = inTable
    BY <1>4 DEF ImportFills
  <2>9. beside' \in [Writer -> SUBSET Trade]
    BY <1>1, <2>2, <2>3, BesideFits
  <2> QED BY <1>1, <2>7, <2>8, <2>9, TradeTypesNext
<1>5. ASSUME NEW w \in Writer, SelectTrades(w) PROVE TradeTypeOK'
  <2>1. /\ stage' \in [Writer -> {"no", "select", "update", "commit"}]
        /\ seen' \in [Writer -> SUBSET Trade] /\ UNCHANGED << trades, inTable, beside, missed >>
    BY <1>1, <1>5 DEF SelectTrades
  <2> QED BY <1>1, <2>1, TradeTypesNext
<1>6. ASSUME NEW w \in Writer, UpdateTrades(w) PROVE TradeTypeOK'
  <2>1. /\ stage' \in [Writer -> {"no", "select", "update", "commit"}]
        /\ UNCHANGED << trades, inTable, seen, beside, missed >>
    BY <1>1, <1>6 DEF UpdateTrades
  <2> QED BY <1>1, <2>1, TradeTypesNext
<1>7. ASSUME NEW w \in Writer, CommitTrades(w) PROVE TradeTypeOK'
  <2>1. seen[w] \in SUBSET Trade
    BY <1>1
  <2>2. trades' \in [Trade -> TradeRow]
    BY <1>1, <1>7, <2>1, ReconciledFits DEF CommitTrades
  <2>3. /\ stage' \in [Writer -> {"no", "select", "update", "commit"}]
        /\ seen' \in [Writer -> SUBSET Trade] /\ inTable' \subseteq Trade
    BY <1>1, <1>7, <2>1 DEF CommitTrades
  <2>4. beside' \in [Writer -> SUBSET Trade] /\ missed' \subseteq Trade
    <3>1. {w} \cap Trade \in SUBSET Trade
      OBVIOUS
    <3>2. CommittedBeside({w} \cap Trade) \in [Writer -> SUBSET Trade]
      BY <1>1, <3>1, BesideFits
    <3> QED BY <1>1, <1>7, <3>2 DEF CommitTrades
  <2> QED BY <2>2, <2>3, <2>4, TradeTypesNext
<1>8. ASSUME NEW w \in Writer, RollbackTrades(w) PROVE TradeTypeOK'
  <2>1. trades' \in [Trade -> TradeRow]
    BY <1>1, <1>8, NewRowsFit DEF RollbackTrades
  <2>2. /\ stage' \in [Writer -> {"no", "select", "update", "commit"}]
        /\ seen' \in [Writer -> SUBSET Trade] /\ UNCHANGED << inTable, missed >>
        /\ beside' \in [Writer -> SUBSET Trade]
    BY <1>1, <1>8 DEF RollbackTrades
  <2> QED BY <1>1, <2>1, <2>2, TradeTypesNext
<1>9. CASE UNCHANGED tradeVars
  <2>1. UNCHANGED << trades, inTable, stage, seen, beside, missed >>
    BY <1>9 DEF tradeVars
  <2> QED BY <1>1, <2>1, TradeTypesNext
<1> QED BY <1>2, <1>3, <1>4, <1>5, <1>6, <1>7, <1>8, <1>9 DEF TradesNext

\* The journal stays well formed, whatever is recorded, imported, repaired or rolled back
\* and however the requests interleave: every profit is a number.
THEOREM TradeTypeCorrect == TradesSpec => []TradeTypeOK
<1>1. QED BY TradeTypesInit, TradeTypesStep, PTL DEF TradesSpec
-----------------------------------------------------------------------------
\* The book at a position is the book before it and the trade at that position.
LEMMA BookAtStep ==
  ASSUME NEW r, NEW S, NEW n \in Nat
  PROVE  BookAt(r, S, n) = IF n = 0 THEN FlatBook
                           ELSE NextBook(r, S, n, BookAt(r, S, n - 1))
<1> DEFINE g == CHOOSE h : Books(r, S, n, h)
           f == CHOOSE h : Books(r, S, n - 1, h)
<1>1. Books(r, S, n, g) /\ BookAt(r, S, n) = g[n]
  BY BooksExist, BookIsChosen, Zenon
<1> HIDE DEF g
<1>2. \A k \in 0..n : g[k] = IF k = 0 THEN FlatBook ELSE NextBook(r, S, k, g[k - 1])
  BY <1>1 DEF Books
<1>3. CASE n = 0
  BY <1>1, <1>2, <1>3
<1>4. CASE n # 0
  <2>1. n - 1 \in Nat
    BY <1>4
  <2>2. Books(r, S, n - 1, f) /\ BookAt(r, S, n - 1) = f[n - 1]
    BY <2>1, BooksExist, BookIsChosen, Zenon
  <2> HIDE DEF f
  <2>3. \A k \in 0..(n - 1) : f[k] = IF k = 0 THEN FlatBook ELSE NextBook(r, S, k, f[k - 1])
    BY <2>2 DEF Books
  <2> DEFINE Differ == {k \in Nat : k <= n - 1 /\ f[k] # g[k]}
  <2>4. Differ = {}
    <3> SUFFICES ASSUME Differ # {} PROVE FALSE
      OBVIOUS
    <3>1. PICK k \in Differ : \A j \in Differ : k <= j
      <4>1. Differ \in SUBSET Nat
        OBVIOUS
      <4> HIDE DEF Differ
      <4> QED BY <4>1, LeastNumber
    <3>2. k \in Nat /\ k \in 0..(n - 1) /\ k \in 0..n /\ f[k] # g[k]
      BY <2>1
    <3>3. k # 0
      BY <1>2, <2>3, <3>2
    <3>4. k - 1 \in Nat /\ k - 1 <= n - 1 /\ k - 1 \notin Differ
      BY <3>1, <3>2, <3>3
    <3>5. f[k - 1] = g[k - 1]
      BY <3>4
    <3> QED BY <1>2, <2>3, <3>2, <3>3, <3>5
  <2>5. f[n - 1] = g[n - 1]
    BY <2>1, <2>4
  <2>6. g[n] = NextBook(r, S, n, g[n - 1])
    BY <1>2, <1>4
  <2> QED BY <1>1, <1>4, <2>2, <2>5, <2>6
<1> QED BY <1>3, <1>4

\* A trade adds to the cumulative profit what it realizes.
LEMMA BookedAdds ==
  ASSUME NEW book, NEW t
  PROVE  Booked(book, t).cum = book.cum + Booked(book, t).realized
BY Zenon DEF Booked

\* Rows that have a position each: no two of S share one.
OnePosition(r, S) ==
  \A t \in S : r[t].at # 0 /\ \A u \in S : r[t].at = r[u].at => t = u

\* The profits realized up to a position add up to the cumulative profit of its book.
LEMMA BooksAddUp ==
  ASSUME NEW r \in [Trade -> TradeRow], NEW S \in SUBSET Trade, OnePosition(r, S),
         NEW f, \A u \in S : f[u] = BookAt(r, S, r[u].at).realized
  PROVE  \A n \in Nat :
           BookAt(r, S, n).cum = SumFunctionOnSet(f, {u \in S : r[u].at <= n})
<1> DEFINE Upto(n) == {u \in S : r[u].at <= n}
           Wrong == {n \in Nat : BookAt(r, S, n).cum # SumFunctionOnSet(f, Upto(n))}
<1>1. IsFiniteSet(S)
  BY TradeAssumption, FS_Subset
<1>2. \A u \in S : r[u].at \in Nat \ {0} /\ f[u] \in Int
  <2>1. ASSUME NEW u \in S PROVE r[u].at \in Nat \ {0} /\ f[u] \in Int
    <3>1. r[u].at \in Nat /\ r[u].at # 0
      BY NumbersOfRow DEF OnePosition
    <3>2. BookAt(r, S, r[u].at) \in Book
      BY <3>1, BookAtFits
    <3>3. BookAt(r, S, r[u].at).realized \in Int
      BY <3>2, Zenon DEF Book
    <3> QED BY <3>1, <3>3
  <2> QED BY <2>1
<1>3. Wrong = {}
  <2> SUFFICES ASSUME Wrong # {} PROVE FALSE
    OBVIOUS
  <2>1. PICK n \in Wrong : \A j \in Wrong : n <= j
    <3>1. Wrong \in SUBSET Nat
      OBVIOUS
    <3> HIDE DEF Wrong
    <3> QED BY <3>1, LeastNumber
  <2>2. n \in Nat /\ BookAt(r, S, n).cum # SumFunctionOnSet(f, Upto(n))
    OBVIOUS
  <2>3. CASE n = 0
    <3>1. Upto(n) = {}
      BY <1>2, <2>3
    <3>2. BookAt(r, S, n) = FlatBook
      BY <2>2, <2>3, BookAtStep
    <3>3. BookAt(r, S, n).cum = 0
      BY <3>2 DEF FlatBook
    <3> HIDE DEF Upto
    <3> QED BY <2>2, <3>1, <3>3, SumOfNothing
  <2>4. CASE n # 0
    <3>1. n - 1 \in Nat /\ n - 1 \notin Wrong
      BY <2>1, <2>2, <2>4
    <3>2. BookAt(r, S, n - 1).cum = SumFunctionOnSet(f, Upto(n - 1))
      BY <3>1
    <3>3. BookAt(r, S, n) = NextBook(r, S, n, BookAt(r, S, n - 1))
      BY <2>2, <2>4, BookAtStep
    <3> DEFINE here == {t \in S : r[t].at = n}
               c == CHOOSE t \in here : TRUE
    <3>4. CASE here = {}
      <4>1. Upto(n) = Upto(n - 1)
        BY <1>2, <2>2, <3>4
      <4>2. BookAt(r, S, n) = BookAt(r, S, n - 1)
        BY <3>3, <3>4 DEF NextBook
      <4> HIDE DEF Upto
      <4> QED BY <2>2, <3>2, <4>1, <4>2
    <3>5. CASE here # {}
      <4>1. c \in S /\ r[c].at = n
        BY <3>5
      <4>2. BookAt(r, S, n) = Booked(BookAt(r, S, n - 1), r[c])
        BY <3>3, <3>5, Zenon DEF NextBook
      <4> HIDE DEF here, c
      <4>3. f[c] = BookAt(r, S, n).realized
        BY <4>1
      <4>4. BookAt(r, S, n).cum = BookAt(r, S, n - 1).cum + f[c]
        BY <4>2, <4>3, BookedAdds
      <4>5. Upto(n) \ {c} = Upto(n - 1)
        <5>1. \A t \in S : r[t].at = n => t = c
          BY <4>1 DEF OnePosition
        <5> QED BY <1>2, <2>2, <4>1, <5>1
      <4>6. c \in Upto(n) /\ Upto(n) \subseteq S
        BY <2>2, <4>1
      <4> HIDE DEF Upto
      <4>7. IsFiniteSet(Upto(n)) /\ \A x \in Upto(n) : f[x] \in Int
        BY <1>1, <1>2, <4>6, FS_Subset
      <4>8. SumFunctionOnSet(f, Upto(n)) = f[c] + SumFunctionOnSet(f, Upto(n - 1))
        BY <4>5, <4>6, <4>7, SumOfElement
      <4>9. f[c] \in Int /\ SumFunctionOnSet(f, Upto(n - 1)) \in Int
        <5>1. IsFiniteSet(Upto(n - 1)) /\ \A x \in Upto(n - 1) : f[x] \in Int
          BY <4>5, <4>7, FS_Subset
        <5> QED BY <4>6, <4>7, <5>1, SumIsInteger
      <4> QED BY <2>2, <3>2, <4>4, <4>8, <4>9
    <3> QED BY <3>4, <3>5
  <2> QED BY <2>3, <2>4
<1> QED BY <1>3

\* What a reconciliation leaves of the rows: their positions, and profits that add up.
LEMMA ReconciledAddsUp ==
  ASSUME NEW r \in [Trade -> TradeRow], NEW S \in SUBSET Trade, OnePosition(r, S),
         NEW after, after = Reconciled(r, S)
  PROVE  /\ \A t \in Trade : after[t].at = r[t].at /\ after[t].action = r[t].action
         /\ \A t \in S : after[t].cum =
              SumFunctionOnSet([u \in Trade |-> after[u].realized],
                               {u \in S : after[u].at <= after[t].at})
<1> DEFINE f == [u \in Trade |-> after[u].realized]
<1>1. after \in [Trade -> TradeRow]
  BY ReconciledFits
<1>2. ASSUME NEW t \in Trade
      PROVE  after[t].at = r[t].at /\ after[t].action = r[t].action
  BY DEF Reconciled, TradeRow
<1>3. ASSUME NEW t \in S
      PROVE  /\ after[t].realized = BookAt(r, S, r[t].at).realized
             /\ after[t].cum = BookAt(r, S, r[t].at).cum
  <2> DEFINE book == BookAt(r, S, r[t].at)
  <2>1. after[t] = [r[t] EXCEPT !.realized = book.realized, !.cum = book.cum]
    BY DEF Reconciled
  <2> HIDE DEF book
  <2>2. r[t] \in TradeRow
    OBVIOUS
  <2>3. after[t].realized = book.realized /\ after[t].cum = book.cum
    BY <2>1, <2>2 DEF TradeRow
  <2> QED BY <2>3 DEF book
<1>4. \A u \in S : f[u] = BookAt(r, S, r[u].at).realized
  BY <1>3
<1> HIDE DEF f
<1>5. ASSUME NEW t \in S
      PROVE  after[t].cum = SumFunctionOnSet(f, {u \in S : after[u].at <= after[t].at})
  <2>1. r[t].at \in Nat
    BY NumbersOfRow
  <2>2. BookAt(r, S, r[t].at).cum = SumFunctionOnSet(f, {u \in S : r[u].at <= r[t].at})
    BY <1>4, <2>1, BooksAddUp
  <2>3. {u \in S : r[u].at <= r[t].at} = {u \in S : after[u].at <= after[t].at}
    BY <1>2
  <2> QED BY <1>3, <2>2, <2>3
<1> QED BY <1>2, <1>5 DEF f

\* Rows of one position each, which are new, under way or committed; what a request that
\* has selected sees is the committed trades but for those beside it, and its own.
Placed ==
  /\ \A t \in Trade : trades[t].at = 0 <=> t \in Fresh
  /\ \A t \in Trade, u \in Trade : trades[t].at = trades[u].at /\ trades[t].at # 0 => t = u
  /\ inTable \cap Fresh = {}
SeenBeside ==
  /\ \A w \in Writer : stage[w] \in {"select", "update", "commit"} =>
       {w} \cap (inTable \cup Fresh) = {}
  /\ \A w \in Writer : stage[w] \in {"update", "commit"} =>
       seen[w] = (inTable \ beside[w]) \cup ({w} \cap Trade)
  /\ \A w \in Writer : beside[w] \subseteq inTable
  /\ \A w \in Writer : stage[w] \notin {"update", "commit"} => beside[w] = {}
TradesInv == TradeTypeOK /\ Placed /\ SeenBeside /\ ProfitsAddUp

\* Profits that add up depend on the trades of Together and on nothing else.
LEMMA ProfitsKept ==
  ASSUME TradesInv, Together' = Together, \A t \in Together : trades'[t] = trades[t]
  PROVE  ProfitsAddUp'
<1> DEFINE f == [u \in Trade |-> trades[u].realized]
           g == [u \in Trade |-> trades'[u].realized]
<1>1. Together \subseteq Trade /\ IsFiniteSet(Trade)
  BY TradeAssumption, TradeTypes DEF TradesInv, Together
<1>2. ASSUME NEW t \in Together
      PROVE  trades'[t].cum = SumFunctionOnSet(g, {u \in Together : trades'[u].at <= trades'[t].at})
  <2> DEFINE upto == {u \in Together : trades[u].at <= trades[t].at}
  <2>1. upto = {u \in Together : trades'[u].at <= trades'[t].at}
    OBVIOUS
  <2>2. IsFiniteSet(upto)
    BY <1>1, FS_Subset
  <2>3. \A u \in upto : f[u] = g[u]
    BY <1>1
  <2>4. trades[t].cum = SumFunctionOnSet(f, upto)
    BY Zenon DEF TradesInv, ProfitsAddUp, Through
  <2> HIDE DEF upto, f, g
  <2>5. SumFunctionOnSet(f, upto) = SumFunctionOnSet(g, upto)
    BY <2>2, <2>3, SumOfEqual
  <2> QED BY <2>1, <2>4, <2>5
<1> QED BY <1>2 DEF ProfitsAddUp, Through, Together

\* A reconciliation of the trades that are then together makes their profits add up.
LEMMA ProfitsMade ==
  ASSUME NEW r \in [Trade -> TradeRow], NEW S \in SUBSET Trade, OnePosition(r, S),
         trades' = Reconciled(r, S), Together' = S
  PROVE  ProfitsAddUp'
<1>1. \A t \in S : trades'[t].cum =
              SumFunctionOnSet([u \in Trade |-> trades'[u].realized],
                               {u \in S : trades'[u].at <= trades'[t].at})
  BY ReconciledAddsUp
<1> QED BY <1>1 DEF ProfitsAddUp, Through

LEMMA TradesInvInit == TradesInit => TradesInv
<1> SUFFICES ASSUME TradesInit PROVE TradesInv
  OBVIOUS
<1>1. TradeTypeOK
  BY TradeTypesInit
<1>2. PICK q \in TradeQty, p \in TradePrice :
        trades = [t \in Trade |-> IF t \in inTable
                                  THEN [NoTrade EXCEPT !.action = "buy", !.qty = q,
                                                       !.price = p, !.at = 1]
                                  ELSE NoTrade]
  BY Zenon DEF TradesInit
<1>3. \A t \in Trade : /\ t \in inTable => trades[t].at = 1 /\ trades[t].action = "buy"
                       /\ t \notin inTable => trades[t].at = 0 /\ trades[t].action = "none"
  BY <1>2 DEF NoTrade
<1>4. inTable \subseteq Trade /\ \A t, u \in inTable : t = u
  <2>1. inTable \in SUBSET Trade /\ Cardinality(inTable) <= 1
    BY DEF TradesInit
  <2>2. ASSUME NEW t \in inTable, NEW u \in inTable, t # u PROVE FALSE
    <3>1. IsFiniteSet(inTable) /\ IsFiniteSet(inTable \ {t})
      BY <2>1, TradeAssumption, FS_Subset
    <3>2. Cardinality(inTable \ {t}) = Cardinality(inTable) - 1
      BY <3>1, FS_RemoveElement
    <3>3. Cardinality(inTable \ {t}) \in Nat /\ Cardinality(inTable) \in Nat
      BY <3>1, FS_CardinalityType
    <3>4. Cardinality(inTable \ {t}) # 0
      BY <2>2, <3>1, FS_EmptySet
    <3> QED BY <2>1, <3>2, <3>3, <3>4
  <2> QED BY <2>1, <2>2
<1>5. Placed
  BY <1>3, <1>4 DEF Placed, Fresh
<1>6. SeenBeside
  BY DEF TradesInit, SeenBeside
<1>7. ProfitsAddUp
  BY DEF TradesInit, ProfitsAddUp, Together
<1> QED BY <1>1, <1>5, <1>6, <1>7 DEF TradesInv

LEMMA TradesInvStep == TradesInv /\ [TradesNext]_tradeVars => TradesInv'
<1> SUFFICES ASSUME TradesInv, [TradesNext]_tradeVars PROVE TradesInv'
  OBVIOUS
<1>0. TradeTypeOK'
  BY TradeTypesStep DEF TradesInv
<1>1. /\ trades \in [Trade -> TradeRow] /\ inTable \subseteq Trade
      /\ stage \in [Writer -> {"no", "select", "update", "commit"}]
      /\ seen \in [Writer -> SUBSET Trade]
      /\ beside \in [Writer -> SUBSET Trade] /\ missed \subseteq Trade
  BY TradeTypes DEF TradesInv
<1>2. Placed /\ SeenBeside
  BY DEF TradesInv
<1>3. \A t \in Trade : t \in Writer
  BY DEF Writer
<1>4. ASSUME NEW t \in Trade, Execute(t) PROVE TradesInv'
  <2>1. PICK row \in NewTrade(t) : trades' = [trades EXCEPT ![t] = row]
    BY <1>4 DEF Execute
  <2>2. /\ row.action \in {"buy", "sell"} /\ row.at # 0
        /\ \A u \in Trade : trades[u].at # row.at
    BY TradeConstants DEF NewTrade, FreeTime
  <2>3. /\ t \in Fresh /\ stage' = [stage EXCEPT ![t] = "select"]
        /\ UNCHANGED << inTable, seen, beside, missed >>
    BY <1>4 DEF Execute
  <2>4. trades'[t] = row /\ \A u \in Trade \ {t} : trades'[u] = trades[u]
    BY <1>1, <2>1
  <2>5. Fresh' = Fresh \ {t}
    BY <2>2, <2>4 DEF Fresh
  <2>6. Placed'
    <3>1. \A u \in Trade : trades'[u].at = 0 <=> u \in Fresh'
      BY <1>2, <2>2, <2>4, <2>5 DEF Placed
    <3>2. \A u \in Trade, v \in Trade : trades'[u].at = trades'[v].at /\ trades'[u].at # 0 => u = v
      BY <1>2, <2>2, <2>4 DEF Placed
    <3> QED BY <1>2, <2>3, <2>5, <3>1, <3>2 DEF Placed
  <2>7. SeenBeside'
    <3>1. t \notin inTable /\ stage[t] \notin {"select", "update", "commit"}
      BY <1>2, <1>3, <2>3 DEF Placed, SeenBeside
    <3>2. \A w \in Writer : w # t => stage'[w] = stage[w]
      BY <1>1, <2>3
    <3>3. stage'[t] = "select"
      BY <1>1, <1>3, <2>3
    <3> QED BY <1>2, <2>3, <2>5, <3>1, <3>2, <3>3 DEF SeenBeside
  <2>8. ProfitsAddUp'
    <3>1. Together' = Together
      BY <2>3 DEF Together
    <3>2. \A u \in Together : trades'[u] = trades[u]
      <4>1. t \notin Together /\ Together \subseteq Trade
        BY <1>1, <1>2, <2>3 DEF Together, Placed
      <4> QED BY <2>4, <4>1
    <3> QED BY <3>1, <3>2, ProfitsKept
  <2> QED BY <1>0, <2>6, <2>7, <2>8 DEF TradesInv
<1>5. ASSUME UNCHANGED << trades, inTable, missed >>, SeenBeside'
      PROVE  TradesInv'
  <2>1. Placed'
    BY <1>2, <1>5 DEF Placed, Fresh
  <2>2. ProfitsAddUp'
    BY <1>5, ProfitsKept DEF Together
  <2> QED BY <1>0, <1>5, <2>1, <2>2 DEF TradesInv
<1>6. CASE RepairGaps
  <2>1. /\ stage' = [stage EXCEPT ![Gaps] = "select"] /\ stage[Gaps] = "no"
        /\ UNCHANGED << trades, inTable, seen, beside, missed >>
    BY <1>6 DEF RepairGaps
  <2>2. Gaps \in Writer /\ {Gaps} \cap (inTable \cup Fresh) = {}
    BY <1>1, TradeAssumption DEF Writer, Fresh
  <2>3. SeenBeside'
    BY <1>1, <1>2, <2>1, <2>2 DEF SeenBeside, Fresh
  <2> QED BY <1>5, <2>1, <2>3
<1>7. ASSUME NEW w \in Writer, SelectTrades(w) PROVE TradesInv'
  <2>1. /\ stage[w] = "select" /\ stage' = [stage EXCEPT ![w] = "update"]
        /\ seen' = [seen EXCEPT ![w] = inTable \cup ({w} \cap Trade)]
        /\ UNCHANGED << trades, inTable, beside, missed >>
    BY <1>7 DEF SelectTrades
  <2>2. beside[w] = {}
    BY <1>2, <2>1 DEF SeenBeside
  <2>3. SeenBeside'
    BY <1>1, <1>2, <2>1, <2>2 DEF SeenBeside, Fresh
  <2> QED BY <1>5, <2>1, <2>3
<1>8. ASSUME NEW w \in Writer, UpdateTrades(w) PROVE TradesInv'
  <2>1. /\ stage[w] = "update" /\ stage' = [stage EXCEPT ![w] = "commit"]
        /\ UNCHANGED << trades, inTable, seen, beside, missed >>
    BY <1>8 DEF UpdateTrades
  <2>2. SeenBeside'
    BY <1>1, <1>2, <2>1 DEF SeenBeside, Fresh
  <2> QED BY <1>5, <2>1, <2>2
<1>9. ASSUME NEW w \in Writer, RollbackTrades(w) PROVE TradesInv'
  <2>1. /\ stage[w] \in {"select", "update", "commit"} /\ stage' = [stage EXCEPT ![w] = "no"]
        /\ trades' = IF w \in Trade THEN [trades EXCEPT ![w] = NoTrade] ELSE trades
        /\ seen' = [seen EXCEPT ![w] = {}] /\ beside' = [beside EXCEPT ![w] = {}]
        /\ UNCHANGED << inTable, missed >>
    BY <1>9 DEF RollbackTrades
  <2>2. {w} \cap (inTable \cup Fresh) = {}
    BY <1>2, <2>1 DEF SeenBeside
  <2>3. /\ \A u \in Trade : u # w => trades'[u] = trades[u]
        /\ w \in Trade => trades'[w].at = 0 /\ trades'[w].action = "none"
    BY <1>1, <2>1 DEF NoTrade
  <2>4. Fresh' = Fresh \cup ({w} \cap Trade)
    BY <2>3 DEF Fresh
  <2>5. Placed'
    BY <1>2, <2>1, <2>2, <2>3, <2>4 DEF Placed
  <2>6. SeenBeside'
    <3>1. stage'[w] = "no" /\ beside'[w] = {}
      BY <1>1, <2>1
    <3>2. \A v \in Writer \ {w} : stage'[v] = stage[v] /\ seen'[v] = seen[v] /\ beside'[v] = beside[v]
      BY <1>1, <2>1
    <3> QED BY <1>2, <2>1, <2>4, <3>1, <3>2 DEF SeenBeside
  <2>7. ProfitsAddUp'
    <3>1. Together' = Together
      BY <2>1 DEF Together
    <3>2. \A u \in Together : trades'[u] = trades[u]
      BY <1>1, <2>2, <2>3 DEF Together
    <3> QED BY <3>1, <3>2, ProfitsKept
  <2> QED BY <1>0, <2>5, <2>6, <2>7 DEF TradesInv
<1>10. ASSUME NEW w \in Writer, CommitTrades(w) PROVE TradesInv'
  <2> DEFINE own == {w} \cap Trade
             S == seen[w]
  <2>1. /\ stage[w] = "commit" /\ stage' = [stage EXCEPT ![w] = "no"]
        /\ trades' = Reconciled(trades, S) /\ inTable' = inTable \cup own
        /\ seen' = [seen EXCEPT ![w] = {}]
        /\ beside' = [CommittedBeside(own) EXCEPT ![w] = {}] /\ missed' = beside[w]
    BY <1>10 DEF CommitTrades
  <2>2. own \cap (inTable \cup Fresh) = {} /\ S = (inTable \ beside[w]) \cup own
    BY <1>2, <2>1 DEF SeenBeside
  <2>3. S \in SUBSET Trade /\ beside[w] \subseteq inTable
    BY <1>1, <1>2 DEF SeenBeside
  <2>4. OnePosition(trades, S)
    <3>1. S \cap Fresh = {}
      BY <1>2, <2>2 DEF Placed
    <3> QED BY <1>2, <2>3, <3>1 DEF Placed, OnePosition
  <2> HIDE DEF S
  <2>5. \A t \in Trade : trades'[t].at = trades[t].at /\ trades'[t].action = trades[t].action
    BY <1>1, <2>1, <2>3, <2>4, ReconciledAddsUp
  <2>6. Fresh' = Fresh
    BY <2>5 DEF Fresh
  <2>7. Placed'
    <3>1. \A u \in Trade : trades'[u].at = 0 <=> u \in Fresh'
      BY <1>2, <2>5, <2>6 DEF Placed
    <3>2. \A u \in Trade, v \in Trade : trades'[u].at = trades'[v].at /\ trades'[u].at # 0 => u = v
      BY <1>2, <2>5 DEF Placed
    <3>3. inTable' \cap Fresh' = {}
      BY <1>2, <2>1, <2>2, <2>6 DEF Placed
    <3> QED BY <3>1, <3>2, <3>3 DEF Placed
  <2>8. SeenBeside'
    <3>1. stage'[w] = "no" /\ beside'[w] = {}
      BY <1>1, <2>1 DEF CommittedBeside
    <3>2. ASSUME NEW v \in Writer, v # w
          PROVE  /\ stage'[v] = stage[v] /\ seen'[v] = seen[v]
                 /\ beside'[v] = IF stage[v] \in {"update", "commit"} THEN beside[v] \cup own ELSE {}
      BY <1>1, <2>1, <3>2 DEF CommittedBeside
    <3>3. ASSUME NEW v \in Writer, v # w, stage[v] \in {"select", "update", "commit"}
          PROVE  {v} \cap (inTable' \cup Fresh') = {}
      BY <1>2, <2>1, <2>6, <3>3 DEF SeenBeside
    <3>4. ASSUME NEW v \in Writer, v # w, stage[v] \in {"update", "commit"}
          PROVE  seen'[v] = (inTable' \ beside'[v]) \cup ({v} \cap Trade)
      <4>1. seen[v] = (inTable \ beside[v]) \cup ({v} \cap Trade)
        BY <1>2, <3>4 DEF SeenBeside
      <4>2. inTable' = inTable \cup own /\ own \cap inTable = {}
        BY <2>1, <2>2
      <4>3. seen'[v] = seen[v] /\ beside'[v] = beside[v] \cup own
        BY <3>2, <3>4
      <4> HIDE DEF own
      <4> QED BY <4>1, <4>2, <4>3
    <3>5. ASSUME NEW v \in Writer, v # w PROVE beside'[v] \subseteq inTable'
      <4>1. beside[v] \subseteq inTable
        BY <1>2 DEF SeenBeside
      <4>2. beside'[v] \subseteq beside[v] \cup own
        BY <3>2, <3>5
      <4> QED BY <2>1, <4>1, <4>2
    <3> QED BY <3>1, <3>2, <3>3, <3>4, <3>5 DEF SeenBeside
  <2>9. ProfitsAddUp'
    <3>1. Together' = S
      BY <2>1, <2>2, <2>3 DEF Together
    <3> QED BY <1>1, <2>1, <2>3, <2>4, <3>1, ProfitsMade
  <2> QED BY <1>0, <2>7, <2>8, <2>9 DEF TradesInv
<1>11. CASE ImportFills
  <2> DEFINE Row == [action : {"buy", "sell"}, qty : TradeQty, price : TradePrice,
                     at : FreeTime, realized : {0}, cum : {NoPnl}]
  <2>1. PICK S \in SUBSET Fresh \ {{}} :
          \E fill \in [S -> Row] :
            /\ \A t, u \in S : fill[t].at = fill[u].at => t = u
            /\ trades' = Reconciled([t \in Trade |-> IF t \in S THEN fill[t] ELSE trades[t]], S)
            /\ inTable' = inTable \cup S /\ beside' = CommittedBeside(S)
    BY <1>11, Zenon DEF ImportFills
  <2>2. PICK fill \in [S -> Row] :
          /\ \A t, u \in S : fill[t].at = fill[u].at => t = u
          /\ trades' = Reconciled([t \in Trade |-> IF t \in S THEN fill[t] ELSE trades[t]], S)
          /\ inTable' = inTable \cup S /\ beside' = CommittedBeside(S)
    BY <2>1
  <2> DEFINE r == [t \in Trade |-> IF t \in S THEN fill[t] ELSE trades[t]]
  <2>3. UNCHANGED << stage, seen >> /\ missed' = inTable
    BY <1>11 DEF ImportFills
  <2>4. S \in SUBSET Trade /\ S \subseteq Fresh /\ S \cap inTable = {}
    BY <1>2 DEF Fresh, Placed
  <2>5. \A t \in S : fill[t] \in Row
    BY <2>2, Zenon
  <2>6. \A t \in S : /\ fill[t] \in TradeRow /\ fill[t].action # "none" /\ fill[t].at # 0
                     /\ \A u \in Trade : trades[u].at # fill[t].at
    <3>1. \A t \in S : fill[t] \in TradeRow
      BY <2>5, NewRowsFit, Zenon
    <3>2. \A t \in S : fill[t].action \in {"buy", "sell"} /\ fill[t].at \in FreeTime
      BY <2>5, Zenon
    <3>3. \A t \in S : fill[t].at # 0 /\ \A u \in Trade : trades[u].at # fill[t].at
      BY <3>2, TradeConstants DEF FreeTime
    <3> QED BY <3>1, <3>2, <3>3
  <2>7. /\ \A t \in S : r[t] = fill[t]
        /\ \A t \in Trade \ S : r[t] = trades[t]
    BY <2>4
  <2>8. r \in [Trade -> TradeRow]
    BY <1>1, <2>6
  <2>9. trades' = Reconciled(r, S)
    BY <2>2
  <2> HIDE DEF r, Row
  <2>10. OnePosition(r, S)
    BY <2>2, <2>6, <2>7 DEF OnePosition
  <2>11. \A t \in Trade : trades'[t].at = r[t].at /\ trades'[t].action = r[t].action
    BY <2>4, <2>8, <2>9, <2>10, ReconciledAddsUp
  <2>12. Fresh' = Fresh \ S
    BY <2>4, <2>6, <2>7, <2>11 DEF Fresh
  <2>13. Placed'
    <3>1. \A u \in Trade : trades'[u].at = 0 <=> u \in Fresh'
      BY <1>2, <2>4, <2>6, <2>7, <2>11, <2>12 DEF Placed
    <3>2. \A u \in Trade, v \in Trade : trades'[u].at = trades'[v].at /\ trades'[u].at # 0 => u = v
      BY <1>2, <2>2, <2>4, <2>6, <2>7, <2>11 DEF Placed
    <3>3. inTable' \cap Fresh' = {}
      BY <1>2, <2>2, <2>12 DEF Placed
    <3> QED BY <3>1, <3>2, <3>3 DEF Placed
  <2>14. SeenBeside'
    <3>1. ASSUME NEW v \in Writer
          PROVE  beside'[v] = IF stage[v] \in {"update", "commit"} THEN beside[v] \cup S ELSE {}
      BY <2>2 DEF CommittedBeside
    <3>2. ASSUME NEW v \in Writer, stage[v] \in {"select", "update", "commit"}
          PROVE  {v} \cap (inTable' \cup Fresh') = {}
      BY <1>2, <2>2, <2>4, <2>12, <3>2 DEF SeenBeside
    <3>3. ASSUME NEW v \in Writer, stage[v] \in {"update", "commit"}
          PROVE  seen'[v] = (inTable' \ beside'[v]) \cup ({v} \cap Trade)
      <4>1. seen[v] = (inTable \ beside[v]) \cup ({v} \cap Trade)
        BY <1>2, <3>3 DEF SeenBeside
      <4> QED BY <2>2, <2>3, <2>4, <3>1, <3>3, <4>1
    <3>4. ASSUME NEW v \in Writer PROVE beside'[v] \subseteq inTable'
      <4>1. beside[v] \subseteq inTable
        BY <1>2 DEF SeenBeside
      <4>2. beside'[v] \subseteq beside[v] \cup S
        BY <3>1
      <4> QED BY <2>2, <4>1, <4>2
    <3> QED BY <2>3, <3>1, <3>2, <3>3, <3>4 DEF SeenBeside
  <2>15. ProfitsAddUp'
    <3>1. Together' = S
      BY <2>2, <2>3, <2>4 DEF Together
    <3> QED BY <2>4, <2>8, <2>9, <2>10, <3>1, ProfitsMade
  <2> QED BY <1>0, <2>13, <2>14, <2>15 DEF TradesInv
<1>12. CASE UNCHANGED tradeVars
  <2>1. UNCHANGED << trades, inTable, stage, seen, beside, missed >>
    BY <1>12 DEF tradeVars
  <2>2. SeenBeside'
    BY <1>2, <2>1 DEF SeenBeside, Fresh
  <2> QED BY <1>5, <2>1, <2>2
<1> QED BY <1>4, <1>6, <1>7, <1>8, <1>9, <1>10, <1>11, <1>12 DEF TradesNext

\* The profits realized one by one add up to the cumulative ones, for any number of trades,
\* requests under way and prices: but for the trades that the last commit could not see.
THEOREM ProfitsAddUpHolds == TradesSpec => []ProfitsAddUp
<1>1. TradesInv => ProfitsAddUp
  BY DEF TradesInv
<1>2. QED BY TradesInvInit, TradesInvStep, <1>1, PTL DEF TradesSpec
=============================================================================
