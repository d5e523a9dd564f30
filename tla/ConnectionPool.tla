--------------------------- MODULE ConnectionPool ---------------------------
(***************************************************************************)
(* ClickHouseConnectionPool (gr_data/db/clickhouse/pool.py): threads take   *)
(* clients and give them back, and maintenance shrinks, cleans, checks and  *)
(* closes the pool.  Everything but the use of a client happens under one   *)
(* lock, so each method is a step; the order of the list is left open.      *)
(***************************************************************************)
EXTENDS Integers, FiniteSets

CONSTANTS Thread,
          Client,      \* clients the pool may create; one is made again only when
                       \* nobody has it
          NoClient,
          MinSize, MaxSize

ASSUME NoClientAssumption == NoClient \notin Client
ASSUME ClientAssumption == IsFiniteSet(Client)
ASSUME PoolSizeAssumption == MinSize \in Nat \ {0} /\ MaxSize \in Nat /\ MinSize <= MaxSize

VARIABLES
  pool,     \* _pool
  inUse,    \* its connections that are marked in_use
  active,   \* _stats["active_connections"]
  total,    \* _stats["total_connections"]
  client,   \* the client each thread works with
  open,     \* clients that have a connection (is_connected)
  closedAll \* history: clients that close_all closed, while threads had them

poolVars == << pool, inUse, active, total, client, open, closedAll >>

\* Variant for the checks: in_use is not looked at.
IdleUnchecked == pool

Idle == pool \ inUse
Unused == Client \ (pool \cup {client[t] : t \in Thread})

PoolTypeOK ==
  /\ pool \subseteq Client
  /\ inUse \subseteq pool
  /\ active \in Int /\ total \in Int
  /\ client \in [Thread -> Client \cup {NoClient}]
  /\ open \subseteq Client
  /\ closedAll \subseteq Client

\* _initialize_pool; a connection that cannot be made is left out.
PoolInit ==
  /\ pool \in {p \in SUBSET Client : Cardinality(p) <= MinSize}
  /\ inUse = {}
  /\ active = 0
  /\ total = Cardinality(pool)
  /\ client = [t \in Thread |-> NoClient]
  /\ open = pool
  /\ closedAll = {}
-----------------------------------------------------------------------------
\* _remove_connection on some of these: the unhealthy ones that were met.
RemoveSome(idle) ==
  \E gone \in SUBSET idle :
    /\ pool' = pool \ gone
    /\ total' = total - Cardinality(gone)
    /\ open' = open \ gone

\* get_connection finds an idle connection in order, after removing some that were not.
Reuse(t) ==
  /\ client[t] = NoClient
  /\ \E c \in Idle \cap open :
       /\ RemoveSome(Idle \ {c})
       /\ inUse' = inUse \cup {c}
       /\ client' = [client EXCEPT ![t] = c]
  /\ active' = active + 1
  /\ UNCHANGED closedAll

\* Variant for the checks: the size is tested with the dropped connections counted out.
BelowMaxLate(n) == n <= MaxSize

BelowMax(n) == n < MaxSize

\* No idle connection passed: the pool grows when it may.
Grow(t) ==
  /\ client[t] = NoClient
  /\ \E gone \in SUBSET Idle, c \in Unused :
       /\ BelowMax(Cardinality(pool \ gone))
       /\ pool' = (pool \ gone) \cup {c}
       /\ open' = (open \ gone) \cup {c}
       /\ total' = total - Cardinality(gone) + 1
       /\ inUse' = inUse \cup {c}
       /\ client' = [client EXCEPT ![t] = c]
  /\ active' = active + 1
  /\ UNCHANGED closedAll

\* Neither worked; the thread tries again after 10 ms, or raises TimeoutError.
Wait(t) ==
  /\ client[t] = NoClient
  /\ RemoveSome(Idle)
  /\ UNCHANGED << inUse, active, client, closedAll >>

\* release_connection acts on a connection of the pool that is in use.
Release(t) ==
  /\ client[t] # NoClient
  /\ LET c == client[t]
     IN  IF c \in inUse
         THEN inUse' = inUse \ {c} /\ active' = active - 1
         ELSE UNCHANGED << inUse, active >>
  /\ client' = [client EXCEPT ![t] = NoClient]
  /\ closedAll' = closedAll \ {client[t]}
  /\ UNCHANGED << pool, total, open >>

\* A query opens the client's connection when it has none, even one that close_all
\* closed, and gives it up when it fails.
Use(t) ==
  /\ client[t] # NoClient
  /\ open' \in {open \cup {client[t]}, open \ {client[t]}}
  /\ UNCHANGED << pool, inUse, active, total, client, closedAll >>
-----------------------------------------------------------------------------
\* shrink: so many of the idle ones, the oldest first.
ShrinkTo == IF active > MinSize THEN active ELSE MinSize

Shrink ==
  /\ Cardinality(pool) >= ShrinkTo
  /\ \E old \in SUBSET Idle :
       /\ Cardinality(old) = Cardinality(pool) - ShrinkTo
       /\ pool' = pool \ old
       /\ total' = total - Cardinality(old)
       /\ open' = open \ old
  /\ UNCHANGED << inUse, active, client, closedAll >>

\* cleanup: the unhealthy idle ones go, and the pool is filled up to min_size as far
\* as connections can be made.
Cleanup ==
  /\ \E gone \in SUBSET Idle, new \in SUBSET Unused :
       /\ new # {} => Cardinality(pool \ gone) + Cardinality(new) <= MinSize
       /\ pool' = (pool \ gone) \cup new
       /\ open' = (open \ gone) \cup new
       /\ total' = total - Cardinality(gone) + Cardinality(new)
  /\ UNCHANGED << inUse, active, client, closedAll >>

\* health_check queries the idle ones; those that fail are removed.
HealthCheck ==
  /\ \E gone \in SUBSET Idle :
       /\ pool' = pool \ gone
       /\ total' = total - Cardinality(gone)
       /\ open' = (open \ gone) \cup (Idle \ gone)
  /\ UNCHANGED << inUse, active, client, closedAll >>

\* close_all closes the connections in use as well.
CloseAll ==
  /\ pool' = {} /\ inUse' = {} /\ total' = 0 /\ active' = 0
  /\ open' = open \ pool
  /\ closedAll' = closedAll \cup inUse
  /\ UNCHANGED client
-----------------------------------------------------------------------------
PoolNext ==
  \/ \E t \in Thread : Reuse(t) \/ Grow(t) \/ Wait(t) \/ Use(t) \/ Release(t)
  \/ Shrink \/ Cleanup \/ HealthCheck \/ CloseAll

PoolSpec == PoolInit /\ [][PoolNext]_poolVars
-----------------------------------------------------------------------------
(***************************************************************************)
(* Properties                                                               *)
(***************************************************************************)

\* No two threads work with one client, and a client in use stays in the pool, out of
\* the reach of shrink, cleanup and health_check; only close_all takes it away.
OneThreadPerClient ==
  /\ \A t, u \in Thread : client[t] = client[u] /\ client[t] # NoClient => t = u
  /\ \A t \in Thread : client[t] # NoClient => client[t] \in inUse \cup closedAll

\* The counters that shrink and get_stats rely on are exact, and the pool never holds
\* more than max_size connections.
PoolCounts ==
  /\ total = Cardinality(pool) /\ active = Cardinality(inUse)
  /\ Cardinality(pool) <= MaxSize

\* The pool is sound for its callers and for its own maintenance.
PoolSound == OneThreadPerClient /\ PoolCounts
=============================================================================
