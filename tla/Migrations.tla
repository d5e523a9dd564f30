----------------------------- MODULE Migrations -----------------------------
(***************************************************************************)
(* The migration runner (gr_db: runner.py, executors.py).  A run discovers  *)
(* the files of its checkout, reads the ledger schema_migrations once,      *)
(* plans what is new or changed, and applies the plan in order.  PostgreSQL *)
(* takes a file and its ledger row in one transaction; ClickHouse takes it  *)
(* statement by statement and the ledger row last.  Nothing keeps two runs  *)
(* apart.                                                                   *)
(***************************************************************************)
EXTENDS Integers, Sequences, FiniteSetsExt

CONSTANTS Run,          \* calls of run_directory
          Files,        \* files 001.. on disk in the end
          Statements,   \* statements of a file
          Backend,      \* executors in use: "postgres", "clickhouse"
          MaxEdits      \* bound: changes of applied files

ASSUME MigrationsAssumption ==
  /\ Files \in Nat \ {0} /\ Statements \in Nat \ {0} /\ MaxEdits \in Nat
  /\ Backend \subseteq {"postgres", "clickhouse"}

VARIABLES
  backend,   \* the one behind this ledger
  disk,      \* contents of the files on disk, by prefix: a version each
  ledger,    \* checksum recorded for each file, as a version; 0 when there is none
  schema,    \* statements that took effect: << file, version, number >>
  runs,      \* where each run is
  discovered,    \* the files it found, by their contents
  plan,      \* files it has still to apply, which it does in the order of their prefixes
  next,      \* ClickHouse: statements of the first of them it has executed
  overlapped,    \* history: runs during which another one was active
  last       \* history: the run that began last, or "none"

migrationVars == << backend, disk, ledger, schema, runs, discovered, plan, next, overlapped,
                    last >>

File == 1..Files
Active == {"read", "apply"}

MigrationsTypeOK ==
  /\ backend \in Backend
  /\ disk \in Seq(Nat \ {0}) /\ Len(disk) <= Files
  /\ ledger \in [File -> Nat]
  /\ schema \subseteq File \X Nat \X (1..Statements)
  /\ runs \in [Run -> {"new", "ok", "failed"} \cup Active]
  /\ discovered \in [Run -> Seq(Nat \ {0})] /\ plan \in [Run -> SUBSET File]
  /\ next \in [Run -> 0..Statements]
  /\ overlapped \subseteq Run
  /\ last \in Run \cup {"none"}

MigrationsInit ==
  /\ backend \in Backend
  /\ disk = << 1 >>
  /\ ledger = [f \in File |-> 0]
  /\ schema = {}
  /\ runs = [r \in Run |-> "new"]
  /\ discovered = [r \in Run |-> << >>]
  /\ plan = [r \in Run |-> {}]
  /\ next = [r \in Run |-> 0]
  /\ overlapped = {}
  /\ last = "none"
-----------------------------------------------------------------------------
\* A release adds the next file, or changes one that may have been applied.
NewRelease ==
  /\ \/ Len(disk) < Files /\ disk' = Append(disk, 1)
     \/ \E f \in 1..Len(disk) :
          disk[f] <= MaxEdits /\ disk' = [disk EXCEPT ![f] = @ + 1]
  /\ UNCHANGED << backend, ledger, schema, runs, discovered, plan, next, overlapped, last >>

\* discover_migrations reads every file, contents and all.
Discover(r) ==
  /\ runs[r] = "new"
  /\ runs' = [runs EXCEPT ![r] = "read"]
  /\ discovered' = [discovered EXCEPT ![r] = disk]
  /\ LET others == {q \in Run \ {r} : runs[q] \in Active}
     IN  overlapped' = IF others = {} THEN overlapped ELSE overlapped \cup others \cup {r}
  /\ last' = r
  /\ UNCHANGED << backend, disk, ledger, schema, plan, next >>

\* build_plan: never applied, or applied with another checksum.
Pending(r, f) == ledger[f] # discovered[r][f]

\* ensure_tracking_table and fetch_applied; an empty plan ends the run.
Plan(r) ==
  /\ runs[r] = "read"
  /\ LET files == {f \in 1..Len(discovered[r]) : Pending(r, f)}
     IN  /\ plan' = [plan EXCEPT ![r] = files]
         /\ runs' = [runs EXCEPT ![r] = IF files = {} THEN "ok" ELSE "apply"]
  /\ UNCHANGED << backend, disk, ledger, schema, discovered, next, overlapped, last >>

\* The file a run applies, and one of its statements.
Current(r) == Min(plan[r])
StatementOf(r, n) == << Current(r), discovered[r][Current(r)], n >>

\* The ledger row of the file that was applied; the run goes on or is through.
Recorded(r) ==
  LET rest == plan[r] \ {Current(r)}
  IN  /\ ledger' = [ledger EXCEPT ![Current(r)] = discovered[r][Current(r)]]
      /\ plan' = [plan EXCEPT ![r] = rest]
      /\ runs' = [runs EXCEPT ![r] = IF rest = {} THEN "ok" ELSE "apply"]
      /\ next' = [next EXCEPT ![r] = 0]

\* PostgresMigrationExecutor.apply_one commits.
ApplyFile(r) ==
  /\ backend = "postgres"
  /\ runs[r] = "apply"
  /\ schema' = schema \cup {StatementOf(r, n) : n \in 1..Statements}
  /\ Recorded(r)
  /\ UNCHANGED << backend, disk, discovered, overlapped, last >>

\* ClickHouseMigrationExecutor.apply_one: client.command on one statement.
ExecuteStatement(r) ==
  /\ backend = "clickhouse"
  /\ runs[r] = "apply" /\ next[r] < Statements
  /\ next' = [next EXCEPT ![r] = @ + 1]
  /\ schema' = schema \cup {StatementOf(r, next[r] + 1)}
  /\ UNCHANGED << backend, disk, ledger, runs, discovered, plan, overlapped, last >>

\* Variant for the checks: the row goes in before the last statement.
InsertRowEarly(r) ==
  /\ backend = "clickhouse"
  /\ runs[r] = "apply" /\ next[r] = Statements - 1
  /\ Recorded(r)
  /\ UNCHANGED << backend, disk, schema, discovered, overlapped, last >>

\* client.insert, once every statement is through.
InsertRow(r) ==
  /\ backend = "clickhouse"
  /\ runs[r] = "apply" /\ next[r] = Statements
  /\ Recorded(r)
  /\ UNCHANGED << backend, disk, schema, discovered, overlapped, last >>

\* A statement, the insert or the commit fails, or the process dies: the run stops, a
\* transaction is rolled back, and ClickHouse keeps what it has executed.
RunFails(r) ==
  /\ runs[r] \in Active
  /\ runs' = [runs EXCEPT ![r] = "failed"]
  /\ plan' = [plan EXCEPT ![r] = {}]
  /\ next' = [next EXCEPT ![r] = 0]
  /\ UNCHANGED << backend, disk, ledger, schema, discovered, overlapped, last >>
-----------------------------------------------------------------------------
MigrationsNext ==
  \/ NewRelease
  \/ \E r \in Run : \/ Discover(r) \/ Plan(r) \/ ApplyFile(r)
                    \/ ExecuteStatement(r) \/ InsertRow(r) \/ RunFails(r)

MigrationsSpec == MigrationsInit /\ [][MigrationsNext]_migrationVars
-----------------------------------------------------------------------------
(***************************************************************************)
(* Properties                                                               *)
(***************************************************************************)

\* Whatever fails, restarts or runs at the same time, the ledger never claims more than
\* was done: every statement of a recorded version took effect, and of the files before
\* it some version is recorded too.
LedgerBacked ==
  \A f \in File : ledger[f] # 0 =>
    /\ \A n \in 1..Statements : << f, ledger[f], n >> \in schema
    /\ \A e \in 1..(f - 1) : ledger[e] # 0

\* A run that ended well, with the database to itself and no run begun since, has left
\* the ledger as it found the files, whatever earlier runs failed or left half done; the
\* next run of the same checkout has nothing to do.  (Of two runs that overlap, the one
\* with the older checkout may record its checksum last.)
SuccessIsCurrent ==
  \A r \in Run \ overlapped :
    last = r /\ runs[r] = "ok" =>
      \A f \in 1..Len(discovered[r]) : ledger[f] = discovered[r][f]

\* The promise of the ledger, to those who read it and to the next run.
LedgerSound == LedgerBacked /\ SuccessIsCurrent
=============================================================================
