----------------------------- MODULE PickImport -----------------------------
(***************************************************************************)
(* Imports of a strategy's daily pools (gr_api/services/pick_import.py).     *)
(* A batch is the whole pool of one trading day; each symbol in it carries   *)
(* the day it entered, which an import derives from the batches of earlier   *)
(* days when its file leaves it blank.  Every SQL statement is a step: other *)
(* imports run between them, and PostgreSQL isolates at READ COMMITTED.      *)
(* A batch is named by the import that wrote it.  All symbols are stocks,    *)
(* whose product_code is the symbol.                                         *)
(***************************************************************************)
EXTENDS Integers, FiniteSetsExt

CONSTANTS Import,       \* numbers that name imports and their batches
          PickSymbol,
          LastDay,      \* bound: trading days are 1..LastDay
          MaxRunning,   \* bound: imports that run at the same time
          Given,        \* the entry dates a file may state
          Calendar,     \* the days meta.trading_calendar lists
          Out, Blank    \* a symbol the file leaves out; one whose entry_date it leaves blank

PickDay == 1..LastDay

ASSUME PickAssumption ==
  /\ Import \cup {LastDay, MaxRunning} \subseteq Nat
  /\ Given \subseteq PickDay /\ Calendar \subseteq PickDay
  /\ Out # Blank /\ {Out, Blank} \cap PickDay = {}

VARIABLES
  step,       \* where each import is
  request,    \* its arguments
  derived,    \* the items it is to write, or has written
  aim,        \* active batches its UPDATE found, then those it has superseded
  status,     \* pick.batch.status, as committed
  rows,       \* pick.item, as committed
  concurrent  \* imports that ran at the same time as another one, while their pool stands

pickVars == << step, request, derived, aim, status, rows, concurrent >>

PoolFile == [PickSymbol -> Given \cup {Out, Blank}]
NoFile == [s \in PickSymbol |-> Out]
NoRequest == [day |-> 0, overwrite |-> FALSE, file |-> NoFile]
Running == {i \in Import : step[i] \notin {"idle", "done"}}
Item == [day : PickDay, symbol : PickSymbol, batch : Import, entry : PickDay,
         source : {"provided", "derived"}, product : PickDay]

PicksTypeOK ==
  /\ step \in [Import -> {"idle", "order", "existing", "derive", "update", "supersede",
                          "insert", "commit", "done"}]
  /\ request \in [Import -> {NoRequest} \cup
                            [day : PickDay, overwrite : BOOLEAN, file : PoolFile]]
  /\ derived \in [Import -> SUBSET Item] /\ aim \in [Import -> SUBSET Import]
  /\ status \in [Import -> {"none", "active", "superseded"}]
  /\ rows \subseteq Item
  /\ concurrent \subseteq Import

PicksInit ==
  /\ step = [i \in Import |-> "idle"]
  /\ request = [i \in Import |-> NoRequest]
  /\ derived = [i \in Import |-> {}] /\ aim = [i \in Import |-> {}]
  /\ status = [i \in Import |-> "none"]
  /\ rows = {} /\ concurrent = {}
-----------------------------------------------------------------------------
ActiveOn(d) == {b \in Import : status[b] = "active" /\ request[b].day = d}
LatestDay == Max({request[b].day : b \in {c \in Import : status[c] = "active"}} \cup {0})

\* _prev_trading_day; 0 when the calendar has none.
PrevDay(d) == IF d \in Calendar THEN d - 1 ELSE Max({e \in Calendar : e < d} \cup {0})

Earlier(d, s) == {r \in rows : r.symbol = s /\ r.day < d}

\* _last_items: the latest row of the symbol before the day.
LastItem(d, s) == {r \in Earlier(d, s) : \A q \in Earlier(d, s) : q.day <= r.day}

\* What entry dates are inherited from: the pool of the day before if it has a batch,
\* otherwise the last time the symbol was seen.
Previous(d, s) ==
  IF ActiveOn(PrevDay(d)) # {} THEN {r \in Earlier(d, s) : r.day = PrevDay(d)}
                               ELSE LastItem(d, s)

\* The item of a symbol in the file, with its two dates.
DerivedItem(i, s) ==
  LET d     == request[i].day
      given == request[i].file[s]
      prev  == Previous(d, s)
      entry == IF given # Blank THEN given ELSE Min({r.entry : r \in prev} \cup {d})
  IN  [day |-> d, symbol |-> s, batch |-> i, entry |-> entry,
       source |-> IF given # Blank THEN "provided" ELSE "derived",
       product |-> Min({r.product : r \in prev} \cup {entry})]

\* Variant for the checks: the order of uploads is not looked at.
OutOfOrderNever(i) == FALSE

\* A later day already has its pool.
OutOfOrder(i) == request[i].day < LatestDay

\* A given entry_date after the trading day blocks the whole file.
RowErrors(i) ==
  \E s \in PickSymbol : request[i].file[s] \in Given /\ request[i].file[s] > request[i].day

\* Another import's uncommitted writes to the day, which the unique index uq_batch_active
\* (one active batch for a day) makes an INSERT wait for.
Ahead(i) == {j \in Import \ {i} : /\ request[j].day = request[i].day
                                  /\ \/ step[j] = "commit"
                                     \/ step[j] = "insert" /\ aim[j] # {}}
-----------------------------------------------------------------------------
BeginImport(i) ==
  /\ step[i] = "idle" /\ Cardinality(Running) < MaxRunning
  /\ \A j \in Import : step[j] = "idle" => i <= j
  /\ \E d \in PickDay, o \in BOOLEAN, f \in PoolFile :
       request' = [request EXCEPT ![i] = [day |-> d, overwrite |-> o, file |-> f]]
  /\ step' = [step EXCEPT ![i] = "order"]
  /\ concurrent' = IF Running = {} THEN concurrent ELSE concurrent \cup Running \cup {i}
  /\ UNCHANGED << derived, aim, status, rows >>

\* It ends without a trace, and may be tried again.
GivesUp(i) ==
  /\ step' = [step EXCEPT ![i] = "idle"]
  /\ request' = [request EXCEPT ![i] = NoRequest]
  /\ derived' = [derived EXCEPT ![i] = {}]
  /\ aim' = [aim EXCEPT ![i] = {}]
  /\ concurrent' = concurrent \ {i}
  /\ UNCHANGED << status, rows >>

Goes(i, to) ==
  /\ step' = [step EXCEPT ![i] = to]
  /\ UNCHANGED << status, rows, concurrent >>

\* _max_trading_day.
CheckOrder(i) ==
  /\ step[i] = "order"
  /\ \/ OutOfOrder(i) /\ GivesUp(i)
     \/ ~ OutOfOrder(i) /\ Goes(i, "existing") /\ UNCHANGED << request, derived, aim >>

\* _active_batch, and then the errors of the rows.
CheckExisting(i) ==
  LET refused == (ActiveOn(request[i].day) # {} /\ ~ request[i].overwrite) \/ RowErrors(i)
  IN  /\ step[i] = "existing"
      /\ \/ refused /\ GivesUp(i)
         \/ ~ refused /\ Goes(i, "derive") /\ UNCHANGED << request, derived, aim >>

\* _derive_items; a dry run ends here.
DeriveItems(i) ==
  /\ step[i] = "derive"
  /\ \/ GivesUp(i)
     \/ /\ derived' = [derived EXCEPT ![i] =
             {DerivedItem(i, s) : s \in {t \in PickSymbol : request[i].file[t] # Out}}]
        /\ request' = [request EXCEPT ![i].file = NoFile]
        /\ Goes(i, "update") /\ UNCHANGED aim

\* UPDATE pick.batch: the rows its snapshot shows active ...
FindActive(i) ==
  /\ step[i] = "update"
  /\ aim' = [aim EXCEPT ![i] = ActiveOn(request[i].day)]
  /\ Goes(i, "supersede") /\ UNCHANGED << request, derived >>

\* ... are superseded once no other import holds them, if they are active still.
Supersede(i) ==
  /\ step[i] = "supersede"
  /\ \A j \in Import \ {i} : step[j] \in {"insert", "commit"} => aim[i] \cap aim[j] = {}
  /\ aim' = [aim EXCEPT ![i] = {b \in aim[i] : status[b] = "active"}]
  /\ Goes(i, "insert") /\ UNCHANGED << request, derived >>

\* INSERT INTO pick.batch: a second active batch of the day is refused by uq_batch_active.
InsertBatch(i) ==
  /\ step[i] = "insert" /\ Ahead(i) = {}
  /\ \/ /\ ActiveOn(request[i].day) \subseteq aim[i]
        /\ Goes(i, "commit") /\ UNCHANGED << request, derived, aim >>
     \/ /\ ~ (ActiveOn(request[i].day) \subseteq aim[i])
        /\ GivesUp(i)

\* The day's items are deleted, the new ones inserted, and all of it is committed.
CommitImport(i) ==
  /\ step[i] = "commit"
  /\ step' = [step EXCEPT ![i] = "done"]
  /\ status' = [b \in Import |-> IF b = i THEN "active"
                                 ELSE IF b \in aim[i] THEN "superseded" ELSE status[b]]
  /\ rows' = {r \in rows : r.day # request[i].day} \cup derived[i]
  /\ derived' = [b \in Import |-> IF b \in aim[i] THEN {} ELSE derived[b]]
  /\ aim' = [aim EXCEPT ![i] = {}]
  /\ concurrent' = concurrent \ aim[i]
  /\ UNCHANGED request

\* A statement fails or the process dies: the transaction is rolled back.
ImportFails(i) == i \in Running /\ GivesUp(i)

PicksNext ==
  \E i \in Import : \/ BeginImport(i) \/ CheckOrder(i) \/ CheckExisting(i)
                    \/ DeriveItems(i) \/ FindActive(i) \/ Supersede(i)
                    \/ InsertBatch(i) \/ CommitImport(i) \/ ImportFails(i)

PicksSpec == PicksInit /\ [][PicksNext]_pickVars
-----------------------------------------------------------------------------
(***************************************************************************)
(* Properties                                                               *)
(***************************************************************************)

\* However imports of a day interleave, fail or replace one another, the items of the day
\* are those of its one active batch, whole.
PoolsIntact ==
  /\ \A d \in PickDay : {r \in rows : r.day = d} = UNION {derived[b] : b \in ActiveOn(d)}
  /\ \A d \in PickDay : Cardinality(ActiveOn(d)) <= 1

\* The item a row goes on from, by the whole history: the symbol's latest one, unless the
\* day before has a pool that the symbol is not in.
GoesOnFrom(r) ==
  {q \in LastItem(r.day, r.symbol) : q.day = r.day - 1 \/ ActiveOn(r.day - 1) = {}}

\* The dates of a pool that was imported by itself are the ones its history, as it stands
\* now, explains: later imports never change what they were derived from.  (A calendar
\* that is behind hides the pools of the days it lacks.)
PoolsExplained ==
  \A r \in rows :
    r.batch \notin concurrent /\ PrevDay(r.day) = r.day - 1 =>
      /\ r.source = "derived" => r.entry = Min({q.entry : q \in GoesOnFrom(r)} \cup {r.day})
      /\ r.product = Min({q.product : q \in GoesOnFrom(r)} \cup {r.entry})

\* Unless imports overlap, a pool is replaced only by one that was told to.
ReplacedOnPurpose ==
  \A b \in Import : status[b] = "superseded" =>
    \A c \in ActiveOn(request[b].day) \ concurrent : request[c].overwrite

\* The promise of an import: whole pools, dates that their history explains, and no
\* replacement that nobody asked for.
PicksSound == PoolsIntact /\ PoolsExplained /\ ReplacedOnPurpose
=============================================================================
