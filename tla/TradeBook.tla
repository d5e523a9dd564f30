------------------------------ MODULE TradeBook ------------------------------
(***************************************************************************)
(* The trade journal of one strategy and one symbol                         *)
(* (gr_signal: trade_writer.py, trade_reconciler.py; gr_api:                *)
(* services/signal.py record_execute).  A recorded execution inserts its     *)
(* trade and recomputes average cost and profit of every trade it can see,   *)
(* in the order of executed_at, which the client may choose.  PostgreSQL     *)
(* isolates at READ COMMITTED: a request sees what is committed when it      *)
(* selects, and waits for the rows another one has updated.                  *)
(***************************************************************************)
EXTENDS Integers, Functions, FiniteSetsExt

CONSTANTS Trade,        \* ids of trades, one for each recorded execution or imported fill
          Gaps,         \* the process that repairs old rows (backfill_trade_gaps)
          TradeQty, TradePrice,   \* prices that are multiples of every position's size
          NoPnl         \* NULL

ASSUME TradeAssumption ==
  /\ IsFiniteSet(Trade)
  /\ TradeQty \subseteq Nat \ {0} /\ TradePrice \subseteq Nat
  /\ Gaps \notin Trade /\ NoPnl \notin Int

VARIABLES
  trades,   \* strategy_trades, with what is not committed yet
  inTable,  \* the committed ones
  stage,    \* transactions of recorded executions and of the repair
  seen,     \* the rows each of them selected
  beside,   \* history: trades that others committed since it selected
  missed    \* history: trades that the last commit was not computed from for that reason,
            \* or because it was an import or there has been none

tradeVars == << trades, inTable, stage, seen, beside, missed >>

Writer == Trade \cup {Gaps}
TradeTime == 1..Cardinality(Trade)
NoTrade == [action |-> "none", qty |-> 0, price |-> 0, at |-> 0, realized |-> 0, cum |-> NoPnl]

TradeTypeOK ==
  /\ trades \in [Trade -> [action : {"none", "buy", "sell"}, qty : TradeQty \cup {0},
                           price : TradePrice \cup {0}, at : TradeTime \cup {0},
                           realized : Int, cum : Int \cup {NoPnl}]]
  /\ inTable \subseteq Trade
  /\ stage \in [Writer -> {"no", "select", "update", "commit"}]
  /\ seen \in [Writer -> SUBSET Trade]
  /\ beside \in [Writer -> SUBSET Trade]
  /\ missed \subseteq Trade

Fresh == {t \in Trade : trades[t].action = "none"}
FreeTime == TradeTime \ {trades[t].at : t \in Trade}

\* A row as it is inserted.
NewTrade(t) ==
  [action : {"buy", "sell"}, qty : TradeQty, price : TradePrice, at : FreeTime,
   realized : {0}, cum : {NoPnl}]

\* Old rows whose cumulative_pnl was never computed.
TradesInit ==
  /\ inTable \in {S \in SUBSET Trade : Cardinality(S) <= 1}
  /\ \E q \in TradeQty, p \in TradePrice :
       trades = [t \in Trade |-> IF t \in inTable
                                 THEN [NoTrade EXCEPT !.action = "buy", !.qty = q,
                                                      !.price = p, !.at = 1]
                                 ELSE NoTrade]
  /\ stage = [w \in Writer |-> "no"]
  /\ seen = [w \in Writer |-> {}]
  /\ beside = [w \in Writer |-> {}]
  /\ missed = inTable
-----------------------------------------------------------------------------
(***************************************************************************)
(* Average cost, with a signed position                                     *)
(***************************************************************************)
FlatBook == [net |-> 0, cost |-> 0, cum |-> 0, realized |-> 0]

Shares(n) == IF n < 0 THEN -n ELSE n
Signed(t) == IF t.action = "buy" THEN t.qty ELSE -t.qty
Lesser(a, b) == IF a <= b THEN a ELSE b
Turns(book, t) == book.net # 0 /\ (book.net > 0) # (t.action = "buy")

\* One trade: with the position it adds its notional; against it, it realizes the part it
\* closes, and what exceeds it opens the other side at its price.
Booked(book, t) ==
  LET avg    == IF book.net = 0 THEN 0 ELSE book.cost \div Shares(book.net)
      closed == Lesser(t.qty, Shares(book.net))
      pnl    == IF ~ Turns(book, t) THEN 0
                ELSE closed * (IF book.net > 0 THEN t.price - avg ELSE avg - t.price)
      net    == book.net + Signed(t)
  IN  [net |-> net, realized |-> pnl, cum |-> book.cum + pnl,
       cost |-> IF ~ Turns(book, t) THEN book.cost + t.qty * t.price
                ELSE IF t.qty <= Shares(book.net) THEN avg * Shares(net)
                ELSE t.price * Shares(net)]

\* The book of the rows S after the one at position n in time.
BookAt(rows, S, n) ==
  LET book[k \in 0..n] ==
        IF k = 0 THEN FlatBook
        ELSE LET at == {t \in S : rows[t].at = k}
             IN  IF at = {} THEN book[k - 1]
                 ELSE Booked(book[k - 1], rows[CHOOSE t \in at : TRUE])
  IN  book[n]

\* Variant for the checks: profit is computed for the rows that have none.
ReconciledOnce(rows, S) ==
  [t \in Trade |->
     IF t \notin S \/ rows[t].cum # NoPnl THEN rows[t]
     ELSE LET book == BookAt(rows, S, rows[t].at)
          IN  [rows[t] EXCEPT !.realized = book.realized, !.cum = book.cum]]

\* UPDATE strategy_trades: realized and cumulative profit of the rows S, computed from them.
Reconciled(rows, S) ==
  [t \in Trade |->
     IF t \notin S THEN rows[t]
     ELSE LET book == BookAt(rows, S, rows[t].at)
          IN  [rows[t] EXCEPT !.realized = book.realized, !.cum = book.cum]]
-----------------------------------------------------------------------------
\* record_execute: the trade is inserted, with no profit yet.
Execute(t) ==
  /\ t \in Fresh
  /\ \E row \in NewTrade(t) : trades' = [trades EXCEPT ![t] = row]
  /\ stage' = [stage EXCEPT ![t] = "select"]
  /\ UNCHANGED << inTable, seen, beside, missed >>

\* backfill_trade_gaps: only for a strategy with rows that have no cumulative profit.
RepairGaps ==
  /\ stage[Gaps] = "no"
  /\ \E t \in inTable : trades[t].cum = NoPnl
  /\ stage' = [stage EXCEPT ![Gaps] = "select"]
  /\ UNCHANGED << trades, inTable, seen, beside, missed >>

\* reconcile_trades selects the strategy's rows: the committed ones, and its own.
SelectTrades(w) ==
  /\ stage[w] = "select"
  /\ seen' = [seen EXCEPT ![w] = inTable \cup ({w} \cap Trade)]
  /\ stage' = [stage EXCEPT ![w] = "update"]
  /\ UNCHANGED << trades, inTable, beside, missed >>

\* It updates them, after whoever has updated one of them has ended.
UpdateTrades(w) ==
  /\ stage[w] = "update"
  /\ \A v \in Writer : stage[v] = "commit" => seen[v] \cap seen[w] = {}
  /\ stage' = [stage EXCEPT ![w] = "commit"]
  /\ UNCHANGED << trades, inTable, seen, beside, missed >>

\* Those that have selected already do not see the trades of S.
CommittedBeside(S) ==
  [v \in Writer |-> IF stage[v] \in {"update", "commit"} THEN beside[v] \cup S ELSE {}]

CommitTrades(w) ==
  /\ stage[w] = "commit"
  /\ trades' = Reconciled(trades, seen[w])
  /\ inTable' = inTable \cup ({w} \cap Trade)
  /\ stage' = [stage EXCEPT ![w] = "no"]
  /\ seen' = [seen EXCEPT ![w] = {}]
  /\ beside' = [CommittedBeside({w} \cap Trade) EXCEPT ![w] = {}]
  /\ missed' = beside[w]

\* An error, or the request's connection is lost: nothing of it stays.
RollbackTrades(w) ==
  /\ stage[w] \in {"select", "update", "commit"}
  /\ trades' = IF w \in Trade THEN [trades EXCEPT ![w] = NoTrade] ELSE trades
  /\ stage' = [stage EXCEPT ![w] = "no"]
  /\ seen' = [seen EXCEPT ![w] = {}]
  /\ beside' = [beside EXCEPT ![w] = {}]
  /\ UNCHANGED << inTable, missed >>

\* write_fills: fills of a backtest, their profit computed among themselves alone.
ImportFills ==
  /\ \E S \in SUBSET Fresh \ {{}} :
       \E fill \in [S -> [action : {"buy", "sell"}, qty : TradeQty, price : TradePrice,
                          at : FreeTime, realized : {0}, cum : {NoPnl}]] :
         /\ \A t, u \in S : fill[t].at = fill[u].at => t = u
         /\ trades' = Reconciled([t \in Trade |-> IF t \in S THEN fill[t] ELSE trades[t]], S)
         /\ inTable' = inTable \cup S
         /\ beside' = CommittedBeside(S)
  /\ missed' = inTable
  /\ UNCHANGED << stage, seen >>

TradesNext ==
  \/ \E t \in Trade : Execute(t)
  \/ RepairGaps \/ ImportFills
  \/ \E w \in Writer :
       SelectTrades(w) \/ UpdateTrades(w) \/ CommitTrades(w) \/ RollbackTrades(w)

TradesSpec == TradesInit /\ [][TradesNext]_tradeVars
-----------------------------------------------------------------------------
(***************************************************************************)
(* Properties                                                               *)
(***************************************************************************)

\* The trades that the last commit was computed from, but for those it could not see.
Together == inTable \ missed
Through(t) == {u \in Together : trades[u].at <= trades[t].at}

\* The profits realized one by one add up to the cumulative profit of each trade.
ProfitsAddUp ==
  \A t \in Together :
    trades[t].cum = SumFunctionOnSet([u \in Trade |-> trades[u].realized], Through(t))

\* It is the cash of the trades so far plus what the position that is held has cost, or
\* less what it has brought in when it is short.
CashAndCost ==
  \A t \in Together :
    LET held == BookAt(trades, Together, trades[t].at)
    IN  trades[t].cum = MapThenSumSet(LAMBDA u : -Signed(trades[u]) * trades[u].price, Through(t))
                        + (IF held.net >= 0 THEN held.cost ELSE -held.cost)

\* In whatever order trades are recorded, and however many requests are under way, the
\* journal explains itself but for the trades that were committed between the SELECT and
\* the COMMIT of the request that committed last: with those left out, realized profits add
\* up to cumulative ones, and these agree with cash and the position.  A request that
\* nobody overlaps leaves none out, also when earlier ones had missed some, and what it
\* leaves stays so until another one commits.
JournalExplained == ProfitsAddUp /\ CashAndCost
=============================================================================
