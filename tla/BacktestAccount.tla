-------------------------- MODULE BacktestAccount --------------------------
(***************************************************************************)
(* The bar loop of a backtest and the account it trades on (gr_backtest:    *)
(* api.py, account.py, execution.py, margin.py, risk.py).                   *)
(*                                                                          *)
(* On every bar the orders due are matched, corporate actions applied,      *)
(* futures settled, margin checked and positions liquidated; then the       *)
(* strategy places orders for the next bar (execution_lag_bars = 1).        *)
(* Decimals are whole numbers here, and a position carries its cost,        *)
(* qty * avg_cost, which only a split or a part sale has to round.          *)
(***************************************************************************)
EXTENDS Integers, FiniteSets, Functions

CONSTANTS Symbol,
          Price,         \* prices of bars, limits and settlements
          Multiplier,    \* contract multiplier of each symbol
          MarginPct,     \* its margin ratio, in percent: 0 for a stock
          InitialCash,
          Fee,           \* fee of a fill
          Slip,          \* slippage of a fill
          LiquidationSlip,    \* slippage of a forced close
          CallPct, LiquidationPct,    \* thresholds of RiskConfig, in percent
          WithRisk,      \* a RiskManager is configured
          OrderQty,      \* quantities the strategy orders; 0 is weight = 1
          SplitRatio,    \* split and bonus ratios, as << numerator, denominator >>
          NetDividend,   \* dividends per share, after tax
          MaxBars        \* bound: bars

ASSUME AccountAssumption ==
  /\ IsFiniteSet(Symbol)
  /\ Price \subseteq Nat \ {0}
  /\ Multiplier \in [Symbol -> Nat \ {0}] /\ MarginPct \in [Symbol -> Nat]
  /\ InitialCash \in Nat /\ Fee \in Nat
  /\ Slip \in Nat /\ LiquidationSlip \in Nat
  /\ CallPct \in Nat /\ LiquidationPct \in Nat /\ WithRisk \in BOOLEAN
  /\ OrderQty \subseteq Nat /\ NetDividend \subseteq Nat
  /\ SplitRatio \subseteq (Nat \ {0}) \X (Nat \ {0})
  /\ MaxBars \in Nat

VARIABLES
  account,   \* cash, frozen_cash, margin_state and the positions
  mark,      \* last_prices; 0 before a symbol's first bar
  due,       \* orders that become eligible at this bar, at most one
  phase,     \* where the bar loop is
  bar,       \* bar_index
  flows      \* history: money in and out of cash and cost other than by a sale's
             \* profit: opening fees, dividends, settlements, what truncation drops

accountVars == << account, mark, due, phase, bar, flows >>

BuySides == {"BUY", "OPEN_LONG", "CLOSE_SHORT"}
SellSides == {"SELL", "CLOSE_LONG", "OPEN_SHORT"}
ExposureSides == {"BUY", "OPEN_LONG", "OPEN_SHORT"}
Order == [symbol : Symbol, side : BuySides \cup SellSides, qty : OrderQty,
          type : {"MARKET", "LIMIT", "STOP"}]

Position == [qty : Int, cost : Int, held : Int, realized : Int, future : BOOLEAN]
NoPosition == [qty |-> 0, cost |-> 0, held |-> 0, realized |-> 0, future |-> FALSE]

AccountTypeOK ==
  /\ account \in [cash : Int, frozen : Nat, margin : Int, variation : Int,
                  call : BOOLEAN, pos : [Symbol -> Position]]
  /\ mark \in [Symbol -> Price \cup {0}]
  /\ due \subseteq Order
  /\ phase \in {"match", "actions", "settle", "risk", "liquidate", "decide", "done",
                "aborted"}
  /\ bar \in 0..MaxBars
  /\ flows \in Int

AccountInit ==
  /\ account = [cash |-> InitialCash, frozen |-> 0, margin |-> 0, variation |-> 0,
                call |-> FALSE, pos |-> [s \in Symbol |-> NoPosition]]
  /\ mark = [s \in Symbol |-> 0]
  /\ due = {}
  /\ phase = "match"
  /\ bar = 0
  /\ flows = 0
-----------------------------------------------------------------------------
(***************************************************************************)
(* Account                                                                  *)
(***************************************************************************)
Size(n) == IF n < 0 THEN - n ELSE n
Larger(m, n) == IF m > n THEN m ELSE n

\* int() and Decimal floor a quotient toward zero.
Truncated(n, d) == IF n < 0 THEN - ((- n) \div d) ELSE n \div d

Available(a) == a.cash - a.frozen
Mult(p, s) == IF p.future THEN Multiplier[s] ELSE 1
Worth(a, s) == a.pos[s].qty * mark[s] * Mult(a.pos[s], s)

\* Over all positions: what they have cost, what they hold and what they realized.
CostOf(pos) == SumFunctionOnSet([s \in Symbol |-> pos[s].cost], Symbol)
HeldOf(pos) == SumFunctionOnSet([s \in Symbol |-> pos[s].held], Symbol)
RealizedOf(pos) == SumFunctionOnSet([s \in Symbol |-> pos[s].realized], Symbol)

\* initial_margin, which maintenance_margin equals.
MarginOf(s, qty, price) == (Size(qty) * price * Multiplier[s] * MarginPct[s]) \div 100

\* _apply_buy_margin and its like: an opened position turns into a future.
Charged(a, s, qty, price) ==
  LET m == MarginOf(s, qty, price)
  IN  IF m = 0 THEN a
      ELSE [a EXCEPT !.margin = @ + m, !.pos[s].held = @ + m, !.pos[s].future = TRUE]

\* The share of an amount that goes with qty of the position.
Share(a, s, n, qty) == Truncated(n * qty, Size(a.pos[s].qty))

\* Variant for the checks: closing hands back the position's margin only.
ReleasedHalfway(a, s, qty) ==
  [a EXCEPT !.pos[s].held = @ - Share(a, s, @, qty)]

\* The share of the margin that goes with the part being closed.
Released(a, s, qty) ==
  LET m == Share(a, s, a.pos[s].held, qty)
  IN  [a EXCEPT !.margin = @ - m, !.pos[s].held = @ - m]

\* A position that is closed keeps its realized_pnl.
Emptied(a, s) ==
  IF a.pos[s].qty # 0 THEN a
  ELSE [a EXCEPT !.pos[s].cost = 0, !.pos[s].held = 0]

\* Variant for the checks: the fill's whole cost is unfrozen, more than was reserved.
PaidUnclamped(a, cost) == [a EXCEPT !.cash = @ - cost, !.frozen = @ - cost]

\* A buyer pays, and gets back what was frozen for it: never more than is frozen.
Paid(a, cost) == [a EXCEPT !.cash = @ - cost, !.frozen = Larger(0, @ - cost)]

AfterBuy(a, s, side, qty, price, fee) ==
  LET b == [Paid(a, qty * price + fee) EXCEPT !.pos[s].cost = @ + qty * price,
                                              !.pos[s].qty = @ + qty]
  IN  IF side = "OPEN_LONG" THEN Charged(b, s, qty, price) ELSE b

AfterSell(a, s, side, qty, price, fee) ==
  LET b == IF side = "CLOSE_LONG" THEN Released(a, s, qty) ELSE a
      cost == Share(a, s, a.pos[s].cost, qty)
  IN  Emptied([b EXCEPT !.cash = @ + qty * price - fee,
                        !.pos[s].realized = @ + qty * price - cost - fee,
                        !.pos[s].cost = @ - cost,
                        !.pos[s].qty = @ - qty], s)

AfterOpenShort(a, s, qty, price, fee) ==
  Charged([a EXCEPT !.cash = @ + qty * price - fee,
                    !.pos[s].cost = @ - qty * price,
                    !.pos[s].qty = @ - qty], s, qty, price)

\* Variant for the checks: the profit of a short with its sign turned.
AfterCloseShortTurned(a, s, qty, price, fee) ==
  LET cost == Share(a, s, a.pos[s].cost, qty)
  IN  Emptied([Paid(Released(a, s, qty), qty * price + fee) EXCEPT
                 !.pos[s].realized = @ + qty * price + cost - fee,
                 !.pos[s].cost = @ - cost,
                 !.pos[s].qty = @ + qty], s)

\* The cost of a short is negative.
AfterCloseShort(a, s, qty, price, fee) ==
  LET cost == Share(a, s, a.pos[s].cost, qty)
  IN  Emptied([Paid(Released(a, s, qty), qty * price + fee) EXCEPT
                 !.pos[s].realized = @ - cost - qty * price - fee,
                 !.pos[s].cost = @ - cost,
                 !.pos[s].qty = @ + qty], s)

\* Account.apply
Applied(a, s, side, qty, price, fee) ==
  CASE side \in {"BUY", "OPEN_LONG"} -> AfterBuy(a, s, side, qty, price, fee)
    [] side \in {"SELL", "CLOSE_LONG"} -> AfterSell(a, s, side, qty, price, fee)
    [] side = "OPEN_SHORT" -> AfterOpenShort(a, s, qty, price, fee)
    [] side = "CLOSE_SHORT" -> AfterCloseShort(a, s, qty, price, fee)

\* The AccountErrors that matching does not rule out; they end the backtest.
Impossible(a, s, side, qty, price, fee) ==
  \/ side \in BuySides /\ a.cash < qty * price + fee
  \/ side \in {"BUY", "OPEN_LONG"} /\ a.pos[s].qty + qty <= 0
  \/ side = "OPEN_SHORT" /\ a.pos[s].qty > 0
-----------------------------------------------------------------------------
(***************************************************************************)
(* Matching                                                                 *)
(***************************************************************************)

\* Order.resolve_qty: a weight is of the cash, or of the position that is closed.
Resolved(a, o, price) ==
  IF o.qty # 0 THEN o.qty
  ELSE IF o.side \in ExposureSides THEN Truncated(a.cash, price)
  ELSE Size(a.pos[o.symbol].qty)

\* _get_fill_base_price: a limit is as good as the open or better, a stop as bad or
\* worse.
BasePrices(o, open) ==
  {p \in Price : \/ o.type = "MARKET" /\ p = open
                 \/ o.type = "LIMIT" /\ IF o.side \in BuySides THEN p <= open ELSE p >= open
                 \/ o.type = "STOP" /\ IF o.side \in BuySides THEN p >= open ELSE p <= open}

\* Cash frozen for an order before it is matched, from the open price.
Reserve(a, o, open) ==
  LET qty == Resolved(a, o, open)
  IN  IF o.side \in BuySides /\ qty > 0 THEN qty * open + Fee ELSE 0

\* The position covers what is to be closed.
Coverable(a, o, qty) ==
  /\ o.side \in {"SELL", "CLOSE_LONG"} => a.pos[o.symbol].qty >= qty
  /\ o.side = "CLOSE_SHORT" => - a.pos[o.symbol].qty >= qty

\* Variant for the checks: a short is not counted as exposure.
CallIgnoresShorts(a, o) == a.call /\ o.side \in {"BUY", "OPEN_LONG"}

CallBlocks(a, o) == a.call /\ o.side \in ExposureSides

OrderRejected ==
  /\ phase = "match"
  /\ \E o \in due : due' = due \ {o}
  /\ UNCHANGED << account, mark, phase, bar, flows >>

OrderFilled ==
  /\ phase = "match"
  /\ \E o \in due, open \in Price :
       \E base \in BasePrices(o, open) :
         LET s == o.symbol
             reserve == Reserve(account, o, open)
             a == [account EXCEPT !.frozen = @ + reserve]
             qty == Resolved(a, o, base)
             price == IF o.side \in BuySides THEN base + Slip ELSE base - Slip
         IN  /\ ~ CallBlocks(account, o)
             /\ Available(account) >= reserve \/ reserve = 0
             /\ qty > 0 /\ price > 0
             /\ o.side \in BuySides => a.cash >= qty * price + Fee
             /\ Coverable(a, o, qty)
             /\ due' = due \ {o}
             /\ IF Impossible(a, s, o.side, qty, price, Fee)
                THEN phase' = "aborted" /\ account' = a /\ UNCHANGED flows
                ELSE /\ account' = Applied(a, s, o.side, qty, price, Fee)
                     /\ flows' = IF o.side \in ExposureSides THEN flows - Fee ELSE flows
                     /\ UNCHANGED phase
  /\ UNCHANGED << mark, bar >>

\* _match_eligible_orders is through.
AllMatched ==
  /\ phase = "match" /\ due = {}
  /\ phase' = "actions"
  /\ UNCHANGED << account, mark, due, bar, flows >>
-----------------------------------------------------------------------------
(***************************************************************************)
(* Corporate actions, settlement, risk                                      *)
(***************************************************************************)
CorporateAction ==
  /\ phase = "actions"
  /\ phase' = "settle"
  /\ \E s \in Symbol :
       LET p == account.pos[s]
       IN  \/ \E d \in NetDividend :
                /\ account' = [account EXCEPT !.cash = @ + p.qty * d]
                /\ flows' = flows + p.qty * d
           \/ \E r \in SplitRatio :
                LET qty == Truncated(p.qty * r[1], r[2])
                    cost == IF p.qty = 0 THEN 0
                            ELSE Truncated(Share(account, s, p.cost, Size(qty)) * r[2], r[1])
                IN  /\ account' = [account EXCEPT !.pos[s].qty = qty, !.pos[s].cost = cost]
                    /\ flows' = flows + cost - p.cost
  /\ UNCHANGED << mark, due, bar >>

NoCorporateAction ==
  /\ phase = "actions"
  /\ phase' = "settle"
  /\ UNCHANGED << account, mark, due, bar, flows >>

\* (settle_price - avg_cost) * qty, and what settlement makes of a position.
Gain(a, s, price) == price * a.pos[s].qty - a.pos[s].cost
Settles(a, s) == a.pos[s].qty # 0 /\ a.pos[s].future

SettledPosition(a, s, price) ==
  IF ~ Settles(a, s) THEN a.pos[s]
  ELSE [a.pos[s] EXCEPT !.cost = price * a.pos[s].qty,
                        !.held = MarginOf(s, a.pos[s].qty, price)]

\* _check_margin_call, and _apply_risk_controls for the call.
Below(a, pct) == a.margin > 0 /\ Available(a) * 100 < a.margin * pct

\* _update_last_prices and daily_settle at this bar's prices.
Settle ==
  /\ phase = "settle"
  /\ phase' = IF WithRisk THEN "risk" ELSE "decide"
  /\ \E close \in [Symbol -> Price] :
       LET settled == {s \in Symbol : Settles(account, s)}
           gains == [s \in Symbol |-> Gain(account, s, close[s])]
           paid == [s \in Symbol |-> gains[s] * Mult(account.pos[s], s)]
           var == SumFunctionOnSet(paid, settled)
           pos == [s \in Symbol |-> SettledPosition(account, s, close[s])]
           a == [account EXCEPT !.cash = @ + var, !.variation = @ + var, !.pos = pos,
                                !.margin = HeldOf(pos)]
       IN  /\ mark' = close
           /\ account' = IF Below(a, 100) THEN [a EXCEPT !.call = TRUE] ELSE a
           /\ flows' = flows + var + SumFunctionOnSet(gains, settled)
  /\ UNCHANGED << due, bar >>

\* The call follows the threshold; below the lower one liquidation starts.
CheckMargin ==
  /\ phase = "risk"
  /\ account' = [account EXCEPT !.call = Below(account, CallPct)]
  /\ phase' = IF Below(account, LiquidationPct) THEN "liquidate" ELSE "decide"
  /\ UNCHANGED << mark, due, bar, flows >>

\* One turn of liquidate_all: the largest position first, free of fees, until the check
\* is content.  Closing a short may ask for more cash than there is.
Liquidate ==
  /\ phase = "liquidate"
  /\ LET open == {s \in Symbol : account.pos[s].qty # 0}
     IN  IF open = {} THEN phase' = "decide" /\ UNCHANGED account
         ELSE \E s \in open :
           LET qty == Size(account.pos[s].qty)
               long == account.pos[s].qty > 0
               side == IF long THEN "CLOSE_LONG" ELSE "CLOSE_SHORT"
               price == IF long /\ mark[s] > LiquidationSlip THEN mark[s] - LiquidationSlip
                        ELSE IF long THEN mark[s] ELSE mark[s] + LiquidationSlip
           IN  /\ \A t \in open : Size(Worth(account, t)) <= Size(Worth(account, s))
               /\ IF Impossible(account, s, side, qty, price, 0)
                  THEN phase' = "aborted" /\ UNCHANGED account
                  ELSE /\ account' = Applied(account, s, side, qty, price, 0)
                       /\ phase' = IF Below(account', LiquidationPct) THEN "liquidate"
                                   ELSE "decide"
  /\ UNCHANGED << mark, due, bar, flows >>

\* strategy.on_bar returns intents for the next bar; on the last bar they expire.
Decide ==
  /\ phase = "decide"
  /\ IF bar = MaxBars
     THEN phase' = "done" /\ due' = {} /\ UNCHANGED bar
     ELSE /\ phase' = "match"
          /\ bar' = bar + 1
          /\ \/ due' = {}
             \/ \E o \in Order : due' = {o}
  /\ UNCHANGED << account, mark, flows >>
-----------------------------------------------------------------------------
AccountNext ==
  \/ OrderRejected \/ OrderFilled \/ AllMatched
  \/ CorporateAction \/ NoCorporateAction
  \/ Settle \/ CheckMargin \/ Liquidate \/ Decide

AccountSpec == AccountInit /\ [][AccountNext]_accountVars
-----------------------------------------------------------------------------
(***************************************************************************)
(* Properties                                                               *)
(***************************************************************************)

\* Cash and realized_pnl tell one story: over any sequence of buys, sells, shorts,
\* settlements and corporate actions, cash plus the cost of what is held is what the
\* account began with, the realized profit, and the money that came or went otherwise.
CashExplained ==
  account.cash + CostOf(account.pos) = InitialCash + flows + RealizedOf(account.pos)

\* Once a bar is settled the account's margin is the sum over its positions, through
\* every partial close and liquidation; while orders are matched it may lag, because a
\* plain SELL of a future releases nothing.
MarginAdds ==
  phase \in {"risk", "liquidate", "decide"} =>
    account.margin = HeldOf(account.pos)

\* From the settlement that found the margin short until one that does not, no fill
\* makes a position larger.
CallStopsExposure ==
  [][account.call /\ phase = "match" =>
       \A s \in Symbol : Size(account'.pos[s].qty) <= Size(account.pos[s].qty)]_accountVars

\* The books balance: cash against cost and profit, margin against positions.
BooksBalance == CashExplained /\ MarginAdds
=============================================================================
