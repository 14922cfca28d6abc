---------------------------- MODULE SingleAsset ----------------------------
(***************************************************************************)
(* One single-asset backtest: Backtester::run_detailed driving a Portfolio *)
(* through ExecutionHandler, bar by bar, and the benchmark it is compared  *)
(* with.  A bar is handled in the order of the code: the order pending     *)
(* from the bar before is filled at the open, the strategy sees the bar    *)
(* and its signal becomes an order, the position is liquidated at the last *)
(* close if configured, and the portfolio is marked.                       *)
(*                                                                         *)
(* The strategy is external: any signal on any bar.  Bars outside the      *)
(* window are skipped by the code before anything happens and are left     *)
(* out; the model draws a bar when the loop reaches it, which loses        *)
(* nothing because no step reads a later bar.                              *)
(*                                                                         *)
(* Money is exact: rates are CostNum/Scale and SlipNum/Scale, and amounts  *)
(* are counted in units of 1/(Scale * Scale) of the price unit, in which   *)
(* every product of the code is an integer.                                *)
(***************************************************************************)
EXTENDS Integers, Sequences

CONSTANTS
  Start,     \* starting_capital, in price units
  Prices,    \* the opens and closes a bar may have
  MaxBars,   \* bound on the number of bars in the window
  CostNum,   \* transaction_cost_rate * Scale
  SlipNum,   \* slippage_rate * Scale
  Scale

(* ConfigLoader requires a positive capital and non-negative rates, and    *)
(* MarketData positive prices; a rate above 1 is not refused by the code   *)
(* and is left out here.                                                   *)
ASSUME SingleAssetAssumption ==
  /\ Start \in Nat \ {0}
  /\ Prices \subseteq Nat \ {0}
  /\ MaxBars \in Nat
  /\ Scale \in Nat \ {0}
  /\ CostNum \in 0 .. Scale
  /\ SlipNum \in 0 .. Scale

VARIABLES
  n,          \* the number of bars in the window
  liquidate,  \* config_.liquidate_at_end
  phase,      \* where the loop is within a bar, or "done"
  bars,       \* the bars reached so far
  signals,    \* history: the signals so far
  pending,    \* pending_order, or NoOrder
  cash,
  position,
  basis,      \* average_entry_price_ * position_
  realized,   \* the sum of the trades' realized_pnl
  costs,      \* the sum of the trades' cost and slippage
  flows,      \* history: sells minus buys at the prices of the bars
  trade,      \* the last trade, or NoTrade
  equity      \* the value of the last equity point

window  == <<n, liquidate>>
account == <<cash, position, basis, realized, costs, flows, trade>>
vars    == <<window, phase, bars, signals, pending, account, equity>>

Unit    == Scale * Scale
Bar     == [open : Prices, close : Prices]
Side    == {"BUY", "SELL"}
Signal  == {"Buy", "Sell", "Hold"}
NoOrder == [qty |-> 0]
NoTrade == [qty |-> 0]
Order   == [side : Side, qty : Nat \ {0}, decided : Nat]
Trade   == [side : Side, qty : Nat \ {0}, market : Prices, decided : Nat,
            bar : Nat, at : {"open", "close"}]

i == Len(bars)

TypeOK ==
  /\ n \in 0 .. MaxBars
  /\ liquidate \in BOOLEAN
  /\ phase \in {"open", "fill", "signal", "close", "done"}
  /\ bars \in Seq(Bar) /\ Len(bars) <= n
  /\ signals \in Seq(Signal)
  /\ pending \in Order \cup {NoOrder}
  /\ cash \in Int
  /\ position \in Int
  /\ basis \in Int
  /\ realized \in Int
  /\ costs \in Int
  /\ flows \in Int
  /\ trade \in Trade \cup {NoTrade}
  /\ equity \in Int

Init ==
  /\ n \in 0 .. MaxBars
  /\ liquidate \in BOOLEAN
  /\ phase = IF n = 0 THEN "done" ELSE "open"
  /\ bars = << >>
  /\ signals = << >>
  /\ pending = NoOrder
  /\ cash = Start * Unit
  /\ position = 0
  /\ basis = 0
  /\ realized = 0
  /\ costs = 0
  /\ flows = 0
  /\ trade = NoTrade
  /\ equity = Start * Unit

-----------------------------------------------------------------------------
(* ExecutionHandler::execute_order *)

FillPrice(side, price) ==
  price * (IF side = "BUY" THEN Scale + SlipNum ELSE Scale - SlipNum)
Gross(side, qty, price)      == qty * FillPrice(side, price) * Scale
Commission(side, qty, price) == qty * FillPrice(side, price) * CostNum
(* Mutant of Slippage: charged on the slipped price.                       *)
SlippageOnFillPrice(qty, price) == qty * FillPrice("BUY", price) * SlipNum
Slippage(qty, price)         == qty * price * SlipNum * Scale

(* Portfolio::generate_order: the shares 95% of the cash would buy, only   *)
(* from flat; everything held, only when something is held.                *)
(* Mutant of BuyQuantity: no reserve.                                      *)
BuyQuantityAllCash(money, price) == money \div (price * Unit)
BuyQuantity(money, price) == (95 * money) \div (100 * price * Unit)
OrderQuantity(signal, price) ==
  CASE signal = "Buy" /\ position = 0  -> BuyQuantity(cash, price)
    [] signal = "Sell" /\ position > 0 -> position
    [] OTHER                           -> 0
SideOf(signal) == IF signal = "Sell" THEN "SELL" ELSE "BUY"

(* Portfolio::process_fill: a buy that costs more than the cash and a sale *)
(* of more than is held are refused, and nothing changes.                  *)
(* Mutant of Buy: the fill is not checked against the cash.                *)
BuyUnchecked(order, price, at) ==
  LET total == Gross("BUY", order.qty, price) + Commission("BUY", order.qty, price)
  IN /\ cash' = cash - total
     /\ position' = position + order.qty
     /\ basis' = basis + total
     /\ costs' = costs + Commission("BUY", order.qty, price) + Slippage(order.qty, price)
     /\ flows' = flows - order.qty * price * Unit
     /\ trade' = [side |-> "BUY", qty |-> order.qty, market |-> price,
                  decided |-> order.decided, bar |-> i, at |-> at]
     /\ UNCHANGED realized

(* Mutant of Buy: the average entry price leaves out the commission.       *)
BuyBasisGross(order, price, at) ==
  LET total == Gross("BUY", order.qty, price) + Commission("BUY", order.qty, price)
  IN IF total > cash
     THEN UNCHANGED account
     ELSE /\ cash' = cash - total
          /\ position' = position + order.qty
          /\ basis' = basis + Gross("BUY", order.qty, price)
          /\ costs' = costs + Commission("BUY", order.qty, price) + Slippage(order.qty, price)
          /\ flows' = flows - order.qty * price * Unit
          /\ trade' = [side |-> "BUY", qty |-> order.qty, market |-> price,
                       decided |-> order.decided, bar |-> i, at |-> at]
          /\ UNCHANGED realized

Buy(order, price, at) ==
  LET total == Gross("BUY", order.qty, price) + Commission("BUY", order.qty, price)
  IN IF total > cash
     THEN UNCHANGED account
     ELSE /\ cash' = cash - total
          /\ position' = position + order.qty
          /\ basis' = basis + total
          /\ costs' = costs + Commission("BUY", order.qty, price) + Slippage(order.qty, price)
          /\ flows' = flows - order.qty * price * Unit
          /\ trade' = [side |-> "BUY", qty |-> order.qty, market |-> price,
                       decided |-> order.decided, bar |-> i, at |-> at]
          /\ UNCHANGED realized

(* The basis sold is the average entry price times the quantity; exact     *)
(* here because generate_order only sells the whole position.              *)
Sell(order, price, at) ==
  LET proceeds == Gross("SELL", order.qty, price) - Commission("SELL", order.qty, price)
      sold     == (basis * order.qty) \div position
  IN IF order.qty > position
     THEN UNCHANGED account
     ELSE /\ cash' = cash + proceeds
          /\ position' = position - order.qty
          /\ basis' = basis - sold
          /\ realized' = realized + proceeds - sold
          /\ costs' = costs + Commission("SELL", order.qty, price) + Slippage(order.qty, price)
          /\ flows' = flows + order.qty * price * Unit
          /\ trade' = [side |-> "SELL", qty |-> order.qty, market |-> price,
                       decided |-> order.decided, bar |-> i, at |-> at]

ProcessFill(order, price, at) ==
  IF order.side = "BUY" THEN Buy(order, price, at) ELSE Sell(order, price, at)

-----------------------------------------------------------------------------
(* Backtester::run_detailed *)

(* The loop reaches the next bar of the window.                            *)
NextBar ==
  /\ phase = "open"
  /\ \E bar \in Bar : bars' = Append(bars, bar)
  /\ phase' = "fill"
  /\ UNCHANGED <<window, signals, pending, account, equity>>

(* Mutant of FillPending: pending_order.reset() is missing.                *)
FillPendingNoReset ==
  /\ phase = "fill"
  /\ IF pending = NoOrder
     THEN UNCHANGED account
     ELSE ProcessFill(pending, bars[i].open, "open")
  /\ phase' = "signal"
  /\ UNCHANGED <<window, bars, signals, pending, equity>>

(* The order of the bar before is filled at this open, or dropped.         *)
FillPending ==
  /\ phase = "fill"
  /\ IF pending = NoOrder
     THEN UNCHANGED account
     ELSE ProcessFill(pending, bars[i].open, "open")
  /\ pending' = NoOrder
  /\ phase' = "signal"
  /\ UNCHANGED <<window, bars, signals, equity>>

(* Mutant of Decide: the last bar's order becomes pending as well.         *)
DecideOnLastBar(signal) ==
  /\ phase = "signal"
  /\ signals' = Append(signals, signal)
  /\ LET qty == OrderQuantity(signal, bars[i].close)
     IN pending' = IF qty > 0
                   THEN [side |-> SideOf(signal), qty |-> qty, decided |-> i]
                   ELSE pending
  /\ phase' = "close"
  /\ UNCHANGED <<window, bars, account, equity>>

(* The signal of the close becomes an order, except on the last bar.       *)
Decide(signal) ==
  /\ phase = "signal"
  /\ signals' = Append(signals, signal)
  /\ LET qty == OrderQuantity(signal, bars[i].close)
     IN pending' = IF qty > 0 /\ i < n
                   THEN [side |-> SideOf(signal), qty |-> qty, decided |-> i]
                   ELSE pending
  /\ phase' = "close"
  /\ UNCHANGED <<window, bars, account, equity>>

(* Everything still held at the last close is sold there.                  *)
Liquidation == [side |-> "SELL", qty |-> position, decided |-> i]
LiquidatesNow == liquidate /\ i = n /\ position > 0

Liquidate ==
  /\ phase = "close"
  /\ LiquidatesNow
  /\ ProcessFill(Liquidation, bars[i].close, "close")
  /\ UNCHANGED <<window, phase, bars, signals, pending, equity>>

MarkToMarket ==
  /\ phase = "close"
  /\ ~ LiquidatesNow
  /\ equity' = cash + position * bars[i].close * Unit
  /\ phase' = IF i = n THEN "done" ELSE "open"
  /\ UNCHANGED <<window, bars, signals, pending, account>>

Next ==
  \/ NextBar
  \/ FillPending
  \/ \E signal \in Signal : Decide(signal)
  \/ Liquidate
  \/ MarkToMarket

Spec == Init /\ [][Next]_vars

-----------------------------------------------------------------------------
(* Mutant of BenchmarkValue: bought at the close it was decided at.        *)
BenchmarkAtFirstClose ==
  LET qty    == BuyQuantity(Start * Unit, bars[1].close)
      cost   == Gross("BUY", qty, bars[1].close) + Commission("BUY", qty, bars[1].close)
      held   == IF qty > 0 /\ cost <= Start * Unit THEN qty ELSE 0
      left   == IF held > 0 THEN Start * Unit - cost ELSE Start * Unit
      last   == bars[Len(bars)].close
  IN left + IF liquidate
            THEN Gross("SELL", held, last) - Commission("SELL", held, last)
            ELSE held * last * Unit

(* Backtester::benchmark_return's simulate: bought at the second open with *)
(* the quantity of the first close, marked at the last close.  With fewer  *)
(* than two bars it throws, and the run has no benchmark.                  *)
BenchmarkValue ==
  LET qty    == BuyQuantity(Start * Unit, bars[1].close)
      cost   == Gross("BUY", qty, bars[2].open) + Commission("BUY", qty, bars[2].open)
      held   == IF qty > 0 /\ cost <= Start * Unit THEN qty ELSE 0
      left   == IF held > 0 THEN Start * Unit - cost ELSE Start * Unit
      last   == bars[Len(bars)].close
  IN left + IF liquidate
            THEN Gross("SELL", held, last) - Commission("SELL", held, last)
            ELSE held * last * Unit

-----------------------------------------------------------------------------
(* Properties *)

(* Long only, no leverage, no overselling: neither cash nor position goes  *)
(* below zero, and a sale waiting for the next open is always of exactly   *)
(* the position it will find there.                                        *)
LongOnly ==
  /\ cash >= 0
  /\ position >= 0
  /\ pending # NoOrder /\ pending.side = "SELL" => pending.qty = position

(* README "Timing": a decision made at a close executes at the open of the *)
(* very next bar, at no other bar and no other price; only the boundary    *)
(* liquidation trades at a close, the last one.                            *)
NextOpenExecution ==
  trade # NoTrade =>
    CASE trade.at = "open"  ->
           /\ trade.bar = trade.decided + 1
           /\ trade.market = bars[trade.bar].open
           /\ SideOf(signals[trade.decided]) = trade.side
           /\ signals[trade.decided] # "Hold"
      [] trade.at = "close" ->
           liquidate /\ trade.bar = n /\ trade.side = "SELL" /\ position = 0

(* The money of the account is where the trade records say: what is not in *)
(* cash is the cost basis of the position, and being flat leaves exactly   *)
(* the capital plus the realized profits.                                  *)
BasisReconciles ==
  /\ cash + basis = Start * Unit + realized
  /\ position = 0 => basis = 0

(* The recorded costs and slippage are the whole difference between the    *)
(* trades at bar prices and the cash.                                      *)
CostsExplainCash == cash = Start * Unit + flows - costs

(* No order outlives the window, and with liquidate_at_end the last equity *)
(* point is cash only.                                                     *)
EndsSettled ==
  phase = "done" =>
    /\ pending = NoOrder
    /\ liquidate => position = 0 /\ equity = cash

(* The 5% of cash generate_order keeps covers slippage and commission: a   *)
(* buy is refused only if the open is above the close it was sized at.     *)
ReserveCoversCosts ==
  [][phase = "fill" /\ pending # NoOrder /\ position' = position
       => bars[i].open > bars[i - 1].close]_vars

(* Benchmark execution parity: buying at the first close and holding ends  *)
(* with the value the benchmark reports for the same bars and costs.       *)
BoughtAndHeld ==
  signals[1] = "Buy" /\ \A k \in 2 .. n : signals[k] = "Hold"

BenchmarkParity ==
  phase = "done" /\ n >= 2 /\ BoughtAndHeld => equity = BenchmarkValue
=============================================================================
