------------------------- MODULE BacktestProofs -----------------------------
(***************************************************************************)
(* Proofs about a backtest of one asset, for every capital, price set,     *)
(* number of bars and pair of rates up to 100%: the account never goes     *)
(* below zero, trades happen at the next open, and the ledger reconciles.  *)
(* A backtest with a strategy is a backtest with some signals, so that     *)
(* this holds for all strategies; and the trend followers, whatever their  *)
(* windows, trade the crossings.                                           *)
(***************************************************************************)
EXTENDS StrategyBacktest, TLAPS

(* Where the loop is says how many bars and signals there are.             *)
LoopInv ==
  /\ phase = "open" => i < n
  /\ phase \in {"fill", "signal", "close"} => i \in 1 .. n
  /\ phase = "done" => i = n
  /\ Len(signals) = IF phase \in {"fill", "signal"} THEN i - 1 ELSE i

(* A pending order was decided on the last close, never on the last bar,   *)
(* and fits the position.                                                  *)
PendingInv ==
  pending # NoOrder =>
    /\ phase \in {"open", "fill", "close"}
    /\ pending.decided = IF phase = "fill" THEN i - 1 ELSE i
    /\ pending.decided \in 1 .. n - 1
    /\ signals[pending.decided] # "Hold"
    /\ SideOf(signals[pending.decided]) = pending.side
    /\ IF pending.side = "SELL" THEN pending.qty = position ELSE position = 0

(* What the last trade says of the run so far.                             *)
TradeInv ==
  trade # NoTrade =>
    /\ trade.bar \in 1 .. i
    /\ trade.decided \in 1 .. Len(signals)
    /\ trade.at = "open" => /\ trade.bar = trade.decided + 1
                            /\ trade.market = bars[trade.bar].open
                            /\ SideOf(signals[trade.decided]) = trade.side
                            /\ signals[trade.decided] # "Hold"
    /\ trade.at = "close" => /\ phase \in {"close", "done"}
                             /\ liquidate /\ trade.bar = n /\ i = n
                             /\ trade.side = "SELL" /\ position = 0

(* The account.                                                            *)
AccountInv == cash >= 0 /\ position >= 0 /\ basis >= 0

SettledInv ==
  phase = "done" /\ liquidate => position = 0 /\ equity = cash

IInv ==
  /\ TypeOK
  /\ LoopInv
  /\ PendingInv
  /\ TradeInv
  /\ AccountInv
  /\ BasisReconciles
  /\ CostsExplainCash
  /\ SettledInv

-----------------------------------------------------------------------------
(* Amounts *)

LEMMA ProductNat == \A a, b \in Nat : a * b \in Nat
OBVIOUS

LEMMA ProductMonotone == \A a, b, c \in Nat : b <= c => a * b <= a * c
OBVIOUS

LEMMA QuotientNat == \A a \in Nat, b \in Nat \ {0} : a \div b \in Nat
OBVIOUS

LEMMA ProductPositive == \A a, b \in Nat \ {0} : a * b \in Nat \ {0}
OBVIOUS

LEMMA ExactQuotient == \A a \in Int, b \in Nat \ {0} : (a * b) \div b = a
OBVIOUS

LEMMA PriceInt == \A price \in Prices : price \in Int
BY SingleAssetAssumption

LEMMA UnitPositive == Unit \in Nat \ {0}
BY ProductPositive, SingleAssetAssumption DEF Unit

(* A fill price and the amounts of a fill are natural numbers, and a sale  *)
(* never costs more than it yields.                                        *)
LEMMA FillAmounts ==
  ASSUME NEW side \in Side, NEW qty \in Nat, NEW price \in Prices
  PROVE  /\ Gross(side, qty, price) \in Nat
         /\ Commission(side, qty, price) \in Nat
         /\ Slippage(qty, price) \in Nat
         /\ Commission(side, qty, price) <= Gross(side, qty, price)
<1>1. price \in Nat /\ Scale \in Nat /\ CostNum \in Nat /\ SlipNum \in Nat /\ CostNum <= Scale
  BY SingleAssetAssumption
<1>2. FillPrice(side, price) \in Nat
  <2>1. (IF side = "BUY" THEN Scale + SlipNum ELSE Scale - SlipNum) \in Nat
    BY SingleAssetAssumption
  <2> QED
    BY <1>1, <2>1, ProductNat DEF FillPrice
<1>3. qty * FillPrice(side, price) \in Nat
  BY <1>2, ProductNat
<1>4. Gross(side, qty, price) \in Nat /\ Commission(side, qty, price) \in Nat
  BY <1>1, <1>3, ProductNat DEF Gross, Commission
<1>5. Slippage(qty, price) \in Nat
  <2>1. qty * price \in Nat
    BY <1>1, ProductNat
  <2>2. (qty * price) * SlipNum \in Nat
    BY <1>1, <2>1, ProductNat
  <2> QED
    BY <1>1, <2>2, ProductNat DEF Slippage
<1>6. Commission(side, qty, price) <= Gross(side, qty, price)
  BY <1>1, <1>3, ProductMonotone DEF Gross, Commission
<1> QED
  BY <1>4, <1>5, <1>6

LEMMA MarketValue ==
  ASSUME NEW qty \in Nat, NEW price \in Prices
  PROVE  qty * price * Unit \in Nat
<1>1. qty * price \in Nat
  BY ProductNat, SingleAssetAssumption
<1> QED
  BY <1>1, ProductNat, UnitPositive

LEMMA BuyQuantityNat ==
  ASSUME NEW money \in Nat, NEW price \in Prices
  PROVE  BuyQuantity(money, price) \in Nat
<1>1. 100 * price \in Nat \ {0}
  BY SingleAssetAssumption
<1>2. 100 * price * Unit \in Nat \ {0}
  BY <1>1, UnitPositive, ProductPositive
<1>3. 95 * money \in Nat
  OBVIOUS
<1> QED
  BY <1>2, <1>3, QuotientNat DEF BuyQuantity

(* A fill's gross value is the value at the bar's price plus or minus the  *)
(* slippage recorded for it.                                               *)
LEMMA FillDecomposition ==
  ASSUME NEW qty \in Nat, NEW price \in Prices
  PROVE  /\ Gross("BUY", qty, price) = qty * price * Unit + Slippage(qty, price)
         /\ Gross("SELL", qty, price) = qty * price * Unit - Slippage(qty, price)
<1>1. price \in Int /\ Scale \in Int /\ SlipNum \in Int /\ qty \in Int
  BY SingleAssetAssumption
<1>2. \A q, p, s, t \in Int : /\ q * (p * (s + t)) * s = q * p * (s * s) + q * p * t * s
                             /\ q * (p * (s - t)) * s = q * p * (s * s) - q * p * t * s
  OBVIOUS
<1> QED
  BY <1>1, <1>2 DEF Gross, FillPrice, Slippage, Unit

-----------------------------------------------------------------------------
LEMMA InitIInv == Init => IInv
<1> SUFFICES ASSUME Init PROVE IInv
  OBVIOUS
<1> USE SingleAssetAssumption DEF Init, i
<1>1. Start * Unit \in Nat
  BY UnitPositive, ProductNat
<1>2. TypeOK
  BY <1>1 DEF TypeOK
<1>3. LoopInv /\ PendingInv /\ TradeInv /\ SettledInv
  BY DEF LoopInv, PendingInv, TradeInv, SettledInv
<1>4. AccountInv /\ BasisReconciles /\ CostsExplainCash
  BY <1>1 DEF AccountInv, BasisReconciles, CostsExplainCash
<1> QED
  BY <1>2, <1>3, <1>4 DEF IInv

(* What a bought order does to the account, filled or refused.             *)
LEMMA BuyAccount ==
  ASSUME IInv, NEW order \in Order, order.side = "BUY",
         NEW price \in Prices, NEW at \in {"open", "close"}, Buy(order, price, at)
  PROVE  /\ cash' \in Nat /\ position' \in Nat /\ basis' \in Nat
         /\ realized' \in Int /\ costs' \in Int /\ flows' \in Int
         /\ trade' \in Trade \cup {NoTrade}
         /\ BasisReconciles' /\ CostsExplainCash'
         /\ \/ UNCHANGED account
            \/ trade' = [side |-> "BUY", qty |-> order.qty, market |-> price,
                         decided |-> order.decided, bar |-> i, at |-> at]
<1> DEFINE total == Gross("BUY", order.qty, price) + Commission("BUY", order.qty, price)
<1>1. order.qty \in Nat \ {0} /\ order.decided \in Nat /\ "BUY" \in Side /\ i \in Nat
  BY DEF Order, Side, i, IInv, TypeOK
<1>2. /\ Gross("BUY", order.qty, price) \in Nat
      /\ Commission("BUY", order.qty, price) \in Nat
      /\ Slippage(order.qty, price) \in Nat
      /\ order.qty * price * Unit \in Nat
  BY <1>1, FillAmounts, MarketValue
<1>3. /\ cash \in Nat /\ position \in Nat /\ basis \in Nat
      /\ realized \in Int /\ costs \in Int /\ flows \in Int
      /\ trade \in Trade \cup {NoTrade} /\ Start * Unit \in Nat
  BY UnitPositive, ProductNat, SingleAssetAssumption DEF IInv, TypeOK, AccountInv
<1>4. CASE total > cash
  BY <1>3, <1>4 DEF Buy, account, IInv, BasisReconciles, CostsExplainCash, Unit
<1>5. CASE ~ (total > cash)
  <2>1. /\ cash' = cash - total
        /\ position' = position + order.qty
        /\ basis' = basis + total
        /\ costs' = costs + Commission("BUY", order.qty, price) + Slippage(order.qty, price)
        /\ flows' = flows - order.qty * price * Unit
        /\ trade' = [side |-> "BUY", qty |-> order.qty, market |-> price,
                     decided |-> order.decided, bar |-> i, at |-> at]
        /\ realized' = realized
    BY <1>5 DEF Buy
  <2>2. trade' \in Trade
    BY <1>1, <2>1 DEF Trade, Side
  <2>3. total = order.qty * price * Unit
                + Commission("BUY", order.qty, price) + Slippage(order.qty, price)
    <3>1. Gross("BUY", order.qty, price) = order.qty * price * Unit + Slippage(order.qty, price)
      BY <1>1, FillDecomposition
    <3> HIDE DEF total
    <3>2. total = Gross("BUY", order.qty, price) + Commission("BUY", order.qty, price)
      BY DEF total
    <3> QED
      BY <1>2, <3>1, <3>2
  <2>4. BasisReconciles'
    BY <1>1, <1>2, <1>3, <2>1 DEF IInv, BasisReconciles, Unit
  <2>5. CostsExplainCash'
    BY <1>2, <1>3, <2>1, <2>3 DEF IInv, CostsExplainCash, Unit
  <2> QED
    BY <1>1, <1>2, <1>3, <1>5, <2>1, <2>2, <2>4, <2>5
<1> QED
  BY <1>4, <1>5

(* What selling the whole position does to the account: the basis sold is  *)
(* the basis held, so nothing of it is left behind.                        *)
LEMMA SellAccount ==
  ASSUME IInv, NEW order \in Order, order.qty = position,
         NEW price \in Prices, NEW at \in {"open", "close"}, Sell(order, price, at)
  PROVE  /\ cash' \in Nat /\ position' = 0 /\ basis' = 0
         /\ realized' \in Int /\ costs' \in Int /\ flows' \in Int
         /\ trade' \in Trade
         /\ BasisReconciles' /\ CostsExplainCash'
         /\ trade' = [side |-> "SELL", qty |-> order.qty, market |-> price,
                      decided |-> order.decided, bar |-> i, at |-> at]
<1>1. order.qty \in Nat \ {0} /\ order.decided \in Nat /\ "SELL" \in Side /\ i \in Nat
  BY DEF Order, Side, i, IInv, TypeOK
<1>2. /\ Gross("SELL", order.qty, price) \in Nat
      /\ Commission("SELL", order.qty, price) \in Nat
      /\ Slippage(order.qty, price) \in Nat
      /\ Commission("SELL", order.qty, price) <= Gross("SELL", order.qty, price)
      /\ order.qty * price * Unit \in Nat
  BY <1>1, FillAmounts, MarketValue
<1>3. /\ cash \in Nat /\ position \in Nat \ {0} /\ basis \in Nat
      /\ realized \in Int /\ costs \in Int /\ flows \in Int
      /\ Start * Unit \in Nat
  BY <1>1, UnitPositive, ProductNat, SingleAssetAssumption DEF IInv, TypeOK, AccountInv
<1>4. (basis * order.qty) \div position = basis
  BY <1>3, ExactQuotient
<1>5. /\ cash' = cash + (Gross("SELL", order.qty, price) - Commission("SELL", order.qty, price))
      /\ position' = position - order.qty
      /\ basis' = basis - basis
      /\ realized' = realized + (Gross("SELL", order.qty, price)
                                 - Commission("SELL", order.qty, price)) - basis
      /\ costs' = costs + Commission("SELL", order.qty, price) + Slippage(order.qty, price)
      /\ flows' = flows + order.qty * price * Unit
      /\ trade' = [side |-> "SELL", qty |-> order.qty, market |-> price,
                   decided |-> order.decided, bar |-> i, at |-> at]
  BY <1>3, <1>4 DEF Sell
<1>6. trade' \in Trade
  BY <1>1, <1>5 DEF Trade, Side
<1>7. Gross("SELL", order.qty, price) = order.qty * price * Unit - Slippage(order.qty, price)
  BY <1>1, FillDecomposition
<1>8. BasisReconciles'
  BY <1>1, <1>2, <1>3, <1>5 DEF IInv, BasisReconciles, Unit
<1>9. CostsExplainCash'
  BY <1>2, <1>3, <1>5, <1>7 DEF IInv, CostsExplainCash, Unit
<1> QED
  BY <1>1, <1>2, <1>3, <1>5, <1>6, <1>8, <1>9

-----------------------------------------------------------------------------
(* The steps *)

LEMMA NextBarIInv == IInv /\ NextBar => IInv'
<1> SUFFICES ASSUME IInv, NextBar PROVE IInv'
  OBVIOUS
<1> USE DEF i, IInv
<1>1. PICK bar \in Bar : bars' = Append(bars, bar)
  BY DEF NextBar
<1>2. /\ phase = "open" /\ phase' = "fill"
      /\ n' = n /\ liquidate' = liquidate /\ signals' = signals /\ pending' = pending
      /\ equity' = equity /\ cash' = cash /\ position' = position /\ basis' = basis
      /\ realized' = realized /\ costs' = costs /\ flows' = flows /\ trade' = trade
  BY DEF NextBar, window, account
<1>3. /\ bars' \in Seq(Bar) /\ Len(bars') = Len(bars) + 1
      /\ \A k \in 1 .. Len(bars) : bars'[k] = bars[k]
  BY <1>1 DEF TypeOK
<1>4. Len(bars) \in Nat /\ n \in Nat /\ Len(bars) < n
  BY <1>2, SingleAssetAssumption DEF TypeOK, LoopInv
<1>5. TypeOK'
  BY <1>2, <1>3, <1>4 DEF TypeOK
<1>6. LoopInv'
  BY <1>2, <1>3, <1>4 DEF LoopInv
<1>7. PendingInv'
  BY <1>2, <1>3, <1>4 DEF PendingInv
<1>8. TradeInv'
  BY <1>2, <1>3, <1>4 DEF TradeInv
<1> QED
  BY <1>2, <1>5, <1>6, <1>7, <1>8 DEF AccountInv, BasisReconciles, CostsExplainCash, SettledInv

LEMMA FillPendingIInv == IInv /\ FillPending => IInv'
<1> SUFFICES ASSUME IInv, FillPending PROVE IInv'
  OBVIOUS
<1> USE DEF i, IInv
<1>1. /\ phase = "fill" /\ phase' = "signal" /\ pending' = NoOrder
      /\ n' = n /\ liquidate' = liquidate /\ signals' = signals
      /\ bars' = bars /\ equity' = equity
  BY DEF FillPending, window
<1>2. i \in 1 .. n /\ Len(signals) = i - 1 /\ bars[i] \in Bar /\ n \in Nat
  BY <1>1, SingleAssetAssumption DEF TypeOK, LoopInv
<1>3. LoopInv' /\ PendingInv' /\ SettledInv'
  BY <1>1, <1>2 DEF LoopInv, PendingInv, SettledInv
<1>4. CASE UNCHANGED account
  <2>1. /\ cash' = cash /\ position' = position /\ basis' = basis
        /\ realized' = realized /\ costs' = costs /\ flows' = flows /\ trade' = trade
    BY <1>4 DEF account
  <2>2. TypeOK'
    BY <1>1, <2>1 DEF TypeOK
  <2>3. TradeInv'
    BY <1>1, <2>1 DEF TradeInv
  <2> QED
    BY <1>1, <1>3, <2>1, <2>2, <2>3 DEF AccountInv, BasisReconciles, CostsExplainCash
<1>5. CASE pending # NoOrder /\ ~ UNCHANGED account
  <2>1. /\ pending \in Order /\ bars[i].open \in Prices
        /\ pending.decided = i - 1 /\ pending.decided \in 1 .. n - 1
        /\ signals[pending.decided] # "Hold"
        /\ SideOf(signals[pending.decided]) = pending.side
        /\ pending.side = "SELL" => pending.qty = position
    BY <1>1, <1>2, <1>5 DEF TypeOK, PendingInv, Bar
  <2>2. ProcessFill(pending, bars[i].open, "open")
    BY <1>5 DEF FillPending
  <2>3. /\ cash' \in Nat /\ position' \in Nat /\ basis' \in Nat
        /\ realized' \in Int /\ costs' \in Int /\ flows' \in Int
        /\ trade' \in Trade \cup {NoTrade}
        /\ BasisReconciles' /\ CostsExplainCash'
        /\ trade' = [side |-> pending.side, qty |-> pending.qty, market |-> bars[i].open,
                     decided |-> pending.decided, bar |-> i, at |-> "open"]
    <3>1. CASE pending.side = "BUY"
      <4>1. Buy(pending, bars[i].open, "open")
        BY <2>2, <3>1 DEF ProcessFill
      <4> HIDE DEF i, IInv
      <4> QED
        BY <1>5, <2>1, <3>1, <4>1, BuyAccount
    <3>2. CASE pending.side = "SELL"
      <4>1. Sell(pending, bars[i].open, "open")
        BY <2>2, <3>2 DEF ProcessFill
      <4> HIDE DEF i, IInv
      <4> QED
        BY <2>1, <3>2, <4>1, SellAccount
    <3> QED
      BY <2>1, <3>1, <3>2 DEF Order, Side
  <2>4. TypeOK'
    BY <1>1, <2>3 DEF TypeOK
  <2>5. TradeInv'
    BY <1>1, <1>2, <2>1, <2>3 DEF TradeInv
  <2> QED
    BY <1>3, <2>3, <2>4, <2>5 DEF AccountInv
<1> QED
  BY <1>4, <1>5 DEF FillPending

LEMMA DecideIInv == ASSUME NEW signal \in Signal PROVE IInv /\ Decide(signal) => IInv'
<1> SUFFICES ASSUME IInv, Decide(signal) PROVE IInv'
  OBVIOUS
<1> USE DEF i, IInv
<1> DEFINE qty == OrderQuantity(signal, bars[i].close)
<1>1. /\ phase = "signal" /\ phase' = "close" /\ signals' = Append(signals, signal)
      /\ n' = n /\ liquidate' = liquidate /\ bars' = bars /\ equity' = equity
      /\ cash' = cash /\ position' = position /\ basis' = basis
      /\ realized' = realized /\ costs' = costs /\ flows' = flows /\ trade' = trade
  BY DEF Decide, window, account
<1>2. pending' = IF qty > 0 /\ i < n
                 THEN [side |-> SideOf(signal), qty |-> qty, decided |-> i]
                 ELSE NoOrder
  BY <1>1 DEF Decide, PendingInv
<1>3. /\ i \in 1 .. n /\ Len(signals) = i - 1 /\ n \in Nat
      /\ bars[i].close \in Prices /\ cash \in Nat /\ position \in Nat
  <2>1. i \in 1 .. n /\ Len(signals) = i - 1 /\ n \in Nat /\ bars[i] \in Bar
    BY <1>1, SingleAssetAssumption DEF TypeOK, LoopInv
  <2> QED
    BY <2>1 DEF Bar, TypeOK, AccountInv
<1>4. /\ signals' \in Seq(Signal) /\ Len(signals') = i /\ signals'[i] = signal
      /\ \A k \in 1 .. Len(signals) : signals'[k] = signals[k]
  BY <1>1, <1>3 DEF TypeOK
<1>5. /\ qty \in Nat
      /\ qty > 0 => \/ signal = "Buy" /\ position = 0
                    \/ signal = "Sell" /\ qty = position
  <2>1. BuyQuantity(cash, bars[i].close) \in Nat
    BY <1>3, BuyQuantityNat
  <2> QED
    BY <1>3, <2>1 DEF OrderQuantity
<1> HIDE DEF qty
<1>6. pending' \in Order \cup {NoOrder}
  BY <1>2, <1>3, <1>5 DEF Order, Side, SideOf
<1>7. TypeOK'
  BY <1>1, <1>4, <1>6 DEF TypeOK
<1>8. LoopInv'
  BY <1>1, <1>3, <1>4 DEF LoopInv
<1>9. PendingInv'
  <2>1. CASE qty > 0 /\ i < n
    <3>1. pending'.side = SideOf(signal) /\ pending'.qty = qty /\ pending'.decided = i
      BY <1>2, <2>1
    <3> QED
      BY <1>1, <1>3, <1>4, <1>5, <2>1, <3>1 DEF PendingInv, SideOf, Signal
  <2> QED
    BY <1>2, <2>1 DEF PendingInv
<1>10. TradeInv'
  BY <1>1, <1>3, <1>4 DEF TradeInv
<1> QED
  BY <1>1, <1>7, <1>8, <1>9, <1>10 DEF AccountInv, BasisReconciles, CostsExplainCash, SettledInv

LEMMA LiquidateIInv == IInv /\ Liquidate => IInv'
<1> SUFFICES ASSUME IInv, Liquidate PROVE IInv'
  OBVIOUS
<1> USE DEF i, IInv
<1>1. /\ phase = "close" /\ phase' = phase /\ pending' = pending /\ signals' = signals
      /\ n' = n /\ liquidate' = liquidate /\ bars' = bars /\ equity' = equity
      /\ liquidate /\ i = n /\ position > 0
  BY DEF Liquidate, LiquidatesNow, window
<1>2. /\ i \in 1 .. n /\ Len(signals) = i /\ n \in Nat /\ bars[i].close \in Prices
      /\ position \in Nat \ {0}
  <2>1. i \in 1 .. n /\ Len(signals) = i /\ n \in Nat /\ bars[i] \in Bar
    BY <1>1, SingleAssetAssumption DEF TypeOK, LoopInv
  <2> QED
    BY <1>1, <2>1 DEF Bar, TypeOK
<1>3. pending = NoOrder
  BY <1>1, <1>2 DEF PendingInv, TypeOK
<1>4. Liquidation \in Order /\ Liquidation.qty = position
      /\ Liquidation.side = "SELL" /\ Liquidation.decided = i
  BY <1>2 DEF Liquidation, Order, Side
<1>5. Sell(Liquidation, bars[i].close, "close")
  BY <1>4 DEF Liquidate, ProcessFill
<1>6. /\ cash' \in Nat /\ position' = 0 /\ basis' = 0
      /\ realized' \in Int /\ costs' \in Int /\ flows' \in Int
      /\ trade' \in Trade
      /\ BasisReconciles' /\ CostsExplainCash'
      /\ trade' = [side |-> "SELL", qty |-> Liquidation.qty, market |-> bars[i].close,
                   decided |-> Liquidation.decided, bar |-> i, at |-> "close"]
  <2> HIDE DEF i, IInv
  <2> QED
    BY <1>2, <1>4, <1>5, SellAccount
<1>7. TypeOK'
  BY <1>1, <1>6 DEF TypeOK
<1>8. LoopInv' /\ PendingInv' /\ SettledInv'
  BY <1>1, <1>2, <1>3 DEF LoopInv, PendingInv, SettledInv
<1>9. TradeInv'
  BY <1>1, <1>2, <1>4, <1>6 DEF TradeInv
<1> QED
  BY <1>6, <1>7, <1>8, <1>9 DEF AccountInv

LEMMA MarkToMarketIInv == IInv /\ MarkToMarket => IInv'
<1> SUFFICES ASSUME IInv, MarkToMarket PROVE IInv'
  OBVIOUS
<1> USE DEF i, IInv
<1>1. /\ phase = "close" /\ phase' = IF i = n THEN "done" ELSE "open"
      /\ equity' = cash + position * bars[i].close * Unit
      /\ n' = n /\ liquidate' = liquidate /\ bars' = bars /\ signals' = signals
      /\ pending' = pending /\ cash' = cash /\ position' = position /\ basis' = basis
      /\ realized' = realized /\ costs' = costs /\ flows' = flows /\ trade' = trade
      /\ ~ (liquidate /\ i = n /\ position > 0)
  BY DEF MarkToMarket, LiquidatesNow, window, account
<1>2. /\ i \in 1 .. n /\ Len(signals) = i /\ n \in Nat /\ bars[i].close \in Prices
      /\ cash \in Nat /\ position \in Nat
  <2>1. i \in 1 .. n /\ Len(signals) = i /\ n \in Nat /\ bars[i] \in Bar
    BY <1>1, SingleAssetAssumption DEF TypeOK, LoopInv
  <2> QED
    BY <2>1 DEF Bar, TypeOK, AccountInv
<1>3. position * bars[i].close * Unit \in Nat
  BY <1>2, MarketValue
<1>4. TypeOK'
  BY <1>1, <1>2, <1>3 DEF TypeOK
<1>5. LoopInv'
  BY <1>1, <1>2 DEF LoopInv
<1>6. PendingInv'
  BY <1>1, <1>2 DEF PendingInv
<1>7. TradeInv'
  BY <1>1, <1>2 DEF TradeInv
<1>8. SettledInv'
  <2>1. SUFFICES ASSUME phase' = "done", liquidate' PROVE position' = 0 /\ equity' = cash'
    BY DEF SettledInv
  <2>2. position = 0
    BY <1>1, <1>2, <2>1
  <2>3. 0 * bars[i].close * Unit = 0
    <3>1. bars[i].close \in Int /\ Unit \in Int
      BY <1>2, UnitPositive, PriceInt
    <3>2. 0 * bars[i].close = 0
      BY <3>1
    <3> QED
      BY <3>1, <3>2
  <2> QED
    BY <1>1, <1>2, <2>2, <2>3
<1> QED
  BY <1>1, <1>4, <1>5, <1>6, <1>7, <1>8 DEF AccountInv, BasisReconciles, CostsExplainCash

LEMMA StepIInv == IInv /\ [Next]_vars => IInv'
<1> SUFFICES ASSUME IInv, [Next]_vars PROVE IInv'
  OBVIOUS
<1>1. CASE NextBar
  BY <1>1, NextBarIInv
<1>2. CASE FillPending
  BY <1>2, FillPendingIInv
<1>3. ASSUME NEW signal \in Signal, Decide(signal) PROVE IInv'
  BY <1>3, DecideIInv
<1>4. CASE Liquidate
  BY <1>4, LiquidateIInv
<1>5. CASE MarkToMarket
  BY <1>5, MarkToMarketIInv
<1>6. CASE UNCHANGED vars
  BY <1>6 DEF vars, window, account, i, IInv, TypeOK, LoopInv, PendingInv, TradeInv,
             AccountInv, BasisReconciles, CostsExplainCash, SettledInv
<1> QED
  BY <1>1, <1>2, <1>3, <1>4, <1>5, <1>6 DEF Next

-----------------------------------------------------------------------------
(* Every state of every single-asset run satisfies the inductive invariant *)
(* of the account, the pending order and the last trade.                   *)
THEOREM SingleAssetInvariant == Spec => []IInv
BY InitIInv, StepIInv, PTL DEF Spec

(* The variables of a run keep their types, whatever the strategy signals. *)
THEOREM SingleAssetTypeOK == Spec => []TypeOK
<1>1. IInv => TypeOK
  BY DEF IInv
<1> QED
  BY <1>1, SingleAssetInvariant, PTL

(* The portfolio never borrows and never goes short, and a pending sale is *)
(* always of exactly the position it will find.                            *)
THEOREM SingleAssetLongOnly == Spec => []LongOnly
<1>1. IInv => LongOnly
  BY DEF IInv, AccountInv, PendingInv, LongOnly
<1> QED
  BY <1>1, SingleAssetInvariant, PTL

(* Every order trades at the open of the bar after its decision.           *)
THEOREM SingleAssetNextOpenExecution == Spec => []NextOpenExecution
<1>1. IInv => NextOpenExecution
  BY DEF IInv, TypeOK, TradeInv, NextOpenExecution, Trade
<1> QED
  BY <1>1, SingleAssetInvariant, PTL

(* Cash and cost basis are the capital plus the realized profits.          *)
THEOREM SingleAssetBasisReconciles == Spec => []BasisReconciles
<1>1. IInv => BasisReconciles
  BY DEF IInv
<1> QED
  BY <1>1, SingleAssetInvariant, PTL

(* The recorded costs explain the cash to the last unit.                   *)
THEOREM SingleAssetCostsExplainCash == Spec => []CostsExplainCash
<1>1. IInv => CostsExplainCash
  BY DEF IInv
<1> QED
  BY <1>1, SingleAssetInvariant, PTL

(* A finished run has no order left, and a liquidating one no position.    *)
THEOREM SingleAssetEndsSettled == Spec => []EndsSettled
<1>1. IInv => EndsSettled
  BY SingleAssetAssumption DEF IInv, TypeOK, LoopInv, PendingInv, SettledInv, EndsSettled, i
<1> QED
  BY <1>1, SingleAssetInvariant, PTL

-----------------------------------------------------------------------------
(* The reserve *)

(* The rates the 5% of cash left by generate_order is enough for.          *)
ReserveFits == 95 * ((Scale + SlipNum) * (Scale + CostNum)) <= 100 * Unit

(* A buy that is pending was sized at its close by the cash there still is. *)
SizedInv ==
  pending # NoOrder /\ pending.side = "BUY" =>
    pending.qty = BuyQuantity(cash, bars[pending.decided].close)

LEMMA SizedStep == IInv /\ SizedInv /\ [Next]_vars => SizedInv'
<1> SUFFICES ASSUME IInv, SizedInv, [Next]_vars PROVE SizedInv'
  OBVIOUS
<1>1. bars \in Seq(Bar) /\ Len(bars) \in Nat /\ n \in Nat
  BY SingleAssetAssumption DEF IInv, TypeOK
<1>2. pending # NoOrder => pending.decided \in 1 .. Len(bars)
  BY <1>1 DEF IInv, PendingInv, LoopInv, i
<1>3. CASE NextBar
  <2>1. PICK bar \in Bar : bars' = Append(bars, bar)
    BY <1>3 DEF NextBar
  <2>2. \A k \in 1 .. Len(bars) : bars'[k] = bars[k]
    BY <1>1, <2>1
  <2>3. pending' = pending /\ cash' = cash
    BY <1>3 DEF NextBar, account
  <2> QED
    BY <1>2, <2>2, <2>3 DEF SizedInv
<1>4. CASE FillPending
  BY <1>4 DEF FillPending, SizedInv
<1>5. ASSUME NEW signal \in Signal, Decide(signal) PROVE SizedInv'
  <2> DEFINE qty == OrderQuantity(signal, bars[i].close)
  <2>1. /\ phase = "signal" /\ bars' = bars /\ cash' = cash
        /\ pending' = IF qty > 0 /\ i < n THEN [side |-> SideOf(signal), qty |-> qty, decided |-> i]
                                        ELSE pending
    BY <1>5 DEF Decide, account
  <2>2. pending = NoOrder
    BY <2>1 DEF IInv, PendingInv
  <2>3. SideOf(signal) = "BUY" /\ qty > 0 => qty = BuyQuantity(cash, bars[i].close)
    BY DEF SideOf, OrderQuantity
  <2> HIDE DEF qty
  <2> QED
    BY <2>1, <2>2, <2>3 DEF SizedInv
<1>6. CASE Liquidate
  <2>1. i = n /\ pending' = pending
    BY <1>6 DEF Liquidate, LiquidatesNow
  <2>2. pending = NoOrder
    BY <1>1, <1>6, <2>1 DEF Liquidate, IInv, PendingInv
  <2> QED
    BY <2>1, <2>2 DEF SizedInv
<1>7. CASE MarkToMarket \/ UNCHANGED vars
  <2>1. pending' = pending /\ cash' = cash /\ bars' = bars
    BY <1>7 DEF MarkToMarket, vars, account
  <2> QED
    BY <2>1 DEF SizedInv
<1> QED
  BY <1>3, <1>4, <1>5, <1>6, <1>7 DEF Next

(* The price of a buy, with its costs, is the market's times both rates.   *)
LEMMA TotalLinear ==
  ASSUME NEW qty \in Nat, NEW price \in Nat
  PROVE  Gross("BUY", qty, price) + Commission("BUY", qty, price)
           = (qty * price) * ((Scale + SlipNum) * (Scale + CostNum))
<1>1. Scale \in Int /\ SlipNum \in Int /\ CostNum \in Int /\ qty \in Int /\ price \in Int
  BY SingleAssetAssumption
<1>2. \A q, p, s, t, c \in Int :
        q * (p * (s + t)) * s + q * (p * (s + t)) * c = (q * p) * ((s + t) * (s + c))
  OBVIOUS
<1> QED
  BY <1>1, <1>2 DEF Gross, Commission, FillPrice

(* At an open no higher than the close it was sized at, a buy is paid for. *)
LEMMA ReserveSuffices ==
  ASSUME ReserveFits, NEW money \in Nat, NEW close \in Prices, NEW open \in Prices, open <= close,
         NEW qty \in Nat, qty = BuyQuantity(money, close)
  PROVE  Gross("BUY", qty, open) + Commission("BUY", qty, open) <= money
<1> DEFINE rates == (Scale + SlipNum) * (Scale + CostNum)
<1>1. close \in Nat \ {0} /\ open \in Nat /\ close \in Nat
  BY SingleAssetAssumption
<1>2. rates \in Nat /\ Unit \in Nat /\ 95 * rates <= 100 * Unit
  <2>1. Scale + SlipNum \in Nat /\ Scale + CostNum \in Nat
    BY SingleAssetAssumption
  <2> QED
    BY <2>1, ProductNat, UnitPositive DEF ReserveFits
<1> HIDE DEF rates
<1>3. qty * (100 * close * Unit) <= 95 * money
  <2>1. 100 * close \in Nat \ {0}
    BY <1>1
  <2>2. 100 * close * Unit \in Nat \ {0} /\ 95 * money \in Nat
    BY <2>1, UnitPositive, ProductPositive
  <2>3. \A a \in Nat, b \in Nat \ {0} : (a \div b) * b <= a
    OBVIOUS
  <2> QED
    BY <2>2, <2>3 DEF BuyQuantity
<1>4. qty * open <= qty * close /\ qty * open \in Nat /\ qty * close \in Nat
  BY <1>1, ProductMonotone, ProductNat
<1>5. (qty * open) * rates <= (qty * close) * rates
  <2>1. \A a, b, r \in Nat : a <= b => a * r <= b * r
    OBVIOUS
  <2> QED
    BY <1>2, <1>4, <2>1
<1>6. (qty * close) * (95 * rates) <= (qty * close) * (100 * Unit)
  <2>1. 95 * rates \in Nat /\ 100 * Unit \in Nat
    BY <1>2
  <2> QED
    BY <1>2, <1>4, <2>1, ProductMonotone
<1>7. /\ (qty * close) * (95 * rates) = 95 * ((qty * close) * rates)
      /\ (qty * close) * (100 * Unit) = qty * (100 * close * Unit)
  <2>1. \A q, p, r, u \in Int : /\ (q * p) * (95 * r) = 95 * ((q * p) * r)
                                /\ (q * p) * (100 * u) = q * (100 * p * u)
    OBVIOUS
  <2> QED
    BY <1>1, <1>2, <2>1
<1>8. (qty * open) * rates \in Nat /\ (qty * close) * rates \in Nat
  BY <1>2, <1>4, ProductNat
<1>9. 95 * ((qty * close) * rates) <= 95 * money
  <2>1. qty * (100 * close * Unit) \in Int
    BY <1>1, <1>2
  <2> QED
    BY <1>3, <1>6, <1>7, <1>8, <2>1
<1>10. (qty * open) * rates <= money
  BY <1>5, <1>8, <1>9
<1> QED
  BY <1>1, <1>10, TotalLinear DEF rates

(* With rates the reserve covers, a buy is refused only when the market    *)
(* opens above the close it was sized at, for every bar of every run.      *)
THEOREM SingleAssetReserveCoversCosts ==
  ASSUME ReserveFits
  PROVE  Spec => ReserveCoversCosts
<1>1. IInv /\ SizedInv /\ [Next]_vars =>
        [phase = "fill" /\ pending # NoOrder /\ position' = position
           => bars[i].open > bars[i - 1].close]_vars
  <2> SUFFICES ASSUME IInv, SizedInv, Next, phase = "fill", pending # NoOrder,
                      position' = position
               PROVE  bars[i].open > bars[i - 1].close
    OBVIOUS
  <2>1. /\ pending \in Order /\ i \in Int /\ i \in 1 .. Len(bars) /\ i - 1 \in 1 .. Len(bars)
        /\ bars \in Seq(Bar) /\ pending.decided = i - 1 /\ cash \in Nat /\ position \in Nat
        /\ pending.side = "SELL" => pending.qty = position
    BY SingleAssetAssumption DEF IInv, TypeOK, LoopInv, PendingInv, AccountInv, i
  <2>2. bars[i].open \in Prices /\ bars[i - 1].close \in Prices
    <3>1. bars[i] \in Bar /\ bars[i - 1] \in Bar
      BY <2>1
    <3> QED
      BY <3>1 DEF Bar
  <2>3. FillPending
    BY DEF Next, NextBar, Decide, Liquidate, MarkToMarket
  <2>4. ProcessFill(pending, bars[i].open, "open") /\ pending.qty \in Nat \ {0}
    BY <2>1, <2>3 DEF FillPending, Order
  <2>5. CASE pending.side = "SELL"
    <3>1. Sell(pending, bars[i].open, "open")
      BY <2>4, <2>5 DEF ProcessFill
    <3>2. position' = position - pending.qty
      BY <2>1, <2>5, <3>1 DEF Sell
    <3> QED
      BY <2>1, <2>4, <3>2
  <2>6. CASE pending.side = "BUY"
    <3>1. Buy(pending, bars[i].open, "open")
      BY <2>4, <2>6 DEF ProcessFill
    <3>2. Gross("BUY", pending.qty, bars[i].open) + Commission("BUY", pending.qty, bars[i].open) > cash
      BY <2>1, <2>4, <3>1 DEF Buy
    <3>3. pending.qty = BuyQuantity(cash, bars[i - 1].close)
      BY <2>1, <2>6 DEF SizedInv
    <3>4. bars[i].open \in Int /\ bars[i - 1].close \in Int
      BY <2>2, PriceInt
    <3>5. /\ Gross("BUY", pending.qty, bars[i].open) \in Nat
          /\ Commission("BUY", pending.qty, bars[i].open) \in Nat
      <4>1. "BUY" \in Side /\ pending.qty \in Nat
        BY <2>4 DEF Side
      <4> QED
        BY <2>2, <4>1, FillAmounts
    <3>6. ~ (bars[i].open <= bars[i - 1].close)
      BY <2>1, <2>2, <2>4, <3>2, <3>3, <3>5, ReserveSuffices
    <3> QED
      BY <3>4, <3>6
  <2> QED
    BY <2>1, <2>5, <2>6 DEF Order, Side
<1>2. Init => SizedInv
  BY DEF Init, SizedInv
<1> QED
  BY <1>1, <1>2, SizedStep, SingleAssetInvariant, PTL DEF Spec, ReserveCoversCosts

-----------------------------------------------------------------------------
(* The benchmark *)

(* What the benchmark buys at the second open, what that leaves, and what  *)
(* it is sold for at the last close.                                       *)
FirstQuantity == BuyQuantity(Start * Unit, bars[1].close)
FirstCost     == Gross("BUY", FirstQuantity, bars[2].open)
                   + Commission("BUY", FirstQuantity, bars[2].open)
HeldFrom2     == IF FirstQuantity > 0 /\ FirstCost <= Start * Unit THEN FirstQuantity ELSE 0
LeftFrom2     == IF HeldFrom2 > 0 THEN Start * Unit - FirstCost ELSE Start * Unit
Proceeds      == Gross("SELL", HeldFrom2, bars[i].close) - Commission("SELL", HeldFrom2, bars[i].close)

HeldSoFar == \A k \in 1 .. Len(signals) : signals[k] = IF k = 1 THEN "Buy" ELSE "Hold"

(* A run that buys at the first close and holds is at every bar where the  *)
(* benchmark is.                                                           *)
ParityInv ==
  n >= 2 /\ HeldSoFar =>
    /\ signals = <<>> => cash = Start * Unit /\ position = 0 /\ pending = NoOrder
    /\ Len(signals) = 1 /\ phase # "signal" =>
         /\ cash = Start * Unit /\ position = 0
         /\ pending = IF FirstQuantity > 0
                      THEN [side |-> "BUY", qty |-> FirstQuantity, decided |-> 1] ELSE NoOrder
    /\ Len(signals) >= 2 \/ (Len(signals) = 1 /\ phase = "signal") =>
         /\ pending = NoOrder
         /\ \/ cash = LeftFrom2 /\ position = HeldFrom2
            \/ /\ phase \in {"close", "done"} /\ liquidate /\ i = n
               /\ cash = LeftFrom2 + Proceeds /\ position = 0
    /\ phase = "done" => equity = BenchmarkValue

LEMMA InitParity == Init => ParityInv
BY SingleAssetAssumption DEF Init, ParityInv, HeldSoFar, i

LEMMA LoopFacts ==
  ASSUME IInv
  PROVE  /\ bars \in Seq(Bar) /\ signals \in Seq(Signal) /\ Len(bars) \in Nat /\ n \in Nat
         /\ Len(signals) \in Nat /\ i = Len(bars) /\ i <= n
         /\ Len(signals) = IF phase \in {"fill", "signal"} THEN i - 1 ELSE i
         /\ phase \in {"fill", "signal", "close"} => i >= 1
         /\ cash \in Nat /\ position \in Nat /\ Start * Unit \in Nat
         /\ \A k \in 1 .. Len(bars) : bars[k].open \in Prices /\ bars[k].close \in Prices
<1>1. bars \in Seq(Bar) /\ signals \in Seq(Signal) /\ Len(bars) \in Nat /\ n \in Nat
      /\ Len(bars) <= n
  BY SingleAssetAssumption DEF IInv, TypeOK
<1>2. \A k \in 1 .. Len(bars) : bars[k] \in Bar
  BY <1>1
<1>3. Start * Unit \in Nat
  BY SingleAssetAssumption, UnitPositive, ProductNat
<1> QED
  BY <1>1, <1>2, <1>3 DEF IInv, TypeOK, LoopInv, AccountInv, Bar, i

LEMMA NextBarParity ==
  ASSUME IInv, ParityInv, NextBar
  PROVE  ParityInv'
<1>1. /\ phase = "open" /\ phase' = "fill" /\ UNCHANGED <<n, signals, pending, cash, position>>
      /\ \E bar \in Bar : bars' = Append(bars, bar)
  BY DEF NextBar, window, account
<1>2. /\ Len(signals) = Len(bars) /\ \A k \in 1 .. Len(bars) : bars'[k] = bars[k]
      /\ Len(signals) \in Nat
  BY <1>1, LoopFacts
<1>3. Len(signals) >= 2 => bars'[1] = bars[1] /\ bars'[2] = bars[2]
  BY <1>2
<1>4. Len(signals) = 1 => bars'[1] = bars[1]
  BY <1>2
<1>5. HeldSoFar' = HeldSoFar
  BY <1>1 DEF HeldSoFar
<1>6. Len(signals) >= 2 => HeldFrom2' = HeldFrom2 /\ LeftFrom2' = LeftFrom2
  BY <1>3 DEF HeldFrom2, LeftFrom2, FirstCost, FirstQuantity
<1>7. Len(signals) = 1 => FirstQuantity' = FirstQuantity
  BY <1>4 DEF FirstQuantity
<1> QED
  BY <1>1, <1>5, <1>6, <1>7 DEF ParityInv

(* At the second open the pending buy is filled or refused as the          *)
(* benchmark's is; later there is nothing to fill.                         *)
LEMMA FillPendingParity ==
  ASSUME IInv, ParityInv, FillPending
  PROVE  ParityInv'
<1>1. /\ phase = "fill" /\ phase' = "signal" /\ pending' = NoOrder
      /\ UNCHANGED <<n, signals, bars>> /\ i' = i
  BY DEF FillPending, window, i
<1>2. /\ Len(signals) = i - 1 /\ i >= 1 /\ i \in Nat /\ Len(signals) \in Nat
      /\ signals \in Seq(Signal)
  BY <1>1, LoopFacts
<1>3. /\ HeldSoFar' = HeldSoFar /\ FirstQuantity' = FirstQuantity /\ FirstCost' = FirstCost
      /\ HeldFrom2' = HeldFrom2 /\ LeftFrom2' = LeftFrom2
  BY <1>1 DEF HeldSoFar, HeldFrom2, LeftFrom2, FirstCost, FirstQuantity
<1> SUFFICES ASSUME n >= 2, HeldSoFar PROVE ParityInv'
  BY <1>1, <1>3 DEF ParityInv
<1>4. CASE signals = <<>> \/ Len(signals) >= 2
  <2>1. pending = NoOrder
    BY <1>1, <1>4 DEF ParityInv
  <2>2. UNCHANGED <<cash, position>>
    BY <2>1 DEF FillPending, account
  <2>3. Len(signals) # 1
    BY <1>4
  <2> QED
    BY <1>1, <1>3, <1>4, <2>2, <2>3 DEF ParityInv
<1>5. CASE Len(signals) = 1
  <2>1. /\ i = 2 /\ cash = Start * Unit /\ position = 0
        /\ pending = IF FirstQuantity > 0
                     THEN [side |-> "BUY", qty |-> FirstQuantity, decided |-> 1] ELSE NoOrder
        /\ FirstQuantity \in Nat
    <3>1. i = 2
      <4>1. Len(signals) = i - 1 /\ i \in Int
        BY <1>2
      <4>2. i - 1 = 1
        BY <1>5, <4>1, Zenon
      <4> QED
        BY <4>1, <4>2
    <3>2. bars[1].close \in Prices /\ Start * Unit \in Nat
      BY <3>1, LoopFacts
    <3>3. FirstQuantity \in Nat
      BY <3>2, BuyQuantityNat DEF FirstQuantity
    <3> QED
      BY <1>1, <1>5, <3>1, <3>3 DEF ParityInv
  <2>2. cash' = LeftFrom2 /\ position' = HeldFrom2
    <3>1. CASE FirstQuantity > 0
      <4>1. pending # NoOrder /\ pending.side = "BUY" /\ pending.qty = FirstQuantity
        BY <2>1, <3>1 DEF NoOrder
      <4>2. Buy(pending, bars[2].open, "open")
        BY <2>1, <4>1 DEF FillPending, ProcessFill
      <4>3. FirstCost \in Int /\ Start * Unit \in Int
        <5>1. bars[2].open \in Prices /\ "BUY" \in Side /\ Start * Unit \in Int
          BY <2>1, LoopFacts DEF Side, i
        <5>2. /\ Gross("BUY", FirstQuantity, bars[2].open) \in Nat
              /\ Commission("BUY", FirstQuantity, bars[2].open) \in Nat
          BY <2>1, <5>1, FillAmounts
        <5> QED
          BY <5>1, <5>2 DEF FirstCost
      <4>4. IF FirstCost > Start * Unit
            THEN cash' = cash /\ position' = position
            ELSE cash' = cash - FirstCost /\ position' = position + FirstQuantity
        BY <2>1, <4>1, <4>2 DEF Buy, FirstCost, account
      <4> QED
        BY <2>1, <3>1, <4>3, <4>4 DEF LeftFrom2, HeldFrom2
    <3>2. CASE ~ (FirstQuantity > 0)
      <4>1. pending = NoOrder
        BY <2>1, <3>2
      <4>2. UNCHANGED <<cash, position>>
        BY <4>1 DEF FillPending, account
      <4> QED
        BY <2>1, <3>2, <4>2 DEF LeftFrom2, HeldFrom2
    <3> QED
      BY <3>1, <3>2
  <2> QED
    BY <1>1, <1>3, <1>5, <2>2 DEF ParityInv
<1> QED
  <2>1. Len(signals) = 0 => signals = <<>>
    BY <1>2
  <2>2. Len(signals) = 0 \/ Len(signals) = 1 \/ Len(signals) >= 2
    BY <1>2
  <2> QED
    BY <1>4, <1>5, <2>1, <2>2

(* The first signal orders what the benchmark buys, and no later one       *)
(* orders anything.                                                        *)
LEMMA DecideParity ==
  ASSUME IInv, ParityInv, NEW signal \in Signal, Decide(signal)
  PROVE  ParityInv'
<1> DEFINE qty == OrderQuantity(signal, bars[i].close)
<1>1. /\ phase = "signal" /\ phase' = "close" /\ signals' = Append(signals, signal)
      /\ UNCHANGED <<n, bars, cash, position>> /\ i' = i
      /\ pending' = IF qty > 0 /\ i < n THEN [side |-> SideOf(signal), qty |-> qty, decided |-> i]
                                      ELSE pending
  BY DEF Decide, window, account, i
<1>2. /\ Len(signals) = i - 1 /\ i \in Nat /\ i >= 1 /\ i = Len(bars) /\ n \in Nat
      /\ signals \in Seq(Signal) /\ Len(signals) \in Nat
  BY <1>1, LoopFacts
<1>3. /\ Len(signals') = Len(signals) + 1 /\ signals'[Len(signals) + 1] = signal
      /\ \A k \in 1 .. Len(signals) : signals'[k] = signals[k]
      /\ signals' # <<>>
  BY <1>1, <1>2
<1> SUFFICES ASSUME n >= 2, HeldSoFar' PROVE ParityInv'
  BY <1>1 DEF ParityInv
<1>4. HeldSoFar /\ signal = IF Len(signals) + 1 = 1 THEN "Buy" ELSE "Hold"
  <2>1. Len(signals) + 1 \in 1 .. Len(signals')
    BY <1>2, <1>3
  <2>2. signals'[Len(signals) + 1] = IF Len(signals) + 1 = 1 THEN "Buy" ELSE "Hold"
    BY <2>1 DEF HeldSoFar
  <2>3. \A k \in 1 .. Len(signals) : k \in 1 .. Len(signals')
    BY <1>2, <1>3
  <2>4. HeldSoFar
    BY <1>3, <2>3 DEF HeldSoFar
  <2> QED
    BY <1>3, <2>2, <2>4
<1>5. /\ FirstQuantity' = FirstQuantity /\ HeldFrom2' = HeldFrom2 /\ LeftFrom2' = LeftFrom2
  BY <1>1 DEF HeldFrom2, LeftFrom2, FirstCost, FirstQuantity
<1>6. CASE Len(signals) = 0
  <2>1. /\ signal = "Buy" /\ signals = <<>>
        /\ cash = Start * Unit /\ position = 0 /\ pending = NoOrder
    <3>1. signals = <<>> /\ signal = "Buy"
      BY <1>2, <1>4, <1>6
    <3> QED
      BY <1>4, <3>1 DEF ParityInv
  <2>2. i = 1 /\ i < n
    <3>1. i - 1 = 0
      BY <1>2, <1>6, Zenon
    <3>2. i \in Int /\ n \in Int
      BY <1>2
    <3>3. i = 1
      BY <3>1, <3>2
    <3> QED
      BY <3>2, <3>3
  <2>3. qty = FirstQuantity /\ SideOf(signal) = "BUY"
    BY <2>1, <2>2 DEF OrderQuantity, FirstQuantity, SideOf
  <2> HIDE DEF qty
  <2>4. pending' = IF FirstQuantity > 0
                   THEN [side |-> "BUY", qty |-> FirstQuantity, decided |-> 1] ELSE NoOrder
    BY <1>1, <2>1, <2>2, <2>3
  <2>5. Len(signals') = 1
    BY <1>3, <1>6
  <2> QED
    BY <1>1, <1>3, <1>5, <2>1, <2>4, <2>5 DEF ParityInv
<1>7. CASE Len(signals) # 0
  <2>1. signal = "Hold" /\ Len(signals) >= 1
    BY <1>2, <1>4, <1>7
  <2>2. qty = 0
    BY <2>1 DEF OrderQuantity
  <2>3. pending' = pending
    BY <1>1, <2>2
  <2>4. /\ pending = NoOrder
        /\ cash = LeftFrom2 /\ position = HeldFrom2
    <3>1. Len(signals) = 1 \/ Len(signals) >= 2
      BY <1>2, <2>1
    <3>2. phase = "signal" /\ ~ (phase \in {"close", "done"})
      BY <1>1
    <3> QED
      BY <1>4, <3>1, <3>2, Zenon DEF ParityInv
  <2>5. Len(signals') # 1 /\ Len(signals') >= 2
    BY <1>2, <1>3, <2>1
  <2> QED
    BY <1>1, <1>3, <1>5, <2>3, <2>4, <2>5 DEF ParityInv
<1> QED
  BY <1>6, <1>7

LEMMA LiquidateParity ==
  ASSUME IInv, ParityInv, Liquidate
  PROVE  ParityInv'
<1>1. /\ phase = "close" /\ liquidate /\ i = n /\ position > 0
      /\ UNCHANGED <<n, liquidate, phase, bars, signals, pending>> /\ i' = i
  BY DEF Liquidate, LiquidatesNow, window, i
<1>2. /\ HeldSoFar' = HeldSoFar /\ HeldFrom2' = HeldFrom2 /\ LeftFrom2' = LeftFrom2
      /\ Proceeds' = Proceeds
  BY <1>1 DEF HeldSoFar, HeldFrom2, LeftFrom2, FirstCost, FirstQuantity, Proceeds
<1>3. Len(signals) = i /\ n \in Nat /\ position \in Nat
  BY <1>1, LoopFacts
<1> SUFFICES ASSUME n >= 2, HeldSoFar PROVE ParityInv'
  BY <1>1, <1>2 DEF ParityInv
<1>4. Len(signals) >= 2 /\ signals # <<>> /\ Len(signals) # 1
  BY <1>1, <1>3
<1>5. pending = NoOrder /\ cash = LeftFrom2 /\ position = HeldFrom2
  BY <1>1, <1>3, <1>4 DEF ParityInv
<1>6. Sell(Liquidation, bars[i].close, "close") /\ Liquidation.qty = position
  BY DEF Liquidate, ProcessFill, Liquidation
<1>7. /\ position' = position - position
      /\ cash' = cash + (Gross("SELL", position, bars[i].close)
                          - Commission("SELL", position, bars[i].close))
  BY <1>3, <1>6 DEF Sell
<1>8. position' = 0 /\ cash' = LeftFrom2 + Proceeds
  <2>1. position' = 0
    BY <1>3, <1>7
  <2>2. Proceeds = Gross("SELL", position, bars[i].close) - Commission("SELL", position, bars[i].close)
    BY <1>5, Zenon DEF Proceeds
  <2> QED
    BY <1>5, <1>7, <2>1, <2>2
<1> QED
  BY <1>1, <1>2, <1>4, <1>5, <1>8 DEF ParityInv

LEMMA MarkToMarketParity ==
  ASSUME IInv, ParityInv, MarkToMarket
  PROVE  ParityInv'
<1>1. /\ phase = "close" /\ ~ LiquidatesNow /\ phase' = IF i = n THEN "done" ELSE "open"
      /\ equity' = cash + position * bars[i].close * Unit
      /\ UNCHANGED <<n, liquidate, bars, signals, pending, cash, position>> /\ i' = i
  BY DEF MarkToMarket, window, account, i
<1>2. /\ HeldSoFar' = HeldSoFar /\ HeldFrom2' = HeldFrom2 /\ LeftFrom2' = LeftFrom2
      /\ Proceeds' = Proceeds /\ BenchmarkValue' = BenchmarkValue
      /\ FirstQuantity' = FirstQuantity
  BY <1>1 DEF HeldSoFar, HeldFrom2, LeftFrom2, FirstCost, FirstQuantity, Proceeds, BenchmarkValue
<1>3. /\ Len(signals) = i /\ i \in Nat /\ i >= 1 /\ i = Len(bars) /\ n \in Nat
      /\ position \in Nat /\ cash \in Nat /\ bars[i].close \in Prices
  BY <1>1, LoopFacts
<1> SUFFICES ASSUME n >= 2, HeldSoFar PROVE ParityInv'
  BY <1>1, <1>2 DEF ParityInv
<1>4. CASE i # n
  <2>1. phase' = "open"
    BY <1>1, <1>4
  <2>2. Len(signals) >= 2 => cash = LeftFrom2 /\ position = HeldFrom2 /\ pending = NoOrder
    BY <1>1, <1>4 DEF ParityInv
  <2> QED
    BY <1>1, <1>2, <2>1, <2>2 DEF ParityInv
<1>5. CASE i = n
  <2>1. Len(signals) >= 2 /\ Len(signals) # 1 /\ signals # <<>> /\ phase' = "done"
    BY <1>1, <1>3, <1>5
  <2>2. /\ pending = NoOrder
        /\ \/ cash = LeftFrom2 /\ position = HeldFrom2
           \/ liquidate /\ cash = LeftFrom2 + Proceeds /\ position = 0
    BY <1>1, <2>1 DEF ParityInv
  <2>3. BenchmarkValue = LeftFrom2 + IF liquidate THEN Proceeds
                                     ELSE HeldFrom2 * bars[i].close * Unit
    BY <1>3 DEF BenchmarkValue, LeftFrom2, HeldFrom2, FirstCost, FirstQuantity, Proceeds
  <2>4. /\ 0 * bars[i].close * Unit = 0
        /\ Gross("SELL", 0, bars[i].close) - Commission("SELL", 0, bars[i].close) = 0
    <3>1. /\ bars[i].close \in Int /\ Unit \in Int /\ CostNum \in Int /\ Scale \in Int
          /\ FillPrice("SELL", bars[i].close) \in Int
      <4>1. bars[i].close \in Nat /\ Unit \in Int /\ CostNum \in Int /\ Scale \in Int
            /\ Scale - SlipNum \in Nat
        <5>1. bars[i].close \in Nat
          BY <1>3, SingleAssetAssumption
        <5>2. Unit \in Int
          BY UnitPositive
        <5>3. CostNum \in Int /\ Scale \in Int /\ Scale - SlipNum \in Nat
          BY SingleAssetAssumption
        <5> QED
          BY <5>1, <5>2, <5>3
      <4> QED
        BY <4>1, ProductNat DEF FillPrice
    <3>2. \A x, y \in Int : 0 * x * y = 0
      OBVIOUS
    <3> QED
      BY <3>1, <3>2 DEF Gross, Commission
  <2>5. equity' = BenchmarkValue
    <3>1. CASE liquidate
      <4>1. position = 0
        BY <1>1, <1>3, <1>5, <3>1 DEF LiquidatesNow
      <4>2. equity' = cash + 0 * bars[i].close * Unit
        BY <1>1, <4>1
      <4>3. equity' = cash
        BY <1>3, <2>4, <4>2
      <4>4. CASE cash = LeftFrom2 + Proceeds
        BY <2>3, <3>1, <4>3, <4>4
      <4>5. CASE cash = LeftFrom2 /\ position = HeldFrom2
        <5>1. HeldFrom2 = 0
          BY <4>1, <4>5
        <5>2. Proceeds = Gross("SELL", 0, bars[i].close) - Commission("SELL", 0, bars[i].close)
          BY <5>1, Zenon DEF Proceeds
        <5>3. Proceeds = 0
          BY <2>4, <5>2
        <5>4. BenchmarkValue = LeftFrom2 + 0 /\ LeftFrom2 \in Int
          BY <1>3, <2>3, <3>1, <4>5, <5>3
        <5> QED
          BY <4>3, <4>5, <5>4
      <4> QED
        BY <2>2, <4>4, <4>5
    <3>2. CASE ~ liquidate
      BY <1>1, <2>2, <2>3, <3>2
    <3> QED
      BY <3>1, <3>2
  <2>6. i' = n' /\ phase' \in {"close", "done"} /\ liquidate' = liquidate
    BY <1>1, <1>5, <2>1
  <2> QED
    BY <1>1, <1>2, <2>1, <2>2, <2>5, <2>6 DEF ParityInv
<1> QED
  BY <1>4, <1>5

LEMMA StepParity == IInv /\ ParityInv /\ [Next]_vars => ParityInv'
<1> SUFFICES ASSUME IInv, ParityInv, [Next]_vars PROVE ParityInv'
  OBVIOUS
<1>1. CASE UNCHANGED vars
  BY <1>1 DEF vars, window, account, ParityInv, HeldSoFar, HeldFrom2, LeftFrom2, FirstCost,
              FirstQuantity, Proceeds, BenchmarkValue, i
<1> QED
  BY <1>1, NextBarParity, FillPendingParity, DecideParity, LiquidateParity, MarkToMarketParity
     DEF Next

(* A run that buys at the first close and holds is worth at its end what   *)
(* the benchmark reports, for every history of two bars or more and every  *)
(* pair of rates: the two simulations cannot drift apart.                  *)
THEOREM SingleAssetBenchmarkParity == Spec => []BenchmarkParity
<1>1. IInv /\ ParityInv => BenchmarkParity
  <2> SUFFICES ASSUME IInv, ParityInv, phase = "done", n >= 2, BoughtAndHeld
               PROVE  equity = BenchmarkValue
    BY DEF BenchmarkParity
  <2>1. Len(signals) = i /\ i = n /\ n \in Nat
    BY LoopFacts DEF IInv, LoopInv
  <2>2. HeldSoFar
    BY <2>1 DEF BoughtAndHeld, HeldSoFar
  <2> QED
    BY <2>2 DEF ParityInv
<1> QED
  BY <1>1, InitParity, StepParity, SingleAssetInvariant, PTL DEF Spec

-----------------------------------------------------------------------------
(* Strategies *)

StrategyOK == strategy \in Strategies /\ before \in Earlier

-----------------------------------------------------------------------------
(* The signals of every strategy are signals of the external one.          *)
LEMMA SignalsAreSignals ==
  ASSUME StrategyOK
  PROVE  SignalsNow \subseteq Signal
<1>1. strategy.kind \in Kinds
  BY StrategyAssumption DEF StrategyOK
<1>2. CrossingSignal(StateOf(i)) \in Signal
  BY DEF CrossingSignal, Signal
<1>3. RsiSignal(ClosesTo(i)) \in Signal
  BY DEF RsiSignal, Signal
<1>4. BreakoutSignal(ClosesTo(i)) \in Signal
  BY DEF BreakoutSignal, Signal
<1> QED
  BY <1>1, <1>2, <1>3, <1>4 DEF SignalsNow, Kinds, Crosses, Signal

LEMMA StrategyStep ==
  ASSUME StrategyOK, [StrategyNext]_<<vars, driven>>
  PROVE  StrategyOK' /\ [Next]_vars
<1>1. CASE OnMarketEvent
  BY <1>1, SignalsAreSignals DEF OnMarketEvent, StrategyOK, Next
<1>2. CASE (NextBar \/ FillPending \/ Liquidate \/ MarkToMarket) /\ UNCHANGED driven
  BY <1>2 DEF driven, StrategyOK, Next
<1>3. CASE UNCHANGED <<vars, driven>>
  BY <1>3 DEF driven, StrategyOK
<1> QED
  BY <1>1, <1>2, <1>3 DEF StrategyNext

(* Every strategy's run is a run of SingleAsset.                           *)
THEOREM StrategyIsSingleAsset == StrategySpec => Spec /\ []StrategyOK
<1>1. StrategyInit => Init /\ StrategyOK
  BY DEF StrategyInit, StrategyOK
<1>2. StrategyOK /\ [StrategyNext]_<<vars, driven>> => StrategyOK' /\ [Next]_vars
  BY StrategyStep
<1> QED
  BY <1>1, <1>2, PTL DEF StrategySpec, Spec

(* Every property of the ledger holds whatever the strategy.               *)
THEOREM StrategyLedger ==
  StrategySpec => [](LongOnly /\ NextOpenExecution /\ BasisReconciles
                     /\ CostsExplainCash /\ EndsSettled)
BY StrategyIsSingleAsset, SingleAssetLongOnly, SingleAssetNextOpenExecution,
   SingleAssetBasisReconciles, SingleAssetCostsExplainCash, SingleAssetEndsSettled, PTL

-----------------------------------------------------------------------------
(* The trend followers.                                                    *)

m == Len(signals)

(* The clone remembers the trend at the last bar it was ready for, and so  *)
(* its signals are the crossings.                                          *)
SignalInv ==
  Crosses =>
    /\ state = IF m >= 1 /\ Ready(m) THEN StateOf(m) ELSE 0
    /\ \A j \in 1 .. m : signals[j] = Crossing(j)

(* A buy decided at a close that was for nothing, or is already refused.   *)
MissedSoFar(j) ==
  \/ BuyQuantity(cash, bars[j].close) = 0
  \/ j < i /\ Missed(j)

(* Why a trend follower is out of an upward trend.                         *)
Excused ==
  \/ \A j \in 1 .. m : Ready(j) => Up(j)
  \/ \E j \in 1 .. m : /\ signals[j] = "Buy" /\ MissedSoFar(j)
                       /\ \A later \in j + 1 .. m : signals[later] = "Hold"

Following == Crosses /\ phase # "done" /\ (phase = "close" => i < n)

HeldInv == position > 0 => m >= 1 /\ Ready(m) /\ (Up(m) \/ pending # NoOrder)
OrderInv ==
  pending # NoOrder =>
    /\ m >= 1 /\ Ready(m)
    /\ pending.side = "SELL" => ~ Up(m)
    /\ pending.side = "BUY"  => Up(m) /\ signals[m] = "Buy"
                                /\ pending.qty = BuyQuantity(cash, bars[m].close)
OutInv == position = 0 /\ pending = NoOrder /\ m >= 1 /\ Ready(m) /\ Up(m) => Excused

TrendInv == Following => HeldInv /\ OrderInv /\ OutInv

SInv == StrategyOK /\ IInv /\ SignalInv /\ TrendInv

LEMMA UpIsBoolean == \A j \in Nat : Up(j) \in BOOLEAN
<1>1. ASSUME NEW s, NEW closes PROVE MacdUp(s, closes) \in BOOLEAN
  BY DEF MacdUp
<1>2. ASSUME NEW s, NEW closes PROVE MovingAveragesUp(s, closes) \in BOOLEAN
  BY DEF MovingAveragesUp
<1> QED
  BY <1>1, <1>2 DEF Up, Upward

LEMMA ReadyStays ==
  ASSUME StrategyOK, NEW j \in Int, NEW k \in Int, j <= k, Ready(j)
  PROVE  Ready(k)
<1>1. NeedsOf(strategy) \in Int /\ Len(before) \in Nat
  BY StrategyAssumption DEF StrategyOK
<1> QED
  BY <1>1 DEF Ready

(* A bar that is added does not change the trend at the bars before it.    *)
LEMMA TrendKept ==
  ASSUME bars \in Seq(Bar), bars' = bars \/ \E bar \in Bar : bars' = Append(bars, bar),
         UNCHANGED <<strategy, before>>, NEW j \in 0 .. Len(bars)
  PROVE  Up(j)' = Up(j) /\ Ready(j)' = Ready(j) /\ StateOf(j)' = StateOf(j)
<1>1. \A b \in 1 .. j : bars'[b] = bars[b]
  OBVIOUS
<1>2. [b \in 1 .. j |-> bars'[b].close] = [b \in 1 .. j |-> bars[b].close]
  BY <1>1
<1>3. ClosesTo(j)' = ClosesTo(j)
  BY <1>2 DEF ClosesTo
<1> QED
  BY <1>3 DEF Up, Ready, StateOf

(* The properties at the bars known stay when nothing about them changes.  *)
LEMMA CrossingKept ==
  ASSUME bars \in Seq(Bar), bars' = bars \/ \E bar \in Bar : bars' = Append(bars, bar),
         UNCHANGED <<strategy, before>>, NEW j \in 1 .. Len(bars)
  PROVE  Crossing(j)' = Crossing(j)
<1>1. Up(j)' = Up(j)
  BY TrendKept
<1>2. j - 1 \in 0 .. Len(bars)
  OBVIOUS
<1>3. Up(j - 1)' = Up(j - 1) /\ Ready(j - 1)' = Ready(j - 1)
  BY <1>2, TrendKept
<1> QED
  BY <1>1, <1>3 DEF Crossing

(* What the steps that keep the signals keep.                              *)
LEMMA KeptSignals ==
  ASSUME SInv, bars' = bars \/ \E bar \in Bar : bars' = Append(bars, bar),
         UNCHANGED driven, UNCHANGED signals
  PROVE  /\ SignalInv'
         /\ Crosses' = Crosses /\ m' = m /\ m \in Nat /\ m <= Len(bars)
         /\ Up(m)' = Up(m) /\ Ready(m)' = Ready(m)
         /\ \A j \in 1 .. m : /\ Up(j)' = Up(j) /\ Ready(j)' = Ready(j)
                              /\ bars'[j] = bars[j]
<1>1. bars \in Seq(Bar) /\ signals \in Seq(Signal) /\ m \in Nat /\ m <= Len(bars)
  BY DEF SInv, IInv, TypeOK, LoopInv, m, i
<1>2. UNCHANGED <<strategy, before>> /\ state' = state
  BY DEF driven
<1>3. Crosses' = Crosses /\ m' = m
  BY <1>2 DEF Crosses, m
<1>4. m \in 0 .. Len(bars)
  BY <1>1
<1>5. Up(m)' = Up(m) /\ Ready(m)' = Ready(m) /\ StateOf(m)' = StateOf(m)
  <2>1. \A k \in 0 .. Len(bars) : Up(k)' = Up(k) /\ Ready(k)' = Ready(k)
    BY <1>1, <1>2, TrendKept
  <2>2. Up(m)' = Up(m) /\ Ready(m)' = Ready(m)
    BY <1>3, <1>4, <2>1 DEF Up, ClosesTo, Ready
  <2> QED
    BY <2>2 DEF StateOf
<1>6. \A j \in 1 .. m : Up(j)' = Up(j) /\ Ready(j)' = Ready(j) /\ Crossing(j)' = Crossing(j)
  BY <1>1, <1>2, TrendKept, CrossingKept
<1>7. \A j \in 1 .. m : bars'[j] = bars[j]
  BY <1>1
<1>8. SignalInv'
  BY <1>2, <1>3, <1>5, <1>6 DEF SInv, SignalInv
<1> QED
  BY <1>1, <1>3, <1>5, <1>6, <1>7, <1>8

(* The steps of the trend invariant *)

LEMMA NextBarTrend ==
  ASSUME SInv, NextBar, UNCHANGED driven
  PROVE  SignalInv' /\ TrendInv'
<1>1. /\ phase = "open" /\ phase' = "fill" /\ signals' = signals /\ pending' = pending
      /\ n' = n /\ cash' = cash /\ position' = position
      /\ \E bar \in Bar : bars' = Append(bars, bar)
  BY DEF NextBar, window, account
<1>2. /\ SignalInv'
      /\ Crosses' = Crosses /\ m' = m /\ m \in Nat /\ m <= Len(bars)
      /\ Up(m)' = Up(m) /\ Ready(m)' = Ready(m)
      /\ \A j \in 1 .. m : /\ Up(j)' = Up(j) /\ Ready(j)' = Ready(j)
                           /\ bars'[j] = bars[j]
  BY <1>1, KeptSignals
<1>3. m = Len(bars) /\ i' = i + 1 /\ i = Len(bars) /\ i \in Nat
  BY <1>1 DEF SInv, IInv, LoopInv, TypeOK, m, i
<1>4. Following' => Following /\ HeldInv /\ OrderInv /\ OutInv
  BY <1>1, <1>2 DEF Following, SInv, TrendInv
<1>5. HeldInv => HeldInv'
  BY <1>1, <1>2 DEF HeldInv
<1>6. OrderInv => OrderInv'
  BY <1>1, <1>2 DEF OrderInv
<1>7. ASSUME Excused PROVE Excused'
  <2>1. CASE \A j \in 1 .. m : Ready(j) => Up(j)
    BY <1>2, <2>1 DEF Excused
  <2>2. ASSUME NEW j \in 1 .. m, signals[j] = "Buy", MissedSoFar(j),
               \A later \in j + 1 .. m : signals[later] = "Hold"
        PROVE  Excused'
    <3>1. CASE BuyQuantity(cash, bars[j].close) = 0
      <4>1. MissedSoFar(j)'
        <5>1. bars'[j] = bars[j] /\ cash' = cash
          BY <1>1, <1>2
        <5> QED
          BY <3>1, <5>1 DEF MissedSoFar
      <4> QED
        BY <1>1, <1>2, <2>2, <4>1 DEF Excused
    <3>2. CASE j < i /\ Missed(j)
      <4>1. j + 1 \in 1 .. m /\ j < i'
        BY <1>2, <1>3, <3>2
      <4>2. Missed(j)'
        BY <1>1, <1>2, <3>2, <4>1 DEF Missed
      <4> QED
        BY <1>1, <1>2, <2>2, <4>1, <4>2 DEF Excused, MissedSoFar
    <3> QED
      BY <2>2, <3>1, <3>2 DEF MissedSoFar
  <2> QED
    BY <1>7, <2>1, <2>2 DEF Excused
<1>8. OutInv => OutInv'
  BY <1>1, <1>2, <1>7 DEF OutInv
<1> QED
  BY <1>2, <1>4, <1>5, <1>6, <1>8 DEF TrendInv

(* Steps after which the bars, cash and signals are what they were.        *)
LEMMA ExcusedKept ==
  ASSUME SInv, UNCHANGED <<strategy, before, bars, signals, cash>>, Excused
  PROVE  Excused'
BY DEF Excused, MissedSoFar, Missed, Up, ClosesTo, Ready, m, i

LEMMA MarkToMarketTrend ==
  ASSUME SInv, MarkToMarket, UNCHANGED driven
  PROVE  SignalInv' /\ TrendInv'
<1>1. /\ phase = "close" /\ phase' = IF i = n THEN "done" ELSE "open"
      /\ UNCHANGED <<n, bars, signals, pending, cash, position, strategy, before>>
      /\ i \in 1 .. n
  BY DEF MarkToMarket, window, account, driven, SInv, IInv, LoopInv
<1>2. /\ SignalInv' /\ Crosses' = Crosses /\ m' = m
      /\ Up(m)' = Up(m) /\ Ready(m)' = Ready(m)
      /\ \A j \in 1 .. m : bars'[j] = bars[j]
  BY <1>1, KeptSignals
<1>3. Following' => Following /\ HeldInv /\ OrderInv /\ OutInv
  <2>1. n \in Nat
    BY SingleAssetAssumption DEF SInv, IInv, TypeOK
  <2>2. Following' => i < n
    BY <1>1, <2>1 DEF Following
  <2> QED
    BY <1>1, <1>2, <2>2 DEF Following, SInv, TrendInv
<1>4. HeldInv => HeldInv'
  BY <1>1, <1>2 DEF HeldInv
<1>5. OrderInv => OrderInv'
  BY <1>1, <1>2 DEF OrderInv
<1>6. OutInv => OutInv'
  BY <1>1, <1>2, ExcusedKept DEF OutInv
<1> QED
  BY <1>2, <1>3, <1>4, <1>5, <1>6 DEF TrendInv

LEMMA LiquidateTrend ==
  ASSUME SInv, Liquidate, UNCHANGED driven
  PROVE  SignalInv' /\ TrendInv'
<1>1. /\ phase = "close" /\ i = n
      /\ UNCHANGED <<n, phase, bars, signals>>
  BY DEF Liquidate, LiquidatesNow, window
<1>2. SignalInv'
  BY <1>1, KeptSignals
<1>3. ~ Following'
  BY <1>1 DEF Following, i, SInv, IInv, TypeOK
<1> QED
  BY <1>2, <1>3 DEF TrendInv

(* A pending purchase is made or becomes a missed one; a pending sale ends *)
(* the position.                                                           *)
LEMMA FillPendingTrend ==
  ASSUME SInv, FillPending, UNCHANGED driven
  PROVE  SignalInv' /\ TrendInv'
<1>1. /\ phase = "fill" /\ phase' = "signal" /\ pending' = NoOrder
      /\ UNCHANGED <<n, bars, signals, strategy, before>>
  BY DEF FillPending, window, driven
<1>2. /\ SignalInv' /\ Crosses' = Crosses /\ m' = m
      /\ Up(m)' = Up(m) /\ Ready(m)' = Ready(m)
      /\ \A j \in 1 .. m : bars'[j] = bars[j]
  BY <1>1, KeptSignals
<1>3. /\ m = i - 1 /\ i \in 1 .. n /\ bars[i] \in Bar /\ bars[i].open \in Prices
      /\ m \in Nat /\ pending \in Order \cup {NoOrder} /\ position \in Nat
      /\ i' = i
  <2>1. /\ bars \in Seq(Bar) /\ position \in Nat /\ pending \in Order \cup {NoOrder}
        /\ n \in Nat /\ Len(bars) <= n
    BY SingleAssetAssumption DEF SInv, IInv, TypeOK, AccountInv
  <2>2. m = i - 1 /\ i \in 1 .. n
    BY <1>1 DEF SInv, IInv, LoopInv, m
  <2>3. bars[i] \in Bar
    BY <2>1, <2>2 DEF i
  <2>4. i' = i
    BY <1>1 DEF i
  <2> QED
    BY <2>1, <2>2, <2>3, <2>4 DEF Bar
<1>4. Following' => Following /\ HeldInv /\ OrderInv /\ OutInv /\ Crosses
  BY <1>1, <1>2 DEF Following, SInv, TrendInv
<1> SUFFICES ASSUME Following', HeldInv, OrderInv, OutInv
             PROVE  HeldInv' /\ OrderInv' /\ OutInv'
  BY <1>2, <1>4 DEF TrendInv
<1>5. OrderInv'
  BY <1>1 DEF OrderInv
<1>6. CASE pending = NoOrder
  <2>1. UNCHANGED account
    BY <1>6 DEF FillPending
  <2>2. cash' = cash /\ position' = position
    BY <2>1 DEF account
  <2> QED
    BY <1>1, <1>2, <1>5, <1>6, <2>2, ExcusedKept DEF HeldInv, OutInv
<1>7. CASE pending # NoOrder /\ pending.side = "BUY"
  <2>1. /\ Buy(pending, bars[i].open, "open") /\ pending.qty \in Nat \ {0}
        /\ m >= 1 /\ Ready(m) /\ Up(m) /\ signals[m] = "Buy" /\ position = 0
        /\ pending.qty = BuyQuantity(cash, bars[m].close)
    BY <1>3, <1>7 DEF FillPending, ProcessFill, OrderInv, SInv, IInv, PendingInv, Order
  <2> DEFINE total == Gross("BUY", pending.qty, bars[i].open)
                        + Commission("BUY", pending.qty, bars[i].open)
  <2>2. CASE total > cash
    <3>1. cash' = cash /\ position' = position
      BY <2>1, <2>2 DEF Buy, account
    <3>2. Missed(m)
      BY <1>3, <2>1, <2>2 DEF Missed
    <3>3. Missed(m)'
      <4>1. bars[m]' = bars[m] /\ bars[m + 1]' = bars[m + 1]
        BY <1>1, <1>2
      <4> QED
        BY <1>1, <1>2, <3>1, <3>2 DEF Missed
    <3>4. Excused'
      BY <1>1, <1>2, <1>3, <2>1, <3>3 DEF Excused, MissedSoFar
    <3> QED
      BY <1>5, <2>1, <3>1, <3>4 DEF HeldInv, OutInv
  <2>3. CASE ~ (total > cash)
    <3>1. position' = position + pending.qty
      BY <2>1, <2>3 DEF Buy
    <3> QED
      BY <1>2, <1>3, <1>5, <2>1, <3>1 DEF HeldInv, OutInv
  <2> QED
    BY <2>2, <2>3
<1>8. CASE pending # NoOrder /\ pending.side = "SELL"
  <2>1. /\ Sell(pending, bars[i].open, "open") /\ pending.qty = position
        /\ m >= 1 /\ Ready(m) /\ ~ Up(m)
    BY <1>3, <1>8 DEF FillPending, ProcessFill, OrderInv, SInv, IInv, PendingInv, Order
  <2>2. position' = 0
    BY <1>3, <2>1 DEF Sell
  <2> QED
    BY <1>2, <1>5, <2>1, <2>2 DEF HeldInv, OutInv
<1> QED
  BY <1>3, <1>6, <1>7, <1>8 DEF Order, Side

(* The bar's signal is the crossing at it, and state follows the trend.    *)
LEMMA DecidesCrossing ==
  ASSUME SInv, OnMarketEvent, Crosses
  PROVE  /\ Decide(Crossing(i))
         /\ state' = IF Ready(i) THEN StateOf(i) ELSE 0
<1>1. PICK signal \in SignalsNow : Decide(signal)
  BY DEF OnMarketEvent
<1>2. /\ phase = "signal" /\ m = i - 1 /\ i \in Nat /\ i >= 1
      /\ state' = IF Ready(i) THEN StateOf(i) ELSE state
      /\ state = IF m >= 1 /\ Ready(m) THEN StateOf(m) ELSE 0
  <2>1. phase = "signal"
    BY <1>1 DEF Decide
  <2>2. m = i - 1 /\ i \in 1 .. n /\ n \in Nat
    BY <2>1, SingleAssetAssumption DEF SInv, IInv, LoopInv, TypeOK, m
  <2> QED
    BY <2>1, <2>2 DEF SInv, SignalInv, OnMarketEvent
<1>3. CASE ~ Ready(i)
  <2>1. signal = "Hold"
    BY <1>1, <1>3 DEF SignalsNow, Crosses
  <2>2. m >= 1 => ~ Ready(i - 1)
    BY <1>2, <1>3, ReadyStays DEF SInv
  <2>3. Crossing(i) = "Hold"
    BY <1>2, <2>2 DEF Crossing
  <2> QED
    BY <1>1, <1>2, <1>3, <2>1, <2>2, <2>3
<1>4. CASE Ready(i)
  <2>1. signal = CrossingSignal(StateOf(i))
    BY <1>1, <1>4 DEF SignalsNow, Crosses
  <2>2. CASE i = 1 \/ ~ Ready(i - 1)
    BY <1>1, <1>2, <1>4, <2>1, <2>2 DEF Crossing, CrossingSignal
  <2>3. CASE i # 1 /\ Ready(i - 1)
    <3>1. state = StateOf(i - 1)
      BY <1>2, <2>3
    <3>2. Up(i) \in BOOLEAN /\ Up(i - 1) \in BOOLEAN
      BY <1>2, <2>3, UpIsBoolean
    <3>3. StateOf(i) = IF Up(i) THEN 1 ELSE 0 - 1
      BY DEF StateOf
    <3>4. state = IF Up(i - 1) THEN 1 ELSE 0 - 1
      BY <3>1 DEF StateOf
    <3>5. signal = IF StateOf(i) = state THEN "Hold"
                   ELSE IF StateOf(i) = 1 THEN "Buy" ELSE "Sell"
      BY <2>1, <3>4 DEF CrossingSignal
    <3>6. Crossing(i) = IF Up(i) = Up(i - 1) THEN "Hold" ELSE IF Up(i) THEN "Buy" ELSE "Sell"
      BY <2>3 DEF Crossing
    <3>7. signal = Crossing(i)
      BY <3>2, <3>3, <3>4, <3>5, <3>6
    <3> QED
      BY <1>1, <1>2, <1>4, <3>7
  <2> QED
    BY <2>2, <2>3
<1> QED
  BY <1>3, <1>4

LEMMA OnMarketEventTrend ==
  ASSUME SInv, OnMarketEvent
  PROVE  SignalInv' /\ TrendInv'
<1>1. Crosses' = Crosses
  BY DEF OnMarketEvent, Crosses
<1> SUFFICES ASSUME Crosses PROVE SignalInv' /\ TrendInv'
  BY <1>1 DEF SignalInv, TrendInv, Following
<1> DEFINE signal == Crossing(i)
           qty    == OrderQuantity(signal, bars[i].close)
<1>2. Decide(signal) /\ state' = IF Ready(i) THEN StateOf(i) ELSE 0
  BY DecidesCrossing
<1>3. signal \in {"Buy", "Sell", "Hold"}
  BY DEF Crossing
<1>4. /\ phase = "signal" /\ phase' = "close" /\ signals' = Append(signals, signal)
      /\ UNCHANGED <<n, bars, cash, position, strategy, before>>
      /\ pending' = IF qty > 0 /\ i < n
                    THEN [side |-> SideOf(signal), qty |-> qty, decided |-> i]
                    ELSE pending
  BY <1>2 DEF Decide, window, account, OnMarketEvent
<1>5. /\ bars \in Seq(Bar) /\ position \in Nat /\ cash \in Nat /\ n \in Nat
      /\ m = i - 1 /\ i \in Nat /\ i >= 1 /\ i <= n /\ i = Len(bars)
      /\ signals \in Seq(Signal) /\ pending = NoOrder
  <2>1. /\ bars \in Seq(Bar) /\ position \in Nat /\ cash \in Nat /\ n \in Nat
        /\ signals \in Seq(Signal)
    BY SingleAssetAssumption DEF SInv, IInv, TypeOK, AccountInv
  <2>2. m = i - 1 /\ i \in 1 .. n
    BY <1>4 DEF SInv, IInv, LoopInv, m
  <2>3. pending = NoOrder
    BY <1>4 DEF SInv, IInv, PendingInv
  <2> QED
    BY <2>1, <2>2, <2>3 DEF i
<1>6. bars[i].close \in Prices
  <2>1. bars[i] \in Bar
    BY <1>5
  <2> QED
    BY <2>1 DEF Bar
<1>7. /\ m' = i /\ i' = i /\ signals'[i] = signal
      /\ \A j \in 1 .. m : signals'[j] = signals[j]
  <2>1. Len(signals') = Len(signals) + 1 /\ signals'[Len(signals) + 1] = signal
        /\ \A j \in 1 .. Len(signals) : signals'[j] = signals[j]
    BY <1>3, <1>4, <1>5 DEF Signal
  <2> QED
    BY <1>4, <1>5, <2>1 DEF m, i
<1>8. \A j \in 1 .. i : /\ Up(j)' = Up(j) /\ Ready(j)' = Ready(j)
                        /\ Crossing(j)' = Crossing(j)
  <2>1. UNCHANGED <<strategy, before>> /\ bars' = bars
    BY <1>4
  <2> QED
    BY <1>5, <2>1 DEF Up, Ready, Crossing, ClosesTo
<1>9. Up(m)' = Up(i) /\ Ready(m)' = Ready(i) /\ StateOf(m)' = StateOf(i)
  <2>1. UNCHANGED <<strategy, before>> /\ bars' = bars /\ m' = i
    BY <1>4, <1>7
  <2>2. Up(m)' = Up(i) /\ Ready(m)' = Ready(i)
    BY <2>1 DEF Up, Ready, ClosesTo
  <2> QED
    BY <2>2 DEF StateOf
<1>10. SignalInv'
  <2>1. \A j \in 1 .. m : signals[j] = Crossing(j)
    BY DEF SInv, SignalInv
  <2>2. state' = IF m' >= 1 /\ Ready(m)' THEN StateOf(m)' ELSE 0
    BY <1>2, <1>5, <1>7, <1>9
  <2>3. \A j \in 1 .. i : signals'[j] = Crossing(j)'
    <3> SUFFICES ASSUME NEW j \in 1 .. i PROVE signals'[j] = Crossing(j)'
      OBVIOUS
    <3>1. j = i \/ j \in 1 .. m
      BY <1>5
    <3> QED
      BY <1>7, <1>8, <2>1, <3>1
  <2> QED
    BY <1>1, <1>7, <2>2, <2>3 DEF SignalInv
<1>11. SUFFICES ASSUME i < n PROVE HeldInv' /\ OrderInv' /\ OutInv'
  <2>1. Following' => i < n
    BY <1>4, <1>5, <1>7 DEF Following
  <2> QED
    BY <1>10, <1>11, <2>1 DEF TrendInv
<1>12. HeldInv /\ OutInv
  BY <1>4 DEF SInv, TrendInv, Following
<1>13. /\ position > 0 => m >= 1 /\ Ready(m) /\ Up(m)
       /\ position = 0 /\ m >= 1 /\ Ready(m) /\ Up(m) => Excused
  BY <1>5, <1>12 DEF HeldInv, OutInv
<1>14. Ready(m) => Ready(i)
  BY <1>5, ReadyStays DEF SInv
<1>15. \A j \in 1 .. m : MissedSoFar(j) => MissedSoFar(j)'
  BY <1>4, <1>7 DEF MissedSoFar, Missed
<1>16. qty \in Nat /\ pending' \in {NoOrder, [side |-> SideOf(signal), qty |-> qty, decided |-> i]}
  <2>1. BuyQuantity(cash, bars[i].close) \in Nat
    BY <1>5, <1>6, BuyQuantityNat
  <2> QED
    BY <1>4, <1>5, <2>1 DEF OrderQuantity
<1> HIDE DEF signal
<1>17. CASE signal = "Hold"
  <2>1. pending' = NoOrder
    BY <1>4, <1>5, <1>17 DEF OrderQuantity
  <2>2. ~ Ready(i - 1) \/ i = 1 \/ Up(i) = Up(i - 1)
    BY <1>17 DEF signal, Crossing
  <2>3. HeldInv'
    BY <1>4, <1>5, <1>7, <1>9, <1>13, <1>14, <2>2 DEF HeldInv
  <2>4. ASSUME position = 0, Ready(i), Up(i) PROVE Excused'
    <3>1. CASE \A j \in 1 .. m : Ready(j) => Up(j)
      <4>1. \A j \in 1 .. i : Ready(j) => Up(j)
        BY <1>5, <2>4, <3>1
      <4> QED
        BY <1>7, <1>8, <4>1 DEF Excused
    <3>2. CASE i = 1 \/ ~ Ready(i - 1)
      <4>1. \A j \in 1 .. m : ~ Ready(j)
        BY <1>5, <3>2, ReadyStays DEF SInv
      <4> QED
        BY <3>1, <4>1
    <3>3. CASE i # 1 /\ Ready(i - 1)
      <4>1. Excused
        <5>1. Up(i) \in BOOLEAN /\ Up(i - 1) \in BOOLEAN
          BY <1>5, <3>3, UpIsBoolean
        <5>2. Up(i - 1)
          BY <2>2, <2>4, <3>3, <5>1, Zenon
        <5>3. Up(m) /\ Ready(m) /\ m >= 1
          BY <1>5, <3>3, <5>2
        <5> QED
          BY <1>13, <2>4, <5>3
      <4>2. ASSUME NEW j \in 1 .. m, signals[j] = "Buy", MissedSoFar(j),
                   \A later \in j + 1 .. m : signals[later] = "Hold"
            PROVE  Excused'
        <5>1. j \in 1 .. m' /\ signals'[j] = "Buy" /\ MissedSoFar(j)'
          BY <1>5, <1>7, <1>15, <4>2
        <5>2. \A later \in j + 1 .. m' : signals'[later] = "Hold"
          <6> SUFFICES ASSUME NEW later \in j + 1 .. i PROVE signals'[later] = "Hold"
            BY <1>7
          <6>1. later = i \/ later \in j + 1 .. m
            BY <1>5
          <6> QED
            BY <1>5, <1>7, <1>17, <4>2, <6>1
        <5> QED
          BY <5>1, <5>2 DEF Excused
      <4> QED
        BY <3>1, <4>1, <4>2 DEF Excused
    <3> QED
      BY <3>2, <3>3
  <2>5. OutInv'
    BY <1>4, <1>9, <2>4 DEF OutInv
  <2> QED
    BY <2>1, <2>3, <2>5 DEF OrderInv
<1>18. CASE signal = "Buy"
  <2>1. i # 1 /\ Ready(i - 1) /\ Up(i) /\ ~ Up(i - 1) /\ Ready(i)
    BY <1>5, <1>14, <1>18 DEF signal, Crossing
  <2>2. position = 0
    BY <1>5, <1>13, <2>1
  <2>3. qty = BuyQuantity(cash, bars[i].close)
    BY <1>18, <2>2 DEF OrderQuantity
  <2>4. BuyQuantity(cash, bars[m].close)' = BuyQuantity(cash, bars[i].close)
    BY <1>4, <1>7
  <2>5. CASE qty > 0
    <3>1. pending' = [side |-> "BUY", qty |-> qty, decided |-> i]
      BY <1>4, <1>11, <1>18, <2>5 DEF SideOf
    <3>2. OrderInv'
      BY <1>5, <1>7, <1>9, <1>18, <2>1, <2>3, <2>4, <3>1 DEF OrderInv
    <3>3. pending' # NoOrder
      BY <3>1 DEF NoOrder
    <3> QED
      BY <1>4, <2>2, <3>2, <3>3 DEF HeldInv, OutInv
  <2>6. CASE qty = 0
    <3>1. pending' = NoOrder
      BY <1>4, <1>5, <2>6
    <3>2. MissedSoFar(i)'
      <4>1. BuyQuantity(cash', bars'[i'].close) = 0
        BY <1>4, <1>7, <2>3, <2>6
      <4> QED
        BY <4>1 DEF MissedSoFar
    <3>3. Excused'
      BY <1>5, <1>7, <1>18, <3>2 DEF Excused
    <3> QED
      BY <1>4, <2>2, <3>1, <3>3 DEF HeldInv, OutInv, OrderInv
  <2> QED
    BY <1>16, <2>5, <2>6
<1>19. CASE signal = "Sell"
  <2>1. Ready(i) /\ ~ Up(i)
    BY <1>5, <1>14, <1>19 DEF signal, Crossing
  <2>2. position > 0 => pending' # NoOrder
    BY <1>4, <1>5, <1>11, <1>19 DEF OrderQuantity, NoOrder
  <2>3. pending' # NoOrder => pending'.side = "SELL"
    BY <1>16, <1>19 DEF SideOf
  <2>4. OrderInv'
    BY <1>5, <1>7, <1>9, <2>1, <2>3 DEF OrderInv
  <2> QED
    BY <1>4, <1>5, <1>7, <1>9, <2>1, <2>2, <2>4 DEF HeldInv, OutInv
<1> QED
  BY <1>3, <1>17, <1>18, <1>19

LEMMA StepTrend == SInv /\ [StrategyNext]_<<vars, driven>> => SInv'
<1> SUFFICES ASSUME SInv, [StrategyNext]_<<vars, driven>> PROVE SInv'
  OBVIOUS
<1>1. StrategyOK' /\ IInv'
  BY StrategyStep, StepIInv DEF SInv
<1>2. SignalInv' /\ TrendInv'
  <2>1. CASE OnMarketEvent
    BY <2>1, OnMarketEventTrend
  <2>2. CASE NextBar /\ UNCHANGED driven
    BY <2>2, NextBarTrend
  <2>3. CASE FillPending /\ UNCHANGED driven
    BY <2>3, FillPendingTrend
  <2>4. CASE Liquidate /\ UNCHANGED driven
    BY <2>4, LiquidateTrend
  <2>5. CASE MarkToMarket /\ UNCHANGED driven
    BY <2>5, MarkToMarketTrend
  <2>6. CASE UNCHANGED <<vars, driven>>
    <3>1. UNCHANGED <<n, phase, bars, signals, pending, cash, position>>
      BY <2>6 DEF vars, window, account
    <3>2. UNCHANGED <<strategy, before, state>>
      BY <2>6 DEF driven
    <3> QED
      BY <3>1, <3>2 DEF SInv, SignalInv, TrendInv, Following, HeldInv, OrderInv, OutInv,
         Excused, MissedSoFar, Missed, Crosses, Crossing, StateOf, Up, Ready, ClosesTo, m, i
  <2> QED
    BY <2>1, <2>2, <2>3, <2>4, <2>5, <2>6 DEF StrategyNext
<1> QED
  BY <1>1, <1>2 DEF SInv

LEMMA InitTrend == StrategyInit => SInv
<1> SUFFICES ASSUME StrategyInit PROVE SInv
  OBVIOUS
<1>1. StrategyOK /\ IInv
  BY InitIInv DEF StrategyInit, StrategyOK
<1>2. m = 0 /\ state = 0 /\ position = 0 /\ pending = NoOrder
  BY DEF StrategyInit, Init, m
<1>3. SignalInv
  BY <1>2 DEF SignalInv
<1>4. TrendInv
  BY <1>2 DEF TrendInv, HeldInv, OrderInv, OutInv
<1> QED
  BY <1>1, <1>3, <1>4 DEF SInv

(* A trend follower signals at the crossings in its window, is never left  *)
(* long against the trend, and stays out of an upward one only if it began *)
(* before the window or its one buy was missed: for every window, all      *)
(* moving averages, and all costs.                                         *)
THEOREM StrategyCrossingsTraded == StrategySpec => []CrossingsTraded
<1>1. SInv => CrossingsTraded
  <2> SUFFICES ASSUME SInv, Crosses, phase = "close", i < n, Ready(i)
               PROVE  CrossingsTraded
    BY DEF CrossingsTraded
  <2>1. m = i /\ i \in Nat /\ i >= 1 /\ position \in Nat /\ pending \in Order \cup {NoOrder}
    <3>1. /\ n \in Nat /\ position \in Nat /\ pending \in Order \cup {NoOrder}
      BY SingleAssetAssumption DEF SInv, IInv, TypeOK, AccountInv
    <3>2. m = i /\ i \in 1 .. n
      BY DEF SInv, IInv, LoopInv, m
    <3> QED
      BY <3>1, <3>2
  <2>2. HeldInv /\ OrderInv /\ OutInv
    BY DEF SInv, TrendInv, Following
  <2>3. \A j \in 1 .. i : signals[j] = Crossing(j)
    BY <2>1 DEF SInv, SignalInv
  <2>4. ASSUME position > 0, ~ Up(i) PROVE pending # NoOrder /\ pending.side = "SELL"
    <3>1. pending # NoOrder
      BY <2>1, <2>2, <2>4 DEF HeldInv
    <3>2. pending.side # "BUY"
      BY <2>1, <2>2, <2>4, <3>1 DEF OrderInv
    <3> QED
      BY <2>1, <3>1, <3>2 DEF Order, Side
  <2>5. ASSUME position = 0, Up(i), pending = NoOrder
        PROVE  \/ \A j \in 1 .. i : Ready(j) => Up(j)
               \/ \E j \in 1 .. i - 1 :
                    /\ signals[j] = "Buy" /\ Missed(j)
                    /\ \A later \in j + 1 .. i : signals[later] = "Hold"
               \/ signals[i] = "Buy" /\ BuyQuantity(cash, bars[i].close) = 0
    <3>1. Excused
      BY <2>1, <2>2, <2>5 DEF OutInv
    <3>2. ASSUME NEW j \in 1 .. m, signals[j] = "Buy", MissedSoFar(j),
                 \A later \in j + 1 .. m : signals[later] = "Hold"
          PROVE  \/ \E k \in 1 .. i - 1 :
                      /\ signals[k] = "Buy" /\ Missed(k)
                      /\ \A later \in k + 1 .. i : signals[later] = "Hold"
                 \/ signals[i] = "Buy" /\ BuyQuantity(cash, bars[i].close) = 0
      <4>1. CASE j = i
        BY <2>1, <3>2, <4>1 DEF MissedSoFar
      <4>2. CASE j # i
        <5>1. j \in 1 .. i - 1
          BY <2>1, <4>2
        <5>2. Missed(j)
          BY <3>2 DEF MissedSoFar, Missed
        <5> QED
          BY <2>1, <3>2, <5>1, <5>2
      <4> QED
        BY <4>1, <4>2
    <3> QED
      BY <2>1, <3>1, <3>2 DEF Excused
  <2> QED
    BY <2>3, <2>4, <2>5 DEF CrossingsTraded
<1> QED
  BY <1>1, InitTrend, StepTrend, PTL DEF StrategySpec
=============================================================================
