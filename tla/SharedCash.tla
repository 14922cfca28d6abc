----------------------------- MODULE SharedCash -----------------------------
(***************************************************************************)
(* The shared-cash portfolio of the union calendar,                        *)
(* PortfolioBacktester::run_union: one cash balance and one position per   *)
(* asset, session after session.  A session applies the corporate actions, *)
(* then rebalances or defers if a schedule point is due, then marks every  *)
(* position.  Each loop over the tickers takes one step per ticker.        *)
(*                                                                         *)
(* The sessions are drawn as they are reached: any assets may be closed, a *)
(* closed asset keeps its last close as its mark or has lost it to age or  *)
(* policy, and any session after the first may be a schedule point (see    *)
(* TradingCalendar).  The target weights are any the allocation policy may *)
(* return, drawn when the code asks for them.                              *)
(*                                                                         *)
(* Amounts are exact: shares count in 1/Den, weights in 1/W, and money in  *)
(* 1/(Scale * Scale * Den) of the price unit, in which every product of    *)
(* the code is an integer.  The tolerance 1e-8 of the affordability check  *)
(* absorbs rounding only and is left out.                                  *)
(***************************************************************************)
EXTENDS Integers, Sequences

CONSTANTS
  N,            \* config_.tickers are 1 .. N, in their order
  Start,        \* starting_capital
  Bars,         \* the bars an asset may have: open, close, split, dividend
  Targets,      \* the weight functions the allocation policy may return
  W,            \* weights are in units of 1/W
  MinTrade,     \* min_trade_value
  CostNum, SlipNum, Scale,   \* the rates are CostNum/Scale and SlipNum/Scale
  Den,          \* shares are in units of 1/Den
  MaxSessions   \* bound on the sessions

Assets == 1 .. N

(* A split of <<0, 1>> is none.                                            *)
BarsOK ==
  \A bar \in Bars :
    /\ bar.open \in Nat \ {0} /\ bar.close \in Nat \ {0} /\ bar.dividend \in Nat
    /\ bar.split[1] \in Nat /\ bar.split[2] \in Nat \ {0}

ASSUME SharedCashAssumption ==
  /\ N \in Nat \ {0}
  /\ Start \in Nat \ {0}
  /\ BarsOK
  /\ W \in Nat \ {0}
  /\ Targets \subseteq [Assets -> 0 .. W]
  /\ MinTrade \in Nat
  /\ Scale \in Nat \ {0}
  /\ CostNum \in 0 .. Scale
  /\ SlipNum \in 0 .. Scale
  /\ Den \in Nat \ {0}
  /\ MaxSessions \in Nat

VARIABLES
  raw,       \* adjustment_policy is raw_price
  policy,    \* closed_asset_policy
  d,         \* the sessions reached
  phase,     \* where the session's handling is
  k,         \* the ticker the current loop is at
  bar,       \* the session's bars, Closed for an asset without one
  mark,      \* the session's mark prices, 0 if unavailable
  due,       \* whether the session is a schedule point
  shares,
  cash,
  targets,   \* target_weights
  deferred,  \* deferred_schedule_date, _decision_date and _target_weights
  current,   \* scheduled_date and decision_date of the running rebalance
  value,     \* value_open
  holdings,  \* the sum of the marked positions
  equity,    \* the value of the last equity point
  last,      \* the last record of result.rebalances
  flows,     \* history: sells minus buys at bar prices
  income,    \* history: the dividends credited
  costs      \* total_costs

config   == <<raw, policy>>
session  == <<d, bar, mark, due>>
plan     == <<targets, deferred, current, last>>
ledger   == <<flows, income, costs>>
vars     == <<config, session, phase, k, shares, cash, plan, value, holdings, equity, ledger>>

Unit       == Scale * Scale
Closed     == [open |-> 0]
NoDeferral == [scheduled |-> 0]
NoRecord   == [executed |-> 0]
Open(a)    == bar[a] # Closed
AllOpen    == \A a \in Assets : Open(a)

Deferral == [scheduled : Nat \ {0}, decision : Nat \ {0}, targets : Targets]

TypeOK ==
  /\ raw \in BOOLEAN
  /\ policy \in {"defer", "skip_asset", "partial_rebalance"}
  /\ d \in 0 .. MaxSessions
  /\ phase \in {"session", "actions", "decide", "value", "sell", "buy", "finish",
                "mark", "error"}
  /\ k \in 1 .. N + 1
  /\ bar \in [Assets -> Bars \cup {Closed}]
  /\ mark \in [Assets -> Nat]
  /\ due \in BOOLEAN
  /\ shares \in [Assets -> Int]
  /\ cash \in Int
  /\ targets \in [Assets -> 0 .. W]
  /\ deferred \in Deferral \cup {NoDeferral}
  /\ current \in [scheduled : Nat, decision : Nat]
  /\ value \in Int /\ holdings \in Int /\ equity \in Int
  /\ last \in [scheduled : Nat, decision : Nat \ {0}, executed : Nat \ {0}] \cup {NoRecord}
  /\ flows \in Int /\ income \in Int /\ costs \in Int

Init ==
  /\ raw \in BOOLEAN
  /\ policy \in {"defer", "skip_asset", "partial_rebalance"}
  /\ d = 0
  /\ phase = "session"
  /\ k = 1
  /\ bar = [a \in Assets |-> Closed]
  /\ mark = [a \in Assets |-> 0]
  /\ due = FALSE
  /\ shares = [a \in Assets |-> 0]
  /\ cash = Start * Unit * Den
  /\ targets = [a \in Assets |-> 0]
  /\ deferred = NoDeferral
  /\ current = [scheduled |-> 0, decision |-> 0]
  /\ value = 0
  /\ holdings = 0
  /\ equity = 0
  /\ last = NoRecord
  /\ flows = 0
  /\ income = 0
  /\ costs = 0

-----------------------------------------------------------------------------
(* ExecutionHandler::execute_order, for qty whole shares                   *)

FillPrice(side, price) ==
  price * (IF side = "BUY" THEN Scale + SlipNum ELSE Scale - SlipNum)
Gross(side, qty, price)      == qty * FillPrice(side, price) * Scale * Den
Commission(side, qty, price) == qty * FillPrice(side, price) * CostNum * Den
(* Mutant of Slippage: charged on the slipped price.                       *)
SlippageOnFillPrice(qty, price) == qty * FillPrice("BUY", price) * SlipNum * Den
Slippage(qty, price)         == qty * price * SlipNum * Scale * Den
Market(qty, price)           == qty * price * Unit * Den

-----------------------------------------------------------------------------
(* The session *)

(* Mutant of MayBeDue: the first session may be scheduled.                 *)
MayBeDueFromFirst == BOOLEAN

(* The schedules start at the second session.                              *)
MayBeDue == IF d = 0 THEN {FALSE} ELSE BOOLEAN

(* TradingCalendar's next session.  A split is drawn only if the position  *)
(* it leaves is a multiple of 1/Den, a bound of the model.                 *)
NextSession ==
  /\ phase = "session"
  /\ d < MaxSessions
  /\ \E next \in [Assets -> Bars \cup {Closed}] :
       /\ \E a \in Assets : next[a] # Closed
       /\ \A a \in Assets : next[a] # Closed => (shares[a] * next[a].split[1]) % next[a].split[2] = 0
       /\ bar' = next
       /\ \E fresh \in [Assets -> BOOLEAN] :
            mark' = [a \in Assets |-> IF next[a] # Closed THEN next[a].close
                                      ELSE IF fresh[a] THEN mark[a] ELSE 0]
  /\ due' \in MayBeDue
  /\ d' = d + 1
  /\ phase' = "actions"
  /\ k' = 1
  /\ UNCHANGED <<config, shares, cash, plan, value, holdings, equity, ledger>>

(* The ticker's split, then its dividend on the shares after the split;    *)
(* under the adjusted policies both are only recorded.                     *)
CorporateAction ==
  /\ phase = "actions" /\ k <= N
  /\ IF Open(k) /\ raw
     THEN LET ratio == bar[k].split
              held  == IF ratio[1] > 0 THEN (shares[k] * ratio[1]) \div ratio[2] ELSE shares[k]
              paid  == held * bar[k].dividend * Unit
          IN /\ shares' = [shares EXCEPT ![k] = held]
             /\ cash' = cash + paid
             /\ income' = income + paid
     ELSE UNCHANGED <<shares, cash, income>>
  /\ k' = k + 1
  /\ UNCHANGED <<config, session, phase, plan, value, holdings, equity, flows, costs>>

(* Mutant of HasRebalance: a deferred rebalance waits for a schedule point.*)
HasRebalanceIfDue == due
HasRebalance == deferred # NoDeferral \/ due

StartDay ==
  /\ phase = "actions" /\ k = N + 1
  /\ phase' = IF HasRebalance THEN "decide" ELSE "mark"
  /\ k' = 1
  /\ holdings' = 0
  /\ UNCHANGED <<config, session, shares, cash, plan, value, equity, ledger>>

(* The weights decided on: the frozen ones while a rebalance is deferred,  *)
(* else what the policy makes of the bars before this session.             *)
Candidates == IF deferred # NoDeferral THEN {deferred.targets} ELSE Targets

DeferAll == ~ AllOpen /\ policy = "defer"

(* Mutant of Defer: every closed session makes a new decision.             *)
DeferAgain ==
  /\ phase = "decide" /\ DeferAll
  /\ \E w \in Targets :
       deferred' = [scheduled |-> d, decision |-> d - 1, targets |-> w]
  /\ phase' = "mark"
  /\ UNCHANGED <<config, session, k, shares, cash, targets, current, last,
                 value, holdings, equity, ledger>>

Defer ==
  /\ phase = "decide" /\ DeferAll
  /\ \E w \in Candidates :
       deferred' = IF deferred # NoDeferral THEN deferred
                   ELSE [scheduled |-> d, decision |-> d - 1, targets |-> w]
  /\ phase' = "mark"
  /\ UNCHANGED <<config, session, k, shares, cash, targets, current, last,
                 value, holdings, equity, ledger>>

StartRebalance ==
  /\ phase = "decide" /\ ~ DeferAll
  /\ targets' \in Candidates
  /\ current' = IF deferred # NoDeferral
                THEN [scheduled |-> deferred.scheduled, decision |-> deferred.decision]
                ELSE [scheduled |-> d, decision |-> d - 1]
  /\ value' = cash
  /\ phase' = "value"
  /\ UNCHANGED <<config, session, k, shares, cash, deferred, last, holdings, equity, ledger>>

(* Mutant of PriceAt: open assets are valued at the session's close.       *)
MarkPriceAt(a) == mark[a]
PriceAt(a) == IF Open(a) THEN bar[a].open ELSE mark[a]

(* value_open: each position at its open, or at its mark if closed.        *)
Value ==
  /\ phase = "value" /\ k <= N
  /\ IF mark[k] = 0 /\ shares[k] # 0
     THEN phase' = "error" /\ UNCHANGED <<k, value>>
     ELSE /\ value' = value + shares[k] * PriceAt(k) * Unit
          /\ k' = k + 1
          /\ UNCHANGED phase
  /\ UNCHANGED <<config, session, shares, cash, plan, holdings, equity, ledger>>

StartSells ==
  /\ phase = "value" /\ k = N + 1
  /\ phase' = "sell"
  /\ k' = 1
  /\ UNCHANGED <<config, session, shares, cash, plan, value, holdings, equity, ledger>>

(* W times what the position is worth at price above its target.           *)
Excess(a, price) == shares[a] * price * Unit * W - value * targets[a]
Minimum == MinTrade * Unit * Den * W

Lesser(x, y) == IF x < y THEN x ELSE y

(* Mutant of SellQuantity: rounded down once more.                         *)
SellQuantityLess(a, price) ==
  IF Excess(a, price) <= Minimum THEN 0
  ELSE Lesser(shares[a] \div Den, Excess(a, price) \div Market(W, price)) - 1

(* Whole shares down to the target, none for less than the minimum trade.  *)
SellQuantity(a, price) ==
  IF Excess(a, price) <= Minimum THEN 0
  ELSE Lesser(shares[a] \div Den, Excess(a, price) \div Market(W, price))

Sell ==
  /\ phase = "sell" /\ k <= N
  /\ LET price == bar[k].open
         qty   == IF Open(k) THEN SellQuantity(k, price) ELSE 0
     IN IF qty > 0
        THEN /\ shares' = [shares EXCEPT ![k] = @ - qty * Den]
             /\ cash' = cash + Gross("SELL", qty, price) - Commission("SELL", qty, price)
             /\ flows' = flows + Market(qty, price)
             /\ costs' = costs + Commission("SELL", qty, price) + Slippage(qty, price)
        ELSE UNCHANGED <<shares, cash, flows, costs>>
  /\ k' = k + 1
  /\ UNCHANGED <<config, session, phase, plan, value, holdings, equity, income>>

StartBuys ==
  /\ phase = "sell" /\ k = N + 1
  /\ phase' = "buy"
  /\ k' = 1
  /\ UNCHANGED <<config, session, shares, cash, plan, value, holdings, equity, ledger>>

Required(qty, price) == Gross("BUY", qty, price) + Commission("BUY", qty, price)

(* Mutant of BuyQuantity: no second try when the cash does not suffice.    *)
BuyQuantityOnce(a, price) ==
  LET desired == 0 - Excess(a, price)
  IN IF desired <= Minimum THEN 0 ELSE desired \div Required(W, price)

(* Whole shares up to the target with slippage and commission, or as many  *)
(* as the cash buys if that is less.                                       *)
BuyQuantity(a, price) ==
  LET desired == 0 - Excess(a, price)
      qty     == desired \div Required(W, price)
  IN IF desired <= Minimum THEN 0
     ELSE IF Required(qty, price) > cash THEN cash \div Required(1, price) ELSE qty

Buy ==
  /\ phase = "buy" /\ k <= N
  /\ LET price == bar[k].open
         qty   == IF Open(k) THEN BuyQuantity(k, price) ELSE 0
     IN IF qty > 0
        THEN /\ shares' = [shares EXCEPT ![k] = @ + qty * Den]
             /\ cash' = cash - Required(qty, price)
             /\ flows' = flows - Market(qty, price)
             /\ costs' = costs + Commission("BUY", qty, price) + Slippage(qty, price)
        ELSE UNCHANGED <<shares, cash, flows, costs>>
  /\ k' = k + 1
  /\ UNCHANGED <<config, session, phase, plan, value, holdings, equity, income>>

FinishBuys ==
  /\ phase = "buy" /\ k = N + 1
  /\ phase' = "finish"
  /\ UNCHANGED <<config, session, k, shares, cash, plan, value, holdings, equity, ledger>>

(* Mutant of RecordRebalance: the deferral is not cleared.                 *)
RecordRebalanceKeepDeferral ==
  /\ phase = "finish"
  /\ last' = [scheduled |-> current.scheduled, decision |-> current.decision, executed |-> d]
  /\ phase' = "mark"
  /\ k' = 1
  /\ UNCHANGED <<config, session, shares, cash, targets, current, deferred,
                 value, holdings, equity, ledger>>

RecordRebalance ==
  /\ phase = "finish"
  /\ last' = [scheduled |-> current.scheduled, decision |-> current.decision, executed |-> d]
  /\ deferred' = NoDeferral
  /\ phase' = "mark"
  /\ k' = 1
  /\ UNCHANGED <<config, session, shares, cash, targets, current,
                 value, holdings, equity, ledger>>

(* A held asset without a mark ends the run with a SimulationError.        *)
MarkPosition ==
  /\ phase = "mark" /\ k <= N
  /\ IF mark[k] = 0 /\ shares[k] # 0
     THEN phase' = "error" /\ UNCHANGED <<k, holdings>>
     ELSE /\ holdings' = holdings + shares[k] * mark[k] * Unit
          /\ k' = k + 1
          /\ UNCHANGED phase
  /\ UNCHANGED <<config, session, shares, cash, plan, value, equity, ledger>>

CloseSession ==
  /\ phase = "mark" /\ k = N + 1
  /\ equity' = cash + holdings
  /\ phase' = "session"
  /\ UNCHANGED <<config, session, k, shares, cash, plan, value, holdings, ledger>>

Next ==
  \/ NextSession \/ CorporateAction \/ StartDay
  \/ Defer \/ StartRebalance \/ Value
  \/ StartSells \/ Sell \/ StartBuys \/ Buy \/ FinishBuys \/ RecordRebalance
  \/ MarkPosition \/ CloseSession

Spec == Init /\ [][Next]_vars

-----------------------------------------------------------------------------
(* Properties *)

(* No leverage and no short position, whatever the sells of the same       *)
(* rebalance left unsold and however many assets compete for the cash.     *)
NoLeverage == cash >= 0 /\ \A a \in Assets : shares[a] >= 0

(* The cash is the capital plus the fills at bar prices, less their        *)
(* recorded costs and slippage, plus the dividends.                        *)
CashExplained == cash = Start * Unit * Den + flows - costs + income

(* The positions at the prices a rebalance values and trades them at.      *)
Worth[a \in 0 .. N] ==
  IF a = 0 THEN cash ELSE Worth[a - 1] + shares[a] * PriceAt(a) * Unit

(* What value_open and the open prices say the rebalance moved is exactly  *)
(* what the trades at those prices moved: before the first trade the       *)
(* valuation is the worth of the account, and no trade raises it.          *)
RebalanceConserves ==
  /\ phase = "sell" /\ k = 1 => value = Worth[N]
  /\ phase \in {"sell", "buy", "finish"} => value >= Worth[N]

(* After a rebalance no open asset exceeds its target weight by a share's  *)
(* price or more, unless by less than the minimum trade.                   *)
DriftBounded ==
  phase = "finish" =>
    \A a \in Assets :
      Open(a) => \/ Excess(a, bar[a].open) <= Minimum
                 \/ Excess(a, bar[a].open) < Market(W, bar[a].open)

(* docs/MARKET_CALENDAR.md: defer waits until all assets are tradable, and *)
(* no longer; no session with every asset open ends with a rebalance still *)
(* deferred, and the other policies never defer.                           *)
DeferredOnlyWhileClosed ==
  phase = "session" /\ deferred # NoDeferral => policy = "defer" /\ ~ AllOpen

(* A deferred rebalance keeps its targets and its decision until it is     *)
(* executed, and is executed with those.                                   *)
FrozenTargets ==
  [][deferred # NoDeferral /\ deferred' # deferred =>
       /\ last'.executed = d
       /\ last'.scheduled = deferred.scheduled /\ last'.decision = deferred.decision
       /\ targets = deferred.targets]_vars

(* Every rebalance is decided on the session before its schedule point,    *)
(* before it is executed, and no earlier than the rebalance before it was: *)
(* the points passed while one is deferred are absorbed by it.             *)
DecisionsInOrder ==
  [][last' # last =>
       /\ last'.scheduled = last'.decision + 1
       /\ last'.decision < last'.executed
       /\ last'.decision >= last.executed]_vars
=============================================================================
