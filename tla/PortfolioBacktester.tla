------------------------- MODULE PortfolioBacktester -------------------------
(***************************************************************************)
(* PortfolioBacktester::run under both calendars.  The union calendar's is *)
(* run_union, SharedCash.  The legacy one keeps the dates on which every   *)
(* asset has a bar, applies no corporate action, and never defers; its     *)
(* schedule counts common dates, or months, from the second date on.  It   *)
(* plans all buys of a rebalance, scales them to the cash together and     *)
(* then makes them.  The weights are those AllocationPolicy returns.       *)
(***************************************************************************)
EXTENDS SharedCash, AllocationPolicy

CONSTANTS
  RawWeights, Caps, Budget,  \* bounded inputs for enforce_constraints
  Week                       \* 5 in the code

ASSUME AllocationAssumption ==
  /\ Passes \in Nat /\ Budget \in Nat /\ Caps \subseteq Nat
  /\ \A weights \in RawWeights :
       Len(weights) \in Nat \ {0} /\ weights \in [1 .. Len(weights) -> Nat]
  /\ \A weights \in RawWeights, most \in Caps :
       Total(weights) > 0 => Exact(weights, most, Budget)

VARIABLES
  mode,      \* "union", or the frequency of the legacy schedule
  planned    \* desired_buys, scaled

portfolio == <<vars, mode, planned>>
kept      == <<mode, planned>>
Legacy    == mode # "union"
NoPlan    == [a \in Assets |-> 0]

PortfolioInit ==
  /\ Init
  /\ mode \in {"union", "weekly", "monthly"}
  /\ mode # "union" => ~ raw /\ policy = "defer"    \* which the legacy path ignores
  /\ planned = NoPlan

UnionStep == ~ Legacy /\ Next /\ UNCHANGED kept

-----------------------------------------------------------------------------
(* The legacy path *)

(* rebalance_indices: the second common date, then every Week-th, or the   *)
(* first of each month after it.                                           *)
LegacyDue ==
  IF d = 0 THEN {FALSE}
  ELSE IF d = 1 THEN {TRUE}
  ELSE IF mode = "weekly" THEN {(d - 1) % Week = 0}
  ELSE BOOLEAN

(* common_dates and indices_for_date: every asset has a bar.               *)
LegacySession ==
  /\ phase = "session"
  /\ d < MaxSessions
  /\ bar' \in [Assets -> Bars]
  /\ mark' = [a \in Assets |-> bar'[a].close]
  /\ due' \in LegacyDue
  /\ d' = d + 1
  /\ phase' = "actions" /\ k' = N + 1
  /\ UNCHANGED <<config, shares, cash, plan, value, holdings, equity, ledger, kept>>

LegacyRebalance == (StartDay \/ StartRebalance) /\ UNCHANGED kept
LegacyValue     == (Value \/ StartSells) /\ UNCHANGED kept
LegacySell      == Sell /\ UNCHANGED kept

(* What an asset lacks, with slippage and commission.                      *)
DesiredBuy(a) ==
  LET desired == 0 - Excess(a, bar[a].open)
  IN IF desired <= Minimum THEN 0 ELSE desired \div Required(W, bar[a].open)

RequiredCash[n \in 0 .. N] ==
  IF n = 0 THEN 0 ELSE RequiredCash[n - 1] + Required(DesiredBuy(n), bar[n].open)

PlanBuys ==
  /\ phase = "sell" /\ k = N + 1
  /\ planned' = [a \in Assets |->
       IF RequiredCash[N] > cash THEN (DesiredBuy(a) * cash) \div RequiredCash[N]
                                 ELSE DesiredBuy(a)]
  /\ phase' = "buy" /\ k' = 1
  /\ UNCHANGED <<config, session, shares, cash, plan, value, holdings, equity, ledger, mode>>

LegacyBuy ==
  /\ phase = "buy" /\ k <= N
  /\ LET price == bar[k].open
         qty   == IF Required(planned[k], price) > cash
                  THEN cash \div Required(1, price) ELSE planned[k]
     IN IF qty > 0
        THEN /\ shares' = [shares EXCEPT ![k] = @ + qty * Den]
             /\ cash' = cash - Required(qty, price)
             /\ flows' = flows - Market(qty, price)
             /\ costs' = costs + Commission("BUY", qty, price) + Slippage(qty, price)
        ELSE UNCHANGED <<shares, cash, flows, costs>>
  /\ k' = k + 1
  /\ UNCHANGED <<config, session, phase, plan, value, holdings, equity, income, kept>>

LegacyRecord ==
  /\ FinishBuys \/ RecordRebalance
  /\ planned' = NoPlan
  /\ UNCHANGED mode

LegacyClose == (MarkPosition \/ CloseSession) /\ UNCHANGED kept

LegacyStep ==
  /\ Legacy
  /\ \/ LegacySession \/ LegacyRebalance \/ LegacyValue \/ LegacySell
     \/ PlanBuys \/ LegacyBuy \/ LegacyRecord \/ LegacyClose

PortfolioNext == UnionStep \/ LegacyStep

PortfolioSpec == PortfolioInit /\ [][PortfolioNext]_portfolio

-----------------------------------------------------------------------------
(* Properties *)

(* As many passes as assets, of which each may bring one to its cap.       *)
PassesSuffice == \A weights \in RawWeights : Len(weights) <= Passes

(* What enforce_constraints hands to the rebalance, as tests/test_engine   *)
(* has it for one map of raw weights each: capped, never above the budget, *)
(* and all of the budget unless every asset is at its cap, whatever the    *)
(* raw weights.  Eight passes reach it for eight assets.                   *)
AllocationSound ==
  phase = "session" /\ d = 0 =>
    \A weights \in RawWeights, most \in Caps :
      Total(weights) > 0 => WaterFilled(weights, most, Budget)
=============================================================================
