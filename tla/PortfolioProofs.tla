------------------------- MODULE PortfolioProofs ----------------------------
(***************************************************************************)
(* Proofs about the shared-cash portfolio for any number of assets and     *)
(* sessions, any bars, weights and costs up to 100%: the shared cash is    *)
(* never overdrawn, the ledger explains it, and deferred rebalances keep   *)
(* their decision; first for the union calendar, then for run under either *)
(* calendar.  Then the attribution of what the union calendar records: the *)
(* periods are explained exactly and the drawdown episodes are right.      *)
(* Last, what the passes of AllocationPolicy come to.                      *)
(***************************************************************************)
EXTENDS PortfolioBacktester, PortfolioAttribution, CommonLemmas

Rebalancing == phase \in {"value", "sell", "buy", "finish"}

(* Where the session is, against the count of sessions and the last record. *)
PhaseInv ==
  /\ phase # "session" => d >= 1
  /\ due => d >= 2
  /\ phase = "decide" => HasRebalance
  /\ last.executed <= d
  /\ Rebalancing \/ phase \in {"actions", "decide"} => last.executed < d

(* What is deferred was decided before this session, and after the last    *)
(* rebalance was executed.                                                 *)
DeferralInv ==
  deferred # NoDeferral =>
    /\ policy = "defer"
    /\ deferred.scheduled = deferred.decision + 1
    /\ last.executed <= deferred.decision
    /\ deferred.decision < d
    /\ phase \in {"session", "mark"} => ~ AllOpen

(* The running rebalance is the deferred one, if there is one.             *)
CurrentInv ==
  Rebalancing =>
    /\ ~ DeferAll
    /\ current.scheduled = current.decision + 1
    /\ current.decision >= 1
    /\ last.executed <= current.decision
    /\ current.decision < d
    /\ deferred # NoDeferral =>
         /\ current.scheduled = deferred.scheduled
         /\ current.decision = deferred.decision
         /\ targets = deferred.targets

IInv ==
  /\ TypeOK
  /\ PhaseInv
  /\ DeferralInv
  /\ CurrentInv
  /\ NoLeverage
  /\ CashExplained

-----------------------------------------------------------------------------
(* Amounts *)

LEMMA ProductNat == \A a, b \in Nat : a * b \in Nat
OBVIOUS

LEMMA ProductInt == \A a, b \in Int : a * b \in Int
OBVIOUS

LEMMA ProductMonotone == \A a, b, c \in Nat : b <= c => a * b <= a * c
OBVIOUS

LEMMA ProductPositive == \A a, b \in Nat \ {0} : a * b \in Nat \ {0}
OBVIOUS

LEMMA QuotientNat == \A a \in Nat, b \in Nat \ {0} : a \div b \in Nat
OBVIOUS

LEMMA QuotientInt == \A a \in Int, b \in Nat \ {0} : a \div b \in Int
OBVIOUS

(* What fits a whole number of times fits.                                 *)
LEMMA QuotientFits == \A a \in Nat, b \in Nat \ {0} : (a \div b) * b <= a
OBVIOUS

(* What exceeds an amount is at least the times it fits.                   *)
LEMMA QuotientBelow == \A a, c \in Nat, b \in Nat \ {0} : c * b > a => a \div b <= c
<1> SUFFICES ASSUME NEW a \in Nat, NEW c \in Nat, NEW b \in Nat \ {0}, c * b > a, a \div b > c
             PROVE  FALSE
  BY QuotientNat
<1>1. a \div b \in Nat /\ (a \div b) * b <= a
  BY QuotientNat, QuotientFits
<1>2. c * b <= (a \div b) * b
  BY <1>1
<1> QED
  BY <1>1, <1>2, ProductNat

LEMMA UnitPositive == Unit \in Nat \ {0}
BY ProductPositive, SharedCashAssumption DEF Unit

(* The amounts of a fill of a bar are natural numbers, and a sale never    *)
(* costs more than it yields.                                              *)
LEMMA FillAmounts ==
  ASSUME NEW side \in {"BUY", "SELL"}, NEW qty \in Nat, NEW price \in Nat \ {0}
  PROVE  /\ Gross(side, qty, price) \in Nat
         /\ Commission(side, qty, price) \in Nat
         /\ Slippage(qty, price) \in Nat
         /\ Market(qty, price) \in Nat
         /\ Commission(side, qty, price) <= Gross(side, qty, price)
<1>1. /\ price \in Nat /\ Scale \in Nat /\ CostNum \in Nat /\ SlipNum \in Nat
      /\ Den \in Nat /\ CostNum <= Scale /\ Unit \in Nat
  BY SharedCashAssumption, UnitPositive
<1>2. FillPrice(side, price) \in Nat
  <2>1. (IF side = "BUY" THEN Scale + SlipNum ELSE Scale - SlipNum) \in Nat
    BY SharedCashAssumption
  <2> QED
    BY <1>1, <2>1, ProductNat DEF FillPrice
<1>3. qty * FillPrice(side, price) \in Nat
  BY <1>2, ProductNat
<1>4. /\ qty * FillPrice(side, price) * Scale \in Nat
      /\ qty * FillPrice(side, price) * CostNum \in Nat
  BY <1>1, <1>3, ProductNat
<1>5. Gross(side, qty, price) \in Nat /\ Commission(side, qty, price) \in Nat
  BY <1>1, <1>4, ProductNat DEF Gross, Commission
<1>6. qty * price \in Nat
  BY <1>1, ProductNat
<1>7. Market(qty, price) \in Nat
  <2>1. (qty * price) * Unit \in Nat
    BY <1>1, <1>6, ProductNat
  <2> QED
    BY <1>1, <2>1, ProductNat DEF Market
<1>8. Slippage(qty, price) \in Nat
  <2>1. (qty * price) * SlipNum \in Nat
    BY <1>1, <1>6, ProductNat
  <2>2. ((qty * price) * SlipNum) * Scale \in Nat
    BY <1>1, <2>1, ProductNat
  <2> QED
    BY <1>1, <2>2, ProductNat DEF Slippage
<1>9. Commission(side, qty, price) <= Gross(side, qty, price)
  <2>1. qty * FillPrice(side, price) * CostNum <= qty * FillPrice(side, price) * Scale
    BY <1>1, <1>3, ProductMonotone
  <2>2. \A a, b, c \in Nat : a <= b => a * c <= b * c
    OBVIOUS
  <2> QED
    BY <1>1, <1>4, <2>1, <2>2 DEF Gross, Commission
<1> QED
  BY <1>5, <1>7, <1>8, <1>9

(* A fill's gross value is the value at the bar's price plus or minus the  *)
(* slippage recorded for it.                                               *)
LEMMA FillDecomposition ==
  ASSUME NEW qty \in Nat, NEW price \in Nat \ {0}
  PROVE  /\ Gross("BUY", qty, price) = Market(qty, price) + Slippage(qty, price)
         /\ Gross("SELL", qty, price) = Market(qty, price) - Slippage(qty, price)
<1>1. /\ price \in Int /\ Scale \in Int /\ SlipNum \in Int /\ qty \in Int /\ Den \in Int
  BY SharedCashAssumption
<1>2. \A q, p, s, t, n \in Int :
        /\ q * (p * (s + t)) * s * n = q * p * (s * s) * n + q * p * t * s * n
        /\ q * (p * (s - t)) * s * n = q * p * (s * s) * n - q * p * t * s * n
  OBVIOUS
<1> QED
  BY <1>1, <1>2 DEF Gross, FillPrice, Slippage, Market, Unit

(* The price of one share with its costs is positive, and the price of     *)
(* several is that many times as much.                                     *)
LEMMA RequiredLinear ==
  ASSUME NEW qty \in Nat, NEW price \in Nat \ {0}
  PROVE  /\ Required(1, price) \in Nat \ {0}
         /\ Required(W, price) \in Nat \ {0}
         /\ Required(qty, price) = qty * Required(1, price)
<1>1. FillPrice("BUY", price) \in Nat \ {0}
  <2>1. Scale + SlipNum \in Nat \ {0}
    BY SharedCashAssumption
  <2> QED
    BY <2>1, ProductPositive DEF FillPrice
<1>2. \A a \in Nat \ {0} : Required(a, price) \in Nat \ {0}
  <2> TAKE a \in Nat \ {0}
  <2>1. a * FillPrice("BUY", price) \in Nat \ {0}
    BY <1>1, ProductPositive
  <2>2. a * FillPrice("BUY", price) * Scale \in Nat \ {0}
    BY <2>1, ProductPositive, SharedCashAssumption
  <2>3. Gross("BUY", a, price) \in Nat \ {0}
    BY <2>2, ProductPositive, SharedCashAssumption DEF Gross
  <2>4. "BUY" \in {"BUY", "SELL"} /\ a \in Nat
    OBVIOUS
  <2>5. Commission("BUY", a, price) \in Nat
    BY <2>4, FillAmounts
  <2> QED
    BY <2>3, <2>5 DEF Required
<1>3. Required(qty, price) = qty * Required(1, price)
  <2>1. \A q, f, s, c, n \in Int :
          q * f * s * n + q * f * c * n = q * (1 * f * s * n + 1 * f * c * n)
    OBVIOUS
  <2> QED
    BY <1>1, <2>1, SharedCashAssumption DEF Required, Gross, Commission
<1> QED
  BY <1>2, <1>3, SharedCashAssumption

(* A sale of a bar's open never takes more than the position holds.        *)
LEMMA SellFits ==
  ASSUME TypeOK, NoLeverage, NEW a \in Assets, Open(a), SellQuantity(a, bar[a].open) > 0
  PROVE  /\ SellQuantity(a, bar[a].open) \in Nat
         /\ SellQuantity(a, bar[a].open) * Den <= shares[a]
         /\ bar[a].open \in Nat \ {0}
<1>1. bar[a].open \in Nat \ {0}
  BY SharedCashAssumption DEF TypeOK, Open, BarsOK
<1>2. shares[a] \in Nat /\ Den \in Nat \ {0}
  BY SharedCashAssumption DEF TypeOK, NoLeverage
<1>3. shares[a] \div Den \in Nat /\ (shares[a] \div Den) * Den <= shares[a]
  BY <1>2, QuotientNat, QuotientFits
<1>4. Excess(a, bar[a].open) \in Int
  <2>1. shares[a] * bar[a].open \in Int
    BY <1>1, <1>2, ProductInt
  <2>2. shares[a] * bar[a].open * Unit \in Int
    BY <2>1, UnitPositive, ProductInt
  <2>3. shares[a] * bar[a].open * Unit * W \in Int
    BY <2>2, SharedCashAssumption, ProductInt
  <2>4. value * targets[a] \in Int
    BY ProductInt DEF TypeOK
  <2> QED
    BY <2>3, <2>4 DEF Excess
<1>5. Market(W, bar[a].open) \in Nat \ {0}
  <2>1. W * bar[a].open \in Nat \ {0}
    BY <1>1, SharedCashAssumption, ProductPositive
  <2>2. W * bar[a].open * Unit \in Nat \ {0}
    BY <2>1, UnitPositive, ProductPositive
  <2> QED
    BY <1>2, <2>2, ProductPositive DEF Market
<1> DEFINE fit == Excess(a, bar[a].open) \div Market(W, bar[a].open)
<1>6. fit \in Int
  BY <1>4, <1>5, QuotientInt
<1>7. /\ SellQuantity(a, bar[a].open) \in Nat
      /\ SellQuantity(a, bar[a].open) <= shares[a] \div Den
  <2> HIDE DEF fit
  <2>1. SellQuantity(a, bar[a].open) = Lesser(shares[a] \div Den, fit)
    BY DEF SellQuantity, fit
  <2> QED
    BY <1>3, <1>6, <2>1 DEF Lesser
<1>8. \A x, y, z \in Nat : x <= y => x * z <= y * z
  OBVIOUS
<1>9. SellQuantity(a, bar[a].open) * Den <= (shares[a] \div Den) * Den
  BY <1>2, <1>3, <1>7, <1>8
<1>10. SellQuantity(a, bar[a].open) * Den \in Nat /\ (shares[a] \div Den) * Den \in Nat
  BY <1>2, <1>3, <1>7, ProductNat
<1> QED
  BY <1>1, <1>2, <1>3, <1>7, <1>9, <1>10

(* The quantity of a buy is always affordable, costs included.             *)
LEMMA BuyFits ==
  ASSUME TypeOK, NoLeverage, NEW a \in Assets, Open(a), BuyQuantity(a, bar[a].open) > 0
  PROVE  /\ BuyQuantity(a, bar[a].open) \in Nat
         /\ Required(BuyQuantity(a, bar[a].open), bar[a].open) <= cash
         /\ bar[a].open \in Nat \ {0}
<1>1. bar[a].open \in Nat \ {0}
  BY SharedCashAssumption DEF TypeOK, Open, BarsOK
<1> DEFINE price == bar[a].open
           desired == 0 - Excess(a, price)
           qty == desired \div Required(W, price)
<1>2. cash \in Nat
  BY DEF TypeOK, NoLeverage
<1>3. Required(1, price) \in Nat \ {0} /\ Required(W, price) \in Nat \ {0}
  BY <1>1, RequiredLinear
<1>4. desired \in Int
  <2>1. shares[a] * price \in Int
    BY <1>1, ProductInt DEF TypeOK
  <2>2. shares[a] * price * Unit \in Int
    BY <2>1, UnitPositive, ProductInt
  <2>3. shares[a] * price * Unit * W \in Int
    BY <2>2, SharedCashAssumption, ProductInt
  <2>4. value * targets[a] \in Int
    BY ProductInt DEF TypeOK
  <2> QED
    BY <2>3, <2>4 DEF Excess
<1>5. qty \in Int
  <2> HIDE DEF desired
  <2> QED
    BY <1>3, <1>4, QuotientInt
<1>6. BuyQuantity(a, price) = IF Required(qty, price) > cash
                              THEN cash \div Required(1, price) ELSE qty
  BY DEF BuyQuantity
<1> HIDE DEF price, qty
<1>7. CASE Required(qty, price) > cash
  <2>1. BuyQuantity(a, price) = cash \div Required(1, price)
    BY <1>6, <1>7
  <2>2. BuyQuantity(a, price) \in Nat
    BY <1>2, <1>3, <2>1, QuotientNat
  <2>3. Required(BuyQuantity(a, price), price) = BuyQuantity(a, price) * Required(1, price)
    BY <1>1, <2>2, RequiredLinear DEF price
  <2>4. (cash \div Required(1, price)) * Required(1, price) <= cash
    BY <1>2, <1>3, QuotientFits
  <2> QED
    BY <1>1, <2>1, <2>2, <2>3, <2>4 DEF price
<1>8. CASE ~ (Required(qty, price) > cash)
  <2>1. BuyQuantity(a, price) = qty
    BY <1>6, <1>8
  <2>2. qty \in Nat
    BY <1>5, <2>1 DEF price
  <2>3. Required(qty, price) \in Int
    <3>1. "BUY" \in {"BUY", "SELL"} /\ price \in Nat \ {0}
      BY <1>1 DEF price
    <3> QED
      BY <3>1, <2>2, FillAmounts DEF Required
  <2> QED
    BY <1>1, <1>2, <1>8, <2>1, <2>2, <2>3 DEF price
<1> QED
  BY <1>7, <1>8

-----------------------------------------------------------------------------
LEMMA InitIInv == Init => IInv
<1> SUFFICES ASSUME Init PROVE IInv
  OBVIOUS
<1> USE SharedCashAssumption DEF Init
<1>1. Start * Unit * Den \in Nat
  BY UnitPositive, ProductNat
<1>2. TypeOK
  <2>1. cash \in Int
    BY <1>1
  <2>2. 0 \in 0 .. MaxSessions /\ 1 \in 1 .. N + 1 /\ 0 \in 0 .. W
    OBVIOUS
  <2>3. current \in [scheduled : Nat, decision : Nat]
    OBVIOUS
  <2>4. /\ bar \in [Assets -> Bars \cup {Closed}] /\ mark \in [Assets -> Nat]
        /\ shares \in [Assets -> Int] /\ targets \in [Assets -> 0 .. W]
    BY <2>2
  <2>5. deferred \in Deferral \cup {NoDeferral} /\ due \in BOOLEAN /\ raw \in BOOLEAN
    OBVIOUS
  <2>6. value \in Int /\ holdings \in Int /\ equity \in Int /\ flows \in Int /\ income \in Int /\ costs \in Int
    OBVIOUS
  <2>7. /\ d \in 0 .. MaxSessions /\ k \in 1 .. N + 1
        /\ policy \in {"defer", "skip_asset", "partial_rebalance"} /\ phase = "session" /\ last = NoRecord
    BY <2>2
  <2> HIDE DEF Init
  <2> QED
    BY <2>1, <2>3, <2>4, <2>5, <2>6, <2>7 DEF TypeOK
<1>3. PhaseInv /\ DeferralInv /\ CurrentInv
  BY DEF PhaseInv, DeferralInv, CurrentInv, Rebalancing, NoRecord
<1>4. NoLeverage
  BY <1>1 DEF NoLeverage
<1>5. CashExplained
  BY <1>1 DEF CashExplained
<1> QED
  BY <1>2, <1>3, <1>4, <1>5 DEF IInv

(* Steps that leave the account alone.                                     *)
LEMMA AccountKept ==
  ASSUME IInv, UNCHANGED <<shares, cash, ledger>>
  PROVE  NoLeverage' /\ CashExplained'
BY DEF IInv, NoLeverage, CashExplained, ledger

(* Steps that leave the session, the records and the deferral alone, and   *)
(* move between phases of the rebalance.                                   *)
LEMMA PlanKept ==
  ASSUME IInv, UNCHANGED <<config, session, plan>>,
         Rebalancing, phase' \in {"value", "sell", "buy", "finish", "error"}
  PROVE  PhaseInv' /\ DeferralInv' /\ CurrentInv'
BY DEF IInv, PhaseInv, DeferralInv, CurrentInv, Rebalancing, config, session, plan,
       DeferAll, AllOpen, Open, HasRebalance

LEMMA NextSessionIInv == IInv /\ NextSession => IInv'
<1> SUFFICES ASSUME IInv, NextSession PROVE IInv'
  OBVIOUS
<1> USE DEF NextSession
<1>1. NoLeverage' /\ CashExplained'
  BY AccountKept
<1>2. TypeOK'
  <2>1. bar' \in [Assets -> Bars \cup {Closed}]
    OBVIOUS
  <2>2. mark' \in [Assets -> Nat]
    <3>1. PICK next \in [Assets -> Bars \cup {Closed}], fresh \in [Assets -> BOOLEAN] :
            mark' = [a \in Assets |-> IF next[a] # Closed THEN next[a].close
                                      ELSE IF fresh[a] THEN mark[a] ELSE 0]
      OBVIOUS
    <3>2. \A a \in Assets : next[a] # Closed => next[a].close \in Nat
      BY SharedCashAssumption DEF BarsOK
    <3>3. mark \in [Assets -> Nat]
      BY DEF IInv, TypeOK
    <3> QED
      BY <3>1, <3>2, <3>3
  <2>3. d' \in 0 .. MaxSessions
    BY SharedCashAssumption DEF IInv, TypeOK
  <2>4. due' \in BOOLEAN
    BY DEF MayBeDue
  <2> QED
    BY <2>1, <2>2, <2>3, <2>4, SharedCashAssumption DEF IInv, TypeOK, config, plan, ledger
<1>3. PhaseInv'
  <2>1. d \in Nat /\ d' = d + 1 /\ last' = last /\ phase' = "actions" /\ k' = 1
    BY DEF IInv, TypeOK, plan
  <2>2. last.executed \in Nat /\ last.executed <= d
    BY DEF IInv, TypeOK, PhaseInv, NoRecord
  <2>3. due' => d' >= 2
    <3>1. due' => d # 0
      BY Zenon DEF MayBeDue
    <3> QED
      BY <2>1, <3>1
  <2> QED
    BY <2>1, <2>2, <2>3 DEF PhaseInv, Rebalancing
<1>4. DeferralInv'
  BY DEF IInv, TypeOK, DeferralInv, Deferral, plan, config
<1>5. CurrentInv'
  BY DEF CurrentInv, Rebalancing
<1> QED
  BY <1>1, <1>2, <1>3, <1>4, <1>5 DEF IInv

(* Dividends and splits keep shares and cash at or above zero, and the     *)
(* dividends are income.                                                   *)
LEMMA CorporateActionIInv == IInv /\ CorporateAction => IInv'
<1> SUFFICES ASSUME IInv, CorporateAction PROVE IInv'
  OBVIOUS
<1>1. k \in Assets /\ k + 1 \in 1 .. N + 1 /\ phase = "actions"
  BY SharedCashAssumption DEF CorporateAction, IInv, TypeOK, Assets
<1>2. /\ shares' \in [Assets -> Int] /\ cash' \in Int /\ income' \in Int
      /\ NoLeverage' /\ CashExplained'
  <2>1. CASE Open(k) /\ raw
    <3> DEFINE ratio == bar[k].split
               held == IF ratio[1] > 0 THEN (shares[k] * ratio[1]) \div ratio[2] ELSE shares[k]
               paid == held * bar[k].dividend * Unit
    <3>1. ratio[1] \in Nat /\ ratio[2] \in Nat \ {0} /\ bar[k].dividend \in Nat
      BY <1>1, <2>1, SharedCashAssumption DEF IInv, TypeOK, Open, BarsOK
    <3>2. shares[k] \in Nat /\ cash \in Nat
      BY <1>1 DEF IInv, TypeOK, NoLeverage
    <3>3. held \in Nat
      <4>1. shares[k] * ratio[1] \in Nat
        BY <3>1, <3>2, ProductNat
      <4> QED
        BY <3>1, <3>2, <4>1, QuotientNat
    <3>4. paid \in Nat
      <4> HIDE DEF held
      <4>1. held * bar[k].dividend \in Nat
        BY <3>1, <3>3, ProductNat
      <4> QED
        BY <4>1, UnitPositive, ProductNat
    <3>5. /\ shares' = [shares EXCEPT ![k] = held]
          /\ cash' = cash + paid /\ income' = income + paid
          /\ flows' = flows /\ costs' = costs
      BY <2>1 DEF CorporateAction
    <3> HIDE DEF held, paid
    <3>6. NoLeverage'
      BY <1>1, <3>2, <3>3, <3>4, <3>5 DEF IInv, TypeOK, NoLeverage
    <3>7. CashExplained'
      <4>1. Start * Unit * Den \in Int /\ flows \in Int /\ costs \in Int /\ income \in Int
        BY SharedCashAssumption, UnitPositive, ProductNat DEF IInv, TypeOK
      <4> QED
        BY <3>2, <3>4, <3>5, <4>1 DEF IInv, CashExplained
    <3> QED
      BY <1>1, <3>2, <3>3, <3>4, <3>5, <3>6, <3>7 DEF IInv, TypeOK
  <2>2. CASE ~ (Open(k) /\ raw)
    <3>1. UNCHANGED <<shares, cash, ledger>>
      BY <2>2 DEF CorporateAction, ledger
    <3> QED
      BY <3>1, AccountKept DEF IInv, TypeOK, ledger
  <2> QED
    BY <2>1, <2>2
<1>3. UNCHANGED <<config, session, phase, plan, value, holdings, equity, flows, costs>> /\ k' = k + 1
  BY DEF CorporateAction
<1>4. TypeOK'
  BY <1>1, <1>2, <1>3 DEF IInv, TypeOK, config, session, plan
<1>5. PhaseInv' /\ DeferralInv' /\ CurrentInv'
  BY <1>1, <1>3 DEF IInv, PhaseInv, DeferralInv, CurrentInv, Rebalancing, config, session, plan
<1> QED
  BY <1>2, <1>4, <1>5 DEF IInv

LEMMA StartDayIInv == IInv /\ StartDay => IInv'
<1> SUFFICES ASSUME IInv, StartDay PROVE IInv'
  OBVIOUS
<1> USE DEF StartDay
<1>1. NoLeverage' /\ CashExplained'
  BY AccountKept
<1>2. TypeOK'
  BY SharedCashAssumption DEF IInv, TypeOK, config, session, plan, ledger
<1>3. PhaseInv' /\ CurrentInv'
  BY DEF IInv, PhaseInv, CurrentInv, Rebalancing, HasRebalance, session, plan
<1>4. DeferralInv'
  BY DEF IInv, DeferralInv, HasRebalance, config, session, plan
<1> QED
  BY <1>1, <1>2, <1>3, <1>4 DEF IInv

(* A new deferral was decided on the session before this one.              *)
LEMMA DeferIInv == IInv /\ Defer => IInv'
<1> SUFFICES ASSUME IInv, Defer PROVE IInv'
  OBVIOUS
<1> USE DEF Defer
<1>1. NoLeverage' /\ CashExplained'
  BY AccountKept
<1>2. PICK w \in Candidates :
        deferred' = IF deferred # NoDeferral THEN deferred
                    ELSE [scheduled |-> d, decision |-> d - 1, targets |-> w]
  OBVIOUS
<1>3. d \in Nat /\ (deferred = NoDeferral => d >= 2)
  BY DEF IInv, TypeOK, PhaseInv, HasRebalance
<1>4. deferred' \in Deferral \cup {NoDeferral}
  BY <1>2, <1>3 DEF IInv, TypeOK, Deferral, Candidates
<1>5. TypeOK'
  BY <1>4 DEF IInv, TypeOK, config, session, ledger
<1>6. PhaseInv' /\ CurrentInv'
  BY DEF IInv, PhaseInv, CurrentInv, Rebalancing, session
<1>7. DeferralInv'
  <2>1. last.executed < d /\ last.executed \in Nat /\ policy = "defer" /\ ~ AllOpen
    BY DEF IInv, TypeOK, PhaseInv, DeferAll, NoRecord
  <2>2. CASE deferred # NoDeferral
    BY <1>2, <2>1, <2>2 DEF IInv, DeferralInv, AllOpen, Open, config, session
  <2>3. CASE deferred = NoDeferral
    <3>1. deferred' = [scheduled |-> d, decision |-> d - 1, targets |-> w]
      BY <1>2, <2>3
    <3>2. /\ deferred'.scheduled = deferred'.decision + 1
          /\ last.executed <= deferred'.decision /\ deferred'.decision < d
      BY <1>3, <2>1, <3>1
    <3> QED
      BY <2>1, <3>2 DEF DeferralInv, AllOpen, Open, config, session
  <2> QED
    BY <2>2, <2>3
<1> QED
  BY <1>1, <1>5, <1>6, <1>7 DEF IInv

LEMMA StartRebalanceIInv == IInv /\ StartRebalance => IInv'
<1> SUFFICES ASSUME IInv, StartRebalance PROVE IInv'
  OBVIOUS
<1> USE DEF StartRebalance
<1>1. NoLeverage' /\ CashExplained'
  BY AccountKept
<1>2. /\ d \in Nat /\ (deferred = NoDeferral => d >= 2)
      /\ last.executed < d /\ last.executed \in Nat
  BY DEF IInv, TypeOK, PhaseInv, HasRebalance, NoRecord
<1>3. targets' \in [Assets -> 0 .. W]
  BY SharedCashAssumption DEF IInv, TypeOK, Candidates, Deferral
<1>4. /\ current' \in [scheduled : Nat, decision : Nat]
      /\ current'.scheduled = current'.decision + 1
      /\ current'.decision >= 1
      /\ last.executed <= current'.decision
      /\ current'.decision < d
      /\ deferred # NoDeferral => /\ current'.scheduled = deferred.scheduled
                                  /\ current'.decision = deferred.decision
  <2>1. CASE deferred # NoDeferral
    <3>1. current' = [scheduled |-> deferred.scheduled, decision |-> deferred.decision]
      BY <2>1
    <3>2. deferred.scheduled \in Nat \ {0} /\ deferred.decision \in Nat \ {0}
      BY <2>1 DEF IInv, TypeOK, Deferral
    <3> QED
      BY <2>1, <3>1, <3>2 DEF IInv, DeferralInv
  <2>2. CASE deferred = NoDeferral
    <3>1. current' = [scheduled |-> d, decision |-> d - 1]
      BY <2>2
    <3> QED
      BY <1>2, <2>2, <3>1
  <2> QED
    BY <2>1, <2>2
<1>5. TypeOK'
  BY <1>3, <1>4 DEF IInv, TypeOK, config, session, ledger
<1>6. PhaseInv' /\ DeferralInv'
  BY <1>2 DEF IInv, PhaseInv, DeferralInv, config, session
<1>7. CurrentInv'
  BY <1>4 DEF CurrentInv, DeferAll, AllOpen, Open, Candidates, config, session
<1> QED
  BY <1>1, <1>5, <1>6, <1>7 DEF IInv

LEMMA ValueIInv == IInv /\ Value => IInv'
<1> SUFFICES ASSUME IInv, Value PROVE IInv'
  OBVIOUS
<1>1. NoLeverage' /\ CashExplained'
  BY AccountKept DEF Value
<1>2. phase = "value" /\ k \in Assets /\ k' \in 1 .. N + 1 /\ phase' \in {"value", "error"}
  <2>1. k \in Nat /\ 1 <= k /\ N \in Nat
    BY SharedCashAssumption DEF IInv, TypeOK
  <2> QED
    BY <2>1 DEF Value, Assets
<1>3. value' \in Int
  <2>1. PriceAt(k) \in Int
    <3>1. Open(k) => bar[k].open \in Nat
      BY <1>2, SharedCashAssumption DEF IInv, TypeOK, Open, BarsOK
    <3> QED
      BY <1>2, <3>1 DEF IInv, TypeOK, PriceAt
  <2>2. shares[k] * PriceAt(k) \in Int
    BY <1>2, <2>1, ProductInt DEF IInv, TypeOK
  <2>3. shares[k] * PriceAt(k) * Unit \in Int
    BY <2>2, UnitPositive, ProductInt
  <2> QED
    BY <2>3 DEF Value, IInv, TypeOK
<1>4. UNCHANGED <<config, session, shares, cash, plan, holdings, equity, ledger>>
  BY DEF Value
<1>5. TypeOK'
  BY <1>2, <1>3, <1>4 DEF IInv, TypeOK, config, session, plan, ledger
<1>6. PhaseInv' /\ DeferralInv' /\ CurrentInv'
  BY <1>2, <1>4, PlanKept DEF Rebalancing
<1> QED
  BY <1>1, <1>5, <1>6 DEF IInv

(* StartSells, StartBuys and FinishBuys only move to the next loop.        *)
LEMMA NextLoopIInv == IInv /\ (StartSells \/ StartBuys \/ FinishBuys) => IInv'
<1> SUFFICES ASSUME IInv, StartSells \/ StartBuys \/ FinishBuys PROVE IInv'
  OBVIOUS
<1>1. /\ phase \in {"value", "sell", "buy"} /\ phase' \in {"sell", "buy", "finish"}
      /\ k' \in 1 .. N + 1
      /\ UNCHANGED <<config, session, shares, cash, plan, value, holdings, equity, ledger>>
  BY SharedCashAssumption DEF StartSells, StartBuys, FinishBuys, IInv, TypeOK
<1>2. NoLeverage' /\ CashExplained'
  BY <1>1, AccountKept
<1>3. TypeOK'
  BY <1>1 DEF IInv, TypeOK, config, session, plan, ledger
<1>4. PhaseInv' /\ DeferralInv' /\ CurrentInv'
  BY <1>1, PlanKept DEF Rebalancing
<1> QED
  BY <1>2, <1>3, <1>4 DEF IInv

(* A sale takes no more than is held, yields cash, and is explained.       *)
LEMMA SellIInv == IInv /\ Sell => IInv'
<1> SUFFICES ASSUME IInv, Sell PROVE IInv'
  OBVIOUS
<1>1. phase = "sell" /\ phase' = "sell" /\ k \in Assets /\ k' = k + 1 /\ k' \in 1 .. N + 1
  BY SharedCashAssumption DEF Sell, IInv, TypeOK, Assets
<1>2. UNCHANGED <<config, session, phase, plan, value, holdings, equity, income>>
  BY DEF Sell
<1>3. /\ shares' \in [Assets -> Int] /\ cash' \in Int /\ flows' \in Int /\ costs' \in Int
      /\ NoLeverage' /\ CashExplained'
  <2> DEFINE price == bar[k].open
             qty == IF Open(k) THEN SellQuantity(k, price) ELSE 0
  <2>1. CASE qty > 0
    <3>1. Open(k) /\ qty = SellQuantity(k, price)
      BY <2>1
    <3>2. qty \in Nat /\ qty * Den <= shares[k] /\ price \in Nat \ {0}
      BY <1>1, <2>1, <3>1, SellFits DEF IInv
    <3>3. /\ shares' = [shares EXCEPT ![k] = @ - qty * Den]
          /\ cash' = cash + Gross("SELL", qty, price) - Commission("SELL", qty, price)
          /\ flows' = flows + Market(qty, price)
          /\ costs' = costs + Commission("SELL", qty, price) + Slippage(qty, price)
          /\ income' = income
      BY <2>1 DEF Sell
    <3> HIDE DEF qty, price
    <3>4. "SELL" \in {"BUY", "SELL"}
      OBVIOUS
    <3>5. /\ Gross("SELL", qty, price) \in Nat /\ Commission("SELL", qty, price) \in Nat
          /\ Slippage(qty, price) \in Nat /\ Market(qty, price) \in Nat
          /\ Commission("SELL", qty, price) <= Gross("SELL", qty, price)
      BY <3>2, <3>4, FillAmounts
    <3>6. Gross("SELL", qty, price) = Market(qty, price) - Slippage(qty, price)
      BY <3>2, FillDecomposition
    <3>7. qty * Den \in Nat
      BY <3>2, ProductNat, SharedCashAssumption
    <3>8. /\ shares \in [Assets -> Int] /\ cash \in Nat /\ flows \in Int /\ costs \in Int /\ income \in Int
          /\ \A a \in Assets : shares[a] >= 0
          /\ Start * Unit * Den \in Int
      BY SharedCashAssumption, UnitPositive, ProductNat DEF IInv, TypeOK, NoLeverage
    <3>9. shares' \in [Assets -> Int] /\ NoLeverage'
      BY <1>1, <3>2, <3>3, <3>5, <3>7, <3>8 DEF NoLeverage
    <3>10. CashExplained'
      BY <3>3, <3>5, <3>6, <3>8 DEF IInv, CashExplained
    <3> QED
      BY <3>3, <3>5, <3>8, <3>9, <3>10
  <2>2. CASE ~ (qty > 0)
    <3>1. UNCHANGED <<shares, cash, ledger>>
      BY <2>2 DEF Sell, ledger
    <3> QED
      BY <3>1, AccountKept DEF IInv, TypeOK, ledger
  <2> QED
    BY <2>1, <2>2
<1>4. TypeOK'
  BY <1>1, <1>2, <1>3 DEF IInv, TypeOK, config, session, plan
<1>5. PhaseInv' /\ DeferralInv' /\ CurrentInv'
  BY <1>1, <1>2, PlanKept DEF Rebalancing
<1> QED
  BY <1>3, <1>4, <1>5 DEF IInv

(* A purchase the cash pays for leaves the account sound.                  *)
LEMMA BoughtAccount ==
  ASSUME IInv, NEW a \in Assets, NEW qty \in Nat, NEW price \in Nat \ {0},
         Required(qty, price) <= cash,
         shares' = [shares EXCEPT ![a] = @ + qty * Den],
         cash' = cash - Required(qty, price),
         flows' = flows - Market(qty, price),
         costs' = costs + Commission("BUY", qty, price) + Slippage(qty, price),
         income' = income
  PROVE  /\ shares' \in [Assets -> Int] /\ cash' \in Int /\ flows' \in Int /\ costs' \in Int
         /\ NoLeverage' /\ CashExplained'
<1>1. "BUY" \in {"BUY", "SELL"}
  OBVIOUS
<1>2. /\ Gross("BUY", qty, price) \in Nat /\ Commission("BUY", qty, price) \in Nat
      /\ Slippage(qty, price) \in Nat /\ Market(qty, price) \in Nat
  BY <1>1, FillAmounts
<1>3. Required(qty, price) = Market(qty, price) + Slippage(qty, price) + Commission("BUY", qty, price)
  BY <1>2, FillDecomposition DEF Required
<1>4. qty * Den \in Nat
  BY ProductNat, SharedCashAssumption
<1>5. /\ shares \in [Assets -> Int] /\ cash \in Nat /\ flows \in Int /\ costs \in Int /\ income \in Int
      /\ \A b \in Assets : shares[b] >= 0
      /\ Start * Unit * Den \in Int
  BY SharedCashAssumption, UnitPositive, ProductNat DEF IInv, TypeOK, NoLeverage
<1>6. shares' \in [Assets -> Int] /\ NoLeverage'
  BY <1>2, <1>3, <1>4, <1>5 DEF NoLeverage
<1>7. CashExplained'
  BY <1>2, <1>3, <1>5 DEF IInv, CashExplained
<1> QED
  BY <1>2, <1>3, <1>5, <1>6, <1>7

(* A buy never costs more than the cash there is, and is explained.        *)
LEMMA BuyIInv == IInv /\ Buy => IInv'
<1> SUFFICES ASSUME IInv, Buy PROVE IInv'
  OBVIOUS
<1>1. phase = "buy" /\ phase' = "buy" /\ k \in Assets /\ k' = k + 1 /\ k' \in 1 .. N + 1
  BY SharedCashAssumption DEF Buy, IInv, TypeOK, Assets
<1>2. UNCHANGED <<config, session, phase, plan, value, holdings, equity, income>>
  BY DEF Buy
<1>3. /\ shares' \in [Assets -> Int] /\ cash' \in Int /\ flows' \in Int /\ costs' \in Int
      /\ NoLeverage' /\ CashExplained'
  <2> DEFINE price == bar[k].open
             qty == IF Open(k) THEN BuyQuantity(k, price) ELSE 0
  <2>1. CASE qty > 0
    <3>1. Open(k) /\ qty = BuyQuantity(k, price)
      BY <2>1
    <3>2. qty \in Nat /\ Required(qty, price) <= cash /\ price \in Nat \ {0}
      BY <1>1, <2>1, <3>1, BuyFits DEF IInv
    <3>3. /\ shares' = [shares EXCEPT ![k] = @ + qty * Den]
          /\ cash' = cash - Required(qty, price)
          /\ flows' = flows - Market(qty, price)
          /\ costs' = costs + Commission("BUY", qty, price) + Slippage(qty, price)
          /\ income' = income
      BY <2>1 DEF Buy
    <3> HIDE DEF qty, price
    <3> QED
      BY <1>1, <3>2, <3>3, BoughtAccount
  <2>2. CASE ~ (qty > 0)
    <3>1. UNCHANGED <<shares, cash, ledger>>
      BY <2>2 DEF Buy, ledger
    <3> QED
      BY <3>1, AccountKept DEF IInv, TypeOK, ledger
  <2> QED
    BY <2>1, <2>2
<1>4. TypeOK'
  BY <1>1, <1>2, <1>3 DEF IInv, TypeOK, config, session, plan
<1>5. PhaseInv' /\ DeferralInv' /\ CurrentInv'
  BY <1>1, <1>2, PlanKept DEF Rebalancing
<1> QED
  BY <1>3, <1>4, <1>5 DEF IInv

LEMMA RecordRebalanceIInv == IInv /\ RecordRebalance => IInv'
<1> SUFFICES ASSUME IInv, RecordRebalance PROVE IInv'
  OBVIOUS
<1> USE DEF RecordRebalance
<1>1. NoLeverage' /\ CashExplained'
  BY AccountKept
<1>2. d \in Nat \ {0} /\ current.scheduled \in Nat /\ current.decision \in Nat \ {0}
  BY DEF IInv, TypeOK, PhaseInv, CurrentInv, Rebalancing
<1>3. last' \in [scheduled : Nat, decision : Nat \ {0}, executed : Nat \ {0}] /\ last'.executed = d
  BY <1>2
<1>4. TypeOK'
  BY <1>3, SharedCashAssumption DEF IInv, TypeOK, config, session, ledger
<1>5. PhaseInv' /\ DeferralInv' /\ CurrentInv'
  BY <1>2, <1>3 DEF IInv, PhaseInv, DeferralInv, CurrentInv, Rebalancing, session
<1> QED
  BY <1>1, <1>4, <1>5 DEF IInv

LEMMA MarkPositionIInv == IInv /\ MarkPosition => IInv'
<1> SUFFICES ASSUME IInv, MarkPosition PROVE IInv'
  OBVIOUS
<1>1. NoLeverage' /\ CashExplained'
  BY AccountKept DEF MarkPosition
<1>2. phase = "mark" /\ k \in Assets /\ k' \in 1 .. N + 1 /\ phase' \in {"mark", "error"}
  <2>1. k \in Nat /\ 1 <= k /\ N \in Nat
    BY SharedCashAssumption DEF IInv, TypeOK
  <2> QED
    BY <2>1 DEF MarkPosition, Assets
<1>3. holdings' \in Int
  <2>1. shares[k] * mark[k] \in Int
    BY <1>2, ProductInt DEF IInv, TypeOK
  <2>2. shares[k] * mark[k] * Unit \in Int
    BY <2>1, UnitPositive, ProductInt
  <2> QED
    BY <2>2 DEF MarkPosition, IInv, TypeOK
<1>4. UNCHANGED <<config, session, shares, cash, plan, value, equity, ledger>>
  BY DEF MarkPosition
<1>5. TypeOK'
  BY <1>2, <1>3, <1>4 DEF IInv, TypeOK, config, session, plan, ledger
<1>6. PhaseInv' /\ DeferralInv' /\ CurrentInv'
  BY <1>2, <1>4 DEF IInv, PhaseInv, DeferralInv, CurrentInv, Rebalancing, AllOpen, Open,
                    config, session, plan
<1> QED
  BY <1>1, <1>5, <1>6 DEF IInv

LEMMA CloseSessionIInv == IInv /\ CloseSession => IInv'
<1> SUFFICES ASSUME IInv, CloseSession PROVE IInv'
  OBVIOUS
<1> USE DEF CloseSession
<1>1. NoLeverage' /\ CashExplained'
  BY AccountKept
<1>2. TypeOK'
  BY DEF IInv, TypeOK, config, session, plan, ledger
<1>3. PhaseInv' /\ DeferralInv' /\ CurrentInv'
  BY DEF IInv, PhaseInv, DeferralInv, CurrentInv, Rebalancing, AllOpen, Open,
         config, session, plan
<1> QED
  BY <1>1, <1>2, <1>3 DEF IInv

LEMMA StutterIInv == IInv /\ UNCHANGED vars => IInv'
BY DEF vars, config, session, plan, ledger, IInv, TypeOK, PhaseInv, DeferralInv, CurrentInv,
       NoLeverage, CashExplained, Rebalancing, HasRebalance, DeferAll, AllOpen, Open

LEMMA StepIInv == IInv /\ [Next]_vars => IInv'
BY NextSessionIInv, CorporateActionIInv, StartDayIInv, DeferIInv, StartRebalanceIInv, ValueIInv,
   NextLoopIInv, SellIInv, BuyIInv, RecordRebalanceIInv, MarkPositionIInv, CloseSessionIInv,
   StutterIInv DEF Next

-----------------------------------------------------------------------------
(* The invariant of run_union, for every value of the constants.           *)
THEOREM SharedCashInvariant == Spec => []IInv
BY InitIInv, StepIInv, PTL DEF Spec

(* Type correctness.                                                       *)
THEOREM SharedCashTypeOK == Spec => []TypeOK
<1>1. IInv => TypeOK
  BY DEF IInv
<1> QED
  BY <1>1, SharedCashInvariant, PTL

(* Neither the cash the assets share nor any position goes below zero: the *)
(* second sizing of a buy by the cash left is enough, in any order of the  *)
(* assets and whatever the sells before it yielded.                        *)
THEOREM SharedCashNoLeverage == Spec => []NoLeverage
<1>1. IInv => NoLeverage
  BY DEF IInv
<1> QED
  BY <1>1, SharedCashInvariant, PTL

(* The cash is the capital plus fills at bar prices and dividends, less    *)
(* the recorded costs.                                                     *)
THEOREM SharedCashExplained == Spec => []CashExplained
<1>1. IInv => CashExplained
  BY DEF IInv
<1> QED
  BY <1>1, SharedCashInvariant, PTL

(* Between sessions a rebalance is deferred only under the defer policy    *)
(* and while some asset is closed.                                         *)
THEOREM SharedCashDeferredOnlyWhileClosed == Spec => []DeferredOnlyWhileClosed
<1>1. IInv => DeferredOnlyWhileClosed
  BY DEF IInv, DeferralInv, DeferredOnlyWhileClosed
<1> QED
  BY <1>1, SharedCashInvariant, PTL

LEMMA FrozenTargetsStep ==
  ASSUME IInv, Next, deferred # NoDeferral, deferred' # deferred
  PROVE  /\ last'.executed = d
         /\ last'.scheduled = deferred.scheduled /\ last'.decision = deferred.decision
         /\ targets = deferred.targets
<1>1. RecordRebalance
  BY DEF Next, NextSession, CorporateAction, StartDay, Defer, StartRebalance, Value,
         StartSells, Sell, StartBuys, Buy, FinishBuys, MarkPosition, CloseSession, plan
<1> QED
  BY <1>1 DEF RecordRebalance, IInv, CurrentInv, Rebalancing

(* A deferral changes only by being executed, with the targets and the     *)
(* decision it was made with.                                              *)
THEOREM SharedCashFrozenTargets == Spec => FrozenTargets
<1>1. IInv /\ [Next]_vars =>
        [deferred # NoDeferral /\ deferred' # deferred =>
           /\ last'.executed = d
           /\ last'.scheduled = deferred.scheduled /\ last'.decision = deferred.decision
           /\ targets = deferred.targets]_vars
  BY FrozenTargetsStep
<1> QED
  BY <1>1, SharedCashInvariant, PTL DEF Spec, FrozenTargets

LEMMA DecisionsInOrderStep ==
  ASSUME IInv, Next, last' # last
  PROVE  /\ last'.scheduled = last'.decision + 1
         /\ last'.decision < last'.executed
         /\ last'.decision >= last.executed
<1>1. RecordRebalance
  BY DEF Next, NextSession, CorporateAction, StartDay, Defer, StartRebalance, Value,
         StartSells, Sell, StartBuys, Buy, FinishBuys, MarkPosition, CloseSession, plan
<1>2. last.executed \in Nat
  BY DEF IInv, TypeOK, NoRecord
<1> QED
  BY <1>1, <1>2 DEF RecordRebalance, IInv, TypeOK, CurrentInv, Rebalancing

(* Every rebalance is decided on the session before its schedule point,    *)
(* before it is executed, and not before the last one was.                 *)
THEOREM SharedCashDecisionsInOrder == Spec => DecisionsInOrder
<1>1. IInv /\ [Next]_vars =>
        [last' # last =>
           /\ last'.scheduled = last'.decision + 1
           /\ last'.decision < last'.executed
           /\ last'.decision >= last.executed]_vars
  BY DecisionsInOrderStep
<1> QED
  BY <1>1, SharedCashInvariant, PTL DEF Spec, DecisionsInOrder

-----------------------------------------------------------------------------
(* The worth of the account *)

PositionWorth == [a \in Assets |-> shares[a] * PriceAt(a) * Unit]
WorthIsSum    == IsSum(Worth, cash, PositionWorth, N)

LEMMA WorthDefined == WorthIsSum
<1>1. \E sum : IsSum(sum, cash, PositionWorth, N)
  BY SumExists, SharedCashAssumption
<1>2. \A sum : IsSum(sum, cash, PositionWorth, N)
        <=> sum = [a \in 0 .. N |->
                     IF a = 0 THEN cash ELSE sum[a - 1] + shares[a] * PriceAt(a) * Unit]
  <2> SUFFICES ASSUME NEW sum
      PROVE  [a \in 0 .. N |-> IF a = 0 THEN cash ELSE sum[a - 1] + PositionWorth[a]]
             = [a \in 0 .. N |-> IF a = 0 THEN cash ELSE sum[a - 1] + shares[a] * PriceAt(a) * Unit]
    BY DEF IsSum
  <2>1. \A a \in 0 .. N : a # 0 => PositionWorth[a] = shares[a] * PriceAt(a) * Unit
    BY SharedCashAssumption DEF PositionWorth, Assets
  <2> QED
    BY <2>1
<1> QED
  BY <1>1, <1>2, Zenon DEF WorthIsSum, Worth

LEMMA WorthDefinedNext == WorthIsSum'
BY WorthDefined, PTL

LEMMA PriceAtNat ==
  ASSUME TypeOK, NEW a \in Assets
  PROVE  PriceAt(a) \in Nat /\ (Open(a) => PriceAt(a) = bar[a].open /\ bar[a].open \in Nat \ {0})
<1>1. Open(a) => bar[a].open \in Nat \ {0}
  BY SharedCashAssumption DEF TypeOK, Open, BarsOK
<1> QED
  BY <1>1 DEF TypeOK, PriceAt

LEMMA WorthSteps ==
  ASSUME TypeOK
  PROVE  /\ \A a \in 1 .. N : PositionWorth[a] \in Int
         /\ \A a \in 0 .. N : Worth[a] \in Int
         /\ Worth[0] = cash
         /\ \A a \in 1 .. N : Worth[a] = Worth[a - 1] + shares[a] * PriceAt(a) * Unit
<1>1. \A a \in 1 .. N : PositionWorth[a] = shares[a] * PriceAt(a) * Unit
  BY DEF PositionWorth, Assets
<1>2. ASSUME NEW a \in 1 .. N PROVE PositionWorth[a] \in Int
  <2>1. shares[a] \in Int /\ PriceAt(a) \in Nat
    BY PriceAtNat DEF TypeOK, Assets
  <2>2. shares[a] * PriceAt(a) \in Int
    BY <2>1, ProductInt
  <2> QED
    BY <1>1, <2>2, ProductInt, UnitPositive
<1>3. IsSum(Worth, cash, PositionWorth, N) /\ N \in Nat /\ cash \in Int
  BY WorthDefined, SharedCashAssumption DEF WorthIsSum, TypeOK
<1>4. \A a \in 0 .. N : Worth[a] \in Int
  BY <1>2, <1>3, SumType
<1>5. Worth[0] = cash /\ \A a \in 1 .. N : Worth[a] = Worth[a - 1] + PositionWorth[a]
  BY <1>3, SumSteps
<1> QED
  BY <1>1, <1>2, <1>4, <1>5

LEMMA WorthKept ==
  ASSUME UNCHANGED <<bar, mark, shares, cash>>
  PROVE  Worth' = Worth
<1>1. \A a : PriceAt(a)' = PriceAt(a)
  BY DEF PriceAt, Open
<1> QED
  BY <1>1 DEF Worth

(* A trade changes the worth by its cash and by what the shares are worth. *)
LEMMA WorthTraded ==
  ASSUME TypeOK, TypeOK', UNCHANGED <<bar, mark>>, NEW a \in Assets, NEW moved \in Int,
         shares' = [shares EXCEPT ![a] = @ + moved]
  PROVE  Worth'[N] = Worth[N] + (cash' - cash) + moved * PriceAt(a) * Unit
<1>1. \A b \in Assets : PriceAt(b)' = PriceAt(b)
  BY DEF PriceAt, Open
<1>2. \A b \in 1 .. N : PositionWorth'[b] = shares'[b] * PriceAt(b) * Unit
  BY <1>1 DEF PositionWorth, Assets
<1>3. \A b \in 1 .. N : PositionWorth[b] = shares[b] * PriceAt(b) * Unit
  BY DEF PositionWorth, Assets
<1>4. \A b \in 1 .. N : b # a => PositionWorth'[b] = PositionWorth[b]
  <2>1. \A b \in 1 .. N : b # a => shares'[b] = shares[b]
    BY DEF TypeOK, Assets
  <2> QED
    BY <1>2, <1>3, <2>1
<1>5. \A b \in 1 .. N : PositionWorth[b] \in Int
  BY WorthSteps
<1>6. PositionWorth'[a] = PositionWorth[a] + moved * PriceAt(a) * Unit
  <2>1. shares'[a] = shares[a] + moved /\ shares[a] \in Int /\ PriceAt(a) \in Int /\ Unit \in Int
    BY PriceAtNat, UnitPositive DEF TypeOK
  <2>2. \A x, y, p, u \in Int : (x + y) * p * u = x * p * u + y * p * u
    OBVIOUS
  <2> QED
    BY <1>2, <1>3, <2>1, <2>2 DEF Assets
<1>7. moved * PriceAt(a) * Unit \in Int
  <2>1. moved * PriceAt(a) \in Int
    BY PriceAtNat, ProductInt
  <2> QED
    BY <2>1, ProductInt, UnitPositive
<1>8. \A b \in 1 .. N : PositionWorth'[b] \in Int
  BY <1>4, <1>5, <1>6, <1>7 DEF Assets
<1>9. /\ IsSum(Worth, cash, PositionWorth, N) /\ IsSum(Worth', cash', PositionWorth', N)
      /\ N \in Nat /\ cash \in Int /\ cash' \in Int /\ a \in Nat /\ a \in 1 .. N /\ N \in 0 .. N
  BY WorthDefined, WorthDefinedNext, SharedCashAssumption DEF WorthIsSum, TypeOK, Assets
<1>10. Worth'[N] = Worth[N] + (cash' - cash)
                   + (IF a \in 1 .. N THEN PositionWorth'[a] - PositionWorth[a] ELSE 0)
  BY <1>4, <1>5, <1>8, <1>9, SumChange
<1> QED
  BY <1>5, <1>6, <1>7, <1>9, <1>10

-----------------------------------------------------------------------------
(* The drift from the targets *)

LEMMA RemainderSmall == \A e \in Int, b \in Nat \ {0} : e - (e \div b) * b < b
OBVIOUS

LEMMA MarketLinear ==
  ASSUME NEW qty \in Int, NEW price \in Nat \ {0}
  PROVE  /\ Market(W, price) \in Nat \ {0}
         /\ qty * Market(W, price) = (qty * Den) * price * Unit * W
         /\ Market(qty, price) = (qty * Den) * price * Unit
<1>1. W * price \in Nat \ {0} /\ W * price * Unit \in Nat \ {0}
  BY UnitPositive, SharedCashAssumption, ProductPositive
<1>2. Market(W, price) \in Nat \ {0}
  BY <1>1, SharedCashAssumption, ProductPositive DEF Market
<1>3. \A q, p, u, n, w \in Int : /\ q * (w * p * u * n) = (q * n) * p * u * w
                                 /\ q * p * u * n = (q * n) * p * u
  OBVIOUS
<1>4. W \in Int /\ Den \in Int /\ Unit \in Int
  BY UnitPositive, SharedCashAssumption
<1> QED
  BY <1>2, <1>3, <1>4 DEF Market

LEMMA ExcessInt ==
  ASSUME TypeOK, NEW a \in Assets, NEW price \in Nat
  PROVE  Excess(a, price) \in Int
<1>1. shares[a] * price \in Int
  BY ProductInt DEF TypeOK
<1>2. shares[a] * price * Unit \in Int
  BY <1>1, UnitPositive, ProductInt
<1>3. shares[a] * price * Unit * W \in Int
  BY <1>2, SharedCashAssumption, ProductInt
<1>4. value * targets[a] \in Int
  BY ProductInt DEF TypeOK
<1> QED
  BY <1>3, <1>4 DEF Excess

(* A trade of qty shares moves the excess by their price.                  *)
LEMMA ExcessTraded ==
  ASSUME TypeOK, TypeOK', NEW a \in Assets, NEW price \in Nat \ {0}, NEW qty \in Int,
         shares'[a] = shares[a] + qty * Den, value' = value, targets' = targets
  PROVE  Excess(a, price)' = Excess(a, price) + qty * Market(W, price)
<1>1. shares[a] \in Int /\ Unit \in Int /\ W \in Int /\ qty * Den \in Int /\ price \in Int
  BY UnitPositive, SharedCashAssumption, ProductInt DEF TypeOK
<1>2. \A x, y, p, u, w \in Int : (x + y) * p * u * w = x * p * u * w + y * p * u * w
  OBVIOUS
<1>3. shares'[a] * price * Unit * W = shares[a] * price * Unit * W + (qty * Den) * price * Unit * W
  BY <1>1, <1>2
<1>4. shares[a] * price * Unit * W \in Int /\ (qty * Den) * price * Unit * W \in Int
  <2>1. \A x, y, p, u \in Int : x * y * p * u \in Int
    BY ProductInt
  <2> QED
    BY <1>1, <2>1
<1>5. value * targets[a] \in Int
  BY ProductInt DEF TypeOK
<1>6. qty * Market(W, price) = (qty * Den) * price * Unit * W
  BY MarketLinear
<1> QED
  BY <1>3, <1>4, <1>5, <1>6 DEF Excess

Drift(a) ==
  Open(a) => \/ Excess(a, bar[a].open) <= Minimum
             \/ Excess(a, bar[a].open) < Market(W, bar[a].open)

LEMMA MinimumNat == Minimum \in Nat
<1>1. MinTrade * Unit \in Nat
  BY UnitPositive, SharedCashAssumption, ProductNat
<1>2. MinTrade * Unit * Den \in Nat
  BY <1>1, SharedCashAssumption, ProductNat
<1> QED
  BY <1>2, SharedCashAssumption, ProductNat DEF Minimum

(* The shares a sale leaves exceed the target by less than one share.      *)
LEMMA SellLeavesLittle ==
  ASSUME TypeOK, NoLeverage, value \in Nat, NEW a \in Assets, Open(a),
         NEW price \in Nat \ {0}, price = bar[a].open,
         NEW qty \in Int, qty = SellQuantity(a, price), Excess(a, price) > Minimum
  PROVE  Excess(a, price) - qty * Market(W, price) < Market(W, price)
<1> DEFINE fit == Excess(a, price) \div Market(W, price)
<1>1. Excess(a, price) \in Int /\ Market(W, price) \in Nat \ {0}
  BY ExcessInt, MarketLinear
<1>2. qty = Lesser(shares[a] \div Den, fit)
  BY <1>1, MinimumNat DEF SellQuantity
<1>3. CASE qty = fit
  BY <1>1, <1>3, RemainderSmall
<1>4. CASE qty = shares[a] \div Den
  <2>1. shares[a] \in Int /\ Den \in Nat \ {0}
    BY SharedCashAssumption DEF TypeOK
  <2>2. shares[a] - qty * Den < Den /\ qty * Den \in Int
    <3>1. shares[a] - (shares[a] \div Den) * Den < Den
      BY <2>1, RemainderSmall
    <3>2. shares[a] - qty * Den < Den
      BY <1>4, <3>1, Zenon
    <3> QED
      BY <2>1, <3>2, ProductInt
  <2>3. price * Unit \in Nat \ {0} /\ price * Unit * W \in Nat \ {0}
    BY UnitPositive, SharedCashAssumption, ProductPositive
  <2>4. value * targets[a] \in Nat
    <3>1. targets[a] \in Nat
      BY SharedCashAssumption DEF TypeOK
    <3> QED
      BY <3>1, ProductNat
  <2>5. \A x, y \in Int, c \in Nat \ {0} : x < y => x * c < y * c
    OBVIOUS
  <2>6. (shares[a] - qty * Den) * (price * Unit * W) < Den * (price * Unit * W)
    BY <2>1, <2>2, <2>3, <2>5
  <2>7. Den * (price * Unit * W) = Market(W, price)
    <3>1. \A n, p, u, w \in Int : n * (p * u * w) = w * p * u * n
      OBVIOUS
    <3> QED
      BY <3>1, UnitPositive, SharedCashAssumption DEF Market
  <2>8. (shares[a] - qty * Den) * (price * Unit * W)
          = shares[a] * price * Unit * W - qty * Market(W, price)
    <3>1. \A x, y, p, u, w \in Int : (x - y) * (p * u * w) = x * p * u * w - y * p * u * w
      OBVIOUS
    <3>2. qty * Market(W, price) = (qty * Den) * price * Unit * W
      BY MarketLinear
    <3>3. shares[a] \in Int /\ qty * Den \in Int /\ price \in Int /\ Unit \in Int /\ W \in Int
      BY <2>1, <2>2, UnitPositive, SharedCashAssumption
    <3> QED
      BY <3>1, <3>2, <3>3
  <2>9. shares[a] * price * Unit * W \in Int /\ qty * Market(W, price) \in Int
    <3>1. shares[a] * price \in Int
      BY <2>1, ProductInt
    <3>2. shares[a] * price * Unit \in Int
      BY <3>1, UnitPositive, ProductInt
    <3> QED
      BY <3>2, <1>1, SharedCashAssumption, ProductInt
  <2>10. Excess(a, price) = shares[a] * price * Unit * W - value * targets[a]
    BY DEF Excess
  <2> QED
    BY <1>1, <2>4, <2>6, <2>7, <2>8, <2>9, <2>10
<1> QED
  BY <1>2, <1>3, <1>4 DEF Lesser

LEMMA MarketBelowRequired ==
  ASSUME NEW price \in Nat \ {0}
  PROVE  Market(W, price) <= Required(W, price)
<1>1. W \in Nat /\ "BUY" \in {"BUY", "SELL"}
  BY SharedCashAssumption
<1>2. /\ Gross("BUY", W, price) \in Nat /\ Commission("BUY", W, price) \in Nat
      /\ Slippage(W, price) \in Nat /\ Market(W, price) \in Nat
  BY <1>1, FillAmounts
<1>3. Gross("BUY", W, price) = Market(W, price) + Slippage(W, price)
  BY <1>1, FillDecomposition
<1> QED
  BY <1>2, <1>3 DEF Required

(* A purchase does not pass the target.                                    *)
LEMMA BuyStopsAtTarget ==
  ASSUME TypeOK, NoLeverage, NEW a \in Assets, Open(a), NEW price \in Nat \ {0},
         price = bar[a].open, NEW qty \in Nat, qty = BuyQuantity(a, price), qty > 0
  PROVE  Excess(a, price) + qty * Market(W, price) <= 0
<1> DEFINE desired == 0 - Excess(a, price)
           wanted  == desired \div Required(W, price)
<1>1. Excess(a, price) \in Int /\ Market(W, price) \in Nat \ {0} /\ Minimum \in Nat
  BY ExcessInt, MarketLinear, MinimumNat
<1>2. Required(1, price) \in Nat \ {0} /\ Required(W, price) \in Nat \ {0} /\ cash \in Nat
  BY RequiredLinear DEF TypeOK, NoLeverage
<1>3. desired > Minimum /\ qty = IF Required(wanted, price) > cash
                                 THEN cash \div Required(1, price) ELSE wanted
  <2>1. ~ (desired <= Minimum)
    BY DEF BuyQuantity
  <2> QED
    BY <1>1, <2>1 DEF BuyQuantity
<1>4. desired \in Nat
  BY <1>1, <1>3
<1> HIDE DEF desired
<1>5. wanted \in Nat /\ wanted * Required(W, price) <= desired
  BY <1>2, <1>4, QuotientNat, QuotientFits
<1> HIDE DEF wanted
<1>6. qty <= wanted
  <2>1. CASE Required(wanted, price) > cash
    <3>1. Required(wanted, price) = wanted * Required(1, price)
      BY <1>5, RequiredLinear
    <3> QED
      BY <1>2, <1>3, <1>5, <2>1, <3>1, QuotientBelow
  <2>2. CASE ~ (Required(wanted, price) > cash)
    BY <1>3, <1>5, <2>2
  <2> QED
    BY <2>1, <2>2
<1>7. Market(W, price) <= Required(W, price)
  BY MarketBelowRequired
<1>8. qty * Market(W, price) <= wanted * Required(W, price)
  <2>1. \A x, y, p, r \in Nat : x <= y /\ p <= r => x * p <= y * r
    <3> SUFFICES ASSUME NEW x \in Nat, NEW y \in Nat, NEW p \in Nat, NEW r \in Nat,
                        x <= y, p <= r
                 PROVE  x * p <= y * r
      OBVIOUS
    <3>1. x * p <= x * r /\ x * r <= y * r
      OBVIOUS
    <3> QED
      BY <3>1, ProductNat
  <2> QED
    BY <1>1, <1>2, <1>5, <1>6, <1>7, <2>1
<1> QED
  <2>1. qty * Market(W, price) \in Int /\ wanted * Required(W, price) \in Int
    BY <1>1, <1>2, <1>5, ProductInt
  <2> QED
    BY <1>1, <1>4, <1>5, <1>8, <2>1 DEF desired

-----------------------------------------------------------------------------
(* What a rebalance keeps of the worth, and how far it leaves the targets. *)

WorthInv ==
  /\ phase = "decide" => k = 1
  /\ Rebalancing => value >= 0
  /\ phase = "value" => value = Worth[k - 1]
  /\ phase = "sell" /\ k = 1 => value = Worth[N]
  /\ phase \in {"sell", "buy", "finish"} => value >= Worth[N]

DriftInv ==
  /\ phase = "sell" => \A a \in Assets : a < k => Drift(a)
  /\ phase \in {"buy", "finish"} => \A a \in Assets : Drift(a)

RInv == IInv /\ WorthInv /\ DriftInv

LEMMA DriftKept ==
  ASSUME UNCHANGED <<bar, shares, value, targets>>
  PROVE  \A a \in Assets : Drift(a)' = Drift(a)
BY DEF Drift, Open, Excess

LEMMA ValueRInv ==
  ASSUME RInv, Value
  PROVE  WorthInv' /\ DriftInv'
<1>1. /\ phase = "value" /\ k \in Assets /\ k \in 1 .. N /\ k - 1 \in 0 .. N
      /\ UNCHANGED <<bar, mark, shares, cash>>
      /\ \/ phase' = "error"
         \/ phase' = "value" /\ k' = k + 1 /\ value' = value + shares[k] * PriceAt(k) * Unit
  BY SharedCashAssumption DEF Value, RInv, IInv, TypeOK, Assets, session
<1>2. Worth' = Worth
  BY <1>1, WorthKept
<1>3. DriftInv'
  BY <1>1 DEF DriftInv
<1>4. CASE phase' = "error"
  BY <1>3, <1>4 DEF WorthInv, Rebalancing
<1>5. CASE phase' = "value" /\ k' = k + 1 /\ value' = value + shares[k] * PriceAt(k) * Unit
  <2>1. TypeOK /\ NoLeverage
    BY DEF RInv, IInv
  <2>2. Worth[k] = Worth[k - 1] + shares[k] * PriceAt(k) * Unit
    BY <1>1, <2>1, WorthSteps
  <2>3. shares[k] * PriceAt(k) * Unit \in Nat
    <3>1. shares[k] \in Nat /\ PriceAt(k) \in Nat /\ Unit \in Nat
      BY <1>1, <2>1, PriceAtNat, UnitPositive DEF TypeOK, NoLeverage
    <3>2. shares[k] * PriceAt(k) \in Nat
      BY <3>1, ProductNat
    <3> QED
      BY <3>1, <3>2, ProductNat
  <2>4. value = Worth[k - 1] /\ value \in Nat
    BY <1>1, <2>1 DEF RInv, WorthInv, Rebalancing, TypeOK
  <2>5. value' = Worth'[k' - 1] /\ value' \in Nat
    BY <1>1, <1>2, <1>5, <2>2, <2>3, <2>4
  <2> QED
    BY <1>3, <1>5, <2>5 DEF WorthInv
<1> QED
  BY <1>1, <1>4, <1>5

(* What a sale or a purchase does to the worth and to the drift.           *)
LEMMA TradeRInv ==
  ASSUME RInv, IInv', phase \in {"sell", "buy"}, NEW a \in Assets, Open(a),
         UNCHANGED <<bar, mark, value, targets>>,
         NEW qty \in Int, shares' = [shares EXCEPT ![a] = @ + qty * Den],
         NEW paid \in Nat, cash' = cash - Market(qty, bar[a].open) - paid
  PROVE  /\ value >= 0 /\ value' >= Worth'[N]
         /\ \A b \in Assets : b # a => (Drift(b)' <=> Drift(b))
         /\ Excess(a, bar[a].open)' = Excess(a, bar[a].open) + qty * Market(W, bar[a].open)
<1> DEFINE price == bar[a].open
<1>1. TypeOK /\ TypeOK' /\ price \in Nat \ {0} /\ PriceAt(a) = price
  BY PriceAtNat DEF RInv, IInv
<1>2. qty * Den \in Int /\ Market(qty, price) = (qty * Den) * price * Unit
  BY <1>1, MarketLinear, ProductInt, SharedCashAssumption
<1>3. Market(qty, price) \in Int
  <2>1. (qty * Den) * price \in Int
    BY <1>1, <1>2, ProductInt
  <2> QED
    BY <1>2, <2>1, UnitPositive, ProductInt
<1>4. Worth'[N] = Worth[N] + (cash' - cash) + (qty * Den) * PriceAt(a) * Unit
  BY <1>1, <1>2, WorthTraded
<1>5. Worth[N] \in Int /\ cash \in Int /\ value \in Int
  BY <1>1, WorthSteps, SharedCashAssumption DEF TypeOK
<1>6. Worth'[N] = Worth[N] - paid
  <2> HIDE DEF price
  <2>1. cash' - cash = 0 - Market(qty, price) - paid
    BY <1>3, <1>5 DEF price
  <2> QED
    BY <1>1, <1>2, <1>3, <1>4, <1>5, <2>1
<1>7. value >= 0 /\ value >= Worth[N]
  BY DEF RInv, WorthInv, Rebalancing
<1>8. ASSUME NEW b \in Assets, b # a PROVE Drift(b)' <=> Drift(b)
  <2>1. shares'[b] = shares[b]
    BY <1>1, <1>8 DEF TypeOK
  <2> QED
    BY <2>1 DEF Drift, Open, Excess
<1>9. Excess(a, price)' = Excess(a, price) + qty * Market(W, price)
  <2>1. shares'[a] = shares[a] + qty * Den
    BY <1>1 DEF TypeOK
  <2>2. \A p \in Nat \ {0} : Excess(a, p)' = Excess(a, p) + qty * Market(W, p)
    BY <1>1, <2>1, ExcessTraded
  <2>3. bar' = bar
    OBVIOUS
  <2> HIDE DEF price
  <2>4. price' = price
    BY <2>3 DEF price
  <2> QED
    BY <1>1, <2>2, <2>4 DEF Excess
<1> QED
  BY <1>1, <1>5, <1>6, <1>7, <1>8, <1>9

LEMMA SellQuantityInt ==
  ASSUME TypeOK, NEW a \in Assets, NEW price \in Nat \ {0}
  PROVE  SellQuantity(a, price) \in Int
<1>1. Excess(a, price) \in Int /\ Market(W, price) \in Nat \ {0}
  BY ExcessInt, MarketLinear
<1>2. Excess(a, price) \div Market(W, price) \in Int
  BY <1>1, QuotientInt
<1>3. shares[a] \div Den \in Int
  BY QuotientInt, SharedCashAssumption DEF TypeOK
<1> QED
  BY <1>2, <1>3 DEF SellQuantity, Lesser

LEMMA SellRInv ==
  ASSUME RInv, Sell, IInv'
  PROVE  WorthInv' /\ DriftInv'
<1>1. /\ phase = "sell" /\ phase' = "sell" /\ k \in Assets /\ k' = k + 1
      /\ UNCHANGED <<bar, mark, value, targets>>
  BY SharedCashAssumption DEF Sell, RInv, IInv, TypeOK, Assets, session, plan
<1>2. PICK a \in Assets : a = k
  BY <1>1
<1>3. /\ TypeOK /\ TypeOK' /\ NoLeverage /\ value \in Nat /\ value >= Worth[N]
      /\ \A b \in Assets : b < k => Drift(b)
  BY <1>1 DEF RInv, IInv, WorthInv, DriftInv, Rebalancing, TypeOK
<1> DEFINE price == bar[a].open
           qty   == IF Open(a) THEN SellQuantity(a, price) ELSE 0
<1>4. Open(a) => price \in Nat \ {0} /\ qty \in Int
  BY <1>3, PriceAtNat, SellQuantityInt
<1>5. SUFFICES /\ value' >= 0 /\ value' >= Worth'[N]
               /\ \A b \in Assets : b # a => (Drift(b)' <=> Drift(b))
               /\ Drift(a)'
  <2> SUFFICES ASSUME /\ value' >= 0 /\ value' >= Worth'[N]
                      /\ \A b \in Assets : b # a => (Drift(b)' <=> Drift(b))
                      /\ Drift(a)'
               PROVE  WorthInv' /\ DriftInv'
    OBVIOUS
  <2>1. WorthInv'
    BY <1>1 DEF WorthInv, Assets
  <2>2. \A b \in Assets : b < k + 1 => b < k \/ b = a
    BY <1>1, <1>2 DEF Assets
  <2>3. \A b \in Assets : b < k' => Drift(b)'
    BY <1>1, <1>2, <1>3, <2>2
  <2> QED
    BY <1>1, <2>1, <2>3 DEF DriftInv
<1>6. CASE qty > 0
  <2>1. Open(a) /\ qty = SellQuantity(a, price)
    BY <1>6
  <2>2. qty \in Nat \ {0} /\ price \in Nat \ {0}
    BY <1>4, <1>6, <2>1
  <2>3. /\ shares' = [shares EXCEPT ![a] = @ - qty * Den]
        /\ cash' = cash + Gross("SELL", qty, price) - Commission("SELL", qty, price)
    BY <1>2, <1>6 DEF Sell
  <2>4. Excess(a, price) > Minimum
    <3>1. ~ (Excess(a, price) <= Minimum)
      BY <1>6, <2>1 DEF SellQuantity
    <3> QED
      BY <1>3, <2>2, <3>1, ExcessInt, MinimumNat
  <2> HIDE DEF qty
  <2> DEFINE paid == Slippage(qty, price) + Commission("SELL", qty, price)
             less == 0 - qty
  <2>5. /\ Gross("SELL", qty, price) \in Nat /\ Commission("SELL", qty, price) \in Nat
        /\ Slippage(qty, price) \in Nat /\ Market(qty, price) \in Nat
        /\ Gross("SELL", qty, price) = Market(qty, price) - Slippage(qty, price)
    <3>1. "SELL" \in {"BUY", "SELL"} /\ qty \in Nat
      BY <2>2
    <3> QED
      BY <2>2, <3>1, FillAmounts, FillDecomposition
  <2>6. Market(less, price) = 0 - Market(qty, price)
    <3>1. \A q, p, u, n \in Int : (0 - q) * p * u * n = 0 - q * p * u * n
      OBVIOUS
    <3>2. qty \in Int /\ price \in Int /\ Unit \in Int /\ Den \in Int
      BY <2>2, UnitPositive, SharedCashAssumption
    <3> HIDE DEF price
    <3> QED
      BY <3>1, <3>2 DEF Market
  <2>7. shares' = [shares EXCEPT ![a] = @ + less * Den]
    <3>1. less * Den = 0 - qty * Den /\ qty * Den \in Int
      BY <2>2, ProductInt, SharedCashAssumption
    <3>2. shares[a] - qty * Den = shares[a] + less * Den
      BY <1>3, <3>1 DEF TypeOK
    <3> QED
      BY <2>3, <3>2
  <2>8. cash' = cash - Market(less, price) - paid /\ paid \in Nat /\ less \in Int
    BY <1>3, <2>2, <2>3, <2>5, <2>6 DEF TypeOK
  <2> HIDE DEF paid, less
  <2>9. /\ value >= 0 /\ value' >= Worth'[N]
        /\ \A b \in Assets : b # a => (Drift(b)' <=> Drift(b))
        /\ Excess(a, bar[a].open)' = Excess(a, bar[a].open) + less * Market(W, bar[a].open)
    BY <1>1, <2>1, <2>7, <2>8, TradeRInv
  <2>10. Excess(a, price) - qty * Market(W, price) < Market(W, price)
    BY <1>3, <2>1, <2>2, <2>4, SellLeavesLittle
  <2>11. less * Market(W, price) = 0 - qty * Market(W, price)
         /\ qty * Market(W, price) \in Int /\ Excess(a, price) \in Int
    BY <1>3, <2>2, MarketLinear, ExcessInt, ProductInt DEF less
  <2>12. Drift(a)'
    <3>1. Excess(a, bar[a].open)' < Market(W, bar[a].open)
      BY <2>9, <2>10, <2>11
    <3>2. bar' = bar
      BY <1>1
    <3> QED
      BY <3>1, <3>2 DEF Drift
  <2> QED
    BY <1>1, <2>9, <2>12
<1>7. CASE ~ (qty > 0)
  <2>1. UNCHANGED <<shares, cash>>
    BY <1>2, <1>7 DEF Sell
  <2>2. Worth' = Worth
    BY <1>1, <2>1, WorthKept
  <2>3. \A b \in Assets : Drift(b)' = Drift(b)
    BY <1>1, <2>1, DriftKept
  <2>4. Drift(a)
    <3> SUFFICES ASSUME Open(a), Excess(a, price) > Minimum
                 PROVE  Excess(a, price) < Market(W, price)
      BY <1>3, <1>4, ExcessInt, MinimumNat DEF Drift
    <3>1. qty = SellQuantity(a, price) /\ qty \in Int /\ price \in Nat \ {0}
      BY <1>4
    <3>2. Excess(a, price) - qty * Market(W, price) < Market(W, price)
      BY <1>3, <3>1, SellLeavesLittle
    <3> HIDE DEF qty
    <3>3. Market(W, price) \in Nat \ {0} /\ Excess(a, price) \in Int
      BY <1>3, <3>1, MarketLinear, ExcessInt
    <3>4. \A q \in Int, p \in Nat \ {0} : ~ (q > 0) => q * p <= 0 /\ q * p \in Int
      OBVIOUS
    <3>5. qty * Market(W, price) <= 0 /\ qty * Market(W, price) \in Int
      BY <1>7, <3>1, <3>3, <3>4
    <3> QED
      BY <3>2, <3>3, <3>5
  <2> QED
    BY <1>1, <1>3, <2>2, <2>3, <2>4
<1> QED
  BY <1>6, <1>7

(* A purchase that stops at the target.                                    *)
LEMMA BoughtRInv ==
  ASSUME RInv, IInv', phase = "buy", phase' = "buy", UNCHANGED <<bar, mark, value, targets>>,
         NEW a \in Assets, Open(a), NEW qty \in Nat, NEW price, price = bar[a].open,
         shares' = [shares EXCEPT ![a] = @ + qty * Den],
         cash' = cash - Required(qty, price),
         Excess(a, price) + qty * Market(W, price) <= 0
  PROVE  WorthInv' /\ DriftInv'
<1>1. /\ TypeOK /\ NoLeverage /\ value \in Nat /\ price \in Nat \ {0}
      /\ \A b \in Assets : Drift(b)
  BY PriceAtNat DEF RInv, IInv, WorthInv, DriftInv, Rebalancing, TypeOK
<1> DEFINE paid == Slippage(qty, price) + Commission("BUY", qty, price)
<1>2. /\ Gross("BUY", qty, price) \in Nat /\ Commission("BUY", qty, price) \in Nat
      /\ Slippage(qty, price) \in Nat /\ Market(qty, price) \in Nat
      /\ Gross("BUY", qty, price) = Market(qty, price) + Slippage(qty, price)
  <2>1. "BUY" \in {"BUY", "SELL"}
    OBVIOUS
  <2> QED
    BY <1>1, <2>1, FillAmounts, FillDecomposition
<1>3. cash' = cash - Market(qty, bar[a].open) - paid /\ paid \in Nat /\ qty \in Int
  BY <1>1, <1>2 DEF TypeOK, Required
<1> HIDE DEF paid
<1>4. /\ value >= 0 /\ value' >= Worth'[N]
      /\ \A b \in Assets : b # a => (Drift(b)' <=> Drift(b))
      /\ Excess(a, bar[a].open)' = Excess(a, bar[a].open) + qty * Market(W, bar[a].open)
  BY <1>3, TradeRInv
<1>5. Drift(a)'
  <2>1. Excess(a, bar[a].open)' <= 0
    BY <1>4
  <2>2. bar' = bar /\ Minimum \in Nat /\ Excess(a, bar[a].open)' \in Int
    <3> DEFINE traded == Market(W, price)
    <3>1. traded \in Int
      BY <1>1, MarketLinear
    <3>2. Excess(a, price) \in Int
      BY <1>1, ExcessInt
    <3> HIDE DEF traded
    <3>3. qty * traded \in Int
      BY <3>1, ProductInt
    <3>4. Excess(a, price) + qty * traded \in Int
      BY <3>2, <3>3
    <3>5. Excess(a, bar[a].open)' = Excess(a, price) + qty * traded
      BY <1>4 DEF traded
    <3> QED
      BY <3>4, <3>5, MinimumNat
  <2>3. Excess(a, bar[a].open)' <= Minimum
    BY <2>1, <2>2
  <2> QED
    BY <2>2, <2>3 DEF Drift
<1> QED
  BY <1>1, <1>4, <1>5 DEF WorthInv, DriftInv

LEMMA BuyRInv ==
  ASSUME RInv, Buy, IInv'
  PROVE  WorthInv' /\ DriftInv'
<1>1. /\ phase = "buy" /\ phase' = "buy" /\ k \in Assets
      /\ UNCHANGED <<bar, mark, value, targets>>
  BY SharedCashAssumption DEF Buy, RInv, IInv, TypeOK, Assets, session, plan
<1>2. PICK a \in Assets : a = k
  BY <1>1
<1>3. TypeOK /\ NoLeverage
  BY DEF RInv, IInv
<1> DEFINE price == bar[a].open
           qty   == IF Open(a) THEN BuyQuantity(a, price) ELSE 0
<1>4. CASE qty > 0
  <2>1. Open(a) /\ qty = BuyQuantity(a, price)
    BY <1>4
  <2>2. qty \in Nat /\ price \in Nat \ {0}
    BY <1>3, <1>4, <2>1, BuyFits
  <2>3. /\ shares' = [shares EXCEPT ![a] = @ + qty * Den]
        /\ cash' = cash - Required(qty, price)
    BY <1>2, <1>4 DEF Buy
  <2>4. Excess(a, price) + qty * Market(W, price) <= 0
    BY <1>3, <1>4, <2>1, <2>2, BuyStopsAtTarget
  <2> HIDE DEF qty
  <2> QED
    BY <1>1, <2>1, <2>2, <2>3, <2>4, BoughtRInv
<1>5. CASE ~ (qty > 0)
  <2>1. UNCHANGED <<shares, cash>>
    BY <1>2, <1>5 DEF Buy
  <2>2. Worth' = Worth
    BY <1>1, <2>1, WorthKept
  <2>3. \A b \in Assets : Drift(b)' = Drift(b)
    BY <1>1, <2>1, DriftKept
  <2> QED
    BY <1>1, <2>2, <2>3 DEF RInv, WorthInv, DriftInv, Rebalancing
<1> QED
  BY <1>4, <1>5

(* The steps between the loops.                                            *)
LEMMA LoopsRInv ==
  ASSUME RInv, IInv', StartRebalance \/ StartSells \/ StartBuys \/ FinishBuys
  PROVE  WorthInv' /\ DriftInv'
<1>1. UNCHANGED <<bar, mark, shares, cash>> /\ N \in Nat \ {0}
  BY SharedCashAssumption DEF StartRebalance, StartSells, StartBuys, FinishBuys, session
<1>2. Worth' = Worth /\ TypeOK /\ NoLeverage
  BY <1>1, WorthKept DEF RInv, IInv
<1>3. CASE StartRebalance
  <2>1. k = 1 /\ k' = k /\ phase' = "value" /\ value' = cash
    BY <1>3 DEF StartRebalance, RInv, WorthInv
  <2>2. Worth[0] = cash /\ cash >= 0
    BY <1>2, WorthSteps DEF NoLeverage
  <2> QED
    BY <1>2, <2>1, <2>2 DEF WorthInv, DriftInv
<1>4. CASE StartSells
  <2>1. phase = "value" /\ k = N + 1 /\ phase' = "sell" /\ k' = 1 /\ value' = value
    BY <1>4 DEF StartSells
  <2>2. value = Worth[N] /\ value >= 0
    BY <1>1, <2>1 DEF RInv, WorthInv, Rebalancing
  <2>3. Worth[N] \in Int
    BY <1>1, <1>2, WorthSteps
  <2>4. DriftInv'
    BY <2>1 DEF DriftInv, Assets
  <2> QED
    BY <1>2, <2>1, <2>2, <2>3, <2>4 DEF WorthInv
<1>5. CASE StartBuys
  <2>1. /\ phase = "sell" /\ k = N + 1 /\ phase' = "buy" /\ value' = value /\ targets' = targets
    BY <1>5 DEF StartBuys, plan
  <2>2. \A a \in Assets : Drift(a)
    BY <1>1, <2>1 DEF RInv, DriftInv, Assets
  <2>3. \A a \in Assets : Drift(a)' = Drift(a)
    BY <1>1, <2>1, DriftKept
  <2> QED
    BY <1>2, <2>1, <2>2, <2>3 DEF RInv, WorthInv, DriftInv, Rebalancing
<1>6. CASE FinishBuys
  <2>1. phase = "buy" /\ phase' = "finish" /\ value' = value /\ targets' = targets
    BY <1>6 DEF FinishBuys, plan
  <2>2. \A a \in Assets : Drift(a)' = Drift(a)
    BY <1>1, <2>1, DriftKept
  <2> QED
    BY <1>2, <2>1, <2>2 DEF RInv, WorthInv, DriftInv, Rebalancing
<1> QED
  BY <1>3, <1>4, <1>5, <1>6

LEMMA StepRInv == RInv /\ [Next]_vars => RInv'
<1> SUFFICES ASSUME RInv, [Next]_vars PROVE RInv'
  OBVIOUS
<1>1. IInv'
  BY StepIInv DEF RInv
<1>2. CASE Value
  BY <1>1, <1>2, ValueRInv DEF RInv
<1>3. CASE Sell
  BY <1>1, <1>3, SellRInv DEF RInv
<1>4. CASE Buy
  BY <1>1, <1>4, BuyRInv DEF RInv
<1>5. CASE StartRebalance \/ StartSells \/ StartBuys \/ FinishBuys
  BY <1>1, <1>5, LoopsRInv DEF RInv
<1>6. CASE NextSession \/ CorporateAction \/ StartDay \/ Defer \/ RecordRebalance
             \/ MarkPosition \/ CloseSession
  <2>1. phase' \in {"session", "actions", "mark", "error"} \/ (phase' = "decide" /\ k' = 1)
    BY <1>6 DEF NextSession, CorporateAction, StartDay, Defer, RecordRebalance,
                MarkPosition, CloseSession
  <2> QED
    BY <1>1, <2>1 DEF RInv, WorthInv, DriftInv, Rebalancing
<1>7. CASE UNCHANGED vars
  <2>1. /\ UNCHANGED <<bar, mark, shares, cash>> /\ UNCHANGED <<bar, shares, value, targets>>
        /\ phase' = phase /\ k' = k
    BY <1>7 DEF vars, session, plan
  <2>2. Worth' = Worth
    BY <2>1, WorthKept
  <2>3. \A a \in Assets : Drift(a)' = Drift(a)
    BY <2>1, DriftKept
  <2> QED
    BY <1>1, <2>1, <2>2, <2>3 DEF RInv, WorthInv, DriftInv, Rebalancing
<1> QED
  BY <1>2, <1>3, <1>4, <1>5, <1>6, <1>7 DEF Next

THEOREM SharedCashRebalanceInvariant == Spec => []RInv
<1>1. Init => RInv
  BY InitIInv DEF RInv, Init, WorthInv, DriftInv, Rebalancing
<1> QED
  BY <1>1, StepRInv, PTL DEF Spec

(* What a rebalance values the account at is its worth at the prices it    *)
(* trades at, for any number of assets, and no trade raises it.            *)
THEOREM SharedCashRebalanceConserves == Spec => []RebalanceConserves
<1>1. RInv => RebalanceConserves
  BY DEF RInv, WorthInv, RebalanceConserves
<1> QED
  BY <1>1, SharedCashRebalanceInvariant, PTL

(* After a rebalance no open asset is a share or more above its target, or *)
(* it is by less than the minimum trade.                                   *)
THEOREM SharedCashDriftBounded == Spec => []DriftBounded
<1>1. RInv => DriftBounded
  BY DEF RInv, DriftInv, Drift, DriftBounded
<1> QED
  BY <1>1, SharedCashRebalanceInvariant, PTL

-----------------------------------------------------------------------------
(* The legacy path.  Its steps that are not steps of SharedCash are the    *)
(* session of common dates and the purchase of a planned quantity; the     *)
(* plan, scaled down by one factor, is shown to stop at the targets.       *)

(* The legacy path ignores corporate actions and never defers, because all *)
(* assets trade on a common date; and no planned purchase passes the       *)
(* target of its asset.                                                    *)
PlanInv ==
  phase = "buy" => \A a \in Assets :
    a >= k => \/ planned[a] = 0
              \/ Excess(a, bar[a].open) + planned[a] * Market(W, bar[a].open) <= 0

LegacyInv ==
  /\ mode \in {"union", "weekly", "monthly"}
  /\ planned \in [Assets -> Nat]
  /\ Legacy => /\ ~ raw /\ policy = "defer" /\ deferred = NoDeferral
               /\ phase # "session" => AllOpen
               /\ PlanInv

PInv == RInv /\ LegacyInv

-----------------------------------------------------------------------------
LEMMA InitPInv == PortfolioInit => PInv
<1> SUFFICES ASSUME PortfolioInit PROVE PInv
  OBVIOUS
<1>1. RInv
  BY InitIInv DEF PortfolioInit, RInv, Init, WorthInv, DriftInv, Rebalancing
<1>2. LegacyInv
  BY DEF PortfolioInit, Init, LegacyInv, PlanInv, Legacy, NoPlan
<1> QED
  BY <1>1, <1>2 DEF PInv

(* The session of a common date: every asset has a bar, no mark is old.    *)
LEMMA LegacySessionPInv ==
  ASSUME PInv, Legacy, LegacySession
  PROVE  PInv'
<1>1. /\ phase = "session" /\ phase' = "actions" /\ d < MaxSessions /\ d' = d + 1
      /\ k' = N + 1 /\ bar' \in [Assets -> Bars] /\ due' \in LegacyDue
      /\ mark' = [a \in Assets |-> bar'[a].close]
      /\ UNCHANGED <<config, shares, cash, plan, value, holdings, equity, ledger, kept>>
  BY DEF LegacySession
<1>2. IInv /\ d \in Nat /\ last.executed \in Nat
  BY DEF PInv, RInv, IInv, TypeOK, NoRecord
<1>3. NoLeverage' /\ CashExplained'
  BY <1>1, <1>2, AccountKept
<1>4. \A a \in Assets : bar'[a] # Closed /\ bar'[a].close \in Nat
  BY <1>1, SharedCashAssumption DEF BarsOK, Closed
<1>5. due' \in BOOLEAN /\ (due' => d # 0)
  <2>1. LegacyDue \subseteq BOOLEAN
    BY DEF LegacyDue
  <2>2. d = 0 => LegacyDue = {FALSE}
    BY DEF LegacyDue
  <2> QED
    BY <1>1, <2>1, <2>2
<1>6. TypeOK'
  <2>1. d' \in 0 .. MaxSessions /\ k' \in 1 .. N + 1
    BY <1>1, <1>2, SharedCashAssumption DEF IInv, TypeOK
  <2>2. bar' \in [Assets -> Bars \cup {Closed}] /\ mark' \in [Assets -> Nat]
    BY <1>1, <1>4
  <2> QED
    BY <1>1, <1>2, <1>5, <2>1, <2>2 DEF IInv, TypeOK, config, plan, ledger
<1>7. PhaseInv'
  BY <1>1, <1>2, <1>5 DEF IInv, PhaseInv, Rebalancing, plan
<1>8. DeferralInv' /\ CurrentInv'
  BY <1>1, Zenon DEF PInv, LegacyInv, DeferralInv, CurrentInv, Rebalancing, plan
<1>9. WorthInv' /\ DriftInv'
  BY <1>1 DEF WorthInv, DriftInv, Rebalancing
<1>10. AllOpen'
  BY <1>4 DEF AllOpen, Open
<1>11. LegacyInv'
  BY <1>1, <1>10 DEF PInv, LegacyInv, Legacy, PlanInv, kept, config, plan
<1> QED
  BY <1>2, <1>3, <1>6, <1>7, <1>8, <1>9, <1>11 DEF PInv, RInv, IInv

(* The steps the legacy path has from run_union outside its purchases.     *)
LEMMA LegacyKeptPInv ==
  ASSUME PInv, Legacy, LegacyRebalance \/ LegacyValue \/ LegacySell \/ LegacyClose
  PROVE  PInv'
<1>1. Next /\ UNCHANGED kept /\ UNCHANGED <<raw, policy, bar, deferred>>
  BY DEF LegacyRebalance, LegacyValue, LegacySell, LegacyClose, Next, StartDay, StartRebalance,
         Value, StartSells, Sell, MarkPosition, CloseSession, config, session, plan
<1>2. phase # "session" /\ phase' # "buy"
  BY DEF LegacyRebalance, LegacyValue, LegacySell, LegacyClose, StartDay, StartRebalance,
         Value, StartSells, Sell, MarkPosition, CloseSession
<1>3. RInv'
  BY <1>1, StepRInv DEF PInv
<1>4. AllOpen' /\ PlanInv'
  BY <1>1, <1>2 DEF PInv, LegacyInv, AllOpen, Open, PlanInv
<1> QED
  BY <1>1, <1>3, <1>4 DEF PInv, LegacyInv, Legacy, kept

LEMMA LegacyRecordPInv ==
  ASSUME PInv, Legacy, LegacyRecord
  PROVE  PInv'
<1>1. Next /\ mode' = mode /\ UNCHANGED <<raw, policy, bar>> /\ planned' = NoPlan
  BY DEF LegacyRecord, Next, FinishBuys, RecordRebalance, config, session
<1>2. phase # "session" /\ phase' # "buy" /\ (deferred' = deferred \/ deferred' = NoDeferral)
  BY DEF LegacyRecord, FinishBuys, RecordRebalance, plan
<1>3. RInv'
  BY <1>1, StepRInv DEF PInv
<1>4. AllOpen' /\ PlanInv' /\ planned' \in [Assets -> Nat]
  BY <1>1, <1>2 DEF PInv, LegacyInv, AllOpen, Open, PlanInv, NoPlan
<1> QED
  BY <1>1, <1>2, <1>3, <1>4 DEF PInv, LegacyInv, Legacy

-----------------------------------------------------------------------------
(* The plan *)

(* A desired quantity, bought at the bar's open, stops at the target.      *)
LEMMA DesiredStopsAtTarget ==
  ASSUME TypeOK, NEW a \in Assets, Open(a), NEW price, price = bar[a].open
  PROVE  /\ price \in Nat \ {0} /\ DesiredBuy(a) \in Nat
         /\ \/ DesiredBuy(a) = 0
            \/ Excess(a, price) + DesiredBuy(a) * Market(W, price) <= 0
<1> DEFINE desired == 0 - Excess(a, price)
           qty     == desired \div Required(W, price)
<1>1. price \in Nat \ {0} /\ price \in Nat
  BY SharedCashAssumption DEF TypeOK, Open, BarsOK
<1>2. /\ Excess(a, price) \in Int /\ Market(W, price) \in Nat \ {0} /\ Minimum \in Nat
      /\ Required(W, price) \in Nat \ {0}
  <2>1. 0 \in Nat
    OBVIOUS
  <2> QED
    BY <1>1, <2>1, ExcessInt, MarketLinear, MinimumNat, RequiredLinear
<1>3. CASE desired <= Minimum
  BY <1>1, <1>3 DEF DesiredBuy
<1>4. CASE ~ (desired <= Minimum)
  <2>1. DesiredBuy(a) = qty
    BY <1>4 DEF DesiredBuy
  <2>2. desired \in Nat
    BY <1>2, <1>4
  <2> HIDE DEF desired
  <2>3. qty \in Nat /\ qty * Required(W, price) <= desired
    BY <1>2, <2>2, QuotientNat, QuotientFits
  <2> HIDE DEF qty
  <2>4. Market(W, price) <= Required(W, price)
    BY <1>1, MarketBelowRequired
  <2>5. qty * Market(W, price) <= qty * Required(W, price)
    BY <1>2, <2>3, <2>4, ProductMonotone
  <2>6. qty * Market(W, price) \in Int /\ qty * Required(W, price) \in Int
    BY <1>2, <2>3, ProductInt
  <2>7. Excess(a, price) + qty * Market(W, price) <= 0
    BY <1>2, <2>2, <2>3, <2>5, <2>6 DEF desired
  <2> QED
    BY <1>1, <2>1, <2>3, <2>7
<1> QED
  BY <1>3, <1>4

LEMMA RequiredCashNat ==
  ASSUME TypeOK, AllOpen
  PROVE  RequiredCash[N] \in Nat
<1> DEFINE need == [a \in Assets |-> Required(DesiredBuy(a), bar[a].open)]
<1>1. IsSum(RequiredCash, 0, need, N)
  <2>1. \E sum : IsSum(sum, 0, need, N)
    BY SumExists, SharedCashAssumption
  <2>2. \A sum : IsSum(sum, 0, need, N)
          <=> sum = [n \in 0 .. N |->
                IF n = 0 THEN 0 ELSE sum[n - 1] + Required(DesiredBuy(n), bar[n].open)]
    <3> SUFFICES ASSUME NEW sum
        PROVE  [n \in 0 .. N |-> IF n = 0 THEN 0 ELSE sum[n - 1] + need[n]]
               = [n \in 0 .. N |-> IF n = 0 THEN 0
                                  ELSE sum[n - 1] + Required(DesiredBuy(n), bar[n].open)]
      BY DEF IsSum
    <3>1. \A n \in 0 .. N : n # 0 => need[n] = Required(DesiredBuy(n), bar[n].open)
      BY SharedCashAssumption DEF Assets
    <3> HIDE DEF need
    <3> QED
      BY <3>1
  <2> QED
    BY <2>1, <2>2, Zenon DEF RequiredCash
<1>2. \A a \in 1 .. N : need[a] \in Nat
  <2> SUFFICES ASSUME NEW a \in Assets PROVE Required(DesiredBuy(a), bar[a].open) \in Nat
    BY DEF Assets
  <2>1. DesiredBuy(a) \in Nat /\ bar[a].open \in Nat \ {0} /\ "BUY" \in {"BUY", "SELL"}
    BY DesiredStopsAtTarget DEF AllOpen
  <2>2. /\ Gross("BUY", DesiredBuy(a), bar[a].open) \in Nat
        /\ Commission("BUY", DesiredBuy(a), bar[a].open) \in Nat
    BY <2>1, FillAmounts
  <2> QED
    BY <2>2 DEF Required
<1> HIDE DEF need
<1> QED
  BY <1>1, <1>2, SumType, SharedCashAssumption

(* Scaling to the cash never plans more than was desired.                  *)
LEMMA ScaledDown ==
  ASSUME NEW x \in Nat, NEW c \in Nat, NEW n \in Nat, n > c
  PROVE  (x * c) \div n \in Nat /\ (x * c) \div n <= x
<1>1. /\ n \in Nat \ {0} /\ x * c \in Nat /\ x * n \in Nat /\ x * c <= x * n
  BY ProductNat, ProductMonotone
<1>2. (x * c) \div n \in Nat /\ ((x * c) \div n) * n <= x * c
  BY <1>1, QuotientNat, QuotientFits
<1>3. \A q \in Nat : q * n <= x * n => q <= x
  <2> SUFFICES ASSUME NEW q \in Nat, q >= x + 1 PROVE q * n > x * n
    OBVIOUS
  <2>1. (x + 1) * n <= q * n /\ (x + 1) * n = x * n + n
    OBVIOUS
  <2> QED
    BY <1>1, <2>1, ProductNat
<1> QED
  BY <1>1, <1>2, <1>3, ProductNat

LEMMA PlanBuysPInv ==
  ASSUME PInv, Legacy, PlanBuys
  PROVE  PInv'
<1>1. Next /\ mode' = mode /\ UNCHANGED <<raw, policy, bar, deferred, shares, value, targets>>
  BY DEF PlanBuys, Next, StartBuys, config, session, plan
<1>2. phase = "sell" /\ TypeOK /\ AllOpen /\ cash \in Nat
  BY DEF PlanBuys, PInv, RInv, IInv, TypeOK, NoLeverage, LegacyInv
<1>3. RInv'
  BY <1>1, StepRInv DEF PInv
<1>4. \A a \in Assets : planned'[a] \in Nat /\ planned'[a] <= DesiredBuy(a)
  <2> TAKE a \in Assets
  <2>1. DesiredBuy(a) \in Nat /\ RequiredCash[N] \in Nat
    BY <1>2, DesiredStopsAtTarget, RequiredCashNat DEF AllOpen
  <2>2. planned'[a] = IF RequiredCash[N] > cash THEN (DesiredBuy(a) * cash) \div RequiredCash[N]
                                                ELSE DesiredBuy(a)
    BY DEF PlanBuys
  <2> QED
    BY <1>2, <2>1, <2>2, ScaledDown
<1>5. planned' \in [Assets -> Nat]
  <2>1. planned' = [a \in Assets |-> planned'[a]]
    BY DEF PlanBuys
  <2> QED
    BY <1>4, <2>1
<1>6. PlanInv'
  <2>1. \A a \in Assets : \/ planned'[a] = 0
                          \/ Excess(a, bar[a].open) + planned'[a] * Market(W, bar[a].open) <= 0
    <3> TAKE a \in Assets
    <3> DEFINE price == bar[a].open
    <3>1. /\ price \in Nat \ {0} /\ DesiredBuy(a) \in Nat
          /\ \/ DesiredBuy(a) = 0
             \/ Excess(a, price) + DesiredBuy(a) * Market(W, price) <= 0
      BY <1>2, DesiredStopsAtTarget DEF AllOpen
    <3>2. Excess(a, price) \in Int /\ Market(W, price) \in Nat
      BY <1>2, <3>1, ExcessInt, MarketLinear
    <3> HIDE DEF price
    <3>3. planned'[a] * Market(W, price) <= DesiredBuy(a) * Market(W, price)
      <4>1. \A x, y, m \in Nat : x <= y => x * m <= y * m
        OBVIOUS
      <4> QED
        BY <1>4, <3>1, <3>2, <4>1
    <3>4. planned'[a] * Market(W, price) \in Int /\ DesiredBuy(a) * Market(W, price) \in Int
      BY <1>4, <3>1, <3>2, ProductInt
    <3>5. planned'[a] \in Nat /\ planned'[a] <= DesiredBuy(a)
      BY <1>4
    <3> QED
      BY <3>1, <3>2, <3>3, <3>4, <3>5 DEF price
  <2>2. \A a \in Assets : (Excess(a, bar[a].open))' = Excess(a, bar[a].open)
    BY <1>1 DEF Excess
  <2>3. \A a \in Assets : (Market(W, bar[a].open))' = Market(W, bar[a].open)
    BY <1>1 DEF Market
  <2> QED
    BY <2>1, <2>2, <2>3 DEF PlanInv
<1>7. AllOpen'
  BY <1>1, <1>2 DEF AllOpen, Open
<1> QED
  BY <1>1, <1>2, <1>3, <1>5, <1>6, <1>7 DEF PInv, LegacyInv, Legacy

-----------------------------------------------------------------------------
(* A planned purchase, or what the cash still buys of it, is affordable    *)
(* and stops at the target.                                                *)
LEMMA PlannedFits ==
  ASSUME PInv, Legacy, phase = "buy", NEW a \in Assets, a = k,
         NEW price, price = bar[a].open,
         NEW qty, qty = IF Required(planned[a], price) > cash
                        THEN cash \div Required(1, price) ELSE planned[a]
  PROVE  /\ Open(a) /\ price \in Nat \ {0} /\ qty \in Nat /\ Required(qty, price) <= cash
         /\ qty > 0 => Excess(a, price) + qty * Market(W, price) <= 0
<1>1. /\ TypeOK /\ Open(a) /\ price \in Nat \ {0} /\ planned[a] \in Nat /\ cash \in Nat
      /\ \/ planned[a] = 0
         \/ Excess(a, price) + planned[a] * Market(W, price) <= 0
  <2>1. TypeOK /\ Open(a) /\ planned[a] \in Nat /\ cash \in Nat /\ k \in Int
    BY DEF PInv, RInv, IInv, TypeOK, NoLeverage, LegacyInv, AllOpen
  <2>2. bar[a].open \in Nat \ {0}
    BY <2>1, PriceAtNat
  <2> QED
    BY <2>1, <2>2 DEF PInv, LegacyInv, PlanInv
<1>2. /\ Required(1, price) \in Nat \ {0}
      /\ Required(planned[a], price) = planned[a] * Required(1, price)
  BY <1>1, RequiredLinear
<1>3. qty \in Nat /\ qty <= planned[a] /\ Required(qty, price) <= cash
  <2>1. CASE Required(planned[a], price) > cash
    <3>1. qty \in Nat /\ qty <= planned[a] /\ qty * Required(1, price) <= cash
      BY <1>1, <1>2, <2>1, QuotientNat, QuotientFits, QuotientBelow
    <3> QED
      BY <1>1, <3>1, RequiredLinear
  <2>2. CASE ~ (Required(planned[a], price) > cash)
    <3>1. Required(planned[a], price) \in Int
      BY <1>1, <1>2, ProductInt
    <3> QED
      BY <1>1, <2>2, <3>1
  <2> QED
    BY <2>1, <2>2
<1>4. ASSUME qty > 0 PROVE Excess(a, price) + qty * Market(W, price) <= 0
  <2>1. Excess(a, price) + planned[a] * Market(W, price) <= 0
    BY <1>1, <1>3, <1>4
  <2>2. Excess(a, price) \in Int /\ Market(W, price) \in Nat
    BY <1>1, ExcessInt, MarketLinear
  <2>3. qty * Market(W, price) <= planned[a] * Market(W, price)
    <3>1. \A x, y, m \in Nat : x <= y => x * m <= y * m
      OBVIOUS
    <3> QED
      BY <1>1, <1>3, <2>2, <3>1
  <2>4. qty * Market(W, price) \in Int /\ planned[a] * Market(W, price) \in Int
    BY <1>1, <1>3, <2>2, ProductInt
  <2> QED
    BY <2>1, <2>2, <2>3, <2>4
<1> QED
  BY <1>1, <1>3, <1>4

LEMMA LegacyBuyPInv ==
  ASSUME PInv, Legacy, LegacyBuy
  PROVE  PInv'
<1>1. /\ phase = "buy" /\ phase' = "buy" /\ k \in Assets /\ k' = k + 1 /\ k' \in 1 .. N + 1
      /\ UNCHANGED <<config, session, phase, plan, value, holdings, equity, income, kept>>
      /\ UNCHANGED <<bar, mark, value, targets>>
  BY SharedCashAssumption DEF LegacyBuy, PInv, RInv, IInv, TypeOK, Assets, session, plan
<1>2. PICK a \in Assets : a = k
  BY <1>1
<1> DEFINE price == bar[a].open
           qty   == IF Required(planned[a], price) > cash
                    THEN cash \div Required(1, price) ELSE planned[a]
<1>3. /\ Open(a) /\ price \in Nat \ {0} /\ qty \in Nat /\ Required(qty, price) <= cash
      /\ qty > 0 => Excess(a, price) + qty * Market(W, price) <= 0
  BY <1>1, <1>2, PlannedFits
<1>4. IF qty > 0
      THEN /\ shares' = [shares EXCEPT ![a] = @ + qty * Den]
           /\ cash' = cash - Required(qty, price)
           /\ flows' = flows - Market(qty, price)
           /\ costs' = costs + Commission("BUY", qty, price) + Slippage(qty, price)
      ELSE UNCHANGED <<shares, cash, flows, costs>>
  BY <1>2 DEF LegacyBuy
<1> HIDE DEF qty
<1>5. IInv'
  <2>1. /\ shares' \in [Assets -> Int] /\ cash' \in Int /\ flows' \in Int /\ costs' \in Int
        /\ NoLeverage' /\ CashExplained'
    <3>1. CASE qty > 0
      <4> HIDE DEF price
      <4> QED
        BY <1>1, <1>3, <1>4, <3>1, BoughtAccount DEF PInv, RInv
    <3>2. CASE ~ (qty > 0)
      <4>1. UNCHANGED <<shares, cash, ledger>>
        BY <1>1, <1>4, <3>2 DEF ledger
      <4> QED
        BY <4>1, AccountKept DEF PInv, RInv, IInv, TypeOK, ledger
    <3> QED
      BY <3>1, <3>2
  <2>2. TypeOK'
    BY <1>1, <2>1 DEF PInv, RInv, IInv, TypeOK, config, session, plan
  <2>3. PhaseInv' /\ DeferralInv' /\ CurrentInv'
    BY <1>1, PlanKept DEF PInv, RInv, Rebalancing
  <2> QED
    BY <2>1, <2>2, <2>3 DEF IInv
<1>6. WorthInv' /\ DriftInv'
  <2>1. CASE qty > 0
    <3>1. /\ shares' = [shares EXCEPT ![a] = @ + qty * Den]
          /\ cash' = cash - Required(qty, price)
          /\ Excess(a, price) + qty * Market(W, price) <= 0
      BY <1>3, <1>4, <2>1
    <3> QED
      BY <1>1, <1>3, <1>5, <3>1, BoughtRInv DEF PInv
  <2>2. CASE ~ (qty > 0)
    <3>1. UNCHANGED <<shares, cash>>
      BY <1>4, <2>2
    <3>2. Worth' = Worth
      BY <1>1, <3>1, WorthKept
    <3>3. \A b \in Assets : Drift(b)' = Drift(b)
      BY <1>1, <3>1, DriftKept
    <3> QED
      BY <1>1, <3>2, <3>3 DEF PInv, RInv, WorthInv, DriftInv, Rebalancing
  <2> QED
    BY <2>1, <2>2
<1>7. PlanInv'
  <2> SUFFICES ASSUME NEW b \in Assets, b >= k'
               PROVE  \/ planned'[b] = 0
                      \/ (Excess(b, bar[b].open))' + planned'[b] * (Market(W, bar[b].open))' <= 0
    BY DEF PlanInv
  <2>1. b # a /\ b >= k /\ planned' = planned
    BY <1>1, <1>2, SharedCashAssumption DEF Assets, kept
  <2>2. shares'[b] = shares[b]
    <3>1. shares \in [Assets -> Int]
      BY DEF PInv, RInv, IInv, TypeOK
    <3> QED
      BY <1>4, <2>1, <3>1
  <2>3. (Excess(b, bar[b].open))' = Excess(b, bar[b].open)
    BY <1>1, <2>2 DEF Excess
  <2>4. (Market(W, bar[b].open))' = Market(W, bar[b].open)
    BY <1>1 DEF Market
  <2> QED
    BY <1>1, <2>1, <2>3, <2>4 DEF PInv, LegacyInv, PlanInv
<1>8. AllOpen' /\ UNCHANGED <<raw, policy, deferred, planned, mode>>
  BY <1>1 DEF PInv, LegacyInv, AllOpen, Open, config, plan, kept
<1> QED
  BY <1>1, <1>5, <1>6, <1>7, <1>8 DEF PInv, RInv, LegacyInv, Legacy

-----------------------------------------------------------------------------
LEMMA StepPInv == PInv /\ [PortfolioNext]_portfolio => PInv'
<1> SUFFICES ASSUME PInv, [PortfolioNext]_portfolio PROVE PInv'
  OBVIOUS
<1>1. CASE UnionStep
  <2>1. RInv' /\ UNCHANGED kept /\ ~ Legacy
    BY <1>1, StepRInv DEF UnionStep, PInv
  <2> QED
    BY <2>1 DEF PInv, LegacyInv, Legacy, kept
<1>2. CASE LegacyStep
  BY <1>2, LegacySessionPInv, LegacyKeptPInv, PlanBuysPInv, LegacyBuyPInv, LegacyRecordPInv
     DEF LegacyStep
<1>3. CASE UNCHANGED portfolio
  <2>1. RInv' /\ UNCHANGED <<raw, policy, deferred, phase, k, bar, shares, value, targets, kept>>
    BY <1>3, StepRInv DEF portfolio, vars, config, session, plan, PInv, kept
  <2>2. \A a \in Assets : (Excess(a, bar[a].open))' = Excess(a, bar[a].open)
    BY <2>1 DEF Excess
  <2>3. \A a \in Assets : (Market(W, bar[a].open))' = Market(W, bar[a].open)
    BY <2>1 DEF Market
  <2>4. AllOpen' = AllOpen
    BY <2>1 DEF AllOpen, Open
  <2> QED
    BY <2>1, <2>2, <2>3, <2>4 DEF PInv, LegacyInv, Legacy, PlanInv, kept
<1> QED
  BY <1>1, <1>2, <1>3 DEF PortfolioNext

THEOREM PortfolioInvariant == PortfolioSpec => []PInv
BY InitPInv, StepPInv, PTL DEF PortfolioSpec

(* Neither calendar's portfolio overdraws its cash or holds less than no   *)
(* shares: scaling all purchases by one factor and cutting what still does *)
(* not fit is enough, as is cutting one after the other.                   *)
THEOREM PortfolioNoLeverage == PortfolioSpec => []NoLeverage
<1>1. PInv => NoLeverage
  BY DEF PInv, RInv, IInv
<1> QED
  BY <1>1, PortfolioInvariant, PTL

(* Under either calendar the cash is the capital plus fills at bar prices  *)
(* and dividends, less the recorded costs.                                 *)
THEOREM PortfolioExplained == PortfolioSpec => []CashExplained
<1>1. PInv => CashExplained
  BY DEF PInv, RInv, IInv
<1> QED
  BY <1>1, PortfolioInvariant, PTL

(* The valuation of a rebalance is the worth of the account at the prices  *)
(* it trades at, and no trade raises it, on either path.                   *)
THEOREM PortfolioRebalanceConserves == PortfolioSpec => []RebalanceConserves
<1>1. PInv => RebalanceConserves
  BY DEF PInv, RInv, WorthInv, RebalanceConserves
<1> QED
  BY <1>1, PortfolioInvariant, PTL

(* Scaled plans pass no target either: after a rebalance of either path no *)
(* open asset is a share or more above its target.                         *)
THEOREM PortfolioDriftBounded == PortfolioSpec => []DriftBounded
<1>1. PInv => DriftBounded
  BY DEF PInv, RInv, DriftInv, Drift, DriftBounded
<1> QED
  BY <1>1, PortfolioInvariant, PTL

(* Only the union calendar's defer policy leaves a rebalance waiting, and  *)
(* only while some asset is closed.                                        *)
THEOREM PortfolioDeferredOnlyWhileClosed == PortfolioSpec => []DeferredOnlyWhileClosed
<1>1. PInv => DeferredOnlyWhileClosed
  BY DEF PInv, RInv, IInv, DeferralInv, DeferredOnlyWhileClosed
<1> QED
  BY <1>1, PortfolioInvariant, PTL

(* The steps of the legacy path are steps of the union calendar's, or      *)
(* leave what is decided, deferred and recorded alone.                     *)
LEMMA StepsOfThePlan == [PortfolioNext]_portfolio => Next \/ UNCHANGED plan
BY DEF PortfolioNext, UnionStep, LegacyStep, LegacySession, LegacyRebalance, LegacyValue,
       LegacySell, PlanBuys, LegacyBuy, LegacyRecord, LegacyClose, Next, portfolio, vars

(* A deferral changes only by being executed, with the targets and the     *)
(* decision it was made with, whichever path runs.                         *)
THEOREM PortfolioFrozenTargets == PortfolioSpec => FrozenTargets
<1>1. PInv /\ [PortfolioNext]_portfolio =>
        [deferred # NoDeferral /\ deferred' # deferred =>
           /\ last'.executed = d
           /\ last'.scheduled = deferred.scheduled /\ last'.decision = deferred.decision
           /\ targets = deferred.targets]_vars
  BY StepsOfThePlan, FrozenTargetsStep DEF PInv, RInv, plan
<1> QED
  BY <1>1, PortfolioInvariant, PTL DEF PortfolioSpec, FrozenTargets

(* Every rebalance of either path is decided on the session before its     *)
(* schedule point, before it is executed, and not before the last one was. *)
THEOREM PortfolioDecisionsInOrder == PortfolioSpec => DecisionsInOrder
<1>1. PInv /\ [PortfolioNext]_portfolio =>
        [last' # last =>
           /\ last'.scheduled = last'.decision + 1
           /\ last'.decision < last'.executed
           /\ last'.decision >= last.executed]_vars
  BY StepsOfThePlan, DecisionsInOrderStep DEF PInv, RInv, plan
<1> QED
  BY <1>1, PortfolioInvariant, PTL DEF PortfolioSpec, DecisionsInOrder

-----------------------------------------------------------------------------
(* Attribution: the sums of the recorded amounts *)

LEMMA TotalIsSum ==
  ASSUME NEW f, NEW n \in Nat
  PROVE  \E sum : IsSum(sum, 0, f, n) /\ SumTo(f, n) = sum[n]
<1> DEFINE loop == CHOOSE sum : sum = [j \in 0 .. n |-> IF j = 0 THEN 0 ELSE sum[j - 1] + f[j]]
<1>1. SumTo(f, n) = loop[n]
  BY Zenon DEF SumTo
<1>2. \E sum : sum = [j \in 0 .. n |-> IF j = 0 THEN 0 ELSE sum[j - 1] + f[j]]
  <2>1. \E sum : IsSum(sum, 0, f, n)
    BY SumExists
  <2> QED
    BY <2>1, Zenon DEF IsSum
<1>3. loop = [j \in 0 .. n |-> IF j = 0 THEN 0 ELSE loop[j - 1] + f[j]]
  BY <1>2, Zenon
<1> HIDE DEF loop
<1>4. IsSum(loop, 0, f, n)
  BY <1>3, Zenon DEF IsSum
<1> QED
  BY <1>1, <1>4

LEMMA TotalSteps ==
  ASSUME NEW f
  PROVE  /\ SumTo(f, 0) = 0
         /\ \A n \in Nat : SumTo(f, n + 1) = SumTo(f, n) + f[n + 1]
<1>1. SumTo(f, 0) = 0
  BY TotalIsSum, SumSteps
<1>2. ASSUME NEW n \in Nat PROVE SumTo(f, n + 1) = SumTo(f, n) + f[n + 1]
  <2>1. PICK sum : IsSum(sum, 0, f, n) /\ SumTo(f, n) = sum[n]
    BY TotalIsSum
  <2>2. PICK more : IsSum(more, 0, f, n + 1) /\ SumTo(f, n + 1) = more[n + 1]
    BY TotalIsSum
  <2>3. n + 1 \in Nat /\ n <= n + 1 /\ n \in 0 .. n /\ n + 1 \in 1 .. n + 1 /\ (n + 1) - 1 = n
    OBVIOUS
  <2>4. \A j \in 0 .. n : more[j] = sum[j]
    BY <2>1, <2>2, <2>3, SumExtends
  <2>5. \A j \in 1 .. n + 1 : more[j] = more[j - 1] + f[j]
    BY <2>2, <2>3, SumSteps
  <2>6. more[n + 1] = more[n] + f[n + 1]
    BY <2>3, <2>5
  <2> QED
    BY <2>1, <2>2, <2>3, <2>4, <2>6
<1> QED
  BY <1>1, <1>2

(* What is a difference of neighbours adds up to the difference of the     *)
(* ends.                                                                   *)
LEMMA TotalTelescopes ==
  ASSUME NEW n \in Nat, NEW f, NEW v, \A j \in 0 .. n : v[j] \in Int,
         \A j \in 1 .. n : f[j] = v[j] - v[j - 1]
  PROVE  SumTo(f, n) = v[n] - v[0]
<1> DEFINE S == {m \in Nat : m <= n => SumTo(f, m) = v[m] - v[0]}
<1>1. 0 \in S
  BY TotalSteps
<1>2. ASSUME NEW m \in Nat, m \in S PROVE m + 1 \in S
  <2>1. SumTo(f, m + 1) = SumTo(f, m) + f[m + 1]
    BY TotalSteps
  <2>2. m + 1 <= n => /\ f[m + 1] = v[m + 1] - v[m]
                      /\ v[m] \in Int /\ v[m + 1] \in Int /\ v[0] \in Int
    <3>1. m + 1 <= n => m + 1 \in 1 .. n /\ (m + 1) - 1 = m /\ m \in 0 .. n
      OBVIOUS
    <3> QED
      BY <3>1
  <2> QED
    BY <1>2, <2>1, <2>2
<1> HIDE DEF S
<1>3. \A m \in Nat : m \in S
  BY <1>1, <1>2, InductionOnSets
<1>4. n \in S
  BY <1>3
<1> QED
  BY <1>4 DEF S

LEMMA TotalType ==
  ASSUME NEW n \in Nat, NEW f, \A j \in 1 .. n : f[j] \in Int
  PROVE  SumTo(f, n) \in Int
<1>1. PICK sum : IsSum(sum, 0, f, n) /\ SumTo(f, n) = sum[n]
  BY TotalIsSum
<1>2. \A j \in 0 .. n : sum[j] \in Int
  BY <1>1, SumType
<1> QED
  BY <1>1, <1>2

LEMMA TotalSame ==
  ASSUME NEW n \in Nat, NEW f, NEW g, \A j \in 1 .. n : g[j] = f[j]
  PROVE  SumTo(g, n) = SumTo(f, n)
<1>1. PICK sum : IsSum(sum, 0, f, n) /\ SumTo(f, n) = sum[n]
  BY TotalIsSum
<1>2. PICK other : IsSum(other, 0, g, n) /\ SumTo(g, n) = other[n]
  BY TotalIsSum
<1>3. \A j \in 0 .. n : other[j] = sum[j]
  BY <1>1, <1>2, SumExtends
<1> QED
  BY <1>1, <1>2, <1>3

LEMMA TotalAdds ==
  ASSUME NEW n \in Nat, NEW f, NEW g, NEW h,
         \A j \in 1 .. n : f[j] \in Int /\ g[j] \in Int /\ h[j] = f[j] + g[j]
  PROVE  SumTo(h, n) = SumTo(f, n) + SumTo(g, n)
<1> DEFINE v == [j \in 0 .. n |-> SumTo(f, j) + SumTo(g, j)]
<1>1. \A j \in 0 .. n : SumTo(f, j) \in Int /\ SumTo(g, j) \in Int
  <2> SUFFICES ASSUME NEW j \in 0 .. n PROVE SumTo(f, j) \in Int /\ SumTo(g, j) \in Int
    OBVIOUS
  <2>1. j \in Nat /\ \A i \in 1 .. j : f[i] \in Int /\ g[i] \in Int
    OBVIOUS
  <2> QED
    BY <2>1, TotalType
<1>2. \A j \in 0 .. n : v[j] = SumTo(f, j) + SumTo(g, j) /\ v[j] \in Int
  BY <1>1
<1> HIDE DEF v
<1>3. ASSUME NEW j \in 1 .. n PROVE h[j] = v[j] - v[j - 1]
  <2>1. j - 1 \in Nat /\ j - 1 \in 0 .. n /\ j \in 0 .. n /\ (j - 1) + 1 = j
    OBVIOUS
  <2>2. SumTo(f, j) = SumTo(f, j - 1) + f[j] /\ SumTo(g, j) = SumTo(g, j - 1) + g[j]
    BY <2>1, TotalSteps
  <2>3. v[j] = SumTo(f, j) + SumTo(g, j) /\ v[j - 1] = SumTo(f, j - 1) + SumTo(g, j - 1)
    BY <1>2, <2>1
  <2>4. /\ SumTo(f, j - 1) \in Int /\ SumTo(g, j - 1) \in Int
        /\ f[j] \in Int /\ g[j] \in Int /\ h[j] = f[j] + g[j]
    BY <1>1, <2>1
  <2> QED
    BY <2>2, <2>3, <2>4
<1>4. SumTo(h, n) = v[n] - v[0]
  BY <1>2, <1>3, TotalTelescopes
<1>5. v[0] = 0 /\ v[n] = SumTo(f, n) + SumTo(g, n)
  BY <1>2, TotalSteps
<1> QED
  BY <1>1, <1>4, <1>5

LEMMA TotalZero ==
  ASSUME NEW n \in Nat, NEW f, \A j \in 1 .. n : f[j] = 0
  PROVE  SumTo(f, n) = 0
<1> DEFINE v == [j \in 0 .. n |-> 0]
<1>1. \A j \in 0 .. n : v[j] \in Int /\ v[j] = 0
  OBVIOUS
<1>2. \A j \in 1 .. n : f[j] = v[j] - v[j - 1]
  OBVIOUS
<1> HIDE DEF v
<1>3. SumTo(f, n) = v[n] - v[0]
  BY <1>1, <1>2, TotalTelescopes
<1> QED
  BY <1>1, <1>3

(* A change at one place changes the total by as much.                     *)
LEMMA TotalChanges ==
  ASSUME NEW n \in Nat, NEW f, NEW g, NEW at \in 1 .. n, NEW x \in Int,
         \A j \in 1 .. n : f[j] \in Int /\ g[j] = f[j] + (IF j = at THEN x ELSE 0)
  PROVE  SumTo(g, n) = SumTo(f, n) + x
<1> DEFINE step == [j \in 1 .. n |-> IF j = at THEN x ELSE 0]
           v    == [j \in 0 .. n |-> IF j < at THEN 0 ELSE x]
<1>1. SumTo(g, n) = SumTo(f, n) + SumTo(step, n)
  <2>1. \A j \in 1 .. n : f[j] \in Int /\ step[j] \in Int /\ g[j] = f[j] + step[j]
    OBVIOUS
  <2> HIDE DEF step
  <2> QED
    BY <2>1, TotalAdds
<1>2. \A j \in 0 .. n : v[j] \in Int
  OBVIOUS
<1>3. \A j \in 1 .. n : step[j] = v[j] - v[j - 1]
  OBVIOUS
<1>4. v[n] = x /\ v[0] = 0
  OBVIOUS
<1> HIDE DEF step, v
<1>5. SumTo(step, n) = v[n] - v[0]
  BY <1>2, <1>3, TotalTelescopes
<1> QED
  BY <1>1, <1>4, <1>5

-----------------------------------------------------------------------------
(* What the records of a session say of an asset *)

FillRecords ==
  [asset : Assets, side : {"BUY", "SELL"}, qty : Int, price : Int, commission : Int, slippage : Int]

ActionRecords ==
  [kind : {"stock_split", "cash_dividend"}, asset : Assets, before : Int, after : Int, cash : Int]

PointRecords ==
  [value : Int, quantity : [Assets -> Int], mark : [Assets -> Nat],
   fills : Seq(FillRecords), actions : Seq(ActionRecords)]

Split(action) == IF action.kind = "stock_split" THEN action.after - action.before ELSE 0
Paid(action)  == IF action.kind = "cash_dividend" THEN action.cash ELSE 0

(* What a fill did to the cash, at its slipped price.                      *)
Moved(fill) ==
  IF fill.side = "BUY" THEN 0 - fill.qty * fill.price * Scale * Den - fill.commission
  ELSE fill.qty * fill.price * Scale * Den - fill.commission

Flows(fills)       == [n \in DOMAIN fills |-> Flow(fills[n])]
Commissions(fills) == [n \in DOMAIN fills |-> fills[n].commission]
Slippages(fills)   == [n \in DOMAIN fills |-> fills[n].slippage]
Splits(actions)    == [n \in DOMAIN actions |-> Split(actions[n])]
Dividends(actions) == [n \in DOMAIN actions |-> Paid(actions[n])]

(* The cash the records move for the asset, as the contribution has it.    *)
Effect(fills, actions, a) ==
  OfAsset(a, actions, Dividends(actions)) - OfAsset(a, fills, Flows(fills))
    - OfAsset(a, fills, Commissions(fills)) - OfAsset(a, fills, Slippages(fills))

LEMMA FillTypes ==
  ASSUME NEW x \in FillRecords
  PROVE  /\ Flow(x) \in Int /\ x.commission \in Int /\ x.slippage \in Int /\ Moved(x) \in Int
         /\ Moved(x) = 0 - Flow(x) - x.commission - x.slippage
<1>1. /\ x.qty \in Int /\ x.price \in Int /\ x.commission \in Int /\ x.slippage \in Int
      /\ x.side \in {"BUY", "SELL"} /\ Scale \in Int /\ Den \in Int
  BY SharedCashAssumption DEF FillRecords
<1>2. x.qty * x.price \in Int
  BY <1>1, ProductInt
<1>3. x.qty * x.price * Scale \in Int
  BY <1>1, <1>2, ProductInt
<1>4. x.qty * x.price * Scale * Den \in Int
  BY <1>1, <1>3, ProductInt
<1> DEFINE traded == x.qty * x.price * Scale * Den
<1>5. /\ Flow(x) = IF x.side = "BUY" THEN traded - x.slippage ELSE 0 - (traded + x.slippage)
      /\ Moved(x) = IF x.side = "BUY" THEN 0 - traded - x.commission ELSE traded - x.commission
  BY DEF Flow, ReferenceValue, Moved
<1> HIDE DEF traded
<1> QED
  BY <1>1, <1>4, <1>5 DEF traded

LEMMA ActionTypes ==
  ASSUME NEW x \in ActionRecords
  PROVE  Split(x) \in Int /\ Paid(x) \in Int
BY DEF ActionRecords, Split, Paid

LEMMA OfAssetType ==
  ASSUME NEW T, NEW records \in Seq(T), NEW amounts, NEW a,
         \A n \in DOMAIN records : amounts[n] \in Int
  PROVE  OfAsset(a, records, amounts) \in Int
<1> DEFINE mine == [n \in DOMAIN records |-> IF records[n].asset = a THEN amounts[n] ELSE 0]
<1>1. Len(records) \in Nat /\ DOMAIN records = 1 .. Len(records)
  OBVIOUS
<1>2. \A n \in 1 .. Len(records) : mine[n] \in Int
  BY <1>1
<1> HIDE DEF mine
<1>3. SumTo(mine, Len(records)) \in Int
  BY <1>1, <1>2, TotalType
<1> QED
  BY <1>3 DEF OfAsset, mine

LEMMA OfAssetNone ==
  ASSUME NEW a, NEW amounts
  PROVE  OfAsset(a, <<>>, amounts) = 0
<1>1. Len(<<>>) = 0
  OBVIOUS
<1> QED
  BY <1>1, TotalSteps, Zenon DEF OfAsset

(* Amounts that are all zero add up to zero.                               *)
LEMMA OfAssetZero ==
  ASSUME NEW T, NEW records \in Seq(T), NEW amounts, NEW a,
         \A n \in DOMAIN records : amounts[n] = 0
  PROVE  OfAsset(a, records, amounts) = 0
<1> DEFINE mine == [n \in DOMAIN records |-> IF records[n].asset = a THEN amounts[n] ELSE 0]
<1>1. Len(records) \in Nat /\ DOMAIN records = 1 .. Len(records)
  OBVIOUS
<1>2. \A n \in 1 .. Len(records) : mine[n] = 0
  BY <1>1
<1> HIDE DEF mine
<1>3. SumTo(mine, Len(records)) = 0
  BY <1>1, <1>2, TotalZero
<1> QED
  BY <1>3 DEF OfAsset, mine

(* A record more adds its amount to its asset and to no other.             *)
LEMMA OfAssetGrows ==
  ASSUME NEW T, NEW records \in Seq(T), NEW x \in T, NEW a, NEW amounts, NEW more,
         \A n \in 1 .. Len(records) : more[n] = amounts[n]
  PROVE  OfAsset(a, Append(records, x), more)
           = OfAsset(a, records, amounts) + (IF x.asset = a THEN more[Len(records) + 1] ELSE 0)
<1> DEFINE n     == Len(records)
           grown == Append(records, x)
           mine  == [i \in DOMAIN records |-> IF records[i].asset = a THEN amounts[i] ELSE 0]
           ours  == [i \in DOMAIN grown |-> IF grown[i].asset = a THEN more[i] ELSE 0]
<1>1. /\ n \in Nat /\ DOMAIN records = 1 .. n /\ Len(grown) = n + 1 /\ DOMAIN grown = 1 .. n + 1
      /\ grown[n + 1] = x /\ \A i \in 1 .. n : grown[i] = records[i]
  OBVIOUS
<1>2. OfAsset(a, grown, more) = SumTo(ours, Len(grown)) /\ OfAsset(a, records, amounts) = SumTo(mine, n)
  BY DEF OfAsset
<1> HIDE DEF grown
<1>3. \A i \in 1 .. n : ours[i] = mine[i]
  BY <1>1
<1>4. ours[n + 1] = IF x.asset = a THEN more[n + 1] ELSE 0
  BY <1>1
<1> HIDE DEF n, mine, ours
<1>5. SumTo(ours, n + 1) = SumTo(ours, n) + ours[n + 1]
  BY <1>1, TotalSteps
<1>6. SumTo(ours, n) = SumTo(mine, n)
  BY <1>1, <1>3, TotalSame
<1>7. OfAsset(a, grown, more) = OfAsset(a, records, amounts) + (IF x.asset = a THEN more[n + 1] ELSE 0)
  BY <1>1, <1>2, <1>4, <1>5, <1>6, Zenon
<1> QED
  BY <1>7 DEF n, grown

LEMMA EffectInt ==
  ASSUME NEW fills \in Seq(FillRecords), NEW actions \in Seq(ActionRecords), NEW a
  PROVE  /\ OfAsset(a, fills, Flows(fills)) \in Int /\ OfAsset(a, fills, Commissions(fills)) \in Int
         /\ OfAsset(a, fills, Slippages(fills)) \in Int /\ OfAsset(a, actions, Splits(actions)) \in Int
         /\ OfAsset(a, actions, Dividends(actions)) \in Int
         /\ Effect(fills, actions, a) \in Int
<1>1. \A n \in DOMAIN fills : fills[n] \in FillRecords
  OBVIOUS
<1>2. \A n \in DOMAIN actions : actions[n] \in ActionRecords
  OBVIOUS
<1>3. \A n \in DOMAIN fills : /\ Flows(fills)[n] \in Int /\ Commissions(fills)[n] \in Int
                              /\ Slippages(fills)[n] \in Int
  BY <1>1, FillTypes DEF Flows, Commissions, Slippages
<1>4. \A n \in DOMAIN actions : Splits(actions)[n] \in Int /\ Dividends(actions)[n] \in Int
  BY <1>2, ActionTypes DEF Splits, Dividends
<1>5. OfAsset(a, fills, Flows(fills)) \in Int
  BY <1>3, OfAssetType
<1>6. OfAsset(a, fills, Commissions(fills)) \in Int
  BY <1>3, OfAssetType
<1>7. OfAsset(a, fills, Slippages(fills)) \in Int
  BY <1>3, OfAssetType
<1>8. OfAsset(a, actions, Splits(actions)) \in Int
  BY <1>4, OfAssetType
<1>9. OfAsset(a, actions, Dividends(actions)) \in Int
  BY <1>4, OfAssetType
<1> QED
  BY <1>5, <1>6, <1>7, <1>8, <1>9 DEF Effect

LEMMA EffectOfFill ==
  ASSUME NEW fills \in Seq(FillRecords), NEW actions \in Seq(ActionRecords),
         NEW x \in FillRecords, NEW a
  PROVE  Effect(Append(fills, x), actions, a)
           = Effect(fills, actions, a) + (IF a = x.asset THEN Moved(x) ELSE 0)
<1> DEFINE n     == Len(fills)
           grown == Append(fills, x)
<1>1. /\ n \in Nat /\ DOMAIN fills = 1 .. n /\ DOMAIN grown = 1 .. n + 1 /\ grown[n + 1] = x
      /\ \A i \in 1 .. n : grown[i] = fills[i]
  OBVIOUS
<1> HIDE DEF grown
<1>2. n + 1 \in 1 .. n + 1 /\ \A i \in 1 .. n : i \in 1 .. n + 1
  BY <1>1
<1>3. /\ \A i \in 1 .. n : Flows(grown)[i] = Flows(fills)[i]
      /\ Flows(grown)[n + 1] = Flow(x)
  BY <1>1, <1>2 DEF Flows
<1>4. /\ \A i \in 1 .. n : Commissions(grown)[i] = Commissions(fills)[i]
      /\ Commissions(grown)[n + 1] = x.commission
  BY <1>1, <1>2 DEF Commissions
<1>5. /\ \A i \in 1 .. n : Slippages(grown)[i] = Slippages(fills)[i]
      /\ Slippages(grown)[n + 1] = x.slippage
  BY <1>1, <1>2 DEF Slippages
<1> USE DEF grown
<1>6. OfAsset(a, grown, Flows(grown))
        = OfAsset(a, fills, Flows(fills)) + (IF x.asset = a THEN Flows(grown)[n + 1] ELSE 0)
  BY <1>3, OfAssetGrows
<1>7. OfAsset(a, grown, Commissions(grown))
        = OfAsset(a, fills, Commissions(fills)) + (IF x.asset = a THEN Commissions(grown)[n + 1] ELSE 0)
  BY <1>4, OfAssetGrows
<1>8. OfAsset(a, grown, Slippages(grown))
        = OfAsset(a, fills, Slippages(fills)) + (IF x.asset = a THEN Slippages(grown)[n + 1] ELSE 0)
  BY <1>5, OfAssetGrows
<1> HIDE DEF grown, n
<1>9. /\ OfAsset(a, fills, Flows(fills)) \in Int /\ OfAsset(a, fills, Commissions(fills)) \in Int
      /\ OfAsset(a, fills, Slippages(fills)) \in Int
      /\ OfAsset(a, actions, Dividends(actions)) \in Int
  BY EffectInt
<1>10. /\ Flow(x) \in Int /\ x.commission \in Int /\ x.slippage \in Int
       /\ Moved(x) = 0 - Flow(x) - x.commission - x.slippage
  BY FillTypes
<1>11. Effect(grown, actions, a) = Effect(fills, actions, a) + (IF a = x.asset THEN Moved(x) ELSE 0)
  <2>1. CASE a = x.asset
    <3> DEFINE F == OfAsset(a, fills, Flows(fills))
               C == OfAsset(a, fills, Commissions(fills))
               P == OfAsset(a, fills, Slippages(fills))
               D == OfAsset(a, actions, Dividends(actions))
    <3>1. /\ OfAsset(a, grown, Flows(grown)) = F + Flow(x)
          /\ OfAsset(a, grown, Commissions(grown)) = C + x.commission
          /\ OfAsset(a, grown, Slippages(grown)) = P + x.slippage
      BY <1>3, <1>4, <1>5, <1>6, <1>7, <1>8, <2>1
    <3>2. /\ Effect(grown, actions, a) = D - (F + Flow(x)) - (C + x.commission) - (P + x.slippage)
          /\ Effect(fills, actions, a) = D - F - C - P
      BY <3>1 DEF Effect
    <3>3. F \in Int /\ C \in Int /\ P \in Int /\ D \in Int
      BY <1>9
    <3> HIDE DEF F, C, P, D
    <3> QED
      BY <1>10, <2>1, <3>2, <3>3
  <2>2. CASE a # x.asset
    BY <1>6, <1>7, <1>8, <1>9, <2>2 DEF Effect
  <2> QED
    BY <2>1, <2>2
<1> QED
  BY <1>11 DEF grown

LEMMA EffectOfAction ==
  ASSUME NEW fills \in Seq(FillRecords), NEW actions \in Seq(ActionRecords),
         NEW x \in ActionRecords, NEW a
  PROVE  Effect(fills, Append(actions, x), a)
           = Effect(fills, actions, a) + (IF a = x.asset THEN Paid(x) ELSE 0)
<1> DEFINE n     == Len(actions)
           grown == Append(actions, x)
<1>1. /\ n \in Nat /\ DOMAIN actions = 1 .. n /\ DOMAIN grown = 1 .. n + 1 /\ grown[n + 1] = x
      /\ \A i \in 1 .. n : grown[i] = actions[i]
  OBVIOUS
<1> HIDE DEF grown
<1>2. n + 1 \in 1 .. n + 1 /\ \A i \in 1 .. n : i \in 1 .. n + 1
  BY <1>1
<1>3. /\ \A i \in 1 .. n : Dividends(grown)[i] = Dividends(actions)[i]
      /\ Dividends(grown)[n + 1] = Paid(x)
  BY <1>1, <1>2 DEF Dividends
<1> USE DEF grown
<1>4. OfAsset(a, grown, Dividends(grown))
        = OfAsset(a, actions, Dividends(actions)) + (IF x.asset = a THEN Dividends(grown)[n + 1] ELSE 0)
  BY <1>3, OfAssetGrows
<1> HIDE DEF grown, n
<1>5. /\ OfAsset(a, fills, Flows(fills)) \in Int /\ OfAsset(a, fills, Commissions(fills)) \in Int
      /\ OfAsset(a, fills, Slippages(fills)) \in Int
      /\ OfAsset(a, actions, Dividends(actions)) \in Int /\ Paid(x) \in Int
  BY EffectInt, ActionTypes
<1>6. Effect(fills, grown, a) = Effect(fills, actions, a) + (IF a = x.asset THEN Paid(x) ELSE 0)
  BY <1>3, <1>4, <1>5 DEF Effect
<1> QED
  BY <1>6 DEF grown

LEMMA EffectOfNothing == \A a : Effect(<<>>, <<>>, a) = 0
<1> TAKE a
<1>1. /\ OfAsset(a, <<>>, Dividends(<<>>)) = 0 /\ OfAsset(a, <<>>, Flows(<<>>)) = 0
      /\ OfAsset(a, <<>>, Commissions(<<>>)) = 0 /\ OfAsset(a, <<>>, Slippages(<<>>)) = 0
  BY OfAssetNone
<1> QED
  BY <1>1 DEF Effect

-----------------------------------------------------------------------------
(* All of the assets *)

TotalEffect(fills, actions) == SumTo([a \in Assets |-> Effect(fills, actions, a)], N)
Marked(point)               == SumTo([a \in Assets |-> MarkedValue(point, a)], N)

LEMMA TotalEffectInt ==
  ASSUME NEW fills \in Seq(FillRecords), NEW actions \in Seq(ActionRecords)
  PROVE  TotalEffect(fills, actions) \in Int
<1> DEFINE f == [a \in Assets |-> Effect(fills, actions, a)]
<1>1. \A a \in 1 .. N : f[a] \in Int
  BY EffectInt DEF Assets
<1> HIDE DEF f
<1>2. SumTo(f, N) \in Int
  BY <1>1, TotalType, SharedCashAssumption
<1> QED
  BY <1>2 DEF TotalEffect, f

LEMMA TotalEffectOfNothing == TotalEffect(<<>>, <<>>) = 0
<1> DEFINE f == [a \in Assets |-> Effect(<<>>, <<>>, a)]
<1>1. \A a \in 1 .. N : f[a] = 0
  BY EffectOfNothing DEF Assets
<1> HIDE DEF f
<1>2. SumTo(f, N) = 0
  BY <1>1, TotalZero, SharedCashAssumption
<1> QED
  BY <1>2 DEF TotalEffect, f

LEMMA TotalEffectOfFill ==
  ASSUME NEW fills \in Seq(FillRecords), NEW actions \in Seq(ActionRecords), NEW x \in FillRecords
  PROVE  TotalEffect(Append(fills, x), actions) = TotalEffect(fills, actions) + Moved(x)
<1> DEFINE f == [a \in Assets |-> Effect(fills, actions, a)]
           g == [a \in Assets |-> Effect(Append(fills, x), actions, a)]
<1>1. x.asset \in 1 .. N /\ N \in Nat
  BY SharedCashAssumption DEF FillRecords, Assets
<1>2. Moved(x) \in Int
  BY FillTypes
<1>3. \A a \in 1 .. N : f[a] \in Int /\ g[a] = f[a] + (IF a = x.asset THEN Moved(x) ELSE 0)
  BY EffectInt, EffectOfFill DEF Assets
<1> DEFINE at == x.asset
           y  == Moved(x)
<1>4. /\ at \in 1 .. N /\ y \in Int
      /\ \A a \in 1 .. N : f[a] \in Int /\ g[a] = f[a] + (IF a = at THEN y ELSE 0)
  BY <1>1, <1>2, <1>3
<1> HIDE DEF f, g, at, y
<1>5. SumTo(g, N) = SumTo(f, N) + y
  BY <1>1, <1>4, TotalChanges
<1> QED
  BY <1>5 DEF TotalEffect, f, g, y

LEMMA TotalEffectOfAction ==
  ASSUME NEW fills \in Seq(FillRecords), NEW actions \in Seq(ActionRecords), NEW x \in ActionRecords
  PROVE  TotalEffect(fills, Append(actions, x)) = TotalEffect(fills, actions) + Paid(x)
<1> DEFINE f == [a \in Assets |-> Effect(fills, actions, a)]
           g == [a \in Assets |-> Effect(fills, Append(actions, x), a)]
<1>1. x.asset \in 1 .. N /\ N \in Nat
  BY SharedCashAssumption DEF ActionRecords, Assets
<1>2. Paid(x) \in Int
  BY ActionTypes
<1>3. \A a \in 1 .. N : f[a] \in Int /\ g[a] = f[a] + (IF a = x.asset THEN Paid(x) ELSE 0)
  BY EffectInt, EffectOfAction DEF Assets
<1> DEFINE at == x.asset
           y  == Paid(x)
<1>4. /\ at \in 1 .. N /\ y \in Int
      /\ \A a \in 1 .. N : f[a] \in Int /\ g[a] = f[a] + (IF a = at THEN y ELSE 0)
  BY <1>1, <1>2, <1>3
<1> HIDE DEF f, g, at, y
<1>5. SumTo(g, N) = SumTo(f, N) + y
  BY <1>1, <1>4, TotalChanges
<1> QED
  BY <1>5 DEF TotalEffect, f, g, y

LEMMA MarkedInt ==
  ASSUME NEW p \in PointRecords
  PROVE  (\A a \in Assets : MarkedValue(p, a) \in Int) /\ Marked(p) \in Int
<1>1. ASSUME NEW a \in Assets PROVE MarkedValue(p, a) \in Int
  <2>1. p.quantity[a] \in Int /\ p.mark[a] \in Int /\ Unit \in Int
    BY UnitPositive DEF PointRecords
  <2>2. p.quantity[a] * p.mark[a] \in Int
    BY <2>1, ProductInt
  <2> QED
    BY <2>1, <2>2, ProductInt DEF MarkedValue
<1> DEFINE f == [a \in Assets |-> MarkedValue(p, a)]
<1>2. \A a \in 1 .. N : f[a] \in Int
  BY <1>1 DEF Assets
<1> HIDE DEF f
<1>3. SumTo(f, N) \in Int
  BY <1>2, TotalType, SharedCashAssumption
<1> QED
  BY <1>1, <1>3 DEF Marked, f

(* What an asset contributes is the change of its marked value and the     *)
(* cash its fills and dividends moved.                                     *)
LEMMA NetIs ==
  ASSUME NEW b \in PointRecords, NEW e \in PointRecords, NEW a \in Assets
  PROVE  Net(b, e, a) = (MarkedValue(e, a) - MarkedValue(b, a)) + Effect(e.fills, e.actions, a)
<1> DEFINE invested == OfAsset(a, e.fills, Flows(e.fills))
           split    == OfAsset(a, e.actions, Splits(e.actions))
           paid     == OfAsset(a, e.actions, Dividends(e.actions))
           charged  == OfAsset(a, e.fills, Commissions(e.fills))
           slipped  == OfAsset(a, e.fills, Slippages(e.fills))
           moved    == MarkedValue(e, a) - MarkedValue(b, a)
<1>1. e.fills \in Seq(FillRecords) /\ e.actions \in Seq(ActionRecords)
  BY DEF PointRecords
<1>2. Contribution(b, e, a) =
        [market |-> moved - invested - split, split |-> split, dividends |-> paid,
         commission |-> charged, slippage |-> slipped]
  BY Zenon DEF Contribution, Flows, Splits, Dividends, Commissions, Slippages, Split, Paid
<1>3. /\ invested \in Int /\ split \in Int /\ paid \in Int /\ charged \in Int /\ slipped \in Int
      /\ Effect(e.fills, e.actions, a) = paid - invested - charged - slipped
  BY <1>1, EffectInt DEF Effect
<1>4. moved \in Int
  BY MarkedInt
<1> HIDE DEF invested, split, paid, charged, slipped, moved
<1>5. Net(b, e, a) = moved - invested - split + paid + split - charged - slipped
  BY <1>2 DEF Net
<1>6. Net(b, e, a) = moved + Effect(e.fills, e.actions, a)
  BY <1>3, <1>4, <1>5
<1> QED
  BY <1>6 DEF moved

LEMMA NetsAddUp ==
  ASSUME NEW b \in PointRecords, NEW e \in PointRecords
  PROVE  SumTo([a \in Assets |-> Net(b, e, a)], N)
           = (Marked(e) - Marked(b)) + TotalEffect(e.fills, e.actions)
<1> DEFINE net    == [a \in Assets |-> Net(b, e, a)]
           before == [a \in Assets |-> MarkedValue(b, a)]
           after  == [a \in Assets |-> MarkedValue(e, a)]
           change == [a \in Assets |-> MarkedValue(e, a) - MarkedValue(b, a)]
           effect == [a \in Assets |-> Effect(e.fills, e.actions, a)]
<1>1. e.fills \in Seq(FillRecords) /\ e.actions \in Seq(ActionRecords) /\ N \in Nat
  BY SharedCashAssumption DEF PointRecords
<1>2. /\ \A a \in Assets : MarkedValue(e, a) \in Int /\ MarkedValue(b, a) \in Int
      /\ \A a \in Assets : Effect(e.fills, e.actions, a) \in Int
  BY <1>1, MarkedInt, EffectInt
<1>3. \A a \in 1 .. N : before[a] \in Int /\ change[a] \in Int /\ after[a] = before[a] + change[a]
  BY <1>2 DEF Assets
<1>4. \A a \in 1 .. N : change[a] \in Int /\ effect[a] \in Int /\ net[a] = change[a] + effect[a]
  BY <1>2, NetIs DEF Assets
<1> HIDE DEF net, before, after, change, effect
<1>5. SumTo(after, N) = SumTo(before, N) + SumTo(change, N)
  BY <1>1, <1>3, TotalAdds
<1>6. SumTo(net, N) = SumTo(change, N) + SumTo(effect, N)
  BY <1>1, <1>4, TotalAdds
<1>7. SumTo(before, N) \in Int
  BY <1>1, <1>3, TotalType
<1>8. SumTo(change, N) \in Int
  BY <1>1, <1>3, TotalType
<1>9. SumTo(effect, N) \in Int
  BY <1>1, <1>4, TotalType
<1>10. SumTo(net, N) = (SumTo(after, N) - SumTo(before, N)) + SumTo(effect, N)
  BY <1>5, <1>6, <1>7, <1>8, <1>9
<1> QED
  BY <1>10 DEF net, before, after, effect, Marked, TotalEffect

-----------------------------------------------------------------------------
(* The invariant of the recorded result *)

Earlier == Rebalancing \/ phase \in {"actions", "decide"}

Sound(actions) ==
  \A n \in DOMAIN actions : IF raw THEN Split(actions[n]) = 0 ELSE Paid(actions[n]) = 0

RecordsInv ==
  /\ day \in [fills : Seq(FillRecords), actions : Seq(ActionRecords)]
  /\ Sound(day.actions)
  /\ curve \in Seq(PointRecords)
  /\ \A i \in DOMAIN curve : Sound(curve[i].actions)
  /\ phase = "session" => day = Nothing

(* The cash since the last point of the curve is what the day's records    *)
(* moved.                                                                  *)
AccountInv ==
  curve # <<>> =>
    cash = curve[Len(curve)].value - Marked(curve[Len(curve)]) + TotalEffect(day.fills, day.actions)

PositionValues == [a \in Assets |-> shares[a] * mark[a] * Unit]

PositionsInv ==
  /\ phase = "decide" \/ Rebalancing => holdings = 0
  /\ phase = "decide" => k = 1
  /\ phase = "mark" => holdings = SumTo(PositionValues, k - 1)

(* The splits still to come leave whole multiples of 1/Den.                *)
SplitsInv ==
  phase = "actions" =>
    \A a \in Assets : k <= a /\ Open(a) => (shares[a] * bar[a].split[1]) % bar[a].split[2] = 0

PeriodsInv ==
  \A i \in 2 .. Len(curve) : Explained(i) = curve[i].value - curve[i - 1].value

ExecutionsInv ==
  /\ d = IF phase = "session" THEN Len(curve) ELSE Len(curve) + 1
  /\ rebalances \in Seq(Nat)
  /\ \A r \in DOMAIN rebalances :
       1 <= rebalances[r] /\ rebalances[r] <= d /\ (Earlier => rebalances[r] < d)
  /\ \A q, r \in DOMAIN rebalances : q < r => rebalances[q] < rebalances[r]

AInv ==
  /\ IInv /\ RecordsInv /\ AccountInv /\ PositionsInv /\ SplitsInv /\ PeriodsInv /\ ExecutionsInv

LEMMA InitAInv == AttributionInit => AInv
<1> SUFFICES ASSUME AttributionInit PROVE AInv
  OBVIOUS
<1>1. IInv
  BY InitIInv DEF AttributionInit
<1>2. /\ phase = "session" /\ d = 0 /\ day = [fills |-> <<>>, actions |-> <<>>]
      /\ curve = <<>> /\ rebalances = <<>>
  BY DEF AttributionInit, Init, Nothing
<1>3. RecordsInv
  BY <1>2 DEF RecordsInv, Sound, Nothing
<1>4. AccountInv /\ PositionsInv /\ SplitsInv /\ PeriodsInv
  BY <1>2 DEF AccountInv, PositionsInv, SplitsInv, PeriodsInv, Rebalancing
<1>5. ExecutionsInv
  BY <1>2 DEF ExecutionsInv
<1> QED
  BY <1>1, <1>3, <1>4, <1>5 DEF AInv

LEMMA KeptRecords ==
  ASSUME AInv, UNCHANGED <<result, raw, cash>>, phase' # "session"
  PROVE  RecordsInv' /\ AccountInv' /\ PeriodsInv'
<1>1. day' = day /\ curve' = curve /\ raw' = raw /\ cash' = cash
  BY DEF result
<1>2. RecordsInv'
  BY <1>1 DEF AInv, RecordsInv, Sound
<1>3. AccountInv'
  BY <1>1 DEF AInv, AccountInv
<1>4. PeriodsInv'
  BY <1>1 DEF AInv, PeriodsInv, Explained
<1> QED
  BY <1>2, <1>3, <1>4

LEMMA KeptExecutions ==
  ASSUME AInv, UNCHANGED <<curve, rebalances, d>>, phase # "session", phase' # "session",
         Earlier' => Earlier
  PROVE  ExecutionsInv'
BY DEF AInv, ExecutionsInv

LEMMA NextSessionAInv ==
  ASSUME AInv, IInv', NextSession, UNCHANGED result
  PROVE  AInv'
<1>1. /\ phase = "session" /\ phase' = "actions" /\ d' = d + 1 /\ k' = 1
      /\ UNCHANGED <<raw, shares, cash, holdings>>
  BY DEF NextSession, config
<1>2. RecordsInv' /\ AccountInv' /\ PeriodsInv'
  BY <1>1, KeptRecords
<1>3. PositionsInv'
  BY <1>1 DEF PositionsInv, Rebalancing
<1>4. SplitsInv'
  BY <1>1 DEF NextSession, SplitsInv, Open
<1>5. ExecutionsInv'
  <2>1. curve' = curve /\ rebalances' = rebalances /\ d \in Nat
    BY SharedCashAssumption DEF result, AInv, IInv, TypeOK
  <2> QED
    BY <1>1, <2>1 DEF AInv, ExecutionsInv
<1> QED
  BY <1>2, <1>3, <1>4, <1>5 DEF AInv

(* The loops from a value to a trade and from a trade to the next.         *)
LEMMA LoopsAInv ==
  ASSUME AInv, IInv', StartRebalance \/ Value \/ StartSells \/ StartBuys \/ FinishBuys,
         UNCHANGED result
  PROVE  AInv'
<1>1. /\ phase = "decide" \/ Rebalancing
      /\ Rebalancing' \/ phase' = "error"
      /\ UNCHANGED <<raw, d, cash, holdings>>
  BY DEF StartRebalance, Value, StartSells, StartBuys, FinishBuys, config, session, Rebalancing
<1>2. /\ phase' # "session" /\ phase # "session" /\ phase' # "mark" /\ phase' # "decide"
      /\ phase' # "actions" /\ Earlier
  BY <1>1 DEF Rebalancing, Earlier
<1>3. RecordsInv' /\ AccountInv' /\ PeriodsInv'
  BY <1>1, <1>2, KeptRecords
<1>4. PositionsInv' /\ SplitsInv'
  BY <1>1, <1>2 DEF AInv, PositionsInv, SplitsInv
<1>5. ExecutionsInv'
  BY <1>1, <1>2, KeptExecutions DEF result
<1> QED
  BY <1>3, <1>4, <1>5 DEF AInv

(* What leads to the marking of the positions starts it from none.         *)
LEMMA ToMarkAInv ==
  ASSUME AInv, IInv', StartDay \/ Defer, UNCHANGED result
  PROVE  AInv'
<1>1. /\ phase \in {"actions", "decide"} /\ phase' \in {"decide", "mark"}
      /\ k' = 1 /\ holdings' = 0 /\ UNCHANGED <<raw, d, cash>>
  BY DEF StartDay, Defer, AInv, PositionsInv, config, session
<1>2. RecordsInv' /\ AccountInv' /\ PeriodsInv'
  BY <1>1, KeptRecords
<1>3. SumTo(PositionValues', k' - 1) = 0
  BY <1>1, TotalSteps
<1>4. PositionsInv' /\ SplitsInv'
  BY <1>1, <1>3 DEF PositionsInv, SplitsInv, Rebalancing
<1>5. ExecutionsInv'
  BY <1>1, KeptExecutions DEF result, Earlier
<1> QED
  BY <1>2, <1>4, <1>5 DEF AInv

LEMMA RecordExecutionAInv ==
  ASSUME AInv, IInv', RecordExecution
  PROVE  AInv'
<1>1. /\ phase = "finish" /\ phase' = "mark" /\ k' = 1 /\ last'.executed = d
      /\ UNCHANGED <<raw, d, cash, holdings, day, curve>>
      /\ rebalances' = Append(rebalances, d)
  BY DEF RecordExecution, RecordRebalance, config, session
<1>2. RecordsInv' /\ AccountInv' /\ PeriodsInv'
  BY <1>1 DEF AInv, RecordsInv, AccountInv, PeriodsInv, Sound, Explained
<1>3. SumTo(PositionValues', k' - 1) = 0
  BY <1>1, TotalSteps
<1>4. PositionsInv' /\ SplitsInv'
  BY <1>1, <1>3 DEF AInv, PositionsInv, SplitsInv, Rebalancing
<1>5. ExecutionsInv'
  <2>1. d \in Nat /\ d >= 1
    BY <1>1, SharedCashAssumption DEF AInv, IInv, TypeOK, PhaseInv
  <2>2. /\ rebalances \in Seq(Nat) /\ \A r \in DOMAIN rebalances : 1 <= rebalances[r] /\ rebalances[r] < d
        /\ \A q, r \in DOMAIN rebalances : q < r => rebalances[q] < rebalances[r]
        /\ d = Len(curve) + 1
    BY <1>1 DEF AInv, ExecutionsInv, Earlier, Rebalancing
  <2>3. ~ Earlier'
    BY <1>1 DEF Earlier, Rebalancing
  <2>4. /\ rebalances' \in Seq(Nat) /\ DOMAIN rebalances' = 1 .. Len(rebalances) + 1
        /\ DOMAIN rebalances = 1 .. Len(rebalances) /\ Len(rebalances) \in Nat
        /\ rebalances'[Len(rebalances) + 1] = d
        /\ \A r \in 1 .. Len(rebalances) : rebalances'[r] = rebalances[r]
    BY <1>1, <2>1, <2>2
  <2>5. \A r \in DOMAIN rebalances' : r \in DOMAIN rebalances \/ r = Len(rebalances) + 1
    BY <2>4
  <2>6. \A r \in DOMAIN rebalances' : 1 <= rebalances'[r] /\ rebalances'[r] <= d
    BY <2>1, <2>2, <2>4, <2>5
  <2>7. ASSUME NEW q \in DOMAIN rebalances', NEW r \in DOMAIN rebalances', q < r
        PROVE  rebalances'[q] < rebalances'[r]
    <3>1. q \in DOMAIN rebalances
      BY <2>4, <2>5, <2>7
    <3> QED
      BY <2>2, <2>4, <2>5, <2>7, <3>1
  <2> QED
    BY <1>1, <2>2, <2>3, <2>4, <2>6, <2>7 DEF ExecutionsInv
<1> QED
  BY <1>2, <1>4, <1>5 DEF AInv

LEMMA MarkPositionAInv ==
  ASSUME AInv, IInv', MarkPosition, UNCHANGED result
  PROVE  AInv'
<1>1. /\ phase = "mark" /\ phase' \in {"mark", "error"} /\ k \in Nat \ {0}
      /\ UNCHANGED <<raw, d, cash, shares, mark>>
  BY DEF MarkPosition, config, session, AInv, IInv, TypeOK
<1>2. RecordsInv' /\ AccountInv' /\ PeriodsInv'
  BY <1>1, KeptRecords
<1>3. ASSUME phase' = "mark" PROVE holdings' = SumTo(PositionValues', k' - 1)
  <2>1. k \in Assets /\ k' = k + 1 /\ holdings' = holdings + shares[k] * mark[k] * Unit
    BY <1>1, <1>3, SharedCashAssumption DEF MarkPosition, Assets
  <2>2. k - 1 \in Nat /\ (k - 1) + 1 = k /\ k' - 1 = k
    BY <1>1, <2>1
  <2>3. SumTo(PositionValues, k) = SumTo(PositionValues, k - 1) + PositionValues[k]
    BY <2>2, TotalSteps
  <2>4. PositionValues' = PositionValues /\ PositionValues[k] = shares[k] * mark[k] * Unit
    BY <1>1, <2>1 DEF PositionValues
  <2>5. holdings = SumTo(PositionValues, k - 1)
    BY <1>1 DEF AInv, PositionsInv
  <2> QED
    BY <2>1, <2>2, <2>3, <2>4, <2>5
<1>4. PositionsInv' /\ SplitsInv'
  BY <1>1, <1>3 DEF PositionsInv, SplitsInv, Rebalancing
<1>5. ExecutionsInv'
  BY <1>1, KeptExecutions DEF result, Earlier, Rebalancing
<1> QED
  BY <1>2, <1>4, <1>5 DEF AInv

(* The point's marked value is the holdings, so the cash is the rest of    *)
(* its value; what the account gained since the point before is explained. *)
LEMMA RecordPointAInv ==
  ASSUME AInv, IInv', RecordPoint
  PROVE  AInv'
<1> DEFINE p == [value |-> equity', quantity |-> shares, mark |-> mark,
                 fills |-> day.fills, actions |-> day.actions]
           L == Len(curve)
<1>1. /\ phase = "mark" /\ phase' = "session" /\ k = N + 1 /\ equity' = cash + holdings
      /\ UNCHANGED <<raw, d, cash, shares, mark, rebalances>>
      /\ curve' = Append(curve, p) /\ day' = Nothing
  BY DEF RecordPoint, CloseSession, config, session
<1>2. /\ curve \in Seq(PointRecords) /\ L \in Nat
      /\ day.fills \in Seq(FillRecords) /\ day.actions \in Seq(ActionRecords)
      /\ Sound(day.actions) /\ \A i \in DOMAIN curve : Sound(curve[i].actions)
  BY DEF AInv, RecordsInv
<1>3. equity' \in Int /\ cash \in Int /\ holdings \in Int
  BY DEF AInv, IInv, TypeOK
<1>4. p \in PointRecords
  BY <1>2, <1>3 DEF PointRecords, AInv, IInv, TypeOK
<1>5. Marked(p) = holdings
  <2>1. holdings = SumTo(PositionValues, N)
    <3>1. k - 1 = N
      BY <1>1, SharedCashAssumption
    <3> QED
      BY <1>1, <3>1 DEF AInv, PositionsInv
  <2>2. [a \in Assets |-> MarkedValue(p, a)] = PositionValues
    BY DEF MarkedValue, PositionValues
  <2> QED
    BY <2>1, <2>2, Zenon DEF Marked
<1>6. p.value = cash + holdings /\ p.fills = day.fills /\ p.actions = day.actions
  BY <1>1
<1> HIDE DEF p
<1>7. /\ curve' \in Seq(PointRecords) /\ Len(curve') = L + 1 /\ curve'[L + 1] = p
      /\ \A i \in 1 .. L : curve'[i] = curve[i] /\ curve[i] \in PointRecords
      /\ DOMAIN curve' = 1 .. L + 1 /\ DOMAIN curve = 1 .. L
  BY <1>1, <1>2, <1>4
<1>8. RecordsInv'
  <2>1. day' = [fills |-> <<>>, actions |-> <<>>]
    BY <1>1 DEF Nothing
  <2>2. \A x : Sound(x)' <=> Sound(x)
    BY <1>1 DEF Sound
  <2>3. \A i \in 1 .. L + 1 : Sound(curve'[i].actions)
    BY <1>2, <1>6, <1>7
  <2>4. Sound(day'.actions)
    BY <2>1 DEF Sound
  <2> QED
    BY <1>1, <1>7, <2>1, <2>2, <2>3, <2>4 DEF RecordsInv, Sound, Nothing
<1>9. AccountInv'
  <2>1. TotalEffect(day'.fills, day'.actions) = 0
    BY <1>1, TotalEffectOfNothing DEF Nothing
  <2> QED
    BY <1>1, <1>3, <1>5, <1>6, <1>7, <2>1 DEF AccountInv
<1>10. PositionsInv' /\ SplitsInv'
  BY <1>1 DEF PositionsInv, SplitsInv, Rebalancing
<1>11. PeriodsInv'
  <2>1. ASSUME NEW i \in 2 .. L PROVE Explained(i)' = curve'[i].value - curve'[i - 1].value
    <3>1. curve'[i] = curve[i] /\ curve'[i - 1] = curve[i - 1]
      BY <1>7
    <3> QED
      BY <3>1 DEF AInv, PeriodsInv, Explained
  <2>2. ASSUME NEW i \in Nat, i = L + 1, L >= 1 PROVE Explained(i)' = curve'[i].value - curve'[i - 1].value
    <3>1. /\ curve'[i] = p /\ curve'[i - 1] = curve[L] /\ curve[L] \in PointRecords /\ curve # <<>>
      BY <1>2, <1>7, <2>2
    <3>2. Explained(i)' = SumTo([a \in Assets |-> Net(curve[L], p, a)], N)
      BY <3>1 DEF Explained
    <3>3. SumTo([a \in Assets |-> Net(curve[L], p, a)], N)
            = (Marked(p) - Marked(curve[L])) + TotalEffect(day.fills, day.actions)
      BY <1>4, <1>6, <3>1, NetsAddUp
    <3>4. cash = curve[L].value - Marked(curve[L]) + TotalEffect(day.fills, day.actions)
      BY <3>1 DEF AInv, AccountInv
    <3>5. /\ curve[L].value \in Int /\ Marked(curve[L]) \in Int
          /\ TotalEffect(day.fills, day.actions) \in Int
      BY <1>2, <3>1, MarkedInt, TotalEffectInt DEF PointRecords
    <3> QED
      <4>1. p.value = cash + holdings /\ Marked(p) = holdings /\ holdings \in Int /\ cash \in Int
        BY <1>1, <1>3, <1>5, <1>6
      <4>2. Explained(i)' = p.value - curve[L].value
        BY <3>2, <3>3, <3>4, <3>5, <4>1
      <4> QED
        BY <3>1, <4>2
  <2>3. \A i \in 2 .. L + 1 : i \in Nat /\ (i \in 2 .. L \/ (i = L + 1 /\ L >= 1))
    BY <1>2
  <2>4. \A i \in 2 .. L + 1 : Explained(i)' = curve'[i].value - curve'[i - 1].value
    BY <2>1, <2>2, <2>3
  <2> QED
    BY <1>7, <2>4 DEF PeriodsInv
<1>12. ExecutionsInv'
  <2>1. ~ Earlier'
    BY <1>1 DEF Earlier, Rebalancing
  <2> QED
    BY <1>1, <1>7, <2>1 DEF AInv, ExecutionsInv
<1> QED
  BY <1>8, <1>9, <1>10, <1>11, <1>12 DEF AInv

LEMMA ProductQuotient == \A q \in Int, b \in Nat \ {0} : (q * b) \div b = q
OBVIOUS

(* A fill recorded moves the cash as the trade did.                        *)
LEMMA RecordedFill ==
  ASSUME AInv, IInv', NEW x \in FillRecords, phase \in {"sell", "buy"},
         day' = [day EXCEPT !.fills = Append(@, x)], cash' = cash + Moved(x),
         UNCHANGED <<raw, phase, curve>>
  PROVE  RecordsInv' /\ AccountInv' /\ PeriodsInv'
<1>1. /\ day.fills \in Seq(FillRecords) /\ day.actions \in Seq(ActionRecords)
      /\ day'.fills = Append(day.fills, x) /\ day'.actions = day.actions
      /\ curve \in Seq(PointRecords)
  BY DEF AInv, RecordsInv
<1>2. RecordsInv'
  <2>1. Append(day.fills, x) \in Seq(FillRecords)
    BY <1>1
  <2>2. day' \in [fills : Seq(FillRecords), actions : Seq(ActionRecords)]
    BY <1>1, <2>1 DEF AInv, RecordsInv
  <2>3. Sound(day.actions) /\ \A i \in DOMAIN curve : Sound(curve[i].actions)
    BY DEF AInv, RecordsInv
  <2> QED
    BY <1>1, <2>2, <2>3 DEF RecordsInv, Sound
<1>3. AccountInv'
  <2> SUFFICES ASSUME curve # <<>>
      PROVE  cash' = curve[Len(curve)].value - Marked(curve[Len(curve)]) + TotalEffect(day'.fills, day'.actions)
    BY DEF AccountInv
  <2>1. TotalEffect(day'.fills, day'.actions) = TotalEffect(day.fills, day.actions) + Moved(x)
    BY <1>1, TotalEffectOfFill
  <2>2. TotalEffect(day.fills, day.actions) \in Int /\ Moved(x) \in Int
    BY <1>1, TotalEffectInt, FillTypes
  <2>3. curve[Len(curve)] \in PointRecords
    BY <1>1
  <2>4. curve[Len(curve)].value \in Int /\ Marked(curve[Len(curve)]) \in Int
    BY <2>3, MarkedInt DEF PointRecords
  <2>5. cash = curve[Len(curve)].value - Marked(curve[Len(curve)]) + TotalEffect(day.fills, day.actions)
    BY DEF AInv, AccountInv
  <2> QED
    BY <2>1, <2>2, <2>4, <2>5
<1>4. PeriodsInv'
  BY DEF AInv, PeriodsInv, Explained
<1> QED
  BY <1>2, <1>3, <1>4

LEMMA FillIsRecord ==
  ASSUME NEW side \in {"BUY", "SELL"}, NEW qty \in Nat, Open(k), k \in Assets, TypeOK
  PROVE  /\ Fill(side, qty) \in FillRecords
         /\ Moved(Fill(side, qty)) =
              IF side = "BUY" THEN 0 - Required(qty, bar[k].open)
              ELSE Gross("SELL", qty, bar[k].open) - Commission("SELL", qty, bar[k].open)
<1> DEFINE price == bar[k].open
<1>1. price \in Nat \ {0}
  BY PriceAtNat
<1>2. Gross(side, qty, price) \in Nat /\ Commission(side, qty, price) \in Nat /\ Slippage(qty, price) \in Nat
  BY <1>1, FillAmounts
<1>3. FillPrice(side, price) \in Int
  <2>1. (IF side = "BUY" THEN Scale + SlipNum ELSE Scale - SlipNum) \in Int
    BY SharedCashAssumption
  <2> QED
    BY <1>1, <2>1, ProductInt DEF FillPrice
<1>4. Fill(side, qty) = [asset |-> k, side |-> side, qty |-> qty, price |-> FillPrice(side, price),
                        commission |-> Commission(side, qty, price), slippage |-> Slippage(qty, price)]
  BY DEF Fill
<1>5. Fill(side, qty) \in FillRecords
  BY <1>2, <1>3, <1>4 DEF FillRecords
<1>6. Moved(Fill(side, qty)) =
        IF side = "BUY" THEN 0 - Gross(side, qty, price) - Commission(side, qty, price)
        ELSE Gross(side, qty, price) - Commission(side, qty, price)
  BY <1>4 DEF Moved, Gross
<1> HIDE DEF price
<1>7. 0 - Gross(side, qty, price) - Commission(side, qty, price)
        = 0 - (Gross(side, qty, price) + Commission(side, qty, price))
  BY <1>2
<1> QED
  BY <1>5, <1>6, <1>7 DEF Required, price

LEMMA RecordFillAInv ==
  ASSUME AInv, IInv', RecordFill
  PROVE  AInv'
<1>1. /\ phase \in {"sell", "buy"} /\ phase' = phase /\ k \in Assets
      /\ UNCHANGED <<raw, d, holdings, bar, curve, rebalances>>
  BY SharedCashAssumption DEF RecordFill, Sell, Buy, config, session, AInv, IInv, TypeOK, Assets
<1>2. /\ TypeOK /\ NoLeverage /\ shares \in [Assets -> Int] /\ Den \in Nat \ {0} /\ shares[k] \in Int
  BY <1>1, SharedCashAssumption DEF AInv, IInv, TypeOK
<1>3. RecordsInv' /\ AccountInv' /\ PeriodsInv'
  <2>1. ASSUME shares' = shares, cash' = cash PROVE RecordsInv' /\ AccountInv' /\ PeriodsInv'
    <3>1. ~ (shares'[k] < shares[k]) /\ ~ (shares'[k] > shares[k])
      BY <1>2, <2>1
    <3>2. day' = day
      BY <3>1 DEF RecordFill
    <3> QED
      BY <1>1, <2>1, <3>2, KeptRecords DEF result
  <2>2. ASSUME Sell PROVE RecordsInv' /\ AccountInv' /\ PeriodsInv'
    <3> DEFINE price == bar[k].open
               qty   == IF Open(k) THEN SellQuantity(k, price) ELSE 0
    <3>1. CASE qty > 0
      <4>1. Open(k) /\ qty = SellQuantity(k, price)
        BY <3>1
      <4>2. qty \in Nat
        BY <1>1, <1>2, <3>1, <4>1, SellFits DEF AInv, IInv
      <4>3. /\ shares' = [shares EXCEPT ![k] = @ - qty * Den]
            /\ cash' = cash + Gross("SELL", qty, price) - Commission("SELL", qty, price)
        BY <2>2, <3>1 DEF Sell
      <4>4. Fill("SELL", qty) \in FillRecords /\ "SELL" \in {"BUY", "SELL"} /\ price \in Nat \ {0}
        BY <1>1, <1>2, <4>1, <4>2, FillIsRecord, PriceAtNat
      <4>5. Moved(Fill("SELL", qty)) = Gross("SELL", qty, price) - Commission("SELL", qty, price)
        BY <1>1, <1>2, <4>1, <4>2, FillIsRecord
      <4>6. Gross("SELL", qty, price) \in Nat /\ Commission("SELL", qty, price) \in Nat
        BY <4>2, <4>4, FillAmounts
      <4> HIDE DEF qty, price
      <4>7. qty * Den \in Nat \ {0} /\ (qty * Den) \div Den = qty
        BY <1>2, <3>1, <4>2, ProductPositive, ProductQuotient
      <4>8. shares'[k] = shares[k] - qty * Den
        BY <1>1, <1>2, <4>3
      <4>9. shares'[k] < shares[k] /\ ~ (shares'[k] > shares[k]) /\ shares[k] - shares'[k] = qty * Den
        BY <1>2, <4>7, <4>8
      <4>10. day' = [day EXCEPT !.fills = Append(@, Fill("SELL", (shares[k] - shares'[k]) \div Den))]
        BY <4>9 DEF RecordFill
      <4>11. day' = [day EXCEPT !.fills = Append(@, Fill("SELL", qty))]
        BY <4>7, <4>9, <4>10, Zenon
      <4>12. cash' = cash + Moved(Fill("SELL", qty))
        BY <4>3, <4>5, <4>6 DEF AInv, IInv, TypeOK
      <4> QED
        BY <1>1, <4>4, <4>11, <4>12, RecordedFill
    <3>2. CASE ~ (qty > 0)
      BY <2>1, <2>2, <3>2 DEF Sell
    <3> QED
      BY <3>1, <3>2
  <2>3. ASSUME Buy PROVE RecordsInv' /\ AccountInv' /\ PeriodsInv'
    <3> DEFINE price == bar[k].open
               qty   == IF Open(k) THEN BuyQuantity(k, price) ELSE 0
    <3>1. CASE qty > 0
      <4>1. Open(k) /\ qty = BuyQuantity(k, price)
        BY <3>1
      <4>2. qty \in Nat
        BY <1>1, <1>2, <3>1, <4>1, BuyFits DEF AInv, IInv
      <4>3. /\ shares' = [shares EXCEPT ![k] = @ + qty * Den]
            /\ cash' = cash - Required(qty, price)
        BY <2>3, <3>1 DEF Buy
      <4>4. Fill("BUY", qty) \in FillRecords /\ "BUY" \in {"BUY", "SELL"} /\ price \in Nat \ {0}
        BY <1>1, <1>2, <4>1, <4>2, FillIsRecord, PriceAtNat
      <4>5. Moved(Fill("BUY", qty)) = 0 - Required(qty, price)
        BY <1>1, <1>2, <4>1, <4>2, FillIsRecord
      <4>6. Required(qty, price) \in Int
        <5>1. Gross("BUY", qty, price) \in Nat /\ Commission("BUY", qty, price) \in Nat
          BY <4>2, <4>4, FillAmounts
        <5> QED
          BY <5>1 DEF Required
      <4> HIDE DEF qty, price
      <4>7. qty * Den \in Nat \ {0} /\ (qty * Den) \div Den = qty
        BY <1>2, <3>1, <4>2, ProductPositive, ProductQuotient
      <4>8. shares'[k] = shares[k] + qty * Den
        BY <1>1, <1>2, <4>3
      <4>9. ~ (shares'[k] < shares[k]) /\ shares'[k] > shares[k] /\ shares'[k] - shares[k] = qty * Den
        BY <1>2, <4>7, <4>8
      <4>10. day' = [day EXCEPT !.fills = Append(@, Fill("BUY", (shares'[k] - shares[k]) \div Den))]
        BY <4>9 DEF RecordFill
      <4>11. day' = [day EXCEPT !.fills = Append(@, Fill("BUY", qty))]
        BY <4>7, <4>9, <4>10, Zenon
      <4>12. cash' = cash + Moved(Fill("BUY", qty))
        BY <4>3, <4>5, <4>6 DEF AInv, IInv, TypeOK
      <4> QED
        BY <1>1, <4>4, <4>11, <4>12, RecordedFill
    <3>2. CASE ~ (qty > 0)
      BY <2>1, <2>3, <3>2 DEF Buy
    <3> QED
      BY <3>1, <3>2
  <2> QED
    BY <2>2, <2>3 DEF RecordFill
<1>4. PositionsInv' /\ SplitsInv'
  BY <1>1 DEF AInv, PositionsInv, SplitsInv, Rebalancing
<1>5. ExecutionsInv'
  BY <1>1, KeptExecutions DEF Earlier, Rebalancing
<1> QED
  BY <1>3, <1>4, <1>5 DEF AInv

-----------------------------------------------------------------------------
(* Corporate actions *)

LEMMA Division == \A x \in Int, b \in Nat \ {0} : x % b = 0 => x = (x \div b) * b
OBVIOUS

(* A split that leaves whole multiples leaves the position's value.        *)
LEMMA SplitExact ==
  \A s, r, c, u, q \in Int, b \in Nat \ {0} : s * r = q * b => (s * c * u * r) \div b = q * c * u
<1> SUFFICES ASSUME NEW s \in Int, NEW r \in Int, NEW c \in Int, NEW u \in Int, NEW q \in Int,
                    NEW b \in Nat \ {0}, s * r = q * b
             PROVE  (s * c * u * r) \div b = q * c * u
  OBVIOUS
<1>1. s * c * u * r = (s * r) * (c * u)
  OBVIOUS
<1>2. (q * b) * (c * u) = (q * c * u) * b
  OBVIOUS
<1>3. s * c * u * r = (q * c * u) * b
  BY <1>1, <1>2
<1>4. q * c * u \in Int
  <2>1. q * c \in Int
    BY ProductInt
  <2> QED
    BY <2>1, ProductInt
<1>5. ((q * c * u) * b) \div b = q * c * u
  BY <1>4, ProductQuotient
<1> QED
  BY <1>3, <1>5

(* What is recorded of an asset's corporate actions: a split changes the   *)
(* value by nothing under raw prices, and the dividends are the cash.      *)
LEMMA ActionsAreRecords ==
  ASSUME AInv, IInv', CorporateAction, Open(k)
  PROVE  /\ SplitRecord \in ActionRecords /\ DividendRecord \in ActionRecords
         /\ Paid(SplitRecord) = 0 /\ Split(DividendRecord) = 0
         /\ Paid(DividendRecord) = cash' - cash
         /\ bar[k].dividend = 0 => cash' = cash
         /\ IF raw THEN bar[k].split[1] > 0 => Split(SplitRecord) = 0 ELSE cash' = cash
<1> DEFINE r == bar[k].split[1]
           b == bar[k].split[2]
           c == bar[k].close
           v == bar[k].dividend
           s == shares[k]
<1>1. k \in Assets /\ phase = "actions"
  BY SharedCashAssumption DEF CorporateAction, AInv, IInv, TypeOK, Assets
<1>2. r \in Nat /\ b \in Nat \ {0} /\ c \in Nat \ {0} /\ v \in Nat
  BY <1>1, SharedCashAssumption DEF BarsOK, AInv, IInv, TypeOK, Open
<1>3. /\ s \in Int /\ shares'[k] \in Int /\ cash \in Int /\ cash' \in Int /\ Unit \in Int
      /\ shares \in [Assets -> Int]
  BY <1>1, UnitPositive DEF AInv, IInv, TypeOK
<1>4. raw => (s * r) % b = 0
  <2>1. k <= k
    BY <1>1 DEF Assets
  <2> QED
    BY <1>1, <2>1 DEF AInv, SplitsInv
<1>5. s * c * Unit * r \in Int /\ (s * c * Unit * r) \div b \in Int /\ shares'[k] * c * Unit \in Int
  <2>1. s * c \in Int /\ shares'[k] * c \in Int
    BY <1>2, <1>3, ProductInt
  <2>2. s * c * Unit \in Int /\ shares'[k] * c * Unit \in Int
    BY <1>3, <2>1, ProductInt
  <2>3. s * c * Unit * r \in Int
    BY <1>2, <2>2, ProductInt
  <2> QED
    BY <1>2, <2>2, <2>3, QuotientInt
<1>6. SplitRecord = [kind |-> "stock_split", asset |-> k, before |-> (s * c * Unit * r) \div b,
                     after |-> shares'[k] * c * Unit, cash |-> 0]
  BY DEF SplitRecord
<1>7. DividendRecord = [kind |-> "cash_dividend", asset |-> k, before |-> 0, after |-> 0,
                        cash |-> cash' - cash]
  BY DEF DividendRecord
<1>8. /\ raw => LET held == IF r > 0 THEN (s * r) \div b ELSE s
               IN shares' = [shares EXCEPT ![k] = held] /\ cash' = cash + held * v * Unit
      /\ ~ raw => UNCHANGED <<shares, cash>>
  BY DEF CorporateAction
<1> HIDE DEF r, b, c, v, s
<1>9. SplitRecord \in ActionRecords /\ Paid(SplitRecord) = 0
  BY <1>1, <1>5, <1>6 DEF ActionRecords, Paid
<1>10. /\ DividendRecord \in ActionRecords /\ Split(DividendRecord) = 0
       /\ Paid(DividendRecord) = cash' - cash
  BY <1>1, <1>3, <1>7 DEF ActionRecords, Split, Paid
<1>11. ASSUME raw, r > 0 PROVE Split(SplitRecord) = 0
  <2>1. shares' = [shares EXCEPT ![k] = (s * r) \div b]
    BY <1>8, <1>11
  <2>2. shares'[k] = (s * r) \div b
    BY <1>1, <1>3, <2>1
  <2> DEFINE q == (s * r) \div b
  <2>a. s * r \in Int /\ q \in Int
    BY <1>2, <1>3, ProductInt, QuotientInt
  <2>b. s * r = q * b
    BY <1>2, <1>4, <1>11, <2>a, Division
  <2> HIDE DEF q
  <2>3. (s * c * Unit * r) \div b = q * c * Unit
    BY <1>2, <1>3, <2>a, <2>b, SplitExact
  <2>4. Split(SplitRecord) = shares'[k] * c * Unit - (s * c * Unit * r) \div b
    BY <1>6 DEF Split
  <2> QED
    BY <1>5, <2>2, <2>3, <2>4 DEF q
<1>12. ASSUME v = 0 PROVE cash' = cash
  <2>1. ASSUME NEW held \in Int PROVE cash + held * v * Unit = cash
    <3>1. held * 0 = 0 /\ 0 * Unit = 0
      BY <1>3
    <3> QED
      BY <1>3, <1>12, <3>1
  <2>2. CASE raw
    <3> DEFINE held == IF r > 0 THEN (s * r) \div b ELSE s
    <3>1. held \in Int
      BY <1>2, <1>3, ProductInt, QuotientInt
    <3>2. cash' = cash + held * v * Unit
      BY <1>8, <2>2
    <3> HIDE DEF held
    <3> QED
      BY <2>1, <3>1, <3>2
  <2> QED
    BY <1>8, <2>2
<1> QED
  BY <1>8, <1>9, <1>10, <1>11, <1>12 DEF r, v

LEMMA SoundGrows ==
  ASSUME NEW actions \in Seq(ActionRecords), Sound(actions), NEW x \in ActionRecords,
         IF raw THEN Split(x) = 0 ELSE Paid(x) = 0
  PROVE  Append(actions, x) \in Seq(ActionRecords) /\ Sound(Append(actions, x))
<1> DEFINE grown == Append(actions, x)
<1>1. grown \in Seq(ActionRecords)
  OBVIOUS
<1>2. \A n \in DOMAIN grown : (n \in DOMAIN actions /\ grown[n] = actions[n]) \/ grown[n] = x
  OBVIOUS
<1> HIDE DEF grown
<1>3. Sound(grown)
  BY <1>2 DEF Sound
<1> QED
  BY <1>1, <1>3 DEF grown

LEMMA RecordedActions ==
  ASSUME AInv, IInv', CorporateAction, Open(k)
  PROVE  /\ Actions(day.actions) \in Seq(ActionRecords)
         /\ Sound(Actions(day.actions))
         /\ TotalEffect(day.fills, Actions(day.actions))
              = TotalEffect(day.fills, day.actions) + (cash' - cash)
<1> DEFINE before == day.actions
           split  == IF bar[k].split[1] > 0 THEN Append(before, SplitRecord) ELSE before
           all    == IF bar[k].dividend > 0 THEN Append(split, DividendRecord) ELSE split
           fills  == day.fills
<1>1. before \in Seq(ActionRecords) /\ Sound(before) /\ fills \in Seq(FillRecords)
  BY DEF AInv, RecordsInv
<1>2. /\ SplitRecord \in ActionRecords /\ DividendRecord \in ActionRecords
      /\ Paid(SplitRecord) = 0 /\ Split(DividendRecord) = 0
      /\ Paid(DividendRecord) = cash' - cash
      /\ bar[k].dividend = 0 => cash' = cash
      /\ IF raw THEN bar[k].split[1] > 0 => Split(SplitRecord) = 0 ELSE cash' = cash
  BY ActionsAreRecords
<1>3. cash \in Int /\ cash' \in Int /\ bar[k].dividend \in Nat
  <2>1. k \in Assets
    BY SharedCashAssumption DEF CorporateAction, AInv, IInv, TypeOK, Assets
  <2> QED
    BY <2>1, SharedCashAssumption DEF BarsOK, AInv, IInv, TypeOK, Open
<1>4. Actions(day.actions) = all
  BY Zenon DEF Actions
<1> HIDE DEF before, fills
<1>5. TotalEffect(fills, before) \in Int
  BY <1>1, TotalEffectInt
<1>6. /\ split \in Seq(ActionRecords) /\ Sound(split)
      /\ TotalEffect(fills, split) = TotalEffect(fills, before)
  <2>1. CASE bar[k].split[1] > 0
    <3>1. split = Append(before, SplitRecord)
      BY <2>1
    <3>2. IF raw THEN Split(SplitRecord) = 0 ELSE Paid(SplitRecord) = 0
      BY <1>2, <2>1
    <3>3. Append(before, SplitRecord) \in Seq(ActionRecords) /\ Sound(Append(before, SplitRecord))
      BY <1>1, <1>2, <3>2, SoundGrows
    <3>4. TotalEffect(fills, Append(before, SplitRecord)) = TotalEffect(fills, before) + Paid(SplitRecord)
      BY <1>1, <1>2, TotalEffectOfAction
    <3> HIDE DEF split
    <3> QED
      BY <1>2, <1>5, <3>1, <3>3, <3>4
  <2>2. CASE ~ (bar[k].split[1] > 0)
    BY <1>1, <2>2
  <2> QED
    BY <2>1, <2>2
<1> HIDE DEF split
<1>7. /\ all \in Seq(ActionRecords) /\ Sound(all)
      /\ TotalEffect(fills, all) = TotalEffect(fills, before) + (cash' - cash)
  <2>1. CASE bar[k].dividend > 0
    <3>1. all = Append(split, DividendRecord)
      BY <2>1
    <3>2. IF raw THEN Split(DividendRecord) = 0 ELSE Paid(DividendRecord) = 0
      BY <1>2, <1>3
    <3>3. Append(split, DividendRecord) \in Seq(ActionRecords) /\ Sound(Append(split, DividendRecord))
      BY <1>2, <1>6, <3>2, SoundGrows
    <3>4. TotalEffect(fills, Append(split, DividendRecord)) = TotalEffect(fills, split) + Paid(DividendRecord)
      BY <1>1, <1>2, <1>6, TotalEffectOfAction
    <3> HIDE DEF all
    <3> QED
      BY <1>2, <1>6, <3>1, <3>3, <3>4
  <2>2. CASE ~ (bar[k].dividend > 0)
    <3>1. all = split
      BY <2>2
    <3>2. bar[k].dividend = 0
      BY <1>3, <2>2
    <3>3. cash' - cash = 0
      BY <1>2, <1>3, <3>2
    <3> HIDE DEF all
    <3> QED
      BY <1>5, <1>6, <3>1, <3>3
  <2> QED
    BY <2>1, <2>2
<1> QED
  BY <1>4, <1>7 DEF before, fills

LEMMA RecordActionsAInv ==
  ASSUME AInv, IInv', RecordActions
  PROVE  AInv'
<1>1. /\ phase = "actions" /\ phase' = "actions" /\ k \in Assets /\ k' = k + 1
      /\ UNCHANGED <<raw, d, bar, curve, rebalances>>
  BY SharedCashAssumption DEF RecordActions, CorporateAction, config, session, AInv, IInv, TypeOK, Assets
<1>2. RecordsInv' /\ AccountInv' /\ PeriodsInv'
  <2>1. CASE ~ Open(k)
    BY <1>1, <2>1, KeptRecords DEF RecordActions, CorporateAction, result
  <2>2. CASE Open(k)
    <3> DEFINE more == Actions(day.actions)
    <3>1. /\ more \in Seq(ActionRecords) /\ Sound(more)
          /\ TotalEffect(day.fills, more) = TotalEffect(day.fills, day.actions) + (cash' - cash)
      BY <2>2, RecordedActions DEF RecordActions
    <3>2. day' = [day EXCEPT !.actions = more]
      BY <2>2 DEF RecordActions
    <3> HIDE DEF more
    <3>3. /\ day \in [fills : Seq(FillRecords), actions : Seq(ActionRecords)]
          /\ curve \in Seq(PointRecords) /\ \A i \in DOMAIN curve : Sound(curve[i].actions)
      BY DEF AInv, RecordsInv
    <3>4. /\ day' \in [fills : Seq(FillRecords), actions : Seq(ActionRecords)]
          /\ day'.fills = day.fills /\ day'.actions = more
      BY <3>1, <3>2, <3>3
    <3>5. RecordsInv'
      BY <1>1, <3>1, <3>3, <3>4 DEF RecordsInv, Sound
    <3>6. AccountInv'
      <4> SUFFICES ASSUME curve # <<>>
          PROVE  cash' = curve[Len(curve)].value - Marked(curve[Len(curve)]) + TotalEffect(day'.fills, day'.actions)
        BY <1>1 DEF AccountInv
      <4>1. curve[Len(curve)] \in PointRecords
        BY <3>3
      <4>2. /\ curve[Len(curve)].value \in Int /\ Marked(curve[Len(curve)]) \in Int
            /\ TotalEffect(day.fills, day.actions) \in Int
        BY <3>3, <4>1, MarkedInt, TotalEffectInt DEF PointRecords
      <4>3. cash \in Int /\ cash' \in Int
        BY DEF AInv, IInv, TypeOK
      <4>4. cash = curve[Len(curve)].value - Marked(curve[Len(curve)]) + TotalEffect(day.fills, day.actions)
        BY DEF AInv, AccountInv
      <4>5. TotalEffect(day'.fills, day'.actions) = TotalEffect(day.fills, day.actions) + (cash' - cash)
        BY <3>1, <3>4
      <4> QED
        BY <4>2, <4>3, <4>4, <4>5
    <3>7. PeriodsInv'
      BY <1>1 DEF AInv, PeriodsInv, Explained
    <3> QED
      BY <3>5, <3>6, <3>7
  <2> QED
    BY <2>1, <2>2
<1>3. PositionsInv'
  BY <1>1 DEF PositionsInv, Rebalancing
<1>4. SplitsInv'
  <2> SUFFICES ASSUME NEW a \in Assets, k' <= a, Open(a)'
      PROVE  (shares'[a] * bar'[a].split[1]) % bar'[a].split[2] = 0
    BY DEF SplitsInv
  <2>1. a # k /\ k <= a /\ Open(a)
    BY <1>1 DEF Assets, Open
  <2>2. shares'[a] = shares[a]
    BY <1>1, <2>1 DEF RecordActions, CorporateAction, AInv, IInv, TypeOK
  <2> QED
    BY <1>1, <2>1, <2>2 DEF AInv, SplitsInv
<1>5. ExecutionsInv'
  BY <1>1, KeptExecutions DEF Earlier
<1> QED
  BY <1>2, <1>3, <1>4, <1>5 DEF AInv

LEMMA StepAInv == AInv /\ [AttributionNext]_<<vars, result>> => AInv'
<1> SUFFICES ASSUME AInv, [AttributionNext]_<<vars, result>> PROVE AInv'
  OBVIOUS
<1>1. [Next]_vars
  BY DEF AttributionNext, Next, RecordActions, RecordFill, RecordExecution, RecordPoint
<1>2. IInv'
  BY <1>1, StepIInv DEF AInv
<1>3. CASE UNCHANGED <<vars, result>>
  <2>1. UNCHANGED <<result, raw, d, phase, k, bar, mark, shares, cash, holdings>>
    BY <1>3 DEF vars, config, session
  <2>2. RecordsInv' /\ AccountInv'
    BY <2>1 DEF AInv, RecordsInv, AccountInv, Sound, result
  <2>3. PositionsInv' /\ SplitsInv'
    BY <2>1 DEF AInv, PositionsInv, SplitsInv, PositionValues, Rebalancing, Open
  <2>4. PeriodsInv' /\ ExecutionsInv'
    BY <2>1 DEF AInv, PeriodsInv, Explained, ExecutionsInv, Earlier, Rebalancing, result
  <2> QED
    BY <1>2, <2>2, <2>3, <2>4 DEF AInv
<1>4. CASE RecordActions
  BY <1>2, <1>4, RecordActionsAInv
<1>5. CASE RecordFill
  BY <1>2, <1>5, RecordFillAInv
<1>6. CASE RecordExecution
  BY <1>2, <1>6, RecordExecutionAInv
<1>7. CASE RecordPoint
  BY <1>2, <1>7, RecordPointAInv
<1>8. CASE NextSession /\ UNCHANGED result
  BY <1>2, <1>8, NextSessionAInv
<1>9. CASE (StartDay \/ Defer) /\ UNCHANGED result
  BY <1>2, <1>9, ToMarkAInv
<1>10. CASE (StartRebalance \/ Value \/ StartSells \/ StartBuys \/ FinishBuys) /\ UNCHANGED result
  BY <1>2, <1>10, LoopsAInv
<1>11. CASE MarkPosition /\ UNCHANGED result
  BY <1>2, <1>11, MarkPositionAInv
<1> QED
  BY <1>3, <1>4, <1>5, <1>6, <1>7, <1>8, <1>9, <1>10, <1>11 DEF AttributionNext

(* The invariant of the recorded result, for any number of assets and      *)
(* sessions.                                                               *)
THEOREM AttributionInvariant == AttributionSpec => []AInv
<1> QED
  BY InitAInv, StepAInv, PTL DEF AttributionSpec

-----------------------------------------------------------------------------
(* Periods *)

(* The contributions between two sessions add up to the change of value.   *)
LEMMA BetweenIs ==
  ASSUME RecordsInv, PeriodsInv, NEW from \in DOMAIN curve, NEW to \in DOMAIN curve, from <= to
  PROVE  Between(from, to) = curve[to].value - curve[from].value
<1> DEFINE L == Len(curve)
           f == [i \in DOMAIN curve |-> IF from < i /\ i <= to THEN Explained(i) ELSE 0]
           v == [i \in 0 .. L |-> IF i <= from THEN 0
                                 ELSE IF i <= to THEN curve[i].value - curve[from].value
                                 ELSE curve[to].value - curve[from].value]
<1>1. L \in Nat /\ DOMAIN curve = 1 .. L /\ \A i \in 1 .. L : curve[i].value \in Int
  <2>1. L \in Nat /\ DOMAIN curve = 1 .. L /\ \A i \in 1 .. L : curve[i] \in PointRecords
    BY DEF RecordsInv
  <2> QED
    BY <2>1 DEF PointRecords
<1>2. from \in 1 .. L /\ to \in 1 .. L
  BY <1>1
<1>3. \A i \in 0 .. L : v[i] \in Int
  BY <1>1, <1>2
<1>4. ASSUME NEW i \in 1 .. L PROVE f[i] = v[i] - v[i - 1]
  <2>1. i - 1 \in 0 .. L /\ i \in 0 .. L /\ i \in DOMAIN curve /\ i - 1 <= L
    BY <1>1
  <2>2. CASE from < i /\ i <= to
    <3>1. i \in 2 .. L
      BY <1>1, <1>2, <2>2
    <3>2. Explained(i) = curve[i].value - curve[i - 1].value
      BY <3>1 DEF PeriodsInv
    <3>3. v[i] = curve[i].value - curve[from].value
      BY <1>2, <2>1, <2>2
    <3>4. v[i - 1] = IF i - 1 = from THEN 0 ELSE curve[i - 1].value - curve[from].value
      BY <1>2, <2>1, <2>2
    <3>5. f[i] = Explained(i)
      BY <2>1, <2>2
    <3>6. curve[i].value \in Int /\ curve[i - 1].value \in Int /\ curve[from].value \in Int
      BY <1>1, <1>2, <3>1
    <3> HIDE DEF f, v
    <3> QED
      BY <3>2, <3>3, <3>4, <3>5, <3>6
  <2>3. CASE i <= from
    BY <1>2, <2>1, <2>3
  <2>4. CASE to < i
    <3>1. f[i] = 0 /\ v[i] = curve[to].value - curve[from].value
      BY <1>2, <2>1, <2>4
    <3>2. v[i - 1] = curve[to].value - curve[from].value
      <4>1. CASE i - 1 = to
        BY <1>1, <1>2, <2>1, <4>1
      <4>2. CASE i - 1 # to
        BY <1>1, <1>2, <2>1, <2>4, <4>2
      <4> QED
        BY <4>1, <4>2
    <3> HIDE DEF f, v
    <3> QED
      BY <1>1, <1>2, <3>1, <3>2
  <2> QED
    BY <1>2, <2>2, <2>3, <2>4
<1>5. v[0] = 0 /\ v[L] = curve[to].value - curve[from].value
  <2>1. 0 \in 0 .. L /\ L \in 0 .. L /\ 0 <= from
    BY <1>1, <1>2
  <2>2. v[0] = 0
    BY <2>1
  <2>3. CASE to = L
    BY <1>1, <1>2, <2>1, <2>3
  <2>4. CASE to # L
    BY <1>1, <1>2, <2>1, <2>4
  <2> QED
    BY <2>2, <2>3, <2>4
<1> HIDE DEF f, v, L
<1>6. SumTo(f, L) = v[L] - v[0]
  BY <1>1, <1>3, <1>4, TotalTelescopes
<1>7. Between(from, to) = SumTo(f, L)
  BY DEF Between, f, L
<1> QED
  BY <1>1, <1>2, <1>5, <1>6, <1>7

(* Each rebalance holds from its execution to the next one's, so together  *)
(* they hold from the first to the end.                                    *)
LEMMA HoldingsAddUp ==
  ASSUME AInv, phase = "session", rebalances # <<>>
  PROVE  SumTo([r \in DOMAIN rebalances |-> Holding(r)], Len(rebalances))
           = curve[Len(curve)].value - curve[rebalances[1]].value
<1> DEFINE L == Len(curve)
           R == Len(rebalances)
           first == curve[rebalances[1]].value
           f == [r \in DOMAIN rebalances |-> Holding(r)]
           v == [r \in 0 .. R |-> IF r = 0 THEN 0 ELSE curve[HoldingEnd(r)].value - first]
<1>1. /\ L \in Nat /\ DOMAIN curve = 1 .. L /\ \A i \in 1 .. L : curve[i] \in PointRecords
      /\ RecordsInv /\ PeriodsInv
  BY DEF AInv, RecordsInv
<1>2. R \in Nat \ {0} /\ DOMAIN rebalances = 1 .. R /\ rebalances \in Seq(Nat)
  BY DEF AInv, ExecutionsInv
<1>3. \A i \in 1 .. L : curve[i].value \in Int
  BY <1>1 DEF PointRecords
<1>4. /\ \A r \in 1 .. R : rebalances[r] \in 1 .. L
      /\ \A q, r \in 1 .. R : q < r => rebalances[q] < rebalances[r]
  <2>1. \A r \in 1 .. R : rebalances[r] \in Nat /\ 1 <= rebalances[r] /\ rebalances[r] <= d /\ d = L
    BY <1>2 DEF AInv, ExecutionsInv
  <2>2. \A r \in 1 .. R : rebalances[r] \in 1 .. L
    BY <1>1, <2>1
  <2>3. \A q, r \in 1 .. R : q < r => rebalances[q] < rebalances[r]
    BY <1>2 DEF AInv, ExecutionsInv
  <2> QED
    BY <2>2, <2>3
<1>5. ASSUME NEW r \in 1 .. R
      PROVE  /\ HoldingEnd(r) = IF r < R THEN rebalances[r + 1] ELSE L
             /\ HoldingEnd(r) \in 1 .. L /\ rebalances[r] <= HoldingEnd(r)
             /\ f[r] = curve[HoldingEnd(r)].value - curve[rebalances[r]].value
  <2>1. HoldingEnd(r) = IF r < R THEN rebalances[r + 1] ELSE L
    BY DEF HoldingEnd
  <2>2. r < R => r + 1 \in 1 .. R
    BY <1>2
  <2>3. rebalances[r] \in 1 .. L
    BY <1>4
  <2>4. r < R => rebalances[r + 1] \in 1 .. L /\ rebalances[r] < rebalances[r + 1]
    BY <1>2, <1>4, <2>2
  <2>5. HoldingEnd(r) \in 1 .. L /\ rebalances[r] <= HoldingEnd(r)
    BY <1>1, <2>1, <2>3, <2>4
  <2>6. Between(rebalances[r], HoldingEnd(r)) = curve[HoldingEnd(r)].value - curve[rebalances[r]].value
    BY <1>1, <2>3, <2>5, BetweenIs
  <2> QED
    BY <1>2, <2>1, <2>5, <2>6 DEF Holding
<1>6. 1 \in 1 .. R /\ R \in 1 .. R
  BY <1>2
<1>7. first \in Int
  BY <1>3, <1>4, <1>6
<1>8. /\ v[0] = 0 /\ \A r \in 1 .. R : v[r] = curve[HoldingEnd(r)].value - first
      /\ \A r \in 1 .. R : curve[HoldingEnd(r)].value \in Int
  BY <1>2, <1>3, <1>5
<1> HIDE DEF f, v, L, R
<1>9. \A r \in 0 .. R : v[r] \in Int
  <2>1. \A r \in 0 .. R : r = 0 \/ r \in 1 .. R
    BY <1>2
  <2> HIDE DEF first
  <2> QED
    BY <1>7, <1>8, <2>1
<1>10. ASSUME NEW r \in 1 .. R PROVE f[r] = v[r] - v[r - 1]
  <2>1. CASE r = 1
    BY <1>5, <1>7, <1>8, <2>1
  <2>2. CASE r # 1
    <3>1. r - 1 \in 1 .. R /\ r - 1 < R /\ (r - 1) + 1 = r
      BY <1>2, <2>2
    <3>2. HoldingEnd(r - 1) = rebalances[r]
      BY <1>5, <3>1
    <3>3. v[r - 1] = curve[rebalances[r]].value - first
      BY <1>8, <3>1, <3>2
    <3>4. curve[rebalances[r]].value \in Int /\ curve[HoldingEnd(r)].value \in Int
      BY <1>3, <1>4, <1>8
    <3> HIDE DEF first
    <3> QED
      BY <1>5, <1>7, <1>8, <3>3, <3>4
  <2> QED
    BY <2>1, <2>2
<1>11. SumTo(f, R) = v[R] - v[0]
  <2>1. R \in Nat /\ (\A r \in 0 .. R : v[r] \in Int) /\ \A r \in 1 .. R : f[r] = v[r] - v[r - 1]
    BY <1>2, <1>9, <1>10
  <2> QED
    BY <2>1, TotalTelescopes
<1>12. HoldingEnd(R) = L
  BY <1>5, <1>6
<1>13. v[R] = curve[L].value - first /\ v[R] \in Int
  BY <1>6, <1>8, <1>9, <1>12, <1>2
<1>14. SumTo(f, R) = curve[L].value - first
  BY <1>8, <1>11, <1>13
<1> QED
  BY <1>14 DEF f, L, R

LEMMA AInvPeriodsReconcile == AInv => PeriodsReconcile
<1> SUFFICES ASSUME AInv, phase = "session", Len(curve) > 1
      PROVE  /\ Residual(Len(curve)) = 0
             /\ \A a \in Assets : LET c == Contribution(curve[Len(curve) - 1], curve[Len(curve)], a)
                                  IN (raw => c.split = 0) /\ (~ raw => c.dividends = 0)
             /\ rebalances # <<>> =>
                  SumTo([r \in DOMAIN rebalances |-> Holding(r)], Len(rebalances))
                    = curve[Len(curve)].value - curve[rebalances[1]].value
  BY Zenon DEF PeriodsReconcile
<1> DEFINE L == Len(curve)
<1>1. L \in Nat /\ DOMAIN curve = 1 .. L /\ \A i \in 1 .. L : curve[i] \in PointRecords
  BY DEF AInv, RecordsInv
<1>2. L \in 2 .. L /\ L \in 1 .. L /\ L - 1 \in 1 .. L
  BY <1>1
<1>3. Residual(L) = 0
  <2>1. curve[L].value \in Int /\ curve[L - 1].value \in Int
    BY <1>1, <1>2 DEF PointRecords
  <2>2. Explained(L) = curve[L].value - curve[L - 1].value
    BY <1>2 DEF AInv, PeriodsInv
  <2> QED
    BY <2>1, <2>2 DEF Residual
<1>4. ASSUME NEW a \in Assets
      PROVE  LET c == Contribution(curve[L - 1], curve[L], a)
             IN (raw => c.split = 0) /\ (~ raw => c.dividends = 0)
  <2> DEFINE actions == curve[L].actions
             c       == Contribution(curve[L - 1], curve[L], a)
  <2>1. actions \in Seq(ActionRecords) /\ Sound(actions)
    BY <1>1, <1>2 DEF AInv, RecordsInv, PointRecords
  <2>2. /\ c.split = OfAsset(a, actions, Splits(actions))
        /\ c.dividends = OfAsset(a, actions, Dividends(actions))
    BY DEF Contribution, Splits, Dividends, Split, Paid
  <2> HIDE DEF actions, c
  <2>3. ASSUME raw PROVE c.split = 0
    <3>1. \A n \in DOMAIN actions : Splits(actions)[n] = 0
      BY <2>1, <2>3 DEF Sound, Splits
    <3> QED
      BY <2>1, <2>2, <3>1, OfAssetZero
  <2>4. ASSUME ~ raw PROVE c.dividends = 0
    <3>1. \A n \in DOMAIN actions : Dividends(actions)[n] = 0
      BY <2>1, <2>4 DEF Sound, Dividends
    <3> QED
      BY <2>1, <2>2, <3>1, OfAssetZero
  <2> QED
    BY <2>3, <2>4 DEF c
<1> QED
  BY <1>3, <1>4, HoldingsAddUp

(* Every period's change of value is explained to the last unit by the     *)
(* contributions of PortfolioAttributionAnalyzer::analyze, whatever traded *)
(* and whatever was paid, and the holding periods add up.                  *)
THEOREM AttributionPeriodsReconcile == AttributionSpec => []PeriodsReconcile
<1> QED
  BY AttributionInvariant, AInvPeriodsReconcile, PTL

-----------------------------------------------------------------------------
(* Drawdown episodes *)

EpisodeRecords == [peak : Nat, trough : Nat, recovery : Nat]

IsTrack(track, values, n) ==
  track = [i \in 1 .. n |-> IF i = 1 THEN NoEpisodes ELSE Track(values, track[i - 1], i)]

LEMMA TrackExists ==
  ASSUME NEW values, NEW n \in Nat
  PROVE  \E track : IsTrack(track, values, n)
<1> DEFINE S == {m \in Nat : \E track : IsTrack(track, values, m)}
<1>1. 0 \in S
  <2> DEFINE g == [i \in 1 .. 0 |-> NoEpisodes]
  <2>1. g = [i \in 1 .. 0 |-> IF i = 1 THEN NoEpisodes ELSE Track(values, g[i - 1], i)]
    OBVIOUS
  <2> QED
    BY <2>1 DEF IsTrack
<1>2. ASSUME NEW m \in Nat, m \in S PROVE m + 1 \in S
  <2>1. PICK g : IsTrack(g, values, m)
    BY <1>2
  <2> DEFINE next == IF m = 0 THEN NoEpisodes ELSE Track(values, g[m], m + 1)
             h == [i \in 1 .. m + 1 |-> IF i = m + 1 THEN next ELSE g[i]]
  <2>2. ASSUME NEW i \in 1 .. m + 1
        PROVE  h[i] = IF i = 1 THEN NoEpisodes ELSE Track(values, h[i - 1], i)
    <3> HIDE DEF next
    <3>1. CASE i = m + 1
      <4>1. h[i] = next /\ (i # 1 => h[i - 1] = g[m] /\ m # 0) /\ (i = 1 => m = 0)
        BY <3>1
      <4> HIDE DEF h
      <4> QED
        BY <3>1, <4>1 DEF next
    <3>2. CASE i # m + 1
      <4>1. i \in 1 .. m /\ h[i] = g[i] /\ (i # 1 => h[i - 1] = g[i - 1])
        BY <3>2
      <4>2. g[i] = IF i = 1 THEN NoEpisodes ELSE Track(values, g[i - 1], i)
        BY <2>1, <4>1 DEF IsTrack
      <4> HIDE DEF h
      <4> QED
        BY <4>1, <4>2
    <3> QED
      BY <3>1, <3>2
  <2>3. h = [i \in 1 .. m + 1 |-> h[i]]
    OBVIOUS
  <2> HIDE DEF h
  <2>4. IsTrack(h, values, m + 1)
    BY <2>2, <2>3 DEF IsTrack
  <2> QED
    BY <2>4
<1> HIDE DEF S
<1>3. \A m \in Nat : m \in S
  BY <1>1, <1>2, InductionOnSets
<1> QED
  BY <1>3 DEF S

TrackedBy(track, values, n) ==
  /\ track[1] = NoEpisodes
  /\ \A i \in 2 .. n : track[i] = Track(values, track[i - 1], i)
  /\ Tracked(values) = track[n]

LEMMA TrackedSteps ==
  ASSUME NEW values, NEW n \in Nat \ {0}, Len(values) = n, DOMAIN values = 1 .. n
  PROVE  \E track : TrackedBy(track, values, n)
<1> DEFINE loop == CHOOSE upTo : upTo = [i \in DOMAIN values |->
                     IF i = 1 THEN NoEpisodes ELSE Track(values, upTo[i - 1], i)]
<1>1. Tracked(values) = loop[Len(values)]
  BY Zenon DEF Tracked
<1>2. \E upTo : upTo = [i \in DOMAIN values |->
                       IF i = 1 THEN NoEpisodes ELSE Track(values, upTo[i - 1], i)]
  <2>1. PICK track : IsTrack(track, values, n)
    BY TrackExists
  <2> QED
    BY <2>1, Zenon DEF IsTrack
<1>3. loop = [i \in DOMAIN values |-> IF i = 1 THEN NoEpisodes ELSE Track(values, loop[i - 1], i)]
  BY <1>2, Zenon
<1> HIDE DEF loop
<1>4. \A i \in 1 .. n : loop[i] = IF i = 1 THEN NoEpisodes ELSE Track(values, loop[i - 1], i)
  BY <1>3
<1>5. loop[1] = NoEpisodes
  BY <1>4
<1>6. \A i \in 2 .. n : loop[i] = Track(values, loop[i - 1], i)
  BY <1>4
<1> QED
  BY <1>1, <1>5, <1>6 DEF TrackedBy

(* From its peak p a drawdown lasts to before e, with its trough at t.     *)
Drawdown(values, p, t, e) ==
  /\ p \in Nat \ {0} /\ t \in Nat /\ e \in Nat /\ p < t /\ t < e
  /\ \A j \in 1 .. e - 1 : values[j] <= values[p]
  /\ \A j \in p + 1 .. e - 1 : values[j] < values[p]
  /\ \A j \in p .. e - 1 : values[t] <= values[j]

(* The episodes done cover the points up to b that are under an earlier.   *)
Covers(values, done, b) ==
  /\ done \in Seq(EpisodeRecords)
  /\ \A n \in DOMAIN done : /\ Drawdown(values, done[n].peak, done[n].trough, done[n].recovery)
                            /\ done[n].recovery <= b
  /\ \A n \in 2 .. Len(done) : done[n - 1].recovery <= done[n].peak
  /\ \A j \in 1 .. b : Under(values, j) <=> \E n \in DOMAIN done : done[n].peak < j /\ j < done[n].recovery

Tracks(values, e, i) ==
  /\ e \in [peak : Nat, from : Nat, trough : Nat, done : Seq(EpisodeRecords)]
  /\ e.from = 0 => /\ e.peak = i /\ Covers(values, e.done, i)
                   /\ \A j \in 1 .. i : values[j] <= values[i]
  /\ e.from # 0 => /\ e.peak = e.from /\ Covers(values, e.done, e.from)
                   /\ Drawdown(values, e.from, e.trough, i + 1)

LEMMA DoneEnds ==
  ASSUME NEW values, NEW done, NEW b, Covers(values, done, b)
  PROVE  \A n \in DOMAIN done : done[n].recovery <= b /\ done[n].recovery \in Nat
<1>1. \A n \in DOMAIN done : done[n] \in EpisodeRecords
  BY DEF Covers
<1>2. \A n \in DOMAIN done : done[n].recovery \in Nat
  BY <1>1 DEF EpisodeRecords
<1>3. \A n \in DOMAIN done : done[n].recovery <= b
  BY DEF Covers
<1> QED
  BY <1>2, <1>3

LEMMA TracksFirst ==
  ASSUME NEW values, values[1] \in Int
  PROVE  Tracks(values, NoEpisodes, 1)
<1>1. /\ NoEpisodes \in [peak : Nat, from : Nat, trough : Nat, done : Seq(EpisodeRecords)]
      /\ NoEpisodes.from = 0 /\ NoEpisodes.peak = 1 /\ NoEpisodes.done = <<>>
  BY DEF NoEpisodes
<1>2. Covers(values, <<>>, 1)
  BY DEF Covers, Under
<1>3. \A j \in 1 .. 1 : values[j] <= values[1]
  OBVIOUS
<1> QED
  BY <1>1, <1>2, <1>3 DEF Tracks

LEMMA TracksNext ==
  ASSUME NEW values, NEW i \in Nat \ {0}, NEW m, m = i + 1, \A j \in 1 .. m : values[j] \in Int,
         NEW e, Tracks(values, e, i)
  PROVE  Tracks(values, Track(values, e, m), m)
<1> DEFINE u == Track(values, e, m)
<1> SUFFICES Tracks(values, u, m)
  OBVIOUS
<1>1. /\ e \in [peak : Nat, from : Nat, trough : Nat, done : Seq(EpisodeRecords)]
      /\ e.peak \in Nat /\ e.from \in Nat /\ e.trough \in Nat /\ e.done \in Seq(EpisodeRecords)
      /\ m \in Nat /\ m \in 1 .. m /\ i \in 1 .. m /\ \A j \in 1 .. m : j \in 1 .. i \/ j = m
  BY DEF Tracks
<1>2. CASE e.from = 0 /\ values[m] < values[e.peak]
  <2>1. /\ e.peak = i /\ Covers(values, e.done, i) /\ \A j \in 1 .. i : values[j] <= values[i]
    BY <1>2 DEF Tracks
  <2>2. u = [e EXCEPT !.from = e.peak, !.trough = m]
    <3>1. values[m] \in Int /\ values[e.peak] \in Int
      BY <1>1, <2>1
    <3>2. ~ (values[m] >= values[e.peak])
      BY <1>2, <3>1
    <3>3. ~ (e.from > 0)
      BY <1>2
    <3> QED
      BY <1>2, <3>2, <3>3 DEF Track
  <2>3. /\ u \in [peak : Nat, from : Nat, trough : Nat, done : Seq(EpisodeRecords)]
        /\ u.from = i /\ u.peak = i /\ u.trough = m /\ u.done = e.done
    BY <1>1, <2>1, <2>2
  <2>4. Drawdown(values, i, m, m + 1)
    BY <1>1, <1>2, <2>1 DEF Drawdown
  <2>5. u.from # 0
    BY <2>3
  <2> HIDE DEF u
  <2> QED
    BY <1>1, <2>1, <2>3, <2>4, <2>5 DEF Tracks
<1>3. CASE e.from = 0 /\ values[m] >= values[e.peak]
  <2>1. /\ e.peak = i /\ Covers(values, e.done, i) /\ \A j \in 1 .. i : values[j] <= values[i]
    BY <1>3 DEF Tracks
  <2>2. u = [e EXCEPT !.peak = m]
    <3>1. ~ (values[m] < values[e.peak])
      BY <1>1, <1>3, <2>1
    <3> QED
      BY <1>3, <3>1 DEF Track
  <2>3. /\ u \in [peak : Nat, from : Nat, trough : Nat, done : Seq(EpisodeRecords)]
        /\ u.from = 0 /\ u.peak = m /\ u.done = e.done
    BY <1>1, <1>3, <2>2
  <2>4. \A j \in 1 .. m : values[j] <= values[m]
    BY <1>1, <1>3, <2>1
  <2>5. Covers(values, e.done, m)
    <3>1. ~ Under(values, m)
      BY <1>1, <2>4 DEF Under
    <3>2. \A n \in DOMAIN e.done : e.done[n].recovery <= i /\ e.done[n].recovery \in Nat
      BY <2>1, DoneEnds
    <3>3. \A j \in 1 .. i : Under(values, j) <=> \E n \in DOMAIN e.done : e.done[n].peak < j /\ j < e.done[n].recovery
      BY <2>1 DEF Covers
    <3>4. \A n \in DOMAIN e.done : ~ (m < e.done[n].recovery)
      BY <1>1, <3>2
    <3>5. \A j \in 1 .. m : Under(values, j) <=> \E n \in DOMAIN e.done : e.done[n].peak < j /\ j < e.done[n].recovery
      BY <1>1, <3>1, <3>3, <3>4
    <3>6. \A n \in DOMAIN e.done : e.done[n].recovery <= m
      BY <1>1, <3>2
    <3> QED
      BY <2>1, <3>5, <3>6 DEF Covers
  <2> HIDE DEF u
  <2> QED
    BY <2>3, <2>4, <2>5 DEF Tracks
<1>4. CASE e.from > 0 /\ values[m] >= values[e.from]
  <2> DEFINE p    == e.from
             t    == e.trough
             new  == [peak |-> p, trough |-> t, recovery |-> m]
             done == Append(e.done, new)
  <2>1. e.peak = p /\ Covers(values, e.done, p) /\ Drawdown(values, p, t, m)
    BY <1>1, <1>4 DEF Tracks
  <2>2. u = [peak |-> m, from |-> 0, trough |-> 0, done |-> done]
    <3>1. e.from # 0
      BY <1>1, <1>4
    <3> QED
      BY <1>4, <3>1 DEF Track, Recovered
  <2>3. new \in EpisodeRecords
    BY <1>1 DEF EpisodeRecords
  <2>4. p \in 1 .. i /\ values[p] \in Int /\ \A j \in 1 .. i : values[j] <= values[p]
    BY <1>1, <2>1 DEF Drawdown
  <2>5. \A j \in 1 .. m : values[j] <= values[m]
    BY <1>1, <1>4, <2>4
  <2>6. \A j \in p + 1 .. i : Under(values, j)
    BY <1>1, <2>1, <2>4 DEF Drawdown, Under
  <2>7. ~ Under(values, m)
    BY <1>1, <2>5 DEF Under
  <2>8. \A n \in DOMAIN e.done : e.done[n].recovery <= p /\ e.done[n].recovery \in Nat
    BY <2>1, DoneEnds
  <2> DEFINE L == Len(e.done)
  <2>9. /\ done \in Seq(EpisodeRecords) /\ L \in Nat /\ DOMAIN e.done = 1 .. L
        /\ DOMAIN done = 1 .. L + 1 /\ Len(done) = L + 1 /\ done[L + 1] = new
        /\ \A n \in 1 .. L : done[n] = e.done[n]
    BY <1>1, <2>3
  <2>10. new.peak = p /\ new.trough = t /\ new.recovery = m
    OBVIOUS
  <2> HIDE DEF new, done, L
  <2>11. \A n \in DOMAIN done : /\ Drawdown(values, done[n].peak, done[n].trough, done[n].recovery)
                                /\ done[n].recovery <= m
    <3>1. ASSUME NEW n \in 1 .. L
          PROVE  /\ Drawdown(values, done[n].peak, done[n].trough, done[n].recovery)
                 /\ done[n].recovery <= m
      <4>1. n \in DOMAIN e.done /\ done[n] = e.done[n]
        BY <2>9
      <4>2. Drawdown(values, e.done[n].peak, e.done[n].trough, e.done[n].recovery)
        BY <2>1, <4>1 DEF Covers
      <4>3. e.done[n].recovery <= m
        BY <1>1, <2>4, <2>8, <4>1
      <4> QED
        BY <4>1, <4>2, <4>3
    <3>2. Drawdown(values, done[L + 1].peak, done[L + 1].trough, done[L + 1].recovery) /\ done[L + 1].recovery <= m
      BY <1>1, <2>1, <2>9, <2>10
    <3>3. \A n \in 1 .. L + 1 : n \in 1 .. L \/ n = L + 1
      BY <2>9
    <3> QED
      BY <2>9, <3>1, <3>2, <3>3
  <2>12. \A n \in 2 .. Len(done) : done[n - 1].recovery <= done[n].peak
    <3>1. ASSUME NEW n \in 2 .. L PROVE done[n - 1].recovery <= done[n].peak
      <4>1. n \in 2 .. Len(e.done) /\ done[n] = e.done[n] /\ done[n - 1] = e.done[n - 1]
        BY <2>9 DEF L
      <4>2. e.done[n - 1].recovery <= e.done[n].peak
        BY <2>1, <4>1 DEF Covers
      <4> QED
        BY <4>1, <4>2
    <3>2. L >= 1 => done[L].recovery <= done[L + 1].peak
      BY <2>8, <2>9, <2>10
    <3>3. \A n \in 2 .. L + 1 : n \in 2 .. L \/ (n = L + 1 /\ L >= 1 /\ n - 1 = L)
      BY <2>9
    <3> QED
      BY <2>9, <3>1, <3>2, <3>3
  <2>13. ASSUME NEW j \in 1 .. m
         PROVE  Under(values, j) <=> \E n \in DOMAIN done : done[n].peak < j /\ j < done[n].recovery
    <3>1. (\E n \in DOMAIN done : done[n].peak < j /\ j < done[n].recovery)
            <=> \/ \E n \in DOMAIN e.done : e.done[n].peak < j /\ j < e.done[n].recovery
                \/ p < j /\ j < m
      BY <2>9, <2>10
    <3>2. CASE j \in 1 .. p
      <4>1. ~ (p < j)
        BY <2>4, <3>2
      <4> QED
        BY <2>1, <3>1, <3>2, <4>1 DEF Covers
    <3>3. CASE j \in p + 1 .. i
      BY <1>1, <2>4, <2>6, <3>1, <3>3
    <3>4. CASE j = m
      <4>1. \A n \in DOMAIN e.done : ~ (j < e.done[n].recovery)
        BY <1>1, <2>4, <2>8, <3>4
      <4> QED
        BY <1>1, <2>7, <3>1, <3>4, <4>1
    <3> QED
      BY <1>1, <2>4, <3>2, <3>3, <3>4
  <2>14. Covers(values, done, m)
    BY <2>9, <2>11, <2>12, <2>13 DEF Covers
  <2>15. /\ u \in [peak : Nat, from : Nat, trough : Nat, done : Seq(EpisodeRecords)]
         /\ u.from = 0 /\ u.peak = m /\ u.done = done
    BY <1>1, <2>2, <2>9
  <2> HIDE DEF u
  <2> QED
    BY <2>5, <2>14, <2>15 DEF Tracks
<1>5. CASE e.from > 0 /\ values[m] < values[e.from]
  <2>1. e.from # 0 /\ e.peak = e.from /\ Covers(values, e.done, e.from) /\ Drawdown(values, e.from, e.trough, m)
    BY <1>1, <1>5 DEF Tracks
  <2>2. e.from \in 1 .. i /\ e.trough \in 1 .. i /\ values[e.from] \in Int /\ values[e.trough] \in Int /\ values[m] \in Int
    BY <1>1, <2>1 DEF Drawdown
  <2>3. u = IF values[m] < values[e.trough] THEN [e EXCEPT !.trough = m] ELSE e
    <3>1. ~ (values[m] >= values[e.from])
      BY <1>5, <2>2
    <3> QED
      BY <1>5, <2>1, <3>1 DEF Track
  <2> DEFINE t == IF values[m] < values[e.trough] THEN m ELSE e.trough
  <2>4. /\ u \in [peak : Nat, from : Nat, trough : Nat, done : Seq(EpisodeRecords)]
        /\ u.from = e.from /\ u.peak = e.peak /\ u.done = e.done /\ u.trough = t
    BY <1>1, <2>3
  <2>5. t \in Nat /\ e.from < t /\ t < m + 1
    BY <1>1, <2>1, <2>2 DEF Drawdown
  <2>6. \A j \in e.from .. m : values[t] <= values[j]
    <3>1. CASE values[m] < values[e.trough]
      BY <1>1, <2>1, <2>2, <3>1 DEF Drawdown
    <3>2. CASE ~ (values[m] < values[e.trough])
      BY <1>1, <2>1, <2>2, <3>2 DEF Drawdown
    <3> QED
      BY <3>1, <3>2
  <2> HIDE DEF t
  <2>7. /\ \A j \in 1 .. m : values[j] <= values[e.from]
        /\ \A j \in e.from + 1 .. m : values[j] < values[e.from]
    BY <1>1, <1>5, <2>1, <2>2 DEF Drawdown
  <2>8. Drawdown(values, e.from, t, m + 1)
    BY <1>1, <2>2, <2>5, <2>6, <2>7 DEF Drawdown
  <2> HIDE DEF u
  <2> QED
    BY <2>1, <2>4, <2>8 DEF Tracks
<1>6. values[m] \in Int /\ values[e.peak] \in Int /\ (e.from # 0 => values[e.from] \in Int)
  BY <1>1 DEF Tracks, Drawdown
<1> QED
  BY <1>1, <1>2, <1>3, <1>4, <1>5, <1>6

LEMMA TrackedTracks ==
  ASSUME NEW values, NEW n \in Nat \ {0}, Len(values) = n, DOMAIN values = 1 .. n,
         \A j \in 1 .. n : values[j] \in Int
  PROVE  Tracks(values, Tracked(values), n)
<1>0. PICK track : TrackedBy(track, values, n)
  BY TrackedSteps
<1>1. /\ track[1] = NoEpisodes
      /\ \A i \in 2 .. n : track[i] = Track(values, track[i - 1], i)
      /\ Tracked(values) = track[n]
  BY <1>0 DEF TrackedBy
<1> DEFINE S == {i \in Nat : i \in 1 .. n => Tracks(values, track[i], i)}
<1>2. 0 \in S
  OBVIOUS
<1>3. ASSUME NEW i \in Nat, i \in S PROVE i + 1 \in S
  <2> SUFFICES ASSUME i + 1 \in 1 .. n PROVE Tracks(values, track[i + 1], i + 1)
    OBVIOUS
  <2>1. CASE i = 0
    <3>1. Tracks(values, NoEpisodes, 1)
      BY TracksFirst
    <3>2. i + 1 = 1
      BY <2>1
    <3> QED
      BY <1>1, <3>1, <3>2
  <2>2. CASE i # 0
    <3> DEFINE m == i + 1
    <3>1. /\ m = i + 1 /\ i \in Nat \ {0} /\ m \in 2 .. n /\ m - 1 = i
          /\ \A j \in 1 .. m : values[j] \in Int
      BY <2>2
    <3>2. Tracks(values, track[i], i)
      BY <1>3, <2>2
    <3> HIDE DEF m
    <3>3. Tracks(values, Track(values, track[i], m), m)
      BY <3>1, <3>2, TracksNext
    <3>4. track[m] = Track(values, track[i], m)
      BY <1>1, <3>1
    <3>5. Tracks(values, track[m], m)
      BY <3>3, <3>4
    <3> QED
      BY <3>1, <3>5
  <2> QED
    BY <2>1, <2>2
<1> HIDE DEF S
<1>4. \A i \in Nat : i \in S
  BY <1>2, <1>3, InductionOnSets
<1>5. Tracks(values, track[n], n)
  BY <1>4 DEF S
<1> QED
  BY <1>1, <1>5

LEMMA WholeDrawdown ==
  ASSUME NEW values, NEW e, Drawdown(values, e.peak, e.trough, EndOf(values, e)), EndOf(values, e) \in Nat
  PROVE  Whole(values, e)
BY DEF Drawdown, Whole

(* What Episodes returns, with an end for an episode that has none yet.    *)
LEMMA EpisodesCover ==
  ASSUME NEW values, NEW n \in Nat \ {0}, Len(values) = n, DOMAIN values = 1 .. n,
         \A j \in 1 .. n : values[j] \in Int
  PROVE  LET episodes == Episodes(values)
         IN /\ episodes \in Seq(EpisodeRecords)
            /\ \A k1 \in DOMAIN episodes :
                 /\ Drawdown(values, episodes[k1].peak, episodes[k1].trough, EndOf(values, episodes[k1]))
                 /\ EndOf(values, episodes[k1]) \in 1 .. n + 1
            /\ \A k1 \in 2 .. Len(episodes) : EndOf(values, episodes[k1 - 1]) <= episodes[k1].peak
            /\ \A j \in 1 .. n : Under(values, j) <=>
                 \E k1 \in DOMAIN episodes : episodes[k1].peak < j /\ j < EndOf(values, episodes[k1])
<1> DEFINE e == Tracked(values)
           episodes == Episodes(values)
<1>1. Tracks(values, e, n)
  BY TrackedTracks
<1> HIDE DEF e
<1>2. e.from \in Nat /\ e.trough \in Nat /\ e.done \in Seq(EpisodeRecords)
  BY <1>1 DEF Tracks
<1>3. episodes = IF e.from > 0 THEN Recovered(e, 0) ELSE e.done
  BY Zenon DEF Episodes, e
<1> HIDE DEF episodes
<1>4. ASSUME NEW b \in 1 .. n, Covers(values, e.done, b)
      PROVE  \A k1 \in DOMAIN e.done :
               /\ Drawdown(values, e.done[k1].peak, e.done[k1].trough, e.done[k1].recovery)
               /\ EndOf(values, e.done[k1]) = e.done[k1].recovery
               /\ e.done[k1].recovery \in 1 .. b
  <2>1. \A k1 \in DOMAIN e.done : e.done[k1].recovery <= b /\ e.done[k1].recovery \in Nat
    BY <1>4, DoneEnds
  <2>2. \A k1 \in DOMAIN e.done : Drawdown(values, e.done[k1].peak, e.done[k1].trough, e.done[k1].recovery)
    BY <1>4 DEF Covers
  <2>3. \A k1 \in DOMAIN e.done : e.done[k1].recovery > 0
    BY <2>1, <2>2 DEF Drawdown
  <2>4. \A k1 \in DOMAIN e.done : e.done[k1].recovery # 0
    BY <2>1, <2>3
  <2>5. \A k1 \in DOMAIN e.done : EndOf(values, e.done[k1]) = e.done[k1].recovery
    BY <2>4 DEF EndOf
  <2>6. \A k1 \in DOMAIN e.done : e.done[k1].recovery \in 1 .. b
    BY <2>1, <2>3
  <2> QED
    BY <2>2, <2>5, <2>6
<1>5. e.done \in Seq(EpisodeRecords) => \A k1 \in 2 .. Len(e.done) : k1 - 1 \in DOMAIN e.done /\ k1 \in DOMAIN e.done
  OBVIOUS
<1>6. CASE e.from = 0
  <2>1. episodes = e.done /\ Covers(values, e.done, n)
    BY <1>1, <1>2, <1>3, <1>6 DEF Tracks
  <2>2. \A k1 \in DOMAIN episodes :
               /\ Drawdown(values, episodes[k1].peak, episodes[k1].trough, episodes[k1].recovery)
               /\ EndOf(values, episodes[k1]) = episodes[k1].recovery
               /\ episodes[k1].recovery \in 1 .. n
    BY <1>4, <2>1
  <2>3. \A k1 \in 2 .. Len(episodes) : episodes[k1 - 1].recovery <= episodes[k1].peak
    BY <2>1 DEF Covers
  <2>4. \A j \in 1 .. n : Under(values, j) <=>
           \E k1 \in DOMAIN episodes : episodes[k1].peak < j /\ j < episodes[k1].recovery
    BY <2>1 DEF Covers
  <2>5. \A k1 \in DOMAIN episodes :
           /\ Drawdown(values, episodes[k1].peak, episodes[k1].trough, EndOf(values, episodes[k1]))
           /\ EndOf(values, episodes[k1]) \in 1 .. n + 1
    BY <2>2
  <2>6. \A k1 \in 2 .. Len(episodes) : EndOf(values, episodes[k1 - 1]) <= episodes[k1].peak
    BY <1>2, <1>5, <2>1, <2>2, <2>3
  <2>7. \A j \in 1 .. n : Under(values, j) <=>
           \E k1 \in DOMAIN episodes : episodes[k1].peak < j /\ j < EndOf(values, episodes[k1])
    BY <2>2, <2>4
  <2> QED
    BY <1>2, <2>1, <2>5, <2>6, <2>7 DEF episodes
<1>7. CASE e.from # 0
  <2> DEFINE new == [peak |-> e.from, trough |-> e.trough, recovery |-> 0]
             L == Len(e.done)
  <2>1. Covers(values, e.done, e.from) /\ Drawdown(values, e.from, e.trough, n + 1)
    BY <1>1, <1>7 DEF Tracks
  <2>2. e.from \in 1 .. n
    BY <1>2, <2>1 DEF Drawdown
  <2>3. episodes = Append(e.done, new)
    BY <1>2, <1>3, <1>7 DEF Recovered
  <2>4. new \in EpisodeRecords
    BY <1>2 DEF EpisodeRecords
  <2>5. new.peak = e.from /\ new.trough = e.trough /\ EndOf(values, new) = n + 1
    BY DEF EndOf
  <2> HIDE DEF new
  <2>6. /\ episodes \in Seq(EpisodeRecords) /\ L \in Nat /\ DOMAIN e.done = 1 .. L
        /\ DOMAIN episodes = 1 .. L + 1 /\ Len(episodes) = L + 1 /\ episodes[L + 1] = new
        /\ \A k1 \in 1 .. L : episodes[k1] = e.done[k1]
    BY <1>2, <2>3, <2>4
  <2>7. \A k1 \in 1 .. L :
               /\ Drawdown(values, e.done[k1].peak, e.done[k1].trough, e.done[k1].recovery)
               /\ EndOf(values, e.done[k1]) = e.done[k1].recovery
               /\ e.done[k1].recovery \in 1 .. e.from
    BY <1>4, <2>1, <2>2, <2>6
  <2>8. \A k1 \in 2 .. L : e.done[k1 - 1].recovery <= e.done[k1].peak
    BY <2>1 DEF Covers
  <2>9. \A j \in 1 .. e.from : Under(values, j) <=>
           \E k1 \in 1 .. L : e.done[k1].peak < j /\ j < e.done[k1].recovery
    BY <2>1, <2>6 DEF Covers
  <2> HIDE DEF L
  <2>10. \A k1 \in 1 .. L + 1 : k1 \in 1 .. L \/ k1 = L + 1
    BY <2>6
  <2>11. \A k1 \in DOMAIN episodes :
           /\ Drawdown(values, episodes[k1].peak, episodes[k1].trough, EndOf(values, episodes[k1]))
           /\ EndOf(values, episodes[k1]) \in 1 .. n + 1
    <3>1. \A k1 \in 1 .. L :
            /\ Drawdown(values, episodes[k1].peak, episodes[k1].trough, EndOf(values, episodes[k1]))
            /\ EndOf(values, episodes[k1]) \in 1 .. n + 1
      <4>1. \A k1 \in 1 .. L : episodes[k1] = e.done[k1]
        BY <2>6
      <4>2. \A k1 \in 1 .. L : Drawdown(values, e.done[k1].peak, e.done[k1].trough, EndOf(values, e.done[k1]))
        BY <2>7
      <4>3. \A k1 \in 1 .. L : EndOf(values, e.done[k1]) \in 1 .. n + 1
        BY <2>2, <2>7
      <4> QED
        BY <4>1, <4>2, <4>3
    <3>2. /\ Drawdown(values, episodes[L + 1].peak, episodes[L + 1].trough, EndOf(values, episodes[L + 1]))
          /\ EndOf(values, episodes[L + 1]) \in 1 .. n + 1
      BY <2>1, <2>5, <2>6
    <3> QED
      BY <2>6, <2>10, <3>1, <3>2
  <2>12. \A k1 \in 2 .. Len(episodes) : EndOf(values, episodes[k1 - 1]) <= episodes[k1].peak
    <3>1. \A k1 \in 2 .. L : EndOf(values, episodes[k1 - 1]) <= episodes[k1].peak
      <4>1. \A k1 \in 2 .. L : k1 \in 1 .. L /\ k1 - 1 \in 1 .. L
        BY <2>6
      <4>2. \A k1 \in 2 .. L : EndOf(values, episodes[k1 - 1]) = e.done[k1 - 1].recovery
        BY <2>6, <2>7, <4>1
      <4>3. \A k1 \in 2 .. L : episodes[k1].peak = e.done[k1].peak
        BY <2>6, <4>1
      <4> QED
        BY <2>8, <4>2, <4>3
    <3>2. L >= 1 => EndOf(values, episodes[L]) <= episodes[L + 1].peak
      <4>1. ASSUME L >= 1 PROVE EndOf(values, episodes[L]) <= e.from
        <5>1. L \in 1 .. L
          BY <2>6, <4>1
        <5>2. EndOf(values, e.done[L]) \in 1 .. e.from /\ episodes[L] = e.done[L]
          BY <2>6, <2>7, <5>1
        <5> QED
          BY <2>2, <5>2
      <4>2. episodes[L + 1].peak = e.from
        BY <2>5, <2>6
      <4> QED
        BY <4>1, <4>2
    <3>3. \A k1 \in 2 .. L + 1 : k1 \in 2 .. L \/ (k1 = L + 1 /\ L >= 1 /\ k1 - 1 = L)
      BY <2>6
    <3> QED
      BY <2>6, <3>1, <3>2, <3>3
  <2>13. ASSUME NEW j \in 1 .. n
         PROVE  Under(values, j) <=>
                  \E k1 \in DOMAIN episodes : episodes[k1].peak < j /\ j < EndOf(values, episodes[k1])
    <3>1. (\E k1 \in DOMAIN episodes : episodes[k1].peak < j /\ j < EndOf(values, episodes[k1]))
            <=> \/ \E k1 \in 1 .. L : e.done[k1].peak < j /\ j < e.done[k1].recovery
                \/ e.from < j /\ j < n + 1
      <4>1. \A k1 \in 1 .. L : episodes[k1].peak = e.done[k1].peak /\ EndOf(values, episodes[k1]) = e.done[k1].recovery
        BY <2>6, <2>7
      <4>2. episodes[L + 1].peak = e.from /\ EndOf(values, episodes[L + 1]) = n + 1
        BY <2>5, <2>6
      <4>3. /\ DOMAIN episodes = 1 .. L + 1 /\ L + 1 \in 1 .. L + 1
            /\ \A k1 \in 1 .. L : k1 \in 1 .. L + 1
        BY <2>6
      <4>4. ASSUME NEW k1 \in 1 .. L + 1, episodes[k1].peak < j, j < EndOf(values, episodes[k1])
            PROVE  \/ \E k2 \in 1 .. L : e.done[k2].peak < j /\ j < e.done[k2].recovery
                   \/ e.from < j /\ j < n + 1
        BY <2>10, <4>1, <4>2, <4>4
      <4>5. ASSUME NEW k1 \in 1 .. L, e.done[k1].peak < j, j < e.done[k1].recovery
            PROVE  \E k2 \in 1 .. L + 1 : episodes[k2].peak < j /\ j < EndOf(values, episodes[k2])
        BY <4>1, <4>3, <4>5
      <4>6. ASSUME e.from < j, j < n + 1
            PROVE  \E k2 \in 1 .. L + 1 : episodes[k2].peak < j /\ j < EndOf(values, episodes[k2])
        BY <4>2, <4>3, <4>6
      <4> QED
        BY <4>3, <4>4, <4>5, <4>6
    <3>2. CASE j <= e.from
      <4>1. j \in 1 .. e.from /\ ~ (e.from < j)
        BY <2>2, <3>2
      <4> QED
        BY <2>9, <3>1, <4>1
    <3>3. CASE e.from < j
      <4>1. values[j] < values[e.from] /\ e.from \in 1 .. j - 1 /\ j < n + 1
        BY <2>1, <2>2, <3>3 DEF Drawdown
      <4>2. Under(values, j)
        BY <4>1, <2>2 DEF Under
      <4> QED
        BY <3>1, <3>3, <4>1, <4>2
    <3> QED
      BY <2>2, <3>2, <3>3
  <2> QED
    BY <2>6, <2>11, <2>12, <2>13 DEF episodes
<1> QED
  BY <1>6, <1>7

LEMMA EpisodesOfValues ==
  ASSUME NEW values, NEW n \in Nat \ {0}, Len(values) = n, DOMAIN values = 1 .. n,
         \A j \in 1 .. n : values[j] \in Int
  PROVE  EpisodesOf(values)
<1> DEFINE episodes == Episodes(values)
<1>1. /\ episodes \in Seq(EpisodeRecords)
      /\ \A k1 \in DOMAIN episodes :
           /\ Drawdown(values, episodes[k1].peak, episodes[k1].trough, EndOf(values, episodes[k1]))
           /\ EndOf(values, episodes[k1]) \in 1 .. n + 1
      /\ \A k1 \in 2 .. Len(episodes) : EndOf(values, episodes[k1 - 1]) <= episodes[k1].peak
      /\ \A j \in 1 .. n : Under(values, j) <=>
           \E k1 \in DOMAIN episodes : episodes[k1].peak < j /\ j < EndOf(values, episodes[k1])
  BY EpisodesCover
<1> HIDE DEF episodes
<1>2. \A k1 \in DOMAIN episodes : Whole(values, episodes[k1])
  <2> SUFFICES ASSUME NEW k1 \in DOMAIN episodes PROVE Whole(values, episodes[k1])
    OBVIOUS
  <2> DEFINE e == episodes[k1]
  <2>1. Drawdown(values, e.peak, e.trough, EndOf(values, e)) /\ EndOf(values, e) \in Nat
    BY <1>1
  <2> HIDE DEF e
  <2>2. Whole(values, e)
    BY <2>1, WholeDrawdown
  <2> QED
    BY <2>2 DEF e
<1>3. {i \in DOMAIN values : Under(values, i)} =
        UNION {episodes[k1].peak + 1 .. EndOf(values, episodes[k1]) - 1 : k1 \in DOMAIN episodes}
  <2>1. ASSUME NEW i \in DOMAIN values, Under(values, i)
        PROVE  \E k1 \in DOMAIN episodes : i \in episodes[k1].peak + 1 .. EndOf(values, episodes[k1]) - 1
    <3>1. PICK k1 \in DOMAIN episodes : episodes[k1].peak < i /\ i < EndOf(values, episodes[k1])
      BY <1>1, <2>1
    <3>2. episodes[k1].peak \in Nat /\ EndOf(values, episodes[k1]) \in Nat
      BY <1>1 DEF Drawdown
    <3>3. i \in episodes[k1].peak + 1 .. EndOf(values, episodes[k1]) - 1
      BY <3>1, <3>2
    <3> QED
      BY <3>3
  <2>2. ASSUME NEW k1 \in DOMAIN episodes, NEW i \in episodes[k1].peak + 1 .. EndOf(values, episodes[k1]) - 1
        PROVE  i \in DOMAIN values /\ Under(values, i)
    <3>1. episodes[k1].peak \in Nat /\ EndOf(values, episodes[k1]) \in 1 .. n + 1
      BY <1>1 DEF Drawdown
    <3>2. i \in 1 .. n /\ episodes[k1].peak < i /\ i < EndOf(values, episodes[k1])
      BY <3>1
    <3> QED
      BY <1>1, <3>2
  <2> QED
    BY <2>1, <2>2
<1> QED
  BY <1>1, <1>2, <1>3 DEF EpisodesOf, episodes

LEMMA AInvEpisodesSound == AInv => EpisodesSound
<1> SUFFICES ASSUME AInv PROVE EpisodesSound
  OBVIOUS
<1>1. ASSUME NEW n \in 1 .. 5, NEW values \in [1 .. n -> Values] PROVE EpisodesOf(values)
  <2>1. n \in Nat \ {0} /\ DOMAIN values = 1 .. n
    OBVIOUS
  <2>3. \A j \in 1 .. n : values[j] \in Int
    BY AttributionAssumption
  <2>2. Len(values) = n
    BY <2>1
  <2> QED
    BY <2>1, <2>2, <2>3, EpisodesOfValues
<1>2. ASSUME Len(curve) > 1
      PROVE  LET values   == [i \in DOMAIN curve |-> curve[i].value]
                 episodes == Episodes(values)
             IN /\ EpisodesOf(values)
                /\ \A n \in DOMAIN episodes :
                     Between(episodes[n].peak, episodes[n].trough)
                       = values[episodes[n].trough] - values[episodes[n].peak]
  <2> DEFINE values   == [i \in DOMAIN curve |-> curve[i].value]
             episodes == Episodes(values)
             L        == Len(curve)
  <2>1. L \in Nat \ {0} /\ DOMAIN curve = 1 .. L /\ \A i \in 1 .. L : curve[i] \in PointRecords
    BY <1>2 DEF AInv, RecordsInv
  <2>2. \A i \in 1 .. L : curve[i].value \in Int
    BY <2>1 DEF PointRecords
  <2>3. /\ DOMAIN values = 1 .. L /\ Len(values) = L
        /\ \A j \in 1 .. L : values[j] = curve[j].value /\ values[j] \in Int
    BY <2>1, <2>2
  <2> HIDE DEF values, L
  <2>4. EpisodesOf(values)
    BY <2>1, <2>3, EpisodesOfValues
  <2>5. \A n \in DOMAIN episodes : Drawdown(values, episodes[n].peak, episodes[n].trough, EndOf(values, episodes[n]))
                                   /\ EndOf(values, episodes[n]) \in 1 .. L + 1
    BY <2>1, <2>3, EpisodesCover
  <2> HIDE DEF episodes
  <2>6. ASSUME NEW n \in DOMAIN episodes
        PROVE  Between(episodes[n].peak, episodes[n].trough)
                 = values[episodes[n].trough] - values[episodes[n].peak]
    <3> DEFINE from == episodes[n].peak
               to   == episodes[n].trough
    <3>1. from \in DOMAIN curve /\ to \in DOMAIN curve /\ from <= to
      BY <2>1, <2>5 DEF Drawdown
    <3> HIDE DEF from, to
    <3>2. Between(from, to) = curve[to].value - curve[from].value
      BY <3>1, BetweenIs DEF AInv
    <3>3. curve[to].value = values[to] /\ curve[from].value = values[from]
      BY <2>1, <2>3, <3>1
    <3>4. Between(from, to) = values[to] - values[from]
      BY <3>2, <3>3
    <3> QED
      BY <3>4 DEF from, to
  <2> QED
    BY <2>4, <2>6 DEF values, episodes
<1> QED
  BY <1>1, <1>2 DEF EpisodesSound

(* Any curve of values divides into drawdown episodes as the code's loop   *)
(* finds them, and the contributions between an episode's peak and its     *)
(* trough add up to its loss.                                              *)
THEOREM AttributionEpisodesSound == AttributionSpec => []EpisodesSound
<1> QED
  BY AttributionInvariant, AInvEpisodesSound, PTL

-----------------------------------------------------------------------------
(* The passes of enforce_constraints *)

LEMMA TotalIsSumTo == ASSUME NEW w PROVE Total(w) = SumTo(w, Len(w))
BY Zenon DEF Total, SumTo

LEMMA TotalMonotone ==
  ASSUME NEW n \in Nat, NEW f, NEW g, \A j \in 1 .. n : f[j] \in Int /\ g[j] \in Int /\ f[j] <= g[j]
  PROVE  SumTo(f, n) <= SumTo(g, n)
<1> DEFINE gap == [j \in 1 .. n |-> g[j] - f[j]]
           S   == {m \in Nat : m <= n => SumTo(gap, m) \in Nat}
<1>1. \A j \in 1 .. n : gap[j] \in Nat /\ g[j] = f[j] + gap[j]
  OBVIOUS
<1> HIDE DEF gap
<1>2. 0 \in S
  BY TotalSteps
<1>3. ASSUME NEW m \in Nat, m \in S PROVE m + 1 \in S
  <2>1. SumTo(gap, m + 1) = SumTo(gap, m) + gap[m + 1]
    BY TotalSteps
  <2>2. m + 1 <= n => m + 1 \in 1 .. n /\ m <= n
    OBVIOUS
  <2>3. m + 1 <= n => gap[m + 1] \in Nat /\ SumTo(gap, m) \in Nat
    BY <1>1, <1>3, <2>2
  <2> QED
    BY <2>1, <2>3
<1> HIDE DEF S
<1>4. \A m \in Nat : m \in S
  BY <1>2, <1>3, InductionOnSets
<1>5. SumTo(gap, n) \in Nat
  BY <1>4 DEF S
<1>6. SumTo(g, n) = SumTo(f, n) + SumTo(gap, n)
  <2>1. \A j \in 1 .. n : f[j] \in Int /\ gap[j] \in Int /\ g[j] = f[j] + gap[j]
    BY <1>1
  <2> QED
    BY <2>1, TotalAdds
<1>7. SumTo(f, n) \in Int
  BY TotalType
<1> QED
  BY <1>5, <1>6, <1>7

LEMMA TotalScaled ==
  ASSUME NEW n \in Nat, NEW f, NEW g, NEW c \in Int, \A j \in 1 .. n : f[j] \in Int /\ g[j] = f[j] * c
  PROVE  SumTo(g, n) = SumTo(f, n) * c
<1> DEFINE S == {m \in Nat : m <= n => SumTo(f, m) \in Int /\ SumTo(g, m) = SumTo(f, m) * c}
<1>1. 0 \in S
  <2>1. SumTo(f, 0) = 0 /\ SumTo(g, 0) = 0
    BY TotalSteps
  <2> QED
    BY <2>1
<1>2. ASSUME NEW m \in Nat, m \in S PROVE m + 1 \in S
  <2> SUFFICES ASSUME m + 1 <= n
        PROVE  SumTo(f, m + 1) \in Int /\ SumTo(g, m + 1) = SumTo(f, m + 1) * c
    OBVIOUS
  <2> DEFINE s == SumTo(f, m)
             x == f[m + 1]
  <2>1. SumTo(f, m + 1) = s + x /\ SumTo(g, m + 1) = SumTo(g, m) + g[m + 1]
    BY TotalSteps
  <2>2. m + 1 \in 1 .. n /\ m <= n
    OBVIOUS
  <2>3. s \in Int /\ SumTo(g, m) = s * c /\ x \in Int /\ g[m + 1] = x * c
    BY <1>2, <2>2
  <2> HIDE DEF s, x
  <2>4. (s + x) * c = s * c + x * c /\ s + x \in Int
    BY <2>3
  <2> QED
    BY <2>1, <2>3, <2>4
<1> HIDE DEF S
<1>3. \A m \in Nat : m \in S
  BY <1>1, <1>2, InductionOnSets
<1> QED
  BY <1>3 DEF S

(* What the assets with room are given, added up.                          *)
LEMMA TotalOfRoom ==
  ASSUME NEW n \in Nat, NEW room \in SUBSET (1 .. n), NEW q \in Int,
         NEW f, \A j \in 1 .. n : f[j] = IF j \in room THEN q ELSE 0
  PROVE  SumTo(f, n) = Cardinality(room) * q
<1> DEFINE upTo(m) == room \cap (1 .. m)
           S == {m \in Nat : m <= n => /\ IsFiniteSet(upTo(m)) /\ Cardinality(upTo(m)) \in Nat
                                       /\ SumTo(f, m) = Cardinality(upTo(m)) * q}
<1>1. 0 \in S
  <2>1. upTo(0) = {} /\ SumTo(f, 0) = 0
    BY TotalSteps
  <2>2. IsFiniteSet({}) /\ Cardinality({}) = 0
    BY FS_EmptySet
  <2>3. 0 * q = 0
    OBVIOUS
  <2>4. IsFiniteSet(upTo(0)) /\ Cardinality(upTo(0)) \in Nat /\ SumTo(f, 0) = Cardinality(upTo(0)) * q
    BY <2>1, <2>2, <2>3
  <2> HIDE DEF upTo
  <2> QED
    BY <2>4
<1>2. ASSUME NEW m \in Nat, m \in S PROVE m + 1 \in S
  <2> SUFFICES ASSUME m + 1 <= n
        PROVE  /\ IsFiniteSet(upTo(m + 1)) /\ Cardinality(upTo(m + 1)) \in Nat
               /\ SumTo(f, m + 1) = Cardinality(upTo(m + 1)) * q
    OBVIOUS
  <2> DEFINE c == Cardinality(upTo(m))
  <2>1. SumTo(f, m + 1) = SumTo(f, m) + f[m + 1]
    BY TotalSteps
  <2>2. m + 1 \in 1 .. n /\ m <= n /\ m + 1 \notin upTo(m)
    OBVIOUS
  <2>3. IsFiniteSet(upTo(m)) /\ c \in Nat /\ SumTo(f, m) = c * q
    BY <1>2, <2>2
  <2>4. CASE m + 1 \in room
    <3>1. upTo(m + 1) = upTo(m) \cup {m + 1}
      BY <2>4
    <3> HIDE DEF upTo
    <3>2. IsFiniteSet(upTo(m) \cup {m + 1}) /\ Cardinality(upTo(m) \cup {m + 1}) = c + 1
      BY <2>2, <2>3, FS_AddElement
    <3>3. f[m + 1] = q
      BY <2>2, <2>4
    <3>5. IsFiniteSet(upTo(m + 1)) /\ Cardinality(upTo(m + 1)) = c + 1
      BY <3>1, <3>2
    <3> HIDE DEF c
    <3>4. (c + 1) * q = c * q + q
      BY <2>3
    <3> QED
      BY <2>1, <2>3, <3>3, <3>4, <3>5
  <2>5. CASE m + 1 \notin room
    <3>1. upTo(m + 1) = upTo(m)
      BY <2>5
    <3> HIDE DEF upTo
    <3>2. f[m + 1] = 0
      BY <2>2, <2>5
    <3> HIDE DEF c
    <3>3. c * q + 0 = c * q
      BY <2>3
    <3> QED
      BY <2>1, <2>3, <3>1, <3>2, <3>3 DEF c
  <2> QED
    BY <2>4, <2>5
<1> HIDE DEF S
<1>3. \A m \in Nat : m \in S
  BY <1>1, <1>2, InductionOnSets
<1>4. upTo(n) = room
  OBVIOUS
<1> QED
  BY <1>3, <1>4 DEF S

LEMMA TotalOfSame ==
  ASSUME NEW n \in Nat, NEW q \in Int, NEW f, \A j \in 1 .. n : f[j] = q
  PROVE  SumTo(f, n) = n * q
<1>1. \A j \in 1 .. n : f[j] = IF j \in 1 .. n THEN q ELSE 0
  OBVIOUS
<1>2. SumTo(f, n) = Cardinality(1 .. n) * q
  <2> DEFINE room == 1 .. n
  <2>1. room \in SUBSET (1 .. n) /\ \A j \in 1 .. n : f[j] = IF j \in room THEN q ELSE 0
    OBVIOUS
  <2> HIDE DEF room
  <2>2. SumTo(f, n) = Cardinality(room) * q
    BY <2>1, TotalOfRoom
  <2> QED
    BY <2>2 DEF room
<1>3. Cardinality(1 .. n) = n
  BY FS_Interval
<1> QED
  BY <1>2, <1>3

IsPassed(after, given, most, budget, passes) ==
  after = [pass \in 0 .. passes |->
            IF pass = 0 THEN Capped(given, most, budget)
            ELSE IF Total(given) = 0 THEN after[0]
            ELSE Redistribute(after[pass - 1], most, budget)]

LEMMA IsPassedSteps ==
  ASSUME NEW given, NEW most, NEW budget, NEW passes \in Nat, NEW after,
         IsPassed(after, given, most, budget, passes)
  PROVE  /\ after[0] = Capped(given, most, budget)
         /\ \A pass \in 1 .. passes :
              after[pass] = IF Total(given) = 0 THEN after[0] ELSE Redistribute(after[pass - 1], most, budget)
<1>1. \A pass \in 0 .. passes : after[pass] =
            IF pass = 0 THEN Capped(given, most, budget)
            ELSE IF Total(given) = 0 THEN after[0]
            ELSE Redistribute(after[pass - 1], most, budget)
  BY DEF IsPassed
<1>2. 0 \in 0 .. passes /\ \A pass \in 1 .. passes : pass \in 0 .. passes /\ pass # 0
  OBVIOUS
<1> QED
  BY <1>1, <1>2

LEMMA IsPassedExists ==
  ASSUME NEW given, NEW most, NEW budget, NEW passes \in Nat
  PROVE  \E after : IsPassed(after, given, most, budget, passes)
<1> DEFINE S == {m \in Nat : \E after : IsPassed(after, given, most, budget, m)}
<1>1. 0 \in S
  <2> DEFINE g == [pass \in 0 .. 0 |-> Capped(given, most, budget)]
  <2>1. g = [pass \in 0 .. 0 |-> IF pass = 0 THEN Capped(given, most, budget)
                                 ELSE IF Total(given) = 0 THEN g[0]
                                 ELSE Redistribute(g[pass - 1], most, budget)]
    OBVIOUS
  <2> HIDE DEF g
  <2>2. IsPassed(g, given, most, budget, 0)
    BY <2>1 DEF IsPassed
  <2> QED
    BY <2>2
<1>2. ASSUME NEW m \in Nat, m \in S PROVE m + 1 \in S
  <2>1. PICK g : IsPassed(g, given, most, budget, m)
    BY <1>2
  <2> DEFINE next == IF Total(given) = 0 THEN g[0] ELSE Redistribute(g[m], most, budget)
             h == [pass \in 0 .. m + 1 |-> IF pass = m + 1 THEN next ELSE g[pass]]
  <2>2. ASSUME NEW pass \in 0 .. m + 1
        PROVE  h[pass] = IF pass = 0 THEN Capped(given, most, budget)
                         ELSE IF Total(given) = 0 THEN h[0]
                         ELSE Redistribute(h[pass - 1], most, budget)
    <3> HIDE DEF next
    <3>0. h[0] = g[0] /\ g[0] = Capped(given, most, budget)
      <4>1. g[0] = Capped(given, most, budget)
        BY <2>1, IsPassedSteps
      <4>2. h[0] = g[0]
        OBVIOUS
      <4> QED
        BY <4>1, <4>2
    <3>1. CASE pass = m + 1
      <4>1. h[pass] = next /\ h[pass - 1] = g[m] /\ pass # 0
        BY <3>1
      <4> HIDE DEF h
      <4> QED
        BY <3>0, <3>1, <4>1 DEF next
    <3>2. CASE pass \in 1 .. m
      <4>1. h[pass] = g[pass] /\ h[pass - 1] = g[pass - 1] /\ pass # 0
        BY <3>2
      <4>2. g[pass] = IF Total(given) = 0 THEN g[0] ELSE Redistribute(g[pass - 1], most, budget)
        <5>1. pass \in 0 .. m /\ pass # 0
          BY <3>2
        <5>2. g[pass] = IF pass = 0 THEN Capped(given, most, budget)
                        ELSE IF Total(given) = 0 THEN g[0]
                        ELSE Redistribute(g[pass - 1], most, budget)
          BY <2>1, <5>1 DEF IsPassed
        <5> QED
          BY <5>1, <5>2
      <4> HIDE DEF h
      <4> QED
        BY <3>0, <4>1, <4>2
    <3>3. CASE pass = 0
      <4> HIDE DEF h
      <4> QED
        BY <3>0, <3>3
    <3> QED
      BY <3>1, <3>2, <3>3
  <2>3. h = [pass \in 0 .. m + 1 |-> h[pass]]
    OBVIOUS
  <2> HIDE DEF h
  <2>4. h = [pass \in 0 .. m + 1 |-> IF pass = 0 THEN Capped(given, most, budget)
                         ELSE IF Total(given) = 0 THEN h[0]
                         ELSE Redistribute(h[pass - 1], most, budget)]
    BY <2>2, <2>3
  <2>5. IsPassed(h, given, most, budget, m + 1)
    BY <2>4 DEF IsPassed
  <2> QED
    BY <2>5
<1> HIDE DEF S
<1>3. \A m \in Nat : m \in S
  BY <1>1, <1>2, InductionOnSets
<1> QED
  BY <1>3 DEF S

LEMMA PassedIs ==
  ASSUME NEW given, NEW most, NEW budget, NEW passes \in Nat
  PROVE  \E after : IsPassed(after, given, most, budget, passes) /\ Passed(given, most, budget, passes) = after[passes]
<1> DEFINE loop == CHOOSE after : after = [pass \in 0 .. passes |->
            IF pass = 0 THEN Capped(given, most, budget)
            ELSE IF Total(given) = 0 THEN after[0]
            ELSE Redistribute(after[pass - 1], most, budget)]
<1>1. Passed(given, most, budget, passes) = loop[passes]
  BY Zenon DEF Passed
<1>2. \E after : after = [pass \in 0 .. passes |->
            IF pass = 0 THEN Capped(given, most, budget)
            ELSE IF Total(given) = 0 THEN after[0]
            ELSE Redistribute(after[pass - 1], most, budget)]
  <2>1. \E after : IsPassed(after, given, most, budget, passes)
    BY IsPassedExists
  <2> QED
    BY <2>1, Zenon DEF IsPassed
<1>3. loop = [pass \in 0 .. passes |->
            IF pass = 0 THEN Capped(given, most, budget)
            ELSE IF Total(given) = 0 THEN loop[0]
            ELSE Redistribute(loop[pass - 1], most, budget)]
  BY <1>2, Zenon
<1> HIDE DEF loop
<1>4. IsPassed(loop, given, most, budget, passes)
  BY <1>3, Zenon DEF IsPassed
<1> QED
  BY <1>1, <1>4

(* The loop, whatever the number of passes it is run for.                  *)
LEMMA PassedSteps ==
  ASSUME NEW given, NEW most, NEW budget
  PROVE  /\ Passed(given, most, budget, 0) = Capped(given, most, budget)
         /\ \A pass \in Nat : Total(given) # 0 =>
              Passed(given, most, budget, pass + 1) = Redistribute(Passed(given, most, budget, pass), most, budget)
<1>1. Passed(given, most, budget, 0) = Capped(given, most, budget)
  <2>1. PICK after : IsPassed(after, given, most, budget, 0) /\ Passed(given, most, budget, 0) = after[0]
    BY PassedIs
  <2> QED
    BY <2>1, IsPassedSteps
<1>2. ASSUME NEW pass \in Nat, Total(given) # 0
      PROVE  Passed(given, most, budget, pass + 1) = Redistribute(Passed(given, most, budget, pass), most, budget)
  <2> DEFINE more == pass + 1
  <2>1. more \in Nat /\ more \in 1 .. more /\ more - 1 = pass /\ \A m \in 1 .. pass : m \in 1 .. more
    OBVIOUS
  <2> HIDE DEF more
  <2>2. PICK f : IsPassed(f, given, most, budget, pass) /\ Passed(given, most, budget, pass) = f[pass]
    BY PassedIs
  <2>3. PICK g : IsPassed(g, given, most, budget, more) /\ Passed(given, most, budget, more) = g[more]
    BY <2>1, PassedIs
  <2>4. f[0] = Capped(given, most, budget) /\ \A m \in 1 .. pass : f[m] = Redistribute(f[m - 1], most, budget)
    BY <1>2, <2>2, IsPassedSteps
  <2>5. g[0] = Capped(given, most, budget) /\ \A m \in 1 .. more : g[m] = Redistribute(g[m - 1], most, budget)
    BY <1>2, <2>1, <2>3, IsPassedSteps
  <2> DEFINE S == {m \in Nat : m <= pass => f[m] = g[m]}
  <2>6. 0 \in S
    BY <2>4, <2>5
  <2>7. ASSUME NEW m \in Nat, m \in S PROVE m + 1 \in S
    <3>1. m + 1 <= pass => m + 1 \in 1 .. pass /\ m + 1 \in 1 .. more /\ (m + 1) - 1 = m /\ m <= pass
      BY <2>1
    <3> QED
      BY <2>4, <2>5, <2>7, <3>1
  <2> HIDE DEF S
  <2>8. \A m \in Nat : m \in S
    BY <2>6, <2>7, InductionOnSets
  <2>9. f[pass] = g[pass]
    BY <2>8 DEF S
  <2>10. g[more] = Redistribute(g[pass], most, budget)
    BY <2>1, <2>5
  <2>11. Passed(given, most, budget, more) = Redistribute(Passed(given, most, budget, pass), most, budget)
    BY <2>2, <2>3, <2>9, <2>10
  <2> QED
    BY <2>11 DEF more
<1> QED
  BY <1>1, <1>2

-----------------------------------------------------------------------------
(* The weights after any number of passes *)

(* The part of the budget in proportion to the raw weight.                 *)
Dry(given, budget) == [a \in DOMAIN given |-> (given[a] * budget) \div Total(given)]

(* Raised by one level, up to the cap.                                     *)
Leveled(given, most, budget, w, h) == \A a \in DOMAIN given : w[a] = Least(most, Dry(given, budget)[a] + h)

Filling(given, most, budget, w) ==
  /\ w \in [DOMAIN given -> Nat]
  /\ Total(w) <= budget
  /\ \E h \in Nat : Leveled(given, most, budget, w, h)

(* Done, or at most so many assets have room.                              *)
RoomLeft(most, budget, w, left) ==
  Total(w) = budget \/ Room(w, most) = {} \/ Cardinality(Room(w, most)) <= left

Input(given, most, budget, n) ==
  /\ n \in Nat \ {0} /\ given \in [1 .. n -> Nat] /\ most \in Nat /\ budget \in Nat
  /\ Total(given) > 0
  /\ \A a \in 1 .. n : (given[a] * budget) % Total(given) = 0

LEMMA TotalNat ==
  ASSUME NEW n \in Nat, NEW w \in [1 .. n -> Nat]
  PROVE  Total(w) \in Nat /\ Len(w) = n /\ Total(w) = SumTo(w, n)
<1>1. Len(w) = n
  OBVIOUS
<1>2. Total(w) = SumTo(w, n)
  BY <1>1, TotalIsSumTo
<1>3. SumTo(w, n) \in Int
  BY TotalType
<1>4. SumTo(w, n) >= 0
  <2> DEFINE zero == [a \in 1 .. n |-> 0]
  <2>1. \A a \in 1 .. n : zero[a] = 0 /\ zero[a] \in Int /\ w[a] \in Int /\ zero[a] <= w[a]
    OBVIOUS
  <2> HIDE DEF zero
  <2>2. SumTo(zero, n) = 0
    BY <2>1, TotalZero
  <2>3. SumTo(zero, n) <= SumTo(w, n)
    BY <2>1, TotalMonotone
  <2> QED
    BY <2>2, <2>3
<1> QED
  BY <1>1, <1>2, <1>3, <1>4

LEMMA ExactQuotient ==
  ASSUME NEW x \in Nat, NEW t \in Nat, t > 0, x % t = 0
  PROVE  x \div t \in Nat /\ (x \div t) * t = x
OBVIOUS

LEMMA DrySum ==
  ASSUME NEW given, NEW most, NEW budget, NEW n, Input(given, most, budget, n)
  PROVE  /\ Dry(given, budget) \in [1 .. n -> Nat] /\ SumTo(Dry(given, budget), n) = budget
<1> DEFINE t   == Total(given)
           dry == Dry(given, budget)
<1>1. /\ n \in Nat /\ given \in [1 .. n -> Nat] /\ budget \in Nat /\ t > 0
      /\ t \in Nat /\ t = SumTo(given, n) /\ DOMAIN given = 1 .. n
      /\ \A a \in 1 .. n : (given[a] * budget) % t = 0
  BY TotalNat DEF Input
<1> HIDE DEF t
<1>2. dry = [a \in 1 .. n |-> (given[a] * budget) \div t]
  BY <1>1 DEF Dry, t
<1> HIDE DEF dry
<1>3. \A a \in 1 .. n : dry[a] \in Nat /\ dry[a] * t = given[a] * budget
  <2> SUFFICES ASSUME NEW a \in 1 .. n PROVE dry[a] \in Nat /\ dry[a] * t = given[a] * budget
    OBVIOUS
  <2> DEFINE x == given[a] * budget
  <2>1. given[a] \in Nat /\ x % t = 0 /\ dry[a] = x \div t
    BY <1>1, <1>2
  <2>2. x \in Nat
    BY <1>1, <2>1, ProductNat
  <2> HIDE DEF x
  <2>3. x \div t \in Nat /\ (x \div t) * t = x
    BY <1>1, <2>1, <2>2, ExactQuotient
  <2> QED
    BY <2>1, <2>3 DEF x
<1>4. dry \in [1 .. n -> Nat]
  BY <1>2, <1>3
<1> DEFINE both == [a \in 1 .. n |-> dry[a] * t]
<1>5. \A a \in 1 .. n : both[a] = dry[a] * t /\ both[a] = given[a] * budget
  BY <1>3
<1> HIDE DEF both
<1>6. SumTo(both, n) = SumTo(dry, n) * t
  <2>1. n \in Nat /\ t \in Int /\ \A a \in 1 .. n : dry[a] \in Int /\ both[a] = dry[a] * t
    BY <1>1, <1>3, <1>5
  <2> QED
    BY <2>1, TotalScaled
<1>7. SumTo(both, n) = t * budget
  <2>1. n \in Nat /\ budget \in Int /\ \A a \in 1 .. n : given[a] \in Int /\ both[a] = given[a] * budget
    BY <1>1, <1>5
  <2>2. SumTo(both, n) = SumTo(given, n) * budget
    BY <2>1, TotalScaled
  <2> QED
    BY <1>1, <2>2
<1> DEFINE s == SumTo(dry, n)
<1>8. s \in Nat
  BY <1>1, <1>4, TotalNat
<1>9. s * t = t * budget
  BY <1>6, <1>7
<1> HIDE DEF s
<1>10. s = budget
  <2>1. t \in Nat \ {0} /\ s \in Int /\ budget \in Int
    BY <1>1, <1>8
  <2>2. (s * t) \div t = s /\ (budget * t) \div t = budget
    BY <2>1, ProductQuotient
  <2>3. s * t = budget * t
    BY <1>9, <2>1
  <2> QED
    BY <2>2, <2>3
<1> QED
  BY <1>4, <1>10 DEF s, dry

LEMMA RoomFinite ==
  ASSUME NEW n \in Nat, NEW w \in [1 .. n -> Nat], NEW most \in Nat
  PROVE  /\ IsFiniteSet(Room(w, most)) /\ Cardinality(Room(w, most)) \in Nat
         /\ Cardinality(Room(w, most)) <= n /\ Room(w, most) \in SUBSET (1 .. n)
         /\ Room(w, most) # {} => Cardinality(Room(w, most)) # 0
<1>1. Room(w, most) \in SUBSET (1 .. n)
  BY DEF Room
<1>2. IsFiniteSet(1 .. n) /\ Cardinality(1 .. n) = n
  BY FS_Interval
<1>3. IsFiniteSet(Room(w, most)) /\ Cardinality(Room(w, most)) <= Cardinality(1 .. n)
  BY <1>1, <1>2, FS_Subset
<1>4. Cardinality(Room(w, most)) \in Nat
  BY <1>3, FS_CardinalityType
<1>5. Room(w, most) # {} => Cardinality(Room(w, most)) # 0
  BY <1>3, FS_EmptySet
<1> QED
  BY <1>1, <1>2, <1>3, <1>4, <1>5

(* The weights before the passes.                                          *)
LEMMA CappedFills ==
  ASSUME NEW given, NEW most, NEW budget, NEW n, Input(given, most, budget, n)
  PROVE  /\ Filling(given, most, budget, Capped(given, most, budget))
         /\ RoomLeft(most, budget, Capped(given, most, budget), n)
<1> DEFINE w   == Capped(given, most, budget)
           dry == Dry(given, budget)
<1>1. /\ n \in Nat \ {0} /\ given \in [1 .. n -> Nat] /\ most \in Nat /\ budget \in Nat /\ Total(given) > 0
      /\ DOMAIN given = 1 .. n
  BY DEF Input
<1>2. dry \in [1 .. n -> Nat] /\ SumTo(dry, n) = budget
  BY DrySum
<1>3. \A a \in 1 .. n : dry[a] = (given[a] * budget) \div Total(given)
  BY <1>1 DEF Dry
<1>4. w = [a \in 1 .. n |-> Least(most, dry[a])]
  <2>1. CASE budget > 0
    <3>1. Total(given) # 0 /\ ~ (budget <= 0)
      <4>1. Total(given) \in Nat
        BY <1>1, TotalNat
      <4> QED
        BY <1>1, <2>1, <4>1
    <3> QED
      BY <1>1, <1>3, <3>1 DEF Capped
  <2>2. CASE budget = 0
    <3>1. w = [a \in 1 .. n |-> 0]
      BY <1>1, <2>2 DEF Capped
    <3>2. \A a \in 1 .. n : dry[a] = 0
      <4> SUFFICES ASSUME NEW a \in 1 .. n PROVE dry[a] = 0
        OBVIOUS
      <4> DEFINE t == Total(given)
                 x == given[a] * budget
      <4>1. t \in Nat /\ t > 0 /\ given[a] \in Nat
        BY <1>1, TotalNat
      <4>2. x = 0
        BY <2>2, <4>1
      <4>3. dry[a] = x \div t
        BY <1>3
      <4> HIDE DEF x, t, dry
      <4> QED
        BY <4>1, <4>2, <4>3
    <3>3. \A a \in 1 .. n : Least(most, dry[a]) = 0
      BY <1>1, <3>2 DEF Least
    <3> HIDE DEF w, dry
    <3> QED
      BY <3>1, <3>3
  <2> QED
    BY <1>1, <2>1, <2>2
<1> HIDE DEF w, dry
<1>5. w \in [1 .. n -> Nat] /\ \A a \in 1 .. n : w[a] = Least(most, dry[a]) /\ w[a] <= dry[a]
  BY <1>1, <1>2, <1>4 DEF Least
<1>6. Total(w) <= budget
  <2>1. \A a \in 1 .. n : w[a] \in Int /\ dry[a] \in Int /\ w[a] <= dry[a]
    BY <1>2, <1>5
  <2>2. SumTo(w, n) <= SumTo(dry, n)
    BY <1>1, <2>1, TotalMonotone
  <2>3. Total(w) = SumTo(w, n)
    BY <1>1, <1>5, TotalNat
  <2> QED
    BY <1>2, <2>2, <2>3
<1>7. Leveled(given, most, budget, w, 0)
  <2>1. \A a \in 1 .. n : dry[a] + 0 = dry[a]
    BY <1>2
  <2> QED
    BY <1>1, <1>5, <2>1 DEF Leveled, dry
<1>8. Filling(given, most, budget, w)
  BY <1>1, <1>5, <1>6, <1>7 DEF Filling
<1>9. RoomLeft(most, budget, w, n)
  BY <1>1, <1>5, RoomFinite DEF RoomLeft
<1> QED
  BY <1>8, <1>9 DEF w

(* A pass spends the rest of the budget or brings an asset to its cap.     *)
LEMMA RedistributeFills ==
  ASSUME NEW given, NEW most, NEW budget, NEW n, Input(given, most, budget, n),
         NEW w, Filling(given, most, budget, w), NEW left \in Int, RoomLeft(most, budget, w, left),
         Room(w, most) # {} => (budget - Total(w)) % Cardinality(Room(w, most)) = 0
  PROVE  /\ Filling(given, most, budget, Redistribute(w, most, budget))
         /\ RoomLeft(most, budget, Redistribute(w, most, budget), left - 1)
<1> DEFINE u     == Redistribute(w, most, budget)
           room  == Room(w, most)
           c     == Cardinality(room)
           rest  == budget - Total(w)
           dry   == Dry(given, budget)
<1> SUFFICES Filling(given, most, budget, u) /\ RoomLeft(most, budget, u, left - 1)
  OBVIOUS
<1>1. /\ n \in Nat \ {0} /\ most \in Nat /\ budget \in Nat /\ DOMAIN given = 1 .. n
      /\ w \in [1 .. n -> Nat] /\ Total(w) <= budget /\ Total(w) \in Nat /\ Total(w) = SumTo(w, n)
  BY TotalNat DEF Input, Filling
<1>2. dry \in [1 .. n -> Nat]
  BY DrySum
<1>3. /\ IsFiniteSet(room) /\ c \in Nat /\ room \in SUBSET (1 .. n) /\ (room # {} => c # 0)
      /\ \A a \in 1 .. n : a \in room <=> w[a] < most
  <2>1. \A a \in 1 .. n : a \in room <=> w[a] < most
    BY <1>1 DEF Room
  <2> QED
    BY <1>1, <2>1, RoomFinite
<1>4. PICK h \in Nat : Leveled(given, most, budget, w, h)
  BY DEF Filling
<1>5. \A a \in 1 .. n : w[a] = Least(most, dry[a] + h) /\ w[a] <= most
  <2>1. \A a \in 1 .. n : w[a] = Least(most, dry[a] + h)
    BY <1>1, <1>4 DEF Leveled
  <2> HIDE DEF dry
  <2> QED
    BY <1>1, <1>2, <2>1 DEF Least
<1>6. CASE rest <= 0 \/ room = {}
  <2>1. u = w
    BY <1>6 DEF Redistribute
  <2>2. Total(w) = budget \/ room = {}
    BY <1>1, <1>6
  <2> HIDE DEF u
  <2> QED
    BY <2>1, <2>2 DEF RoomLeft
<1>7. CASE ~ (rest <= 0 \/ room = {})
  <2> DEFINE q == rest \div c
             more == [a \in 1 .. n |-> IF a \in room THEN q ELSE 0]
             up   == [a \in 1 .. n |-> w[a] + more[a]]
  <2>1. /\ u = [a \in 1 .. n |-> IF a \in room THEN Least(most, w[a] + q) ELSE w[a]]
        /\ rest \in Nat /\ rest > 0 /\ c \in Nat \ {0} /\ rest % c = 0
    BY <1>1, <1>3, <1>7 DEF Redistribute
  <2>2. q \in Nat /\ q * c = rest
    BY <2>1, ExactQuotient
  <2> HIDE DEF u, q, rest, c, room, dry
  <2>3. /\ \A a \in 1 .. n : more[a] = IF a \in room THEN q ELSE 0
        /\ \A a \in 1 .. n : more[a] \in Nat /\ up[a] = w[a] + more[a] /\ up[a] \in Nat /\ w[a] \in Nat
    BY <1>1, <2>2
  <2>4. /\ u \in [1 .. n -> Nat]
        /\ \A a \in 1 .. n : /\ u[a] = IF a \in room THEN Least(most, w[a] + q) ELSE w[a]
                             /\ u[a] <= up[a] /\ w[a] <= u[a]
    <3>1. \A a \in 1 .. n : u[a] = IF a \in room THEN Least(most, w[a] + q) ELSE w[a]
      BY <2>1
    <3>2. \A a \in 1 .. n : u[a] \in Nat
      BY <1>1, <2>2, <3>1 DEF Least
    <3>3. \A a \in 1 .. n : u[a] <= up[a] /\ w[a] <= u[a]
      BY <1>1, <1>5, <2>2, <2>3, <3>1 DEF Least
    <3>4. u \in [1 .. n -> Nat]
      BY <2>1, <3>2
    <3> QED
      BY <3>1, <3>3, <3>4
  <2> HIDE DEF more, up
  <2>5. SumTo(up, n) = budget
    <3>1. SumTo(more, n) = c * q
      <4>1. \A a \in 1 .. n : more[a] = IF a \in room THEN q ELSE 0
        BY <2>3
      <4>2. n \in Nat /\ room \in SUBSET (1 .. n) /\ q \in Int
        BY <1>1, <1>3, <2>2
      <4>3. SumTo(more, n) = Cardinality(room) * q
        BY <4>1, <4>2, TotalOfRoom
      <4> QED
        BY <4>3 DEF c
    <3>2. SumTo(up, n) = SumTo(w, n) + SumTo(more, n)
      <4>1. n \in Nat /\ \A a \in 1 .. n : w[a] \in Int /\ more[a] \in Int /\ up[a] = w[a] + more[a]
        BY <1>1, <2>3
      <4> QED
        BY <4>1, TotalAdds
    <3>3. c * q = rest
      BY <2>1, <2>2
    <3>4. SumTo(w, n) + rest = budget
      BY <1>1 DEF rest
    <3> QED
      BY <3>1, <3>2, <3>3, <3>4
  <2>6. Total(u) = SumTo(u, n)
    BY <1>1, <2>4, TotalNat
  <2>7. Total(u) <= budget
    <3>1. n \in Nat /\ \A a \in 1 .. n : u[a] \in Int /\ up[a] \in Int /\ u[a] <= up[a]
      BY <1>1, <2>3, <2>4
    <3>2. SumTo(u, n) <= SumTo(up, n)
      BY <3>1, TotalMonotone
    <3> QED
      BY <2>5, <2>6, <3>2
  <2>8. Leveled(given, most, budget, u, h + q)
    <3>1. ASSUME NEW a \in 1 .. n PROVE u[a] = Least(most, dry[a] + (h + q))
      <4>1. dry[a] \in Nat /\ w[a] = Least(most, dry[a] + h) /\ (a \in room <=> w[a] < most)
        BY <1>2, <1>3, <1>5
      <4>2. u[a] = IF a \in room THEN Least(most, w[a] + q) ELSE w[a]
        BY <2>4
      <4> QED
        <5>1. CASE a \in room
          <6>1. w[a] = dry[a] + h /\ u[a] = Least(most, w[a] + q)
            BY <1>1, <4>1, <4>2, <5>1 DEF Least
          <6>2. w[a] + q = dry[a] + (h + q)
            BY <2>2, <4>1, <6>1
          <6> QED
            BY <6>1, <6>2
        <5>2. CASE a \notin room
          <6>1. ~ (w[a] < most) /\ u[a] = w[a] /\ w[a] \in Nat
            BY <1>1, <4>1, <4>2, <5>2
          <6>2. ~ (most < dry[a] + h) => w[a] = dry[a] + h
            BY <1>1, <4>1 DEF Least
          <6>3. most < dry[a] + h => w[a] = most
            BY <4>1 DEF Least
          <6>4. w[a] = most /\ most <= dry[a] + h
            BY <1>1, <4>1, <6>1, <6>2, <6>3
          <6>5. Least(most, dry[a] + (h + q)) = most
            BY <1>1, <2>2, <4>1, <6>4 DEF Least
          <6> QED
            BY <6>1, <6>4, <6>5
        <5> QED
          BY <5>1, <5>2
    <3> QED
      BY <1>1, <3>1 DEF Leveled, dry
  <2>9. Filling(given, most, budget, u)
    BY <1>1, <2>2, <2>4, <2>7, <2>8 DEF Filling
  <2>10. RoomLeft(most, budget, u, left - 1)
    <3>1. CASE \A a \in room : w[a] + q <= most
      <4>1. \A a \in 1 .. n : u[a] = up[a]
        <5>1. \A a \in room : Least(most, w[a] + q) = w[a] + q
          BY <1>1, <1>3, <2>2, <3>1 DEF Least
        <5>2. ASSUME NEW a \in 1 .. n PROVE u[a] = up[a]
          <6>1. /\ u[a] = IF a \in room THEN Least(most, w[a] + q) ELSE w[a]
                /\ up[a] = w[a] + more[a] /\ more[a] = (IF a \in room THEN q ELSE 0) /\ w[a] \in Nat
            BY <2>3, <2>4
          <6> QED
            BY <2>2, <5>1, <6>1
        <5> QED
          BY <5>2
      <4>2. SumTo(u, n) = SumTo(up, n)
        BY <1>1, <4>1, TotalSame
      <4> QED
        BY <2>5, <2>6, <4>2 DEF RoomLeft
    <3>2. CASE \E a \in room : ~ (w[a] + q <= most)
      <4>1. PICK b \in room : ~ (w[b] + q <= most)
        BY <3>2
      <4> DEFINE still == Room(u, most)
      <4>2. b \in 1 .. n /\ u[b] = most
        BY <1>1, <1>3, <2>2, <2>4, <4>1 DEF Least
      <4>3. still \subseteq room \ {b}
        <5>1. \A a \in still : a \in 1 .. n /\ u[a] < most
          BY <2>4 DEF Room
        <5>2. \A a \in still : w[a] < most
          BY <1>1, <2>4, <5>1
        <5>3. \A a \in still : a # b
          BY <1>1, <4>2, <5>1
        <5> HIDE DEF still
        <5> QED
          BY <1>3, <5>1, <5>2, <5>3
      <4>4. IsFiniteSet(room \ {b}) /\ Cardinality(room \ {b}) = c - 1
        BY <1>3, <4>1, FS_RemoveElement DEF c
      <4>5. Cardinality(still) <= c - 1 /\ Cardinality(still) \in Nat
        <5>1. Cardinality(still) <= Cardinality(room \ {b}) /\ IsFiniteSet(still)
          BY <4>3, <4>4, FS_Subset
        <5>2. Cardinality(still) \in Nat
          BY <5>1, FS_CardinalityType
        <5> QED
          BY <4>4, <5>1, <5>2
      <4>6. c <= left
        <5>1. Total(w) # budget
          BY <1>1, <2>1 DEF rest
        <5>2. room # {}
          BY <4>1
        <5> QED
          BY <5>1, <5>2 DEF RoomLeft, c, room
      <4> HIDE DEF still
      <4>7. Cardinality(still) <= left - 1
        BY <2>1, <4>5, <4>6
      <4> QED
        BY <4>7 DEF RoomLeft, still
    <3> QED
      BY <3>1, <3>2
  <2> QED
    BY <2>9, <2>10
<1> QED
  BY <1>6, <1>7

LEMMA PassesFill ==
  ASSUME NEW given, NEW most, NEW budget, NEW n, Input(given, most, budget, n), NEW passes \in Nat,
         \A pass \in 0 .. passes - 1 :
           LET weights == Passed(given, most, budget, pass)
           IN Room(weights, most) # {} => (budget - Total(weights)) % Cardinality(Room(weights, most)) = 0
  PROVE  /\ Filling(given, most, budget, Passed(given, most, budget, passes))
         /\ RoomLeft(most, budget, Passed(given, most, budget, passes), n - passes)
<1> DEFINE P(m) == Passed(given, most, budget, m)
           S == {m \in Nat : m <= passes => /\ Filling(given, most, budget, P(m))
                                            /\ RoomLeft(most, budget, P(m), n - m)}
<1>1. n \in Nat /\ Total(given) # 0
  <2>1. n \in Nat /\ Total(given) \in Nat /\ Total(given) > 0
    BY TotalNat DEF Input
  <2> QED
    BY <2>1
<1>2. P(0) = Capped(given, most, budget) /\ \A m \in Nat : P(m + 1) = Redistribute(P(m), most, budget)
  BY <1>1, PassedSteps
<1>3. \A pass \in 0 .. passes - 1 : Room(P(pass), most) # {} =>
        (budget - Total(P(pass))) % Cardinality(Room(P(pass), most)) = 0
  OBVIOUS
<1> HIDE DEF P
<1>4. 0 \in S
  <2>1. Filling(given, most, budget, P(0)) /\ RoomLeft(most, budget, P(0), n)
    BY <1>2, CappedFills
  <2>2. n - 0 = n
    BY <1>1
  <2> QED
    BY <2>1, <2>2
<1>5. ASSUME NEW m \in Nat, m \in S PROVE m + 1 \in S
  <2> SUFFICES ASSUME m + 1 <= passes
        PROVE  Filling(given, most, budget, P(m + 1)) /\ RoomLeft(most, budget, P(m + 1), n - (m + 1))
    OBVIOUS
  <2> DEFINE w    == P(m)
             left == n - m
  <2>1. m \in 0 .. passes - 1 /\ m <= passes /\ left \in Int /\ n - (m + 1) = left - 1
    BY <1>1
  <2>2. Filling(given, most, budget, w) /\ RoomLeft(most, budget, w, left)
    BY <1>5, <2>1
  <2>3. Room(w, most) # {} => (budget - Total(w)) % Cardinality(Room(w, most)) = 0
    BY <1>3, <2>1
  <2>4. P(m + 1) = Redistribute(w, most, budget)
    BY <1>2
  <2> HIDE DEF w, left
  <2>5. /\ Filling(given, most, budget, Redistribute(w, most, budget))
        /\ RoomLeft(most, budget, Redistribute(w, most, budget), left - 1)
    BY <2>1, <2>2, <2>3, RedistributeFills
  <2> QED
    BY <2>1, <2>4, <2>5
<1> HIDE DEF S
<1>6. \A m \in Nat : m \in S
  BY <1>4, <1>5, InductionOnSets
<1>7. Filling(given, most, budget, P(passes)) /\ RoomLeft(most, budget, P(passes), n - passes)
  BY <1>6 DEF S
<1> QED
  BY <1>7 DEF P

LEMMA FilledIsWater ==
  ASSUME NEW given, NEW most, NEW budget, NEW n, Input(given, most, budget, n),
         NEW w, Filling(given, most, budget, w), NEW left \in Int, RoomLeft(most, budget, w, left), left <= 0,
         w = EnforceConstraints(given, most, budget)
  PROVE  WaterFilled(given, most, budget)
<1> DEFINE dry  == Dry(given, budget)
           room == Room(w, most)
<1>1. /\ n \in Nat \ {0} /\ most \in Nat /\ budget \in Nat /\ DOMAIN given = 1 .. n
      /\ w \in [1 .. n -> Nat] /\ Total(w) <= budget /\ Total(w) \in Nat /\ Total(w) = SumTo(w, n)
  BY TotalNat DEF Input, Filling
<1>2. dry \in [1 .. n -> Nat]
  BY DrySum
<1>3. \A a \in 1 .. n : dry[a] = (given[a] * budget) \div Total(given)
  BY <1>1 DEF Dry
<1>4. PICK h \in Nat : Leveled(given, most, budget, w, h)
  BY DEF Filling
<1>5. \A a \in 1 .. n : w[a] = Least(most, dry[a] + h) /\ w[a] <= most
  <2>1. \A a \in 1 .. n : w[a] = Least(most, dry[a] + h)
    BY <1>1, <1>4 DEF Leveled
  <2> HIDE DEF dry
  <2> QED
    BY <1>1, <1>2, <2>1 DEF Least
<1>6. Total(w) = budget \/ room = {}
  <2>1. Cardinality(room) \in Nat /\ (room # {} => Cardinality(room) # 0)
    BY <1>1, RoomFinite
  <2> QED
    BY <2>1 DEF RoomLeft
<1>7. \A a \in 1 .. n : a \in room <=> w[a] < most
  BY <1>1 DEF Room
<1> HIDE DEF dry, room
<1>8. room = {} => \A a \in 1 .. n : w[a] = most
  BY <1>1, <1>5, <1>7
<1>9. Total(w) = Least(budget, most * Cardinality(DOMAIN given))
  <2> DEFINE full == [a \in 1 .. n |-> most]
             all  == n * most
  <2>1. \A a \in 1 .. n : full[a] = most /\ full[a] \in Int /\ w[a] \in Int /\ w[a] <= full[a]
    BY <1>1, <1>5
  <2> HIDE DEF full
  <2>2. SumTo(full, n) = all
    BY <1>1, <2>1, TotalOfSame
  <2>3. SumTo(w, n) <= SumTo(full, n)
    BY <1>1, <2>1, TotalMonotone
  <2>4. room = {} => SumTo(w, n) = all
    BY <1>1, <1>8, TotalOfSame
  <2>5. most * Cardinality(DOMAIN given) = all /\ all \in Nat
    <3>1. Cardinality(1 .. n) = n
      BY <1>1, FS_Interval
    <3> QED
      BY <1>1, <3>1
  <2> HIDE DEF all
  <2> QED
    BY <1>1, <1>6, <2>2, <2>3, <2>4, <2>5 DEF Least
<1>10. \E raised \in 1 .. n : \A a \in 1 .. n : w[a] = Least(most, dry[a] + w[raised] - dry[raised])
  <2>1. CASE room # {}
    <3>1. PICK raised \in 1 .. n : w[raised] < most
      <4>1. room \subseteq 1 .. n
        BY <1>1 DEF Room, room
      <4> QED
        BY <1>7, <2>1, <4>1
    <3>2. w[raised] = dry[raised] + h
      BY <1>1, <1>2, <1>5, <3>1 DEF Least
    <3>3. \A a \in 1 .. n : dry[a] + w[raised] - dry[raised] = dry[a] + h
      BY <1>2, <3>2
    <3>4. \A a \in 1 .. n : w[a] = Least(most, dry[a] + w[raised] - dry[raised])
      BY <1>5, <3>3
    <3> QED
      BY <3>4
  <2>2. CASE room = {}
    <3>1. \E x \in {dry[a] : a \in 1 .. n} : \A y \in {dry[a] : a \in 1 .. n} : x <= y
      <4>1. {dry[a] : a \in 1 .. n} \subseteq Nat /\ {dry[a] : a \in 1 .. n} # {}
        BY <1>1, <1>2
      <4> QED
        BY <4>1, LeastOfSet
    <3>2. PICK raised \in 1 .. n : \A a \in 1 .. n : dry[raised] <= dry[a]
      BY <3>1
    <3>3. \A a \in 1 .. n : w[a] = Least(most, dry[a] + w[raised] - dry[raised])
      BY <1>1, <1>2, <1>8, <2>2, <3>2 DEF Least
    <3> QED
      BY <3>3
  <2> QED
    BY <2>1, <2>2
<1> QED
  <2>1. PICK raised \in 1 .. n : \A a \in 1 .. n : w[a] = Least(most, dry[a] + w[raised] - dry[raised])
    BY <1>10
  <2>2. \A a \in 1 .. n : w[a] = Least(most, (given[a] * budget) \div Total(given) + w[raised]
                                             - ((given[raised] * budget) \div Total(given)))
    BY <1>3, <2>1
  <2> QED
    BY <1>1, <1>9, <2>2 DEF WaterFilled

(* The policy returns the filled weights whenever its passes suffice.      *)
LEMMA AllocationFills ==
  ASSUME PassesSuffice, NEW weights \in RawWeights, NEW most \in Caps, Total(weights) > 0
  PROVE  WaterFilled(weights, most, Budget)
<1> DEFINE n == Len(weights)
           w == Passed(weights, most, Budget, Passes)
<1>1. /\ n \in Nat \ {0} /\ weights \in [1 .. n -> Nat] /\ Passes \in Nat /\ Budget \in Nat
      /\ most \in Nat /\ Exact(weights, most, Budget) /\ n <= Passes
  BY AllocationAssumption DEF PassesSuffice
<1> HIDE DEF n
<1>2. Input(weights, most, Budget, n)
  BY <1>1 DEF Input, Exact
<1>3. \A pass \in 0 .. Passes - 1 :
        LET u == Passed(weights, most, Budget, pass)
        IN Room(u, most) # {} => (Budget - Total(u)) % Cardinality(Room(u, most)) = 0
  BY <1>1 DEF Exact
<1>4. Filling(weights, most, Budget, w) /\ RoomLeft(most, Budget, w, n - Passes)
  BY <1>1, <1>2, <1>3, PassesFill
<1>5. w = EnforceConstraints(weights, most, Budget)
  BY DEF EnforceConstraints
<1> HIDE DEF w
<1>6. n - Passes \in Int /\ n - Passes <= 0
  BY <1>1
<1> QED
  BY <1>2, <1>4, <1>5, <1>6, FilledIsWater

(* With as many passes as assets, the weights of enforce_constraints are   *)
(* the shares of the budget raised by one level up to the cap, and spend   *)
(* the budget unless every asset is at its cap.                            *)
THEOREM PortfolioAllocationSound ==
  ASSUME PassesSuffice
  PROVE  PortfolioSpec => []AllocationSound
<1>1. AllocationSound
  BY AllocationFills DEF AllocationSound
<1> QED
  BY <1>1, PTL
=============================================================================
