-------------------------- MODULE AllocationPolicy --------------------------
(***************************************************************************)
(* AllocationPolicy::target_weights: raw weights by policy, then the cap   *)
(* on a weight and the budget.  Weights are integers, in units that every  *)
(* division here leaves whole.  History is the closes of each asset; an    *)
(* asset without a decision index has decision 0.  The spread of a         *)
(* volatility window is abstracted to a natural number, 0 if there is none *)
(* or the history is too short; a raw weight is Share over it.             *)
(***************************************************************************)
EXTENDS Integers, Sequences, FiniteSets

CONSTANTS Share, Passes   \* Passes is 8 in the code

Least(x, y) == IF x < y THEN x ELSE y

Equal(assets) == [a \in assets |-> Share]

InverseVolatility(spread) ==
  LET assets == DOMAIN spread
  IN IF \A a \in assets : spread[a] = 0 THEN Equal(assets)
     ELSE [a \in assets |-> IF spread[a] > 0 THEN Share \div spread[a] ELSE 0]

(* The return over the lookback, as a fraction; too short is below all.    *)
HasReturn(decision, lookback, a) == decision[a] > lookback

Outperforms(history, decision, lookback, a, b) ==
  LET ends(x)   == history[x][decision[x]]
      starts(x) == history[x][decision[x] - lookback]
      left      == ends(a) * starts(b)
      right     == ends(b) * starts(a)
  IN IF ~ HasReturn(decision, lookback, a) THEN ~ HasReturn(decision, lookback, b) /\ a < b
     ELSE IF ~ HasReturn(decision, lookback, b) THEN TRUE
     ELSE left > right \/ (left = right /\ a < b)

MomentumTopN(history, decision, lookback, n) ==
  LET assets == DOMAIN history
      known  == {a \in assets : decision[a] > 0}
      ahead(a) == {b \in known : b # a /\ Outperforms(history, decision, lookback, b, a)}
  IN [a \in assets |->
       IF a \in known /\ Cardinality(ahead(a)) < n /\ HasReturn(decision, lookback, a)
       THEN 1 ELSE 0]

Total(weights) ==
  LET sum[a \in 0 .. Len(weights)] == IF a = 0 THEN 0 ELSE sum[a - 1] + weights[a]
  IN sum[Len(weights)]

Room(weights, most) == {a \in DOMAIN weights : weights[a] < most}

(* Mutant of Redistribute: the last asset with room takes the leftover.    *)
RedistributeToOne(weights, most, budget) ==
  LET room == Room(weights, most)
  IN [a \in DOMAIN weights |->
       IF a \in room /\ \A b \in room : b <= a
       THEN Least(most, weights[a] + budget - Total(weights)) ELSE weights[a]]

(* One pass: the leftover in equal parts to the assets below the cap.      *)
Redistribute(weights, most, budget) ==
  LET leftover == budget - Total(weights)
      room     == Room(weights, most)
  IN IF leftover <= 0 \/ room = {} THEN weights
     ELSE [a \in DOMAIN weights |->
            IF a \in room THEN Least(most, weights[a] + leftover \div Cardinality(room))
            ELSE weights[a]]

Capped(raw, most, budget) ==
  IF Total(raw) = 0 \/ budget <= 0 THEN [a \in DOMAIN raw |-> 0]
  ELSE [a \in DOMAIN raw |-> Least(most, (raw[a] * budget) \div Total(raw))]

Passed(raw, most, budget, passes) ==
  LET after[pass \in 0 .. passes] ==
        IF pass = 0 THEN Capped(raw, most, budget)
        ELSE IF Total(raw) = 0 THEN after[0]
        ELSE Redistribute(after[pass - 1], most, budget)
  IN after[passes]

EnforceConstraints(raw, most, budget) == Passed(raw, most, budget, Passes)

(* The units are fine enough for these weights: no division has a rest.    *)
Exact(raw, most, budget) ==
  /\ \A a \in DOMAIN raw : (raw[a] * budget) % Total(raw) = 0
  /\ \A pass \in 0 .. Passes - 1 :
       LET weights == Passed(raw, most, budget, pass)
       IN Room(weights, most) # {} =>
            (budget - Total(weights)) % Cardinality(Room(weights, most)) = 0

(* The reference: shares of the budget raised by one level for all assets, *)
(* those of raw weight zero included, up to the cap, until the budget is   *)
(* spent or every asset is at the cap.                                     *)
WaterFilled(raw, most, budget) ==
  LET weights == EnforceConstraints(raw, most, budget)
      dry(a)  == (raw[a] * budget) \div Total(raw)
  IN /\ Total(weights) = Least(budget, most * Cardinality(DOMAIN raw))
     /\ \E raised \in DOMAIN raw : \A a \in DOMAIN raw :
          weights[a] = Least(most, dry(a) + weights[raised] - dry(raised))
=============================================================================
