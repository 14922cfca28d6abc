--------------------------- MODULE CausalRegimes ---------------------------
(***************************************************************************)
(* classify_causal_regimes and the two ways its labels are looked up.  The *)
(* closes are a sequence over the sessions.  Volatility is kept as a       *)
(* measure of the spread of the returns in its window, an integer; only    *)
(* its order and the closes it depends on matter.  The trend needs the     *)
(* closes of the last TrendWindow (200) and ReturnWindow (60) sessions.    *)
(***************************************************************************)
EXTENDS Integers, Sequences, FiniteSets, TLC

LOCAL INSTANCE Functions

CONSTANTS VolatilityWindow, TrendWindow, ReturnWindow, MinVolatilities

ASSUME RegimeAssumption ==
  /\ VolatilityWindow \in Nat \ {0} /\ MinVolatilities \in Nat \ {0}
  /\ ReturnWindow \in Nat \ {0} /\ TrendWindow \in Nat \ {0}

Unavailable == [available |-> FALSE]

(* rolling_volatility at a session, over the returns that end at it and    *)
(* before it.                                                              *)
Volatility(closes, i) ==
  LET window == i - VolatilityWindow + 1 .. i
      move   == [j \in window |-> closes[j] - closes[j - 1]]
      total  == SumFunction(move)
  IN SumFunction([j \in window |-> LET by == VolatilityWindow * move[j] - total IN by * by])

HasVolatility(i) == i > VolatilityWindow

(* Twice the median, of the volatilities strictly before the session.      *)
TwiceMedian(values) ==
  LET sorted == SortSeq(values, <)
      middle == Len(sorted) \div 2 + 1
  IN IF values = <<>> THEN 0
     ELSE IF Len(sorted) % 2 = 0 THEN sorted[middle - 1] + sorted[middle] ELSE 2 * sorted[middle]

Prior(closes, i) ==
  [k \in 1 .. i - 1 - VolatilityWindow |-> Volatility(closes, VolatilityWindow + k)]

Trend(closes, i) ==
  LET average == SumFunction([j \in i - TrendWindow + 1 .. i |-> closes[j]])   \* times TrendWindow
      earlier == closes[i - ReturnWindow]
  IN CASE TrendWindow * closes[i] > average /\ closes[i] > earlier -> "bull"
       [] TrendWindow * closes[i] < average /\ closes[i] < earlier -> "bear"
       [] OTHER -> "sideways"

Ready(i) ==
  /\ HasVolatility(i)
  /\ i - 1 - VolatilityWindow >= MinVolatilities
  /\ i >= TrendWindow /\ i > ReturnWindow

RegimeAt(closes, i) ==
  IF ~ Ready(i) THEN Unavailable
  ELSE [available |-> TRUE,
        trend |-> Trend(closes, i),
        high |-> 2 * Volatility(closes, i) > TwiceMedian(Prior(closes, i))]

LastAvailable(closes, to) ==
  LET known == {i \in 1 .. to : Ready(i)}
  IN IF known = {} THEN Unavailable
     ELSE RegimeAt(closes, CHOOSE i \in known : \A j \in known : j <= i)

Regimes == [available : {TRUE}, trend : {"bull", "bear", "sideways"}, high : BOOLEAN]

(* Mutant of RegimeForExecution: the label of the session itself.          *)
RegimeForExecutionSameDay(closes, session) == LastAvailable(closes, session)

(* The regime of a trade on a session, and of the return from one session  *)
(* to a later one.                                                         *)
RegimeForExecution(closes, session) == LastAvailable(closes, session - 1)
RegimeForReturnInterval(closes, start) == LastAvailable(closes, start)

(* What regime evaluation counts under a regime, for a curve with a point  *)
(* on every session, the sessions that end with a position, and trades.    *)
Evaluation(closes, held, trades, regime) ==
  LET days == {i \in 2 .. Len(closes) : RegimeForReturnInterval(closes, i - 1) = regime}
      mine == {n \in DOMAIN trades : RegimeForExecution(closes, trades[n].session) = regime}
      sold == {n \in mine : trades[n].sell}
  IN [days |-> days, exposed |-> days \cap held, trades |-> mine, closed |-> sold,
      winners |-> {n \in sold : trades[n].profit > 0}]

(* A regime known at session `at` depends on no close after it.            *)
KnownAt(regime(_), closes, at, prices) ==
  LET known == regime(closes)
  IN \A later \in [at + 1 .. Len(closes) -> prices] :
       regime([i \in DOMAIN closes |-> IF i > at THEN later[i] ELSE closes[i]]) = known
=============================================================================
