-------------------------- MODULE StrategyBacktest --------------------------
(***************************************************************************)
(* SingleAsset with the strategies of Strategy.cpp in place of the         *)
(* external one, which stays as the kind "any".  A strategy reads the      *)
(* closes up to the bar, those before the window included, but a clone     *)
(* starts each window without a state.  Indicators are compared exactly,   *)
(* as fractions whose denominators are multiplied out.                     *)
(***************************************************************************)
EXTENDS SingleAsset

CONSTANTS
  Strategies,   \* the strategies with their parameters
  Earlier       \* the closes that may precede the window

Kinds == {"any", "ma_cross", "macd", "rsi", "breakout"}

(* The bars a strategy holds on before it looks at its indicator.          *)
NeedsOf(s) ==
  CASE s.kind = "ma_cross" -> s.long
    [] s.kind = "macd"     -> s.slow + s.signal
    [] s.kind = "rsi"      -> s.period + 1
    [] s.kind = "breakout" -> (IF s.lookback > 2 THEN s.lookback ELSE 2) + 1
    [] OTHER               -> 0

ASSUME StrategyAssumption ==
  /\ \A s \in Strategies : s.kind \in Kinds /\ NeedsOf(s) \in Int
  /\ Earlier \subseteq Seq(Prices)

VARIABLES
  strategy,
  before,       \* the closes before the window
  state         \* last_state_

driven == <<strategy, before, state>>

(* The closes of the history up to a bar of the window.                    *)
ClosesTo(j) == before \o [b \in 1 .. j |-> bars[b].close]

(* simple_moving_average times its window: the sum of the last values.     *)
SumLast(values, count) ==
  LET to[j \in 0 .. count] ==
        IF j = 0 THEN 0 ELSE to[j - 1] + values[Len(values) - count + j]
  IN to[count]

(* exponential_moving_average, multiplied by rate[2] ^ (j - 1) at j: the   *)
(* rate of a period is 2 / (period + 1), reduced.                          *)
Rate(period) == IF period % 2 = 1 THEN <<1, (period + 1) \div 2>> ELSE <<2, period + 1>>

Ema(values, rate) ==
  LET ema[j \in DOMAIN values] ==
        IF j = 1 THEN values[1]
        ELSE rate[1] * values[j] * rate[2] ^ (j - 2) + (rate[2] - rate[1]) * ema[j - 1]
  IN ema

MovingAveragesUp(s, closes) ==
  SumLast(closes, s.short) * s.long > SumLast(closes, s.long) * s.short

MacdUp(s, closes) ==
  LET fast == Rate(s.fast)
      slow == Rate(s.slow)
      signal == Rate(s.signal)
      m    == Len(closes)
      all  == (fast[2] * slow[2]) ^ (m - 1)
      line == [j \in 1 .. m |-> Ema(closes, fast)[j] * (all \div fast[2] ^ (j - 1))
                                - Ema(closes, slow)[j] * (all \div slow[2] ^ (j - 1))]
  IN line[m] * signal[2] ^ (m - 1) > Ema(line, signal)[m]

Upward(s, closes) == IF s.kind = "macd" THEN MacdUp(s, closes) ELSE MovingAveragesUp(s, closes)

Crosses == strategy.kind \in {"ma_cross", "macd"}

Ready(j) == Len(before) + j >= NeedsOf(strategy)
Up(j)    == Upward(strategy, ClosesTo(j))
StateOf(j) == IF Up(j) THEN 1 ELSE 0 - 1

(* Mutant of CrossingSignal: the first state is a crossing as well.        *)
CrossingSignalFromNone(now) ==
  IF now = state THEN "Hold" ELSE IF now = 1 THEN "Buy" ELSE "Sell"

CrossingSignal(now) ==
  IF state = 0 \/ now = state THEN "Hold" ELSE IF now = 1 THEN "Buy" ELSE "Sell"

(* rsi is 100 * gains / (gains + losses), and 100 without losses.          *)
RsiSignal(closes) ==
  LET change(j) == closes[Len(closes) - strategy.period + j]
                     - closes[Len(closes) - strategy.period + j - 1]
      gains  == SumLast([j \in 1 .. strategy.period |-> IF change(j) > 0 THEN change(j) ELSE 0],
                        strategy.period)
      losses == gains - (closes[Len(closes)] - closes[Len(closes) - strategy.period])
  IN IF losses > 0 /\ 100 * gains < strategy.oversold * (gains + losses) THEN "Buy"
     ELSE IF losses = 0 \/ 100 * gains > strategy.overbought * (gains + losses) THEN "Sell"
     ELSE "Hold"

(* The last return against the volatility of the last returns, its own     *)
(* included, both squared; the returns share the denominator `all`.        *)
BreakoutSignal(closes) ==
  LET L   == strategy.lookback
      base[j \in 0 .. L] == IF j = 0 THEN 1 ELSE base[j - 1] * closes[Len(closes) - L + j - 1]
      all == base[L]
      returns == [j \in 1 .. L |->
        LET from == closes[Len(closes) - L + j - 1]
        IN (closes[Len(closes) - L + j] - from) * (all \div from)]
      apart == [j \in 1 .. L |-> LET by == L * returns[j] - SumLast(returns, L) IN by * by]
      wide  == L > 1 => L * L * (L - 1) * returns[L] * returns[L]
                          > strategy.multiplier * strategy.multiplier * SumLast(apart, L)
  IN CASE wide /\ returns[L] > 0 -> "Buy"
       [] wide /\ returns[L] < 0 -> "Sell"
       [] OTHER -> "Hold"

(* on_market_event at the bar: the signals it may give.                    *)
SignalsNow ==
  CASE strategy.kind = "any" -> Signal
    [] strategy.kind # "any" /\ ~ Ready(i) -> {"Hold"}
    [] OTHER -> {CASE Crosses -> CrossingSignal(StateOf(i))
                   [] strategy.kind = "rsi" -> RsiSignal(ClosesTo(i))
                   [] strategy.kind = "breakout" -> BreakoutSignal(ClosesTo(i))}

StrategyInit ==
  /\ Init
  /\ strategy \in Strategies
  /\ before \in Earlier
  /\ state = 0

OnMarketEvent ==
  /\ \E signal \in SignalsNow : Decide(signal)
  /\ state' = IF Crosses /\ Ready(i) THEN StateOf(i) ELSE state
  /\ UNCHANGED <<strategy, before>>

StrategyNext ==
  \/ OnMarketEvent
  \/ (NextBar \/ FillPending \/ Liquidate \/ MarkToMarket) /\ UNCHANGED driven

StrategySpec == StrategyInit /\ [][StrategyNext]_<<vars, driven>>

-----------------------------------------------------------------------------
(* Properties *)

(* The signal a bar should give, from the closes alone: the trend at it    *)
(* against the trend at the bar before, if that is in the window.          *)
Crossing(j) ==
  IF j = 1 \/ ~ Ready(j - 1) \/ Up(j) = Up(j - 1) THEN "Hold"
  ELSE IF Up(j) THEN "Buy" ELSE "Sell"

(* Whether a buy decided at a close was for no shares, or refused at the   *)
(* next open, with the cash there is.                                      *)
Missed(j) ==
  LET qty == BuyQuantity(cash, bars[j].close)
  IN qty = 0 \/ Gross("BUY", qty, bars[j + 1].open) + Commission("BUY", qty, bars[j + 1].open) > cash

(* Strategy.cpp and Portfolio.cpp together: a trend follower signals at    *)
(* the crossings inside the window, it is never left long against the      *)
(* trend, and it stays out of an upward one only if that began before the  *)
(* window or its one buy was missed.                                       *)
CrossingsTraded ==
  Crosses /\ phase = "close" /\ i < n /\ Ready(i) =>
    /\ \A j \in 1 .. i : signals[j] = Crossing(j)
    /\ position > 0 /\ ~ Up(i) => pending # NoOrder /\ pending.side = "SELL"
    /\ position = 0 /\ Up(i) =>
         \/ pending # NoOrder
         \/ \A j \in 1 .. i : Ready(j) => Up(j)
         \/ \E j \in 1 .. i - 1 :
              /\ signals[j] = "Buy" /\ Missed(j)
              /\ \A later \in j + 1 .. i : signals[later] = "Hold"
         \/ signals[i] = "Buy" /\ BuyQuantity(cash, bars[i].close) = 0
=============================================================================
