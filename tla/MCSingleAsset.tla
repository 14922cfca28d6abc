--------------------------- MODULE MCSingleAsset ---------------------------
(* Windows of up to four bars, prices that stay, gap up and fall, costs of *)
(* 1% each, both of which the 5% reserve covers.  Every kind of strategy,  *)
(* with and without closes before the window.                              *)
EXTENDS StrategyBacktest

MCPrices == {8, 10, 13}

MCStrategies ==
  { [kind |-> "any"],
    [kind |-> "ma_cross", short |-> 1, long |-> 2],
    [kind |-> "macd", fast |-> 1, slow |-> 3, signal |-> 2],
    [kind |-> "rsi", period |-> 2, oversold |-> 30, overbought |-> 70],
    [kind |-> "breakout", lookback |-> 2, multiplier |-> 1] }

MCEarlier == { <<>>, <<10, 10, 10, 8>> }
=============================================================================
