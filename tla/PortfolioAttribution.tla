------------------------ MODULE PortfolioAttribution ------------------------
(***************************************************************************)
(* The result run_union records and what PortfolioAttributionAnalyzer      *)
(* makes of it: each period's change of value divided among the assets and *)
(* among market, dividends, splits, commission and slippage; drawdown      *)
(* episodes; holding periods of rebalances.  The analysis may be asked for *)
(* after any session, so it is made of operators on the recorded curve.    *)
(*                                                                         *)
(* Dates are session numbers.  The summary ratios, risk contributions and  *)
(* calendar-year totals are quotients and groupings of these and left out. *)
(***************************************************************************)
EXTENDS SharedCash

CONSTANTS Policies,     \* the closed-asset policies of the instance
          Values        \* bounded equity values for the episodes

ASSUME AttributionAssumption == Values \subseteq Int

VARIABLES
  day,         \* the fills and corporate actions recorded this session
  curve,       \* equity_curve with the session's valuations and records
  rebalances   \* the execution sessions of result.rebalances

result == <<day, curve, rebalances>>

Nothing == [fills |-> <<>>, actions |-> <<>>]

AttributionInit ==
  /\ Init
  /\ policy \in Policies
  /\ day = Nothing /\ curve = <<>> /\ rebalances = <<>>

-----------------------------------------------------------------------------
(* What run_union records *)

(* The split's values before and after, with the shares held then; only    *)
(* under raw prices have the shares changed.                               *)
SplitRecord ==
  LET ratio == bar[k].split
  IN [kind |-> "stock_split", asset |-> k,
      before |-> (shares[k] * bar[k].close * Unit * ratio[1]) \div ratio[2],
      after |-> shares'[k] * bar[k].close * Unit, cash |-> 0]

DividendRecord ==
  [kind |-> "cash_dividend", asset |-> k, before |-> 0, after |-> 0, cash |-> cash' - cash]

Actions(actions) ==
  LET split == IF bar[k].split[1] > 0 THEN Append(actions, SplitRecord) ELSE actions
  IN IF bar[k].dividend > 0 THEN Append(split, DividendRecord) ELSE split

RecordActions ==
  /\ CorporateAction
  /\ day' = IF Open(k) THEN [day EXCEPT !.actions = Actions(@)] ELSE day
  /\ UNCHANGED <<curve, rebalances>>

(* A fill's price is the slipped one.                                      *)
Fill(side, qty) ==
  [asset |-> k, side |-> side, qty |-> qty, price |-> FillPrice(side, bar[k].open),
   commission |-> Commission(side, qty, bar[k].open), slippage |-> Slippage(qty, bar[k].open)]

RecordFill ==
  /\ Sell \/ Buy
  /\ day' = CASE shares'[k] < shares[k] ->
                  [day EXCEPT !.fills = Append(@, Fill("SELL", (shares[k] - shares'[k]) \div Den))]
              [] shares'[k] > shares[k] ->
                  [day EXCEPT !.fills = Append(@, Fill("BUY", (shares'[k] - shares[k]) \div Den))]
              [] OTHER -> day
  /\ UNCHANGED <<curve, rebalances>>

RecordExecution ==
  /\ RecordRebalance
  /\ rebalances' = Append(rebalances, last'.executed)
  /\ UNCHANGED <<day, curve>>

RecordPoint ==
  /\ CloseSession
  /\ curve' = Append(curve, [value |-> equity', quantity |-> shares, mark |-> mark,
                             fills |-> day.fills, actions |-> day.actions])
  /\ day' = Nothing
  /\ UNCHANGED rebalances

AttributionNext ==
  \/ RecordActions \/ RecordFill \/ RecordExecution \/ RecordPoint
  \/ /\ \/ NextSession \/ StartDay \/ Defer \/ StartRebalance \/ Value
        \/ StartSells \/ StartBuys \/ FinishBuys \/ MarkPosition
     /\ UNCHANGED result

AttributionSpec == AttributionInit /\ [][AttributionNext]_<<vars, result>>

-----------------------------------------------------------------------------
(* The attribution of the period between two points of the curve *)

(* f[1] + ... + f[n], as the code's loops add them up.                     *)
SumTo(f, n) ==
  LET sum[j \in 0 .. n] == IF j = 0 THEN 0 ELSE sum[j - 1] + f[j]
  IN sum[n]

(* Mutant of ReferenceValue: the flow is taken at the slipped price.       *)
ReferenceValueSlipped(fill) == fill.qty * fill.price * Scale * Den

(* The fill at its bar's price, from its price less or plus its slippage.  *)
ReferenceValue(fill) ==
  LET traded == fill.qty * fill.price * Scale * Den
  IN IF fill.side = "BUY" THEN traded - fill.slippage ELSE traded + fill.slippage

Flow(fill) == IF fill.side = "BUY" THEN ReferenceValue(fill) ELSE 0 - ReferenceValue(fill)

MarkedValue(point, a) == point.quantity[a] * point.mark[a] * Unit

(* The amounts of the asset's records.                                     *)
OfAsset(a, records, amounts) ==
  SumTo([n \in DOMAIN records |-> IF records[n].asset = a THEN amounts[n] ELSE 0], Len(records))

Contribution(beginning, ending, a) ==
  LET fills   == ending.fills
      actions == ending.actions
      invested == OfAsset(a, fills, [n \in DOMAIN fills |-> Flow(fills[n])])
      split    == OfAsset(a, actions, [n \in DOMAIN actions |->
                    IF actions[n].kind = "stock_split" THEN actions[n].after - actions[n].before ELSE 0])
  IN [market |-> MarkedValue(ending, a) - MarkedValue(beginning, a) - invested - split,
      split |-> split,
      dividends |-> OfAsset(a, actions, [n \in DOMAIN actions |->
                      IF actions[n].kind = "cash_dividend" THEN actions[n].cash ELSE 0]),
      commission |-> OfAsset(a, fills, [n \in DOMAIN fills |-> fills[n].commission]),
      slippage |-> OfAsset(a, fills, [n \in DOMAIN fills |-> fills[n].slippage])]

Net(beginning, ending, a) ==
  LET c == Contribution(beginning, ending, a)
  IN c.market + c.dividends + c.split - c.commission - c.slippage

(* All of the assets' contributions; the code's own check is on this.      *)
Explained(i) == SumTo([a \in Assets |-> Net(curve[i - 1], curve[i], a)], N)
Residual(i)  == curve[i].value - curve[i - 1].value - Explained(i)

(* The contributions of the periods that end after one session and not     *)
(* after another.                                                          *)
Between(from, to) ==
  SumTo([i \in DOMAIN curve |-> IF from < i /\ i <= to THEN Explained(i) ELSE 0], Len(curve))

(* A rebalance holds until the next one is executed, or to the end.        *)
HoldingEnd(r) == IF r < Len(rebalances) THEN rebalances[r + 1] ELSE Len(curve)
Holding(r)    == Between(rebalances[r], HoldingEnd(r))

-----------------------------------------------------------------------------
(* Drawdown episodes, of any curve of values *)

NoEpisodes == [peak |-> 1, from |-> 0, trough |-> 0, done |-> <<>>]

Recovered(e, i) == Append(e.done, [peak |-> e.from, trough |-> e.trough, recovery |-> i])

(* Mutant of Track: the episode's trough is its first point.               *)
TrackFirstTrough(values, e, i) ==
  CASE e.from = 0 /\ values[i] < values[e.peak] -> [e EXCEPT !.from = e.peak, !.trough = i]
    [] e.from = 0 /\ values[i] >= values[e.peak] -> [e EXCEPT !.peak = i]
    [] e.from > 0 /\ values[i] >= values[e.from] ->
         [peak |-> i, from |-> 0, trough |-> 0, done |-> Recovered(e, i)]
    [] OTHER -> e

(* One point: from is the peak of the running drawdown, 0 if there is none.*)
Track(values, e, i) ==
  CASE e.from = 0 /\ values[i] < values[e.peak] -> [e EXCEPT !.from = e.peak, !.trough = i]
    [] e.from = 0 /\ values[i] >= values[e.peak] -> [e EXCEPT !.peak = i]
    [] e.from > 0 /\ values[i] >= values[e.from] ->
         [peak |-> i, from |-> 0, trough |-> 0, done |-> Recovered(e, i)]
    [] OTHER -> IF values[i] < values[e.trough] THEN [e EXCEPT !.trough = i] ELSE e

Tracked(values) ==
  LET upTo[i \in DOMAIN values] == IF i = 1 THEN NoEpisodes ELSE Track(values, upTo[i - 1], i)
  IN upTo[Len(values)]

(* An episode that has not recovered is the last; its recovery is 0.       *)
Episodes(values) ==
  LET e == Tracked(values)
  IN IF e.from > 0 THEN Recovered(e, 0) ELSE e.done

-----------------------------------------------------------------------------
(* Properties *)

(* docs/ATTRIBUTION.md: every period's change of value is explained to the *)
(* last unit, whatever a split's record says.  Under raw prices no split   *)
(* contributes, under adjusted ones no dividend does; what a split does    *)
(* under adjusted ones is refuted by SplitsNeutral.  The holding periods   *)
(* of the rebalances add up to the change since the first was executed,    *)
(* costs of that one excepted.                                             *)
PeriodsReconcile ==
  phase = "session" /\ Len(curve) > 1 =>
    /\ Residual(Len(curve)) = 0
    /\ \A a \in Assets : LET c == Contribution(curve[Len(curve) - 1], curve[Len(curve)], a)
                         IN (raw => c.split = 0) /\ (~ raw => c.dividends = 0)
    /\ rebalances # <<>> =>
         SumTo([r \in DOMAIN rebalances |-> Holding(r)], Len(rebalances))
           = curve[Len(curve)].value - curve[rebalances[1]].value

(* docs/ATTRIBUTION.md: splits have no economic contribution; and          *)
(* validate_results.py: "split creates economic contribution".             *)
SplitsNeutral ==
  phase = "session" =>
    \A i \in DOMAIN curve : \A n \in DOMAIN curve[i].actions :
      LET action == curve[i].actions[n]
      IN action.kind = "stock_split" => action.after = action.before

(* An episode not recovered runs past the last point.                      *)
EndOf(values, e) == IF e.recovery = 0 THEN Len(values) + 1 ELSE e.recovery
Under(values, i) == \E j \in 1 .. i - 1 : values[j] > values[i]

Whole(values, e) ==
  /\ \A i \in 1 .. EndOf(values, e) - 1 : values[i] <= values[e.peak]
  /\ e.trough \in e.peak + 1 .. EndOf(values, e) - 1
  /\ \A i \in e.peak .. EndOf(values, e) - 1 : values[e.trough] <= values[i]

EpisodesOf(values) ==
  LET episodes == Episodes(values)
  IN /\ \A n \in 2 .. Len(episodes) : EndOf(values, episodes[n - 1]) <= episodes[n].peak
     /\ {i \in DOMAIN values : Under(values, i)} =
          UNION {episodes[n].peak + 1 .. EndOf(values, episodes[n]) - 1 : n \in DOMAIN episodes}
     /\ \A n \in DOMAIN episodes : Whole(values, episodes[n])

(* Episodes follow each other; their points are those below an earlier     *)
(* one; a peak is the highest value up to its recovery and a trough the    *)
(* lowest since the peak; and the contributions between the two add up to  *)
(* the loss.                                                               *)
EpisodesSound ==
  /\ phase = "session" /\ d = 0 =>
       \A n \in 1 .. 5 : \A values \in [1 .. n -> Values] : EpisodesOf(values)
  /\ phase = "session" /\ Len(curve) > 1 =>
       LET values   == [i \in DOMAIN curve |-> curve[i].value]
           episodes == Episodes(values)
       IN /\ EpisodesOf(values)
          /\ \A n \in DOMAIN episodes :
               Between(episodes[n].peak, episodes[n].trough)
                 = values[episodes[n].trough] - values[episodes[n].peak]
=============================================================================
