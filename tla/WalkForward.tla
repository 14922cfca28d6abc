---------------------------- MODULE WalkForward ----------------------------
(***************************************************************************)
(* The two walk-forward routines of Analysis: run_walk_forward, which      *)
(* optimises every strategy family and always links its capital, and the   *)
(* walk-forward part of run_research_experiment, for one family, with the  *)
(* configured windows, objective and continuity.  For each ticker and each *)
(* window the candidates are trained one after another, the best of each   *)
(* family is frozen, and is tested on the sessions that follow.            *)
(*                                                                         *)
(* A history is drawn when its ticker is loaded, the summary of a training *)
(* backtest and the growth of a test's capital when it runs: both are the  *)
(* Backtester's (see SingleAsset), which throws on fewer than two sessions.*)
(***************************************************************************)
EXTENDS CalendarWindows

CONSTANTS
  Tickers,      \* the number of tickers
  Histories,    \* the histories a ticker may have
  Grid,         \* the family, 1 .. Families, of each candidate of the grid
  Families,
  Summaries,    \* what a training backtest may report
  MinTrades,    \* minimum_trades
  Growths, G,   \* a test multiplies its capital by an element of Growths over G
  Start,        \* starting_capital
  Years, Months, Steps,           \* calendar durations, the steps configured
  TrainDays, TestDays, StepDays   \* observation counts

Candidates == 1 .. Len(Grid)
Family     == 1 .. Families

ASSUME WalkForwardAssumption ==
  /\ Tickers \in Nat /\ Families \in Nat \ {0}
  /\ Grid \in Seq(Family) /\ Grid # <<>>
  /\ \A summary \in Summaries : summary.score \in Nat
  /\ \A h \in Histories : IsHistory(h)
  /\ Growths \subseteq Nat /\ G \in Nat \ {0} /\ Start \in Nat \ {0}
  /\ {Years, Months, TrainDays, TestDays, StepDays} \cup Steps \subseteq Nat \ {0}

VARIABLES
  config,    \* the routine and what it is configured with
  phase,
  ticker,    \* the tickers loaded
  bars,      \* the ticker's history
  windows,
  w,         \* the window
  c,         \* the candidate the training loop is at
  scores,    \* history: the objective of every candidate trained on the window
  best,      \* best_by_strategy, or best: a candidate of each family, 0 if none
  f,         \* the family the test loop is at
  capital,   \* capital_by_strategy, or continuous_capital
  rows       \* the rows of windows.csv for the ticker

history == <<config, ticker, bars, windows>>
outcome == <<capital, rows>>
vars    == <<history, phase, w, c, scores, best, f, outcome>>

Configs ==
  {[routine |-> "walk_forward", linked |-> TRUE, counted |-> FALSE, step |-> Months,
    strategy |-> 1, objective |-> "sharpe_min_trades"]}
  \cup [routine : {"research"}, linked : BOOLEAN, counted : BOOLEAN, step : Steps,
        strategy : Family, objective : {"sharpe_min_trades", "sharpe_maxdd"}]

InGrid(candidate) == config.routine = "walk_forward" \/ Grid[candidate] = config.strategy
Linked == config.linked

(* The score of a candidate that is not eligible, -1e9.                    *)
Sentinel == -1

Objective(summary) ==
  IF CASE config.objective = "sharpe_maxdd" -> summary.trades < MinTrades \/ summary.deep
       [] OTHER -> summary.trades < MinTrades
  THEN Sentinel ELSE summary.score

Untrained == -2

Init ==
  /\ config \in Configs
  /\ phase = "ticker"
  /\ ticker = 0
  /\ bars = <<>> /\ windows = <<>>
  /\ w = 1 /\ c = 1 /\ f = 1
  /\ scores = [candidate \in Candidates |-> Untrained]
  /\ best = [family \in Family |-> 0]
  /\ capital = [family \in Family |-> Start]
  /\ rows = <<>>

WindowsOf(h) ==
  IF config.counted THEN ObservationCounts(h, TrainDays, TestDays, StepDays)
  ELSE CalendarDurations(h, Years, Months, config.step)

StartWindow ==
  /\ c' = 1 /\ f' = 1
  /\ scores' = [candidate \in Candidates |-> Untrained]
  /\ best' = [family \in Family |-> 0]

(* Mutant of LoadTicker: the capital is kept across tickers.               *)
LoadTickerKeepCapital ==
  /\ phase = "ticker" /\ ticker < Tickers
  /\ ticker' = ticker + 1
  /\ bars' \in Histories
  /\ windows' = WindowsOf(bars')
  /\ phase' = IF windows' = <<>> THEN "summary" ELSE "train"
  /\ UNCHANGED <<config, w, c, scores, best, f, capital, rows>>

LoadTicker ==
  /\ phase = "ticker" /\ ticker < Tickers
  /\ ticker' = ticker + 1
  /\ bars' \in Histories
  /\ windows' = WindowsOf(bars')
  /\ capital' = [family \in Family |-> Start]
  /\ phase' = IF windows' = <<>> THEN "summary" ELSE "train"
  /\ UNCHANGED <<config, w, c, scores, best, f, rows>>

(* A backtest of a range with one session throws, and so does the routine. *)
TooShort(range) == Observations(range) < 2

Raise ==
  /\ \/ phase = "train" /\ TooShort(windows[w].train)
     \/ phase = "test" /\ TooShort(windows[w].test)
  /\ phase' = "error"
  /\ UNCHANGED <<history, w, c, scores, best, f, outcome>>

(* Mutant of Better: the last of the best is kept.                         *)
BetterOrEqual(score, family) == best[family] = 0 \/ score >= scores[best[family]]

(* The first score is better than none, the sentinel included.             *)
Better(score, family) == best[family] = 0 \/ score > scores[best[family]]

Train ==
  /\ phase = "train" /\ ~ TooShort(windows[w].train)
  /\ IF InGrid(c)
     THEN \E summary \in Summaries :
            LET score == Objective(summary)
            IN /\ scores' = [scores EXCEPT ![c] = score]
               /\ best' = [best EXCEPT ![Grid[c]] = IF Better(score, Grid[c]) THEN c ELSE @]
     ELSE UNCHANGED <<scores, best>>
  /\ c' = c + 1
  /\ phase' = IF c = Len(Grid) THEN "test" ELSE "train"
  /\ UNCHANGED <<history, w, f, outcome>>

Starting(family) == IF Linked THEN capital[family] ELSE Start

(* The frozen candidate of the next family is tested, and its capital      *)
(* carried to the family's next window if it is linked.                    *)
Test ==
  /\ phase = "test" /\ ~ TooShort(windows[w].test)
  /\ IF best[f] = 0 THEN UNCHANGED outcome
     ELSE \E growth \in Growths :
            LET ending == (Starting(f) * growth) \div G
            IN /\ capital' = IF Linked THEN [capital EXCEPT ![f] = ending] ELSE capital
               /\ rows' = Append(rows, [family |-> f, window |-> w,
                                        starting |-> Starting(f), ending |-> ending])
  /\ IF f < Families
     THEN f' = f + 1 /\ UNCHANGED <<phase, w, c, scores, best>>
     ELSE /\ w' = w + 1
          /\ StartWindow
          /\ phase' = IF w = Len(windows) THEN "summary" ELSE "train"
  /\ UNCHANGED history

(* The ticker's row of summary.csv; its history, windows and rows are      *)
(* local to the loop's turn.                                               *)
Summarise ==
  /\ phase = "summary"
  /\ phase' = "ticker"
  /\ bars' = <<>> /\ windows' = <<>> /\ rows' = <<>>
  /\ w' = 1
  /\ StartWindow
  /\ UNCHANGED <<config, ticker, capital>>

Next == LoadTicker \/ Raise \/ Train \/ Test \/ Summarise

Spec == Init /\ [][Next]_vars

-----------------------------------------------------------------------------
(* Properties *)

(* The session is one of a test that was dropped, as there is none to      *)
(* train it on.                                                            *)
DroppedUntrained(s) ==
  \E i \in DOMAIN Anchors(bars, config.step) :
    LET window == WindowFrom(bars, Anchors(bars, config.step)[i], Years, Months)
    IN In(window.test, s) /\ Observations(window.train) <= 0

(* A 28th in a history that starts after one, where anchors are clamped.   *)
ClampedSession(s) == bars[1].day > 28 /\ bars[s].day = 28

(* With a step as long as a test, every session from the first tested to   *)
(* the last is tested in one window, for each family, unless its test was  *)
(* dropped in a history with a hole as long as the training.  Nothing is   *)
(* said of the sessions TestWindowsDisjoint refutes, the clamped 28ths,    *)
(* which are the only ones to be tested twice or left out.                 *)
SessionsTestedOnce ==
  phase = "summary" /\ rows # <<>> /\ ~ config.counted /\ config.step = Months =>
    \A family \in {rows[i].family : i \in DOMAIN rows} :
      \A s \in windows[1].test[1] .. windows[Len(windows)].test[2] :
        LET in == {i \in DOMAIN rows :
                     rows[i].family = family /\ In(windows[rows[i].window].test, s)}
        IN ~ ClampedSession(s) => Cardinality(in) = 1 \/ (in = {} /\ DroppedUntrained(s))

(* validate_results.py: "test windows overlap"; test_engine.cpp: "test     *)
(* windows double-count dates".  With a step as long as a test, the test   *)
(* of a family's window ends before that of its next one starts.           *)
TestWindowsDisjoint ==
  phase = "summary" /\ ~ config.counted /\ config.step = Months =>
    \A i, j \in DOMAIN rows :
      rows[i].family = rows[j].family /\ rows[i].window < rows[j].window =>
        windows[rows[i].window].test[2] < windows[rows[j].window].test[1]

(* Only the first of the best candidates of a family is tested, also when  *)
(* none of them is eligible: every family of the grid is tested on every   *)
(* window.                                                                 *)
SelectsFirstBest ==
  phase = "test" =>
    \A family \in Family :
      LET trained == {n \in Candidates : InGrid(n) /\ Grid[n] = family}
      IN trained # {} =>
           /\ best[family] \in trained
           /\ \A n \in trained : \/ scores[n] < scores[best[family]]
                                 \/ scores[n] = scores[best[family]] /\ best[family] <= n

(* The profits of a family over rows of a ticker.                          *)
Profit(family, tested) ==
  LET gain(row) == IF row.family = family THEN row.ending - row.starting ELSE 0
      upTo[n \in 0 .. Len(tested)] == IF n = 0 THEN 0 ELSE upTo[n - 1] + gain(tested[n])
  IN upTo[Len(tested)]

(* Linked capital is the ticker's own: it is the starting capital plus the *)
(* profits of the family's windows so far, and the capital of the other    *)
(* families and tickers plays no part.  Normalized windows leave it, and   *)
(* the final capital of their summary, at the starting capital.            *)
CapitalLinked ==
  phase # "ticker" =>
    \A family \in Family :
      capital[family] = Start + (IF Linked THEN Profit(family, rows) ELSE 0)
=============================================================================
