# Verification of the event-driven backtester

TLA+ modules of the parts of this repository where order, concurrency, failure
and accounting meet, TLC configurations that check them on small instances, and
proofs, checked by TLAPS, that hold for every value of the constants.

    tlc -config MCSingleAsset.cfg MCSingleAsset.tla      # one model-checking run
    tlapm BacktestProofs.tla                             # one module of proofs

## 1. The system

| Component | State it keeps | Operations | What makes it correct |
|---|---|---|---|
| `DeterministicExecutor` (`include/quant/performance`) | task counter, cancellation flag, first error, result slots | `map`: spawn, claim, run, cancel, record, join, rethrow | one answer, equal to the serial one; no task run twice; no error lost; always ends |
| Single-asset backtest (`Backtester`, `Portfolio`, `ExecutionHandler`) | cash, position, average entry price, pending order, trades, equity | fill at the open, decide at the close, liquidate, mark; benchmark | next-open execution, no borrowing or short sale, a ledger that reconciles, a comparable benchmark |
| `Date` (`src/domain`) | none | civil-date arithmetic | agrees with the calendar across month ends and leap days |
| `TradingCalendar` (`src/market_data`) | last mark of each asset, sessions, schedule | `build`, weekly and monthly schedules | marks are causal and young enough; one rebalance per period |
| Union portfolio (`PortfolioBacktester::run_union`) | shared cash, positions, target weights, the deferred rebalance | corporate actions, defer, value, sell, buy, record, mark | no leverage, exact accounting, frozen decisions, targets reached |
| Reconstruction scripts (`scripts/reproducibility.py`) | staging, output, `.previous` and `.failed` directories | build, verify, publish, roll back, clean up | a published package is never lost or half replaced |
| `AllocationPolicy` | none | raw weights, caps, redistribution | weights within the cap, all of the budget used unless every asset is capped |
| Legacy intersection portfolio (`PortfolioBacktester::run`) | as the union portfolio, and the planned buys | as the union portfolio, on the dates all assets have | as the union portfolio |
| `PortfolioAttribution` | per-period contributions, drawdown episode | attribution of fills, actions and marks; holding periods; episodes | contributions add up to the change of the account |
| Walk-forward (`Analysis`, `ResearchMethodology`) | windows, best candidates, linked capital | enumerate windows, train, select, test | every session tested once where no date was clamped, the first best frozen, capital linked exactly |
| `SelectionRisk` | slots of two maps, rows, observations, linked capital | rank, select, test every eligible candidate, align panels | one selection per window and family whatever the schedule, panels without gaps or duplicates |
| Causal regimes (`ResearchMethodology`) | none | classify, look up for a trade or a return | labels rest on closes known at the time |
| `StableRng`, bootstrap, statistics | generator state | bounded sampling, resampling, reductions | uniform, reproducible draws |
| Strategies | `last_state_` | signal per bar | a trend is traded as it crosses, once |
| Configuration, CLI, application | stages still to run, files written | parse, override, validate, route, write | refused commands write nothing; files in the order of the stages, metadata last and by no run that failed |
| Market data, export | none across calls | parse, format | inputs refused or within the stated ranges |

Who calls whom: the CLI loads a configuration and calls either a single-asset
experiment (`Backtester` with a `Strategy`, `Portfolio` and `ExecutionHandler`),
a portfolio experiment (`PortfolioBacktester`, which builds a `TradingCalendar`,
asks `AllocationPolicy` for weights and uses `ExecutionHandler`), or a
walk-forward or selection-risk experiment, which runs many `Backtester`s, the
latter through `DeterministicExecutor::map`. A portfolio run is followed by its
attribution. Everything but `map` is a single thread of calls. The Python scripts
run the binary and publish what it wrote.

What is hard: the interleavings of the executor's workers and their failures;
the order of fill, decision, liquidation and mark within a bar; a decision that
waits several sessions for closed markets; cash shared by assets that trade one
after the other; calendar arithmetic at New Year and with clamped month ends;
labels and returns that belong to intervals rather than dates; a stage that fails
after others have written their files; processes that die between two renames.
`PROJECT.json` lists each hazard at its line.

## 2. The modules

| Module | Models | Kind |
|---|---|---|
| `IndexedMap` | what callers of `map` rely on | abstract specification |
| `DeterministicExecutor` | `DeterministicExecutor::map` | implements `IndexedMap` |
| `SingleAsset` | `Backtester::run_detailed`, `benchmark_return`, `Portfolio`, `ExecutionHandler` | component |
| `StrategyBacktest` | the strategies of `Strategy.cpp` driving `SingleAsset` | composition |
| `CalendarDate` | `quant::Date` | operators |
| `TradingCalendar` | `TradingCalendar::build` and both schedules | component, over `CalendarDate` |
| `SharedCash` | the session loop of `PortfolioBacktester::run_union` | component |
| `AllocationPolicy` | the policies and `enforce_constraints` | operators |
| `PortfolioBacktester` | `PortfolioBacktester::run`: `SharedCash` or the legacy path, with the weights of `AllocationPolicy` | composition |
| `PortfolioAttribution` | `run_union`'s records and `PortfolioAttributionAnalyzer`, over `SharedCash` | composition |
| `CalendarWindows` | both ways to enumerate windows, over `CalendarDate` | operators |
| `WalkForward` | `run_walk_forward` and the walk-forward part of `run_research_experiment` | component, over `CalendarWindows` |
| `CausalRegimes` | `classify_causal_regimes`, its look-ups, `run_regime_evaluation` | operators |
| `StableSampling` | `StableRng::bounded`, `sample_indices` | operators |
| `SelectionRisk` | `SelectionRiskAnalyzer::run_experiment` | composition of the three above |
| `ResearchRun` | `quant_cli`, `Application`, `ConfigLoader::validate` around `SelectionRisk` | composition |
| `AtomicPublish` | what publishing promises | abstract specification |
| `Publication` | publication in `scripts/reproducibility.py` | implements `AtomicPublish` |
| `MC...` | constants of the model-checking instances | |
| `CommonLemmas` | sums, counting and ranking, civil dates, calendar windows | lemmas, by induction |
| `...Proofs` | theorems about the module they extend | |

**DeterministicExecutor.** A worker's step is one access to shared memory, with
the labels `check` (load of `failed`), `claim` (`fetch_add`), `run` (the task,
with the store of its slot), `fail` (store of `failed`) and `record` (the
critical section, one test-and-set). A slot holds the index of the task whose
result it stores, so that a right answer is the identity. The atomics are
sequentially consistent in the model. That loses nothing for the counter (one
location, atomic increments) and the flag, whose late visibility is the same as
a worker loading it earlier; the slots and the error are read after the joins,
which order them. `SpawnThrows` is `std::thread`'s constructor throwing.

**SingleAsset.** One action per stage of a bar: `NextBar`, `FillPending` (the
order of the bar before, at the open), `Decide` (signal, order, pending unless
this is the last bar), `Liquidate`, `MarkToMarket`. Any signal may come on any
bar, so what holds here holds for every strategy. Bars are drawn when the loop
reaches them, which loses nothing because no step reads a later one.
`average_entry_price_` is kept as the basis of the whole position, of which it
is the quotient. The benchmark's simulation is the function `BenchmarkValue` of
the bars.

**StrategyBacktest.** `OnMarketEvent` is `Decide` with the signal the strategy
gives, and keeps `last_state_`; the kind "any" keeps every signal. Moving
averages, exponential ones, the relative strength index and the rolling
volatility are compared exactly, as fractions whose denominators are multiplied
out. The indicators read the closes before the window as well, while the clone
that starts a window has no state: `CrossingsTraded` says what follows, that a
window that starts in an upward trend stays in cash until the trend has turned
down and up again, and that a refused buy is not made up for.

**CalendarDate and TradingCalendar.** Dates are records of year, month and day
with the arithmetic of `Date`. `BuildSession` is one turn of `build`'s loop: the
next date of the union and the assets that have a bar on it. A mark is the date
of the close it comes from. `ScheduleSession` is one turn of the weekly or
monthly loop, with its key.

**SharedCash.** The loops of `run_union` over the tickers take one step per
ticker, so sells and buys of several assets interleave with the checks on the
one balance exactly as in the code: `NextSession`, `CorporateAction`, `StartDay`,
`Defer` or `StartRebalance`, `Value`, `Sell`, `Buy`, `RecordRebalance`,
`MarkPosition`, `CloseSession`. The sessions are those `TradingCalendar` may
produce: a closed asset keeps its mark or has lost it, and any session after the
first may be a schedule point. The weights are a constant set.

**AllocationPolicy and PortfolioBacktester.** Weights are integers in units that
every division leaves whole. `MCPortfolio` assumes, and TLC evaluates, that its
set of weights is what the policies return for stated inputs. The legacy path
reuses the steps of `SharedCash` that are the same code twice (valuation, sells,
records, marks) and has its own schedule and its own buys, planned together and
scaled to the cash (`PlanBuys`) before they are made (`LegacyBuy`). It ignores
corporate actions. Its weights come from each ticker's own previous bar while
the record names the previous common date (`PortfolioBacktester.cpp:234`, 271);
both precede the execution, and the model keeps the latter.

**PortfolioAttribution.** The actions of `SharedCash` with what each adds to the
result, in the order recorded: fills at their slipped price, actions with the
values before and after, a point of the curve per session. Attribution itself may
be asked for after any session, so it is made of operators: sums over the records
(`OfAsset`), in which a fill's price at the bar is taken back from its slippage,
as the code does (`ReferenceValue`). Episodes come from one loop over the curve
(`Track`) and are also checked over all short curves.

**CalendarWindows and WalkForward.** A window is two ranges of session numbers.
`CalendarDurations` follows the anchors as clamped and ends at the first test
that would pass the history. One configuration of `WalkForward` is
`run_walk_forward`, the others are `run_research_experiment`. `Train` is one turn
of the loop over the grid, `Test` one of the loop over the best candidates, and
`Raise` the backtester's exception on a window of one session. The objective of a
candidate that is not eligible is a finite sentinel there, so a family is tested
on every window even if no candidate is eligible; `SelectionRisk` uses minus
infinity and tests none.

**CausalRegimes, StableSampling and SelectionRisk.** The tasks of a map end in
any order and leave their results in the slots of their index, which is what
`IndexedMap` promises and `DeterministicExecutor` implements. `Collect` goes
through the slots by rank. An observation is a return dated by the end of its
interval, if the benchmark has it too; the benchmark may lack sessions. The
first session of a test has no return, which is why tests that overlap by a
clamped date make no duplicate. Scores are drawn; a score that is not finite is
the one that is not eligible, so no comparison meets one that is not a number.

**ResearchRun.** A request is a command with its options and a configuration;
`Dispatch` admits and routes it, `Return` and `Raise` end a stage, and
`SelectionRiskStep` plays out the stage of that name. Files are those of an
earlier run, this run's, or partly written. A stage that returns has not
necessarily written: the research grid and the walk-forward, cost, regime and
benchmark stages use streams nobody checks (`Unchecked`), so that below a missing
directory they write nothing, and the run goes on to create the directory for its
metadata and to exit with 0. The other stages must open their files, but
selection risk and the statistics are not asked afterwards, and the exporter's
`verify_output` asks before the last flush; so any of them may return with files
partly written (`Left`). `--threads 0` overrides nothing, and
`--execution-mode serial` on a configuration of several threads is refused by the
second validation.

**Publication.** Every directory is absent, damaged, or the complete package of
one run. Renames take a step; a removal takes at least two, because `rmtree`
goes entry by entry, and may stop half way. Any call may raise, also in the
handlers, and `Killed` may strike between any two steps. `reproduce.py` repeats
the same steps for suites.

Common abstractions. Money is exact: rates are fractions of `Scale` and amounts
integers in a unit in which every product of the code is one, so floor and
division mean what they mean in the code, and the affordability tolerance of
`1e-8`, which absorbs rounding of doubles, is left out, and so is attribution's
tolerance: its residual is zero here. Logs and summaries that nothing reads back
are left out. Prices, scores and returns of backtests that a composition runs
many times are drawn from small sets.

## 3. The runs

| Run | Instance | Shows |
|---|---|---|
| `executor` | up to 3 threads, up to 4 tasks, every set of failing tasks | type correctness, exclusive claims, what an error implies, bounded cancellation, termination, refinement of `IndexedMap` |
| `executor_spawn` (violation) | the same | an exception of the thread constructor does not propagate, it terminates the process |
| `single_asset` | up to 4 bars, prices 8, 10, 13, costs of 1% each; any signals, and each strategy with and without 4 bars before the window | trends traded as they cross, long-only account, next-open execution, the ledger, the settled end, benchmark parity, what the 5% reserve covers |
| `calendar` | 5 sessions, gaps of 1, 2 or 7 days, from 28 Dec 2024 and 27 Feb 2024, 2 assets, marks up to 3 days old | marks are the latest known closes; weekly and monthly schedules |
| `calendar_weekly` (violation) | the same | a week across New Year is scheduled twice |
| `portfolio` | both calendars, 2 assets, 4 sessions, 4 kinds of bars, 3 weight vectors the policies return, 3 policies, raw and adjusted prices; constraints for up to 4 assets, raw weights 0 to 2, five caps; results kept and attributed for 2 kinds of bars, a reverse split and a split with a dividend, equal weights and 2 policies | no leverage, cash explained, rebalances conserve value and bound the drift, deferrals, allocation fills the budget like water; every period explained, holding periods add up, drawdown episodes |
| `attribution_splits` (violation) | the same | under adjusted prices a split is recorded with a contribution |
| `walk_forward` | 2 tickers, 49 histories: 48 start between the 28th and 31st of August and cross a leap day, one has a hole longer than the training; 3 candidates of 2 families, windows of 3 years and 6 months stepping by 3 or 6, and of 4 and 3 sessions | every session tested once but for clamped 28ths, the first best tested, capital linked to its family and ticker |
| `walk_forward_overlap` (violation) | the same | a 28th of February is tested in two windows |
| `research_run` | 38 requests; in their experiments 2 histories, 3 candidates of 2 families, 2 windows, 3 benchmarks, steps shorter and as long as a test; words of 6 bits | files in order, metadata last, nothing from a command that is refused or only asks; one selection per window and family, sound panels, causal regime evaluation, even draws |
| `publication` | 4 runs | nothing lost, failures restore, refinement of `AtomicPublish` |
| `publication_killed` (violation) | the same | a kill between the renames leaves no output directory |

Why the bounds are enough. *Executor*: a third worker is the first that can see
a flag stored by one worker while a second is between its load and its claim;
with four tasks three workers meet both another round of claims and the end of
the work, and every subset of tasks may fail, none and all included. *Single
asset*: four bars hold a buy, its fill, a sale, its fill and the last bar; the
prices gap within and beyond the 5% reserve in both directions. *Calendar*: the
gaps reach the next day, skip a day and skip a week; the first dates make
histories cross New Year inside a week, and a leap day and month end; a mark of
age 3 is allowed and one of 4 is not. *Portfolio*: a deferral needs a session
to be decided on, one closed and one open session, and a second schedule point;
two assets compete for the cash in both orders; the reverse split leaves half
a share; the weights leave cash and concentrate it. *Publication*: the fourth
run is the first to meet what a run left that met leftovers itself. *Strategies*:
the windows of the indicators are as short as they can be told apart, so that a
crossing, its reversal and a warm-up cut off by the window all fit in four bars.
*Walk-forward*: anchors of every day that is clamped, sessions next to each
boundary present or absent, a history with nothing to train some test on, a tie
and an ineligible candidate; two tickers show what survives the first.
*Selection risk*: two windows whose tests overlap by a clamped day or, with a
step of two months, by weeks; a benchmark without one session or with few; a
history too short for a test; closes that take most of the labels. *Commands*: a
request for every route and every reason to refuse one; each stage leaves any of
its outcomes, and to keep their product small the one request that runs all
stages before the experiment is for the family of one candidate. *Attribution*: a
kept result tells every two runs apart, which is why its runs have fewer bars and
weights; they hold a rebalance after a split, a drawdown that recovers, and one that does not. *Draws*: every
bound up to a word of 6 bits, powers of two included. Every bound
is a constant: `MaxThreads` (64 in the code), `MaxCount`, `MaxBars`,
`MaxSessions`, `MaxRuns`, and in `SharedCash` the divisor `Den` of shares (a
split is drawn only if it leaves a multiple of `1/Den`). `Week`, `Passes`,
`MinObservations`, `Bits` and the windows of `CausalRegimes` stand for 5, 8, 30, 32
and 20, 200 and 60, as `MinVolatilities` does for the other 60.

Deadlock is not checked: a call that has answered, a finished window or
schedule, a simulation that threw and an exhausted bound all stop for good.

Fairness is assumed of the executor only, weakly and for each thread: the
operating system runs every thread, and a task function is a bounded loop over
bars. The mutex is held for one test-and-set and needs none. Nothing is assumed
of the other components, whose properties are all about safety.

The disagreements the five violation runs show:

- `docs/PERFORMANCE.md` says the executor propagates exceptions after joining
  its workers. If a thread cannot be started after others were, the pool is
  destroyed with joinable threads and the process terminates
  (`DeterministicExecutor.h:47`).
- `docs/MARKET_CALENDAR.md` says weekly scheduling selects the first union
  valuation of each Monday-to-Sunday week. The key includes the year of the
  session, so 30 December 2024 and 1 January 2025, of one week, are both
  selected (`TradingCalendar.cpp:92`). `WeeklyRebalances` shows that this is
  the only way a week is selected twice.
- `docs/REPRODUCIBILITY.md` says publication is atomic. A kill between the two
  renames leaves `.previous` and no output (`reproducibility.py:489`).
  `NothingLost` and the refinement of `AtomicPublish` show what does hold: the
  copy is there, and no later run removes it before installing a newer one.
- `scripts/validate_results.py` reports test windows of which one ends on or
  after the date the next starts as an error, "test windows overlap", and
  `tests/test_engine.cpp` requires that they do not, on a history that starts
  early in its month. In a history that starts after the 28th the anchors are
  clamped, and a 28th of February may be in two tests
  (`ResearchMethodology.cpp:162`). `SessionsTestedOnce` shows that those 28ths are
  the only sessions tested twice. With a step shorter than a test, which
  the configuration allows, tests overlap by design, and the validator reports
  those too.
- `docs/ATTRIBUTION.md` expects splits to have no economic contribution, and
  `scripts/validate_results.py` reports one as an error. Under the adjusted
  policies the shares stay as they are while the value before the split is taken
  with the ratio (`UnionPortfolioBacktester.cpp:98`), and the difference is
  exported as the split's contribution. The market's is smaller by as much, so
  that the period still adds up (`PeriodsReconcile`).

Two more, seen in the code while modelling it, that no run shows:

- `docs/ARCHITECTURE.md` says that the regime labels used for a return rest on
  information up to the close before it. Regime evaluation does that
  (`RegimesCausal`); the regime panels of selection risk label a return by the
  date it ends on, with the close that makes it (`SelectionRisk.cpp:411`,
  `ObservationRegime` in the model). `PanelSound` is about dates and holds with
  any labels.
- `docs/ARCHITECTURE.md` says the exporter's writes are checked. The check comes
  before the flush, and the tables of the statistics have none
  (`ResultExporter.cpp:31`), so files may be incomplete with status 0: `Left`
  has it so, and `FilesInOrder` promises no more than that they were written.

Worth knowing, and not contradicted by any document: a configuration with all
strategies and a name without the selection-risk prefix passes validation, writes
every file, and then fails in the bootstrap, leaving an earlier run's metadata in
place; the stages with unchecked streams may leave no file in a run that exits
with 0; a history that starts after the 28th has windows whose tests leave a 28th
out, and a history with a hole as long as the training leaves out the test after
it (`SessionsTestedOnce` excepts both); with a step shorter than a test the panels
of selection risk compare returns of overlapping windows: on a date a candidate's
return may come from one window and another's from the next (`PanelSound` has one
return per candidate and date for any step, the eligibility of the panel's
candidates only where tests do not overlap); the summary of normalized windows
reports the starting capital as the final one (`CapitalLinked`); and eight passes
spread the budget over eight assets, while with more, of very unequal raw weights,
one asset may reach its cap per pass and a part of the budget stay in cash
(`PassesSuffice`).

## 4. The proofs

Every theorem has the form `Spec => []P`, `Spec => [][A]_v` or
`Spec => abstract Spec` and rests on an inductive invariant that the initial
states satisfy and every step keeps; the second half has one step per action.

- `DeterministicExecutorProofs`, for any `MaxThreads >= 1` and any `MaxCount`.
  The property that slots are exclusive is not inductive: the invariant adds
  that every index below the counter is stored, failed, or in exactly one
  worker's hands, that a held error was raised, and that the flag set means
  that a worker is about to record an error or one is recorded. At the join no
  worker holds a task, so an answer without an error has every slot filled:
  the refinement of `IndexedMap`. `CancellationBounded` counts: late claims and
  workers between their load and their claim are together fewer than the
  workers (`LateInv`), because the one that stored the flag is neither.
- `BacktestProofs`, for any capital, positive prices, number of bars, and
  rates from 0 to 100%. The invariant ties phases to the number of bars and
  signals, and a pending order to the close it was decided on and the position
  it will meet; products of rates and prices are bounded by lemmas on `Nat`.
  `ReserveCoversCosts` holds for the rates the 5% reserve covers, stated as
  `ReserveFits`: 0.95 (1 + slippage) (1 + cost) <= 1. A pending buy was sized
  with the cash there still is (`SizedInv`), so that a refusal needs a higher
  open. For `BenchmarkParity`, `ParityInv` follows a run that buys first and
  holds against what the benchmark's own code has bought, paid and kept.
  A run with a strategy is a run with some signals, for any set of strategies
  and bars before the window, so the ledger's theorems hold for it.
  `CrossingsTraded` needs more (`TrendInv`): a position or an order is tied to
  the state of the trend at the last decision, and a flat account in an upward
  trend to its excuse, which later signals leave standing.
- `PortfolioProofs`, for any number of assets and sessions, any bars, weights,
  capital and rates from 0 to 100%; first for `SharedCash`. `NoLeverage` rests
  on two lemmas: a sale is at most the whole shares held (`SellFits`), and a
  buy, sized for its target or again for the cash left, is affordable with its
  costs (`BuyFits`). `CashExplained` rests on the decomposition of a fill into
  its value at the bar's price, slippage and commission. The invariant orders
  the last record, the deferred decision and the session count, and says that a
  running rebalance is the deferred one if there is one, from which the two
  action properties on deferrals follow. `RebalanceConserves` and `DriftBounded`
  add what the loop has valued so far, what the account is worth at the
  session's prices and how far the assets already sold are from their targets
  (`RInv`). Then for `PortfolioBacktester` under both calendars: `PInv` adds
  that the legacy path never defers, has every asset open, and has planned no
  purchase that passes its target: scaling a plan down by `cash / RequiredCash`
  keeps it so, whatever the assets cost. Then attribution. `AInv` ties the
  records to the account: the cash is that of the last point and what the day's
  fills and actions moved (`AccountInv`), the marked positions are the sum of
  those marked so far (`PositionsInv`), and under raw prices a split leaves whole
  multiples of `1/Den`, so that its value before and after are equal
  (`SplitsInv`). Each asset's contribution is then its change of marked value
  and what its records moved (`NetIs`), the assets add up (`NetsAddUp`), and
  sums of differences telescope over periods and rebalances. `EpisodesSound` is
  proved for any values: after each point the episodes done cover what lies
  below an earlier value up to there, or up to the peak of the running drawdown
  (`Tracks`). `AllocationSound`: after every pass the weights are the dry shares
  raised by one level up to the cap (`Filling`), and a pass that does not spend
  the budget brings an asset to its cap, so that as many passes as assets
  suffice (`RoomLeft`). The theorem names that hypothesis, `PassesSuffice`.
- `TradingCalendarProofs`, for any assets, histories and staleness. Dates are
  proved to be in the order of their day numbers, the number of the next day is
  the next one (month by month, then by induction through `AddDays`), and a
  week or month is an interval of them. `MarksInv` keeps in `lastMarks` the
  latest date an asset has had a bar on; that is fresh exactly if any of its
  bars is. `ScheduleInv` says that the schedule has one point for each session
  passed that begins a period. Two points of one week then have different
  years, as the sessions between them are of that week too.
- `WalkForwardProofs`, for any grid, families, histories, durations, scores and
  growths. The best candidate so far is the first of the highest seen, and the
  linked capital is the start and the sum of the profits of the rows written
  for that family. `SessionsTestedOnce` has two halves. One is about dates: the
  boundary of a test is the first day of the next anchor's test, except where
  clamping made one a 28th and the other a 29th (`BoundaryMeetsTest`); so tests
  of successive anchors meet or miss a 28th, those further apart never overlap,
  and by induction over the anchors every session between the first and the
  last test is in one, or is such a 28th, or is in a test that was dropped for
  want of training (`SessionsInWindows`). The other is about the loop
  (`RowsInv`): a row for every family of the grid and every window passed, once.
- `ResearchRunProofs`, for any requests, grids, histories, benchmarks, scores
  and returns. `StagesInv` says which files there are once some of a command's
  stages have returned: none of the stages to come, and some of every stage
  before, those excepted that use unchecked streams; metadata is the last stage
  of every route, and the bootstrap fails a run without the prefix. `DrawsEven` is proved for words of
  any number of bits: the words accepted are a multiple of the bound in number,
  and as many of them give one value as another; samples by counting functions.
  `RegimesCausal`: a label depends on no close after it. `SelectionInv` keeps
  the table of rows a ranking, of which the first eligible row is selected;
  numbers of rows are compared by pairing sets. `PanelInv` ties observations to
  the tests they come from, and says that a step as long as a test never has
  the panel refused for a date with two returns.
- `PublicationProofs`, for any number of runs. The invariant says, for each
  place of the protocol, which directories may hold what, in particular that
  `.previous` is removed only while the output is complete.

What several proofs need is in `CommonLemmas`: the loops that sum over assets
and rows, which are recursive functions (each exists, steps by its summand, has
its type, changes in one summand, extends with the sequence); ranks in a finite
set under a strict order; civil dates; anchors and windows. They are proved by
induction over sets of naturals, from the well-foundedness of `<` in the library.

Assumed: the named assumptions of the modules (`ExecutorAssumption`,
`SingleAssetAssumption`, `StrategyAssumption`, `SharedCashAssumption`,
`AttributionAssumption`, `AllocationAssumption`, `TradingCalendarAssumption`,
`WalkForwardAssumption`, `SelectionRiskAssumption`, `RegimeAssumption`,
`SamplingAssumption`, `PublicationAssumption`), which TLC evaluates on the runs,
and `ReserveFits` and `PassesSuffice`, each in the one theorem that names it; the
instances satisfy `PassesSuffice` too. They give constants their types, have the
dates of a history in order, as the loaders do, rates between 0 and 100%, and
units of weight so fine that no division of `enforce_constraints` has a rest. A
configuration with a rate above 100% is accepted by `ConfigLoader` and lies
outside them.

Only model-checked: `Terminates`, which is liveness under fairness.

## 5. Not modelled, and the plan

Not modelled:

- Floating-point statistics: metrics, p-values, deflated ratios, overfitting
  probabilities, risk contributions, summary ratios, the totals of attribution
  by year and regime. They are reductions that nothing reads back.
- The contents of the files the exporters write, and the parsing and formatting
  of JSON, CSV and dates: text in and out, one pass each. Whether files are
  written is in `ResearchRun`. Range checks of single fields are one condition
  (`sound`), and market data enter as bars the readers would accept.
- The Mersenne twister: any word may come.
- The reports of the grid, of cost sensitivity and of benchmarks, and the
  columns of boundary costs, which run backtests already modelled and tabulate.
- The remaining scripts: sequential tools over files with tests of their own.
- Two reconstructions into one output directory at once: the code has no lock
  and no document promises anything.

What a continuation would take, in this order:

1. The verification steps of `reconstruct` (manifest, inputs, experiments,
   comparison) as steps of their own in `Publication`, and the suites of
   `reproduce.py`.
2. The schedule and marks of `SharedCash` made by `TradingCalendar` rather than
   drawn from what it may produce, on a few histories.
3. Proofs: what the weights of `AllocationPolicy` still keep, cap and budget,
   where a division has a rest or the passes do not suffice.
