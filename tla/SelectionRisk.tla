--------------------------- MODULE SelectionRisk ---------------------------
(***************************************************************************)
(* SelectionRiskAnalyzer::run_experiment for one ticker.  On each calendar *)
(* window the candidates are trained by one executor map and ranked, and   *)
(* the eligible ones are tested by another; a panel of the dates common to *)
(* the candidates then enters the reality check, by regime, for each       *)
(* family, and across families; the selected candidates are tested again   *)
(* with linked capital.                                                    *)
(*                                                                         *)
(* The tasks of a map end in any order and leave their result in the slot  *)
(* of their index (see DeterministicExecutor).  The scores and returns of  *)
(* the backtests are drawn when they run.  Sessions are numbered in the    *)
(* ticker's history; the benchmark may lack some of them.                  *)
(***************************************************************************)
EXTENDS CalendarWindows, CausalRegimes, StableSampling

CONSTANTS
  Histories,    \* the histories of the ticker: sessions and closes
  Gaps,         \* the sets of sessions the benchmark may lack
  Grid,         \* the family, 1 .. Families, of each candidate
  Families,
  Scores,       \* finite training objectives
  Returns,      \* active returns of a window
  Years, Months, Steps,
  MinObservations,                \* 30 in the code
  Growths, G, Start

Candidates == 1 .. Len(Grid)
Family     == 1 .. Families

(* A history is loaded with its dates in order, and a close on each.       *)
ASSUME SelectionRiskAssumption ==
  /\ \A h \in Histories :
       /\ IsHistory(h.sessions)
       /\ h.closes \in Seq(Int) /\ Len(h.closes) = Len(h.sessions)
  /\ Families \in Nat \ {0} /\ Grid \in Seq(Family) /\ Grid # <<>>
  /\ Scores \subseteq Nat /\ Returns \subseteq Nat
  /\ {Years, Months} \cup Steps \subseteq Nat \ {0}
  /\ MinObservations \in Nat \ {0}
  /\ Growths \subseteq Nat /\ G \in Nat \ {0} /\ Start \in Nat \ {0}

VARIABLES
  bars, closes,  \* the ticker's sessions and their closes
  absent,        \* the sessions the benchmark lacks
  step,          \* step_months
  chosen,        \* the families of the configured strategy
  windows,
  w,             \* the window
  phase,
  pending,       \* the tasks of the running map that have not ended
  scores,        \* the slots of the training map
  ranked,
  tested,        \* the slots of the evaluation map: active returns by rank
  rows,          \* windows: the CandidateWindowResults
  observations,
  at,            \* the family or selected row the later loops are at
  capital,
  panels,        \* the panels that entered a reality check
  failure        \* the exception that ended the experiment

data == <<bars, closes, absent, step, chosen, windows>>
maps == <<pending, scores, ranked, tested>>
made == <<rows, observations>>
late == <<at, capital, panels>>
vars == <<data, w, phase, maps, made, late, failure>>

(* specs_for: the grid of one family or of all.                            *)
Configured == {candidate \in Candidates : Grid[candidate] \in chosen}

(* -infinity, the score of a candidate that is not eligible.               *)
Ineligible == -1
Unset      == -2

Init ==
  /\ bars = <<>> /\ closes = <<>> /\ absent = {} /\ windows = <<>>
  /\ step \in Steps
  /\ chosen \in {Family} \cup {{family} : family \in Family}
  /\ w = 1
  /\ phase = "load"
  /\ pending = {} /\ ranked = <<>> /\ tested = <<>>
  /\ scores = [candidate \in Candidates |-> Unset]
  /\ rows = <<>> /\ observations = {}
  /\ at = 1 /\ capital = Start /\ panels = {}
  /\ failure = "none"

Load ==
  /\ phase = "load"
  /\ \E history \in Histories : bars' = history.sessions /\ closes' = history.closes
  /\ absent' \in Gaps
  /\ windows' = CalendarDurations(bars', Years, Months, step)
  /\ phase' = IF windows' = <<>> THEN "regimes" ELSE "window"
  /\ UNCHANGED <<step, chosen, w, maps, made, late, failure>>

-----------------------------------------------------------------------------
(* Candidate training and evaluation on one window *)

(* The sessions of a range on which the benchmark has a bar.               *)
BenchmarkSessions(range) == (range[1] .. range[2]) \ absent

TooShort(range) == Observations(range) < 2 \/ Cardinality(BenchmarkSessions(range)) < 2

Fail(exception) == phase' = "failed" /\ failure' = exception

(* The benchmark backtest comes first and throws on fewer than two bars.   *)
StartTraining ==
  /\ phase = "window"
  /\ IF TooShort(windows[w].train)
     THEN Fail("simulation") /\ UNCHANGED pending
     ELSE phase' = "train" /\ pending' = Configured /\ UNCHANGED failure
  /\ UNCHANGED <<data, w, scores, ranked, tested, made, late>>

Train(candidate) ==
  /\ phase = "train" /\ candidate \in pending
  /\ \E score \in Scores \cup {Ineligible} : scores' = [scores EXCEPT ![candidate] = score]
  /\ pending' = pending \ {candidate}
  /\ UNCHANGED <<data, w, phase, ranked, tested, made, late, failure>>

(* The order of the stable sort, a total one: only one sequence of the     *)
(* configured candidates is sorted by it.                                  *)
Ahead(a, b) == scores[a] > scores[b] \/ (scores[a] = scores[b] /\ a < b)

Sorted(order) == \A i, j \in DOMAIN order : i < j => Ahead(order[i], order[j])

Rank ==
  /\ phase = "train" /\ pending = {}
  /\ ranked' \in {order \in [1 .. Cardinality(Configured) -> Configured] : Sorted(order)}
  /\ IF TooShort(windows[w].test)
     THEN Fail("simulation") /\ UNCHANGED <<pending, tested>>
     ELSE /\ phase' = "evaluate"
          /\ pending' = DOMAIN ranked'
          /\ tested' = [rank \in DOMAIN ranked' |-> Unset]
          /\ UNCHANGED failure
  /\ UNCHANGED <<data, w, scores, made, late>>

Eligible(candidate) == scores[candidate] # Ineligible

(* An eligible candidate is tested; the others leave an empty row.         *)
Evaluate(rank) ==
  /\ phase = "evaluate" /\ rank \in pending
  /\ \E active \in IF Eligible(ranked[rank]) THEN Returns ELSE {Unset} :
       tested' = [tested EXCEPT ![rank] = active]
  /\ pending' = pending \ {rank}
  /\ UNCHANGED <<data, w, phase, scores, ranked, made, late, failure>>

(* The ranks of the family's candidates ahead of the one at a rank.        *)
FamilyAhead(rank) == {r \in 1 .. rank - 1 : Grid[ranked[r]] = Grid[ranked[rank]]}

(* Mutant of Selected: the family's first, eligible or not.                *)
SelectedFirst(rank) == FamilyAhead(rank) = {}

Selected(rank) ==
  /\ Eligible(ranked[rank])
  /\ \A r \in FamilyAhead(rank) : ~ Eligible(ranked[r])

Row(rank) ==
  [window |-> w, candidate |-> ranked[rank], eligible |-> Eligible(ranked[rank]),
   training_rank |-> Cardinality(FamilyAhead(rank)) + 1,
   selected |-> Selected(rank), active |-> tested[rank], oos_rank |-> 0]

(* Mutant of ReturnSessions: the first session has a return as well.       *)
ReturnSessionsAll(sessions) == sessions

(* returns_from_equity: the first session of a curve has no return.        *)
ReturnSessions(sessions) == {s \in sessions : \E earlier \in sessions : earlier < s}

(* The dated returns of a window that the benchmark has as well.           *)
Observed(range) ==
  ReturnSessions(range[1] .. range[2]) \cap ReturnSessions(BenchmarkSessions(range))

(* The slots are collected in the order of the ranks.                      *)
Collect ==
  /\ phase = "evaluate" /\ pending = {}
  /\ rows' = rows \o [rank \in DOMAIN ranked |-> Row(rank)]
  /\ observations' = observations \cup
       {[window |-> w, session |-> s, candidate |-> candidate] :
          s \in Observed(windows[w].test), candidate \in {n \in Configured : Eligible(n)}}
  /\ w' = w + 1
  /\ phase' = IF w = Len(windows) THEN "regimes" ELSE "window"
  /\ scores' = [candidate \in Candidates |-> Unset]
  /\ ranked' = <<>> /\ tested' = <<>>
  /\ UNCHANGED <<data, pending, late, failure>>

-----------------------------------------------------------------------------
(* The panels *)

EverEligible(family) ==
  {candidate \in Candidates :
     /\ Grid[candidate] \in family
     /\ \E i \in DOMAIN rows : rows[i].candidate = candidate /\ rows[i].eligible}

DatesOf(candidate, seen) == {o.session : o \in {x \in seen : x.candidate = candidate}}

(* align_common_dates: two rows of a candidate on one date are an error,   *)
(* and so is a panel too small; else the dates common to the candidates.   *)
Duplicated(candidates, seen) ==
  \E x, y \in seen : x # y /\ x.candidate \in candidates
                     /\ x.candidate = y.candidate /\ x.session = y.session

CommonDates(candidates, seen) ==
  {s \in DOMAIN bars : \A candidate \in candidates : s \in DatesOf(candidate, seen)}

Alignment(candidates, seen) ==
  IF candidates = {} THEN "methodology"
  ELSE IF Duplicated(candidates, seen) THEN "data"
  ELSE IF Cardinality(CommonDates(candidates, seen)) < MinObservations THEN "methodology"
  ELSE "none"

(* The regime an observation is filtered by: the label of its own date.    *)
ObservationRegime(series, o) == RegimeAt(series, o.session)

InRegime(regime) == {o \in observations : ObservationRegime(closes, o) = regime}

(* A panel that is too small is reported; a duplicate is not caught.       *)
RegimePanels ==
  /\ phase = "regimes"
  /\ IF \E regime \in Regimes :
          LET seen == InRegime(regime)
          IN \E family \in Family : Alignment(EverEligible({family}), seen) = "data"
     THEN Fail("data")
     ELSE phase' = "ranks" /\ UNCHANGED failure
  /\ UNCHANGED <<data, w, maps, made, late>>

(* Better out of sample, among the eligible of a window and a family.      *)
Beats(other, row) ==
  /\ other.eligible /\ other.window = row.window
  /\ Grid[other.candidate] = Grid[row.candidate]
  /\ \/ other.active > row.active
     \/ other.active = row.active /\ other.candidate < row.candidate

OutOfSampleRanks ==
  /\ phase = "ranks"
  /\ rows' = [i \in DOMAIN rows |->
       IF rows[i].eligible
       THEN [rows[i] EXCEPT !.oos_rank = 1 + Cardinality({j \in DOMAIN rows : Beats(rows[j], rows[i])})]
       ELSE rows[i]]
  /\ phase' = "deploy"
  /\ UNCHANGED <<data, w, maps, observations, late, failure>>

(* The rows are in the order of the windows, one selected row at most for  *)
(* a window, so that the sort by window changes nothing.                   *)
SelectedRows(family) ==
  LET order == InOrder({i \in DOMAIN rows : rows[i].selected /\ Grid[rows[i].candidate] = family})
  IN [n \in DOMAIN order |-> rows[order[n]]]

(* One family's selected candidates, tested on capital that is linked.     *)
Deploy ==
  /\ phase = "deploy" /\ at <= Families
  /\ \E growth \in [DOMAIN SelectedRows(at) -> Growths] :
       LET value[i \in 0 .. Len(SelectedRows(at))] ==
             IF i = 0 THEN Start ELSE (value[i - 1] * growth[i]) \div G
       IN capital' = value[Len(SelectedRows(at))]
  /\ at' = at + 1
  /\ UNCHANGED <<data, w, phase, maps, made, panels, failure>>

StartPanels ==
  /\ phase = "deploy" /\ at > Families
  /\ phase' = "panel"
  /\ at' = 1
  /\ UNCHANGED <<data, w, maps, made, capital, panels, failure>>

(* The reality check of some families' candidates.                         *)
Check(families) ==
  LET candidates == EverEligible(families)
      outcome    == Alignment(candidates, observations)
  IN IF outcome # "none" THEN Fail(outcome) /\ UNCHANGED <<at, panels>>
     ELSE /\ panels' = panels \cup {[candidates |-> candidates,
                                     dates |-> CommonDates(candidates, observations)]}
          /\ at' = at + 1
          /\ UNCHANGED <<phase, failure>>

FamilyPanel ==
  /\ phase = "panel" /\ at <= Families
  /\ IF EverEligible({at}) = {} THEN at' = at + 1 /\ UNCHANGED <<phase, panels, failure>>
     ELSE Check({at})
  /\ UNCHANGED <<data, w, maps, made, capital>>

(* Only for several families.                                              *)
CrossFamilyPanel ==
  /\ phase = "panel" /\ at = Families + 1
  /\ IF Cardinality(chosen) > 1 THEN Check(Family) ELSE at' = at + 1 /\ UNCHANGED <<phase, panels, failure>>
  /\ UNCHANGED <<data, w, maps, made, capital>>

Finish ==
  /\ phase = "panel" /\ at = Families + 2
  /\ phase' = "done"
  /\ UNCHANGED <<data, w, maps, made, late, failure>>

-----------------------------------------------------------------------------
(* The tables made of the rows *)

EligibleRows(candidate) ==
  {i \in DOMAIN rows : rows[i].candidate = candidate /\ rows[i].eligible}

Frequency(candidate) ==
  [eligible |-> Cardinality(EligibleRows(candidate)),
   selected |-> Cardinality({i \in EligibleRows(candidate) : rows[i].selected})]

FamilyFrequency(family) == Len(SelectedRows(family))

(* How often one selection of a family follows another.                    *)
Transitions(family, from, to) ==
  Cardinality({i \in 2 .. FamilyFrequency(family) :
    /\ SelectedRows(family)[i - 1].candidate = from
    /\ SelectedRows(family)[i].candidate = to})

Adjacent(a, b) ==
  LET Between(c) == Grid[c] = Grid[a] /\ ((a < c /\ c < b) \/ (b < c /\ c < a))
  IN a # b /\ Grid[a] = Grid[b] /\ ~ \E c \in Candidates : Between(c)

(* The rows a selected row is compared with: its neighbours in the grid.   *)
Neighbours(row) ==
  {i \in DOMAIN rows :
     rows[i].window = row.window /\ Adjacent(rows[i].candidate, row.candidate) /\ rows[i].eligible}

Next ==
  \/ Load \/ StartTraining \/ Rank \/ Collect
  \/ \E n \in Candidates : Train(n) \/ Evaluate(n)
  \/ RegimePanels \/ OutOfSampleRanks \/ Deploy \/ StartPanels
  \/ FamilyPanel \/ CrossFamilyPanel \/ Finish

Spec == Init /\ [][Next]_vars

-----------------------------------------------------------------------------
(* Properties *)

RowsOf(window, family) ==
  {rows[i] : i \in {j \in DOMAIN rows : rows[j].window = window /\ Grid[rows[j].candidate] = family}}

(* Over the candidates, one after another.                                 *)
SumOf(f) ==
  LET sum[n \in 0 .. Len(Grid)] == IF n = 0 THEN 0 ELSE sum[n - 1] + f[n] IN sum[Len(Grid)]

RankedOnce(some, rank(_)) == {rank(row) : row \in some} = 1 .. Cardinality(some)

(* The tables count every selection once: a candidate's selections lead to *)
(* another each, the last one excepted, and a selected candidate is only   *)
(* compared with neighbours that were tested as well.                      *)
TablesAgree(family) ==
  LET selected == SelectedRows(family)
      times    == [n \in Candidates |-> IF Grid[n] = family THEN Frequency(n).selected ELSE 0]
  IN /\ SumOf(times) = FamilyFrequency(family)
     /\ \A from \in {n \in Candidates : Grid[n] = family} :
          LET ends == selected # <<>> /\ selected[Len(selected)].candidate = from
          IN SumOf([to \in Candidates |-> Transitions(family, from, to)])
               + (IF ends THEN 1 ELSE 0) = times[from]
     /\ \A i \in DOMAIN selected : \A j \in Neighbours(selected[i]) : rows[j].active # Unset

(* Whatever the order the tasks end in and whoever is eligible: on each    *)
(* window a family selects one candidate, and none only if none of its own *)
(* is eligible; no eligible one of the family has a better rank, the ranks *)
(* in training and out of sample leave no gap and no tie, and the tables   *)
(* made of the rows agree.                                                 *)
SelectionSound ==
  /\ phase = "ranks" => \A family \in chosen : TablesAgree(family)
  /\ phase \in {"window", "regimes", "deploy"} =>
    \A window \in 1 .. w - 1, family \in chosen :
      LET all      == RowsOf(window, family)
          eligible == {row \in all : row.eligible}
          selected == {row \in all : row.selected}
          TrainingRank(row) == row.training_rank
          OutOfSampleRank(row) == row.oos_rank
      IN /\ Cardinality(selected) = (IF eligible = {} THEN 0 ELSE 1)
         /\ \A row \in selected, other \in eligible :
              row.eligible /\ row.training_rank <= other.training_rank
         /\ RankedOnce(all, TrainingRank)
         /\ phase = "deploy" => RankedOnce(eligible, OutOfSampleRank)

(* A panel holds one observation of each of its candidates on each of its  *)
(* dates.  With a step as long as a test no candidate has two on a date,   *)
(* also when clamped test ranges overlap, and a panel's dates come from    *)
(* windows on which every candidate of the panel was eligible.             *)
PanelSound ==
  /\ step >= Months => failure # "data"
  /\ phase = "panel" =>
       \A panel \in panels : \A s \in panel.dates, candidate \in panel.candidates :
         LET seen == {o \in observations : o.session = s /\ o.candidate = candidate}
         IN /\ Cardinality(seen) = 1
            /\ step >= Months =>
                 \A o \in seen, i \in DOMAIN rows :
                   rows[i].window = o.window /\ rows[i].candidate \in panel.candidates => rows[i].eligible

(* The labels regime evaluation uses for a trade and for a return rest on  *)
(* the closes before the trade's open and up to the return's start; a      *)
(* return and a trade at its end's open are counted under the same regime, *)
(* and none under two.                                                     *)
RegimesCausal ==
  phase = "window" /\ w = 1 =>
    /\ \A s \in 2 .. Len(closes) :
         LET AtOpen(series)  == RegimeForExecution(series, s)
             AtStart(series) == RegimeForReturnInterval(series, s - 1)
         IN /\ KnownAt(AtOpen, closes, s - 1, {closes[i] : i \in DOMAIN closes})
            /\ KnownAt(AtStart, closes, s - 1, {closes[i] : i \in DOMAIN closes})
    /\ LET trades == [s \in DOMAIN closes |-> [session |-> s, sell |-> s > 3, profit |-> closes[s] - 5]]
           counted(regime) == Evaluation(closes, 1 .. 7, trades, regime)
       IN \A regime, other \in Regimes :
            /\ counted(regime).days = counted(regime).trades \ {1}
            /\ counted(regime).winners \subseteq counted(regime).closed
            /\ regime # other => counted(regime).days \cap counted(other).days = {}
=============================================================================
