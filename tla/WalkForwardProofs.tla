------------------------- MODULE WalkForwardProofs -------------------------
(***************************************************************************)
(* Proofs about WalkForward for any grid, families, histories and          *)
(* summaries: which candidate a family is tested with, what its linked     *)
(* capital is, and which windows test a session.                           *)
(***************************************************************************)
EXTENDS WalkForward, CommonLemmas

Phases == {"ticker", "train", "test", "summary", "error"}

Row == [family : Family, window : Int, starting : Int, ending : Int]

TypeInv ==
  /\ config \in Configs
  /\ phase \in Phases
  /\ c \in 1 .. Len(Grid) + 1
  /\ w \in Int
  /\ f \in Family
  /\ scores \in [Candidates -> Int]
  /\ best \in [Family -> 0 .. Len(Grid)]
  /\ capital \in [Family -> Int]
  /\ rows \in Seq(Row)

(* The candidates of a family the window has trained so far.               *)
TrainedSoFar(family) == {n \in Candidates : n < c /\ InGrid(n) /\ Grid[n] = family}

(* The best of a family is the first of those of the highest score.        *)
FirstBest(family) ==
  /\ TrainedSoFar(family) = {} => best[family] = 0
  /\ TrainedSoFar(family) # {} =>
       /\ best[family] \in TrainedSoFar(family)
       /\ \A n \in TrainedSoFar(family) :
            \/ scores[n] < scores[best[family]]
            \/ scores[n] = scores[best[family]] /\ best[family] <= n

SelectionInv ==
  /\ phase = "train" => c <= Len(Grid)
  /\ phase = "test" => c = Len(Grid) + 1
  /\ phase = "ticker" => c = 1 /\ rows = <<>>
  /\ phase \in {"ticker", "train", "test"} => \A family \in Family : FirstBest(family)

WInv == TypeInv /\ SelectionInv /\ CapitalLinked

-----------------------------------------------------------------------------
(* Profits *)

Gains(family, tested) ==
  [n \in DOMAIN tested |-> IF tested[n].family = family THEN tested[n].ending - tested[n].starting ELSE 0]

LEMMA ProfitIsSum ==
  ASSUME NEW family, NEW tested \in Seq(Row)
  PROVE  \E sum : IsSum(sum, 0, Gains(family, tested), Len(tested))
                 /\ Profit(family, tested) = sum[Len(tested)]
<1> DEFINE gain(row) == IF row.family = family THEN row.ending - row.starting ELSE 0
           upTo[n \in 0 .. Len(tested)] == IF n = 0 THEN 0 ELSE upTo[n - 1] + gain(tested[n])
           Sums(sum) == IsSum(sum, 0, Gains(family, tested), Len(tested))
<1>1. \E sum : Sums(sum)
  <2>1. Len(tested) \in Nat
    OBVIOUS
  <2> QED
    BY <2>1, SumExists, Zenon
<1>2. \A sum : Sums(sum)
        <=> sum = [n \in 0 .. Len(tested) |-> IF n = 0 THEN 0 ELSE sum[n - 1] + gain(tested[n])]
  <2> SUFFICES ASSUME NEW sum
      PROVE  [n \in 0 .. Len(tested) |-> IF n = 0 THEN 0 ELSE sum[n - 1] + Gains(family, tested)[n]]
             = [n \in 0 .. Len(tested) |-> IF n = 0 THEN 0 ELSE sum[n - 1] + gain(tested[n])]
    BY DEF IsSum
  <2>1. \A n \in 0 .. Len(tested) : n # 0 => Gains(family, tested)[n] = gain(tested[n])
    BY DEF Gains
  <2> HIDE DEF gain
  <2> QED
    BY <2>1
<1>3. Sums(upTo)
  <2> HIDE DEF Sums, gain
  <2> QED
    BY <1>1, <1>2, Zenon
<1>4. Profit(family, tested) = upTo[Len(tested)]
  BY DEF Profit
<1> QED
  BY <1>3, <1>4

LEMMA GainsInt ==
  ASSUME NEW family, NEW tested \in Seq(Row)
  PROVE  \A n \in 1 .. Len(tested) : Gains(family, tested)[n] \in Int
<1> SUFFICES ASSUME NEW n \in 1 .. Len(tested) PROVE Gains(family, tested)[n] \in Int
  OBVIOUS
<1>1. tested[n] \in Row /\ n \in DOMAIN tested
  OBVIOUS
<1>2. tested[n].starting \in Int /\ tested[n].ending \in Int
  BY <1>1 DEF Row
<1> QED
  BY <1>1, <1>2 DEF Gains

LEMMA ProfitInt ==
  ASSUME NEW family, NEW tested \in Seq(Row)
  PROVE  Profit(family, tested) \in Int
<1>1. PICK sum : /\ IsSum(sum, 0, Gains(family, tested), Len(tested))
                 /\ Profit(family, tested) = sum[Len(tested)]
  BY ProfitIsSum
<1>2. Len(tested) \in Nat /\ Len(tested) \in 0 .. Len(tested)
  OBVIOUS
<1>3. \A n \in 0 .. Len(tested) : sum[n] \in Int
  BY <1>1, <1>2, GainsInt, SumType
<1> QED
  BY <1>1, <1>2, <1>3

LEMMA ProfitOfNone == \A family : Profit(family, <<>>) = 0
<1> SUFFICES ASSUME NEW family PROVE Profit(family, <<>>) = 0
  OBVIOUS
<1>1. <<>> \in Seq(Row) /\ Len(<<>>) = 0
  OBVIOUS
<1>2. PICK sum : IsSum(sum, 0, Gains(family, <<>>), 0) /\ Profit(family, <<>>) = sum[0]
  BY <1>1, ProfitIsSum
<1> QED
  BY <1>2, SumSteps

LEMMA ProfitAppended ==
  ASSUME NEW family, NEW tested \in Seq(Row), NEW row \in Row
  PROVE  Profit(family, Append(tested, row)) =
           Profit(family, tested) + (IF row.family = family THEN row.ending - row.starting ELSE 0)
<1> DEFINE more == Append(tested, row)
           n == Len(tested)
<1>1. /\ more \in Seq(Row) /\ n \in Nat /\ Len(more) = n + 1 /\ more[n + 1] = row
      /\ \A j \in 1 .. n : more[j] = tested[j]
  OBVIOUS
<1>2. /\ \A j \in 1 .. n : Gains(family, more)[j] = Gains(family, tested)[j]
      /\ Gains(family, more)[n + 1] = IF row.family = family THEN row.ending - row.starting ELSE 0
  <2>1. DOMAIN more = 1 .. n + 1 /\ DOMAIN tested = 1 .. n
    BY <1>1
  <2> HIDE DEF more, n
  <2> QED
    BY <1>1, <2>1 DEF Gains
<1> HIDE DEF more
<1>3. PICK sum : IsSum(sum, 0, Gains(family, tested), n) /\ Profit(family, tested) = sum[n]
  BY ProfitIsSum
<1>4. PICK new : IsSum(new, 0, Gains(family, more), n + 1) /\ Profit(family, more) = new[n + 1]
  BY <1>1, ProfitIsSum
<1> HIDE DEF n
<1>5. n + 1 \in 1 .. n + 1 /\ (n + 1) - 1 = n /\ n \in 0 .. n /\ n + 1 \in Nat /\ n <= n + 1
  BY <1>1
<1>6. new[n + 1] = new[n] + Gains(family, more)[n + 1]
  BY <1>4, <1>5, SumSteps
<1>7. new[n] = sum[n]
  BY <1>1, <1>2, <1>3, <1>4, <1>5, SumExtends
<1> QED
  BY <1>2, <1>3, <1>4, <1>6, <1>7 DEF more

-----------------------------------------------------------------------------
LEMMA GridFamilies == /\ Len(Grid) \in Nat \ {0} /\ 1 \in Family /\ 0 \in 0 .. Len(Grid)
                      /\ \A n \in Candidates : Grid[n] \in Family
BY WalkForwardAssumption DEF Family, Candidates

(* A window starts with nothing trained.                                   *)
LEMMA NothingTrained ==
  ASSUME c = 1, best = [family \in Family |-> 0]
  PROVE  \A family \in Family : FirstBest(family)
<1>1. \A family : TrainedSoFar(family) = {}
  BY DEF TrainedSoFar, Candidates
<1> QED
  BY <1>1 DEF FirstBest

LEMMA NothingTrainedNext ==
  ASSUME StartWindow
  PROVE  /\ c' \in 1 .. Len(Grid) + 1 /\ f' \in Family /\ c' = 1
         /\ scores' \in [Candidates -> Int] /\ best' \in [Family -> 0 .. Len(Grid)]
         /\ \A family \in Family : FirstBest(family)'
<1>1. /\ c' = 1 /\ f' = 1 /\ scores' = [n \in Candidates |-> Untrained]
      /\ best' = [family \in Family |-> 0]
  BY DEF StartWindow
<1>2. \A family : TrainedSoFar(family)' = {}
  BY <1>1 DEF TrainedSoFar, Candidates
<1>3. \A family \in Family : FirstBest(family)'
  BY <1>1, <1>2 DEF FirstBest
<1> QED
  BY <1>1, <1>3, GridFamilies DEF Untrained

LEMMA SelectionKept ==
  ASSUME UNCHANGED <<config, c, scores, best>>
  PROVE  \A family \in Family : FirstBest(family)' = FirstBest(family)
BY DEF FirstBest, TrainedSoFar, InGrid

LEMMA InitWInv == Init => WInv
<1> SUFFICES ASSUME Init PROVE WInv
  OBVIOUS
<1>1. TypeInv
  BY GridFamilies, WalkForwardAssumption DEF Init, TypeInv, Phases, Untrained
<1>2. SelectionInv
  BY NothingTrained DEF Init, SelectionInv
<1>3. CapitalLinked
  BY DEF Init, CapitalLinked
<1> QED
  BY <1>1, <1>2, <1>3 DEF WInv

LEMMA LoadTickerWInv == WInv /\ LoadTicker => WInv'
<1> SUFFICES ASSUME WInv, LoadTicker PROVE WInv'
  OBVIOUS
<1>1. /\ phase = "ticker" /\ phase' \in {"train", "summary"}
      /\ capital' = [family \in Family |-> Start]
      /\ UNCHANGED <<config, w, c, scores, best, f, rows>>
  BY DEF LoadTicker
<1>2. TypeInv'
  BY <1>1, WalkForwardAssumption DEF WInv, TypeInv, Phases
<1>3. SelectionInv'
  <2>1. \A family \in Family : FirstBest(family)' = FirstBest(family)
    BY <1>1, SelectionKept
  <2>2. c' <= Len(Grid)
    BY <1>1, GridFamilies DEF WInv, SelectionInv
  <2> QED
    BY <1>1, <2>1, <2>2 DEF WInv, SelectionInv
<1>4. CapitalLinked'
  <2>1. \A family : Profit(family, rows') = 0
    BY <1>1, ProfitOfNone DEF WInv, SelectionInv
  <2>2. \A family \in Family : capital'[family] = Start /\ Start \in Int
    BY <1>1, WalkForwardAssumption
  <2> QED
    BY <2>1, <2>2 DEF CapitalLinked
<1> QED
  BY <1>2, <1>3, <1>4 DEF WInv

(* Steps that leave the capital, the rows and the phase's ticker alone.    *)
LEMMA CapitalKept ==
  ASSUME WInv, UNCHANGED <<config, capital, rows>>, phase # "ticker"
  PROVE  CapitalLinked'
BY DEF WInv, CapitalLinked, Linked

LEMMA RaiseWInv == WInv /\ Raise => WInv'
<1> SUFFICES ASSUME WInv, Raise PROVE WInv'
  OBVIOUS
<1>1. /\ phase # "ticker" /\ phase' = "error"
      /\ UNCHANGED <<config, w, c, scores, best, f, capital, rows>>
  BY DEF Raise, history, outcome
<1>2. TypeInv' /\ SelectionInv'
  BY <1>1 DEF WInv, TypeInv, SelectionInv, Phases
<1> QED
  BY <1>1, <1>2, CapitalKept DEF WInv

LEMMA SummariseWInv == WInv /\ Summarise => WInv'
<1> SUFFICES ASSUME WInv, Summarise PROVE WInv'
  OBVIOUS
<1>1. /\ phase' = "ticker" /\ rows' = <<>> /\ w' = 1 /\ StartWindow /\ UNCHANGED <<config, capital>>
  BY DEF Summarise
<1>2. TypeInv' /\ SelectionInv'
  BY <1>1, NothingTrainedNext DEF WInv, TypeInv, SelectionInv, Phases
<1>3. CapitalLinked'
  BY <1>1 DEF CapitalLinked
<1> QED
  BY <1>2, <1>3 DEF WInv

LEMMA ObjectiveInt == \A summary \in Summaries : Objective(summary) \in Int
BY WalkForwardAssumption DEF Objective, Sentinel

(* The candidate trained next takes its family if it beats the best so far. *)
LEMMA TrainedFirstBest ==
  ASSUME WInv, phase = "train", NEW a \in Candidates, a = c, InGrid(a), c' = c + 1,
         config' = config, NEW score \in Int, scores' = [scores EXCEPT ![a] = score],
         best' = [best EXCEPT ![Grid[a]] = IF Better(score, Grid[a]) THEN a ELSE @]
  PROVE  \A family \in Family : FirstBest(family)'
<1> DEFINE g == Grid[a]
<1>1. /\ scores \in [Candidates -> Int] /\ best \in [Family -> 0 .. Len(Grid)] /\ g \in Family
      /\ \A family \in Family : FirstBest(family)
      /\ Candidates \subseteq Nat \ {0} /\ c \in Nat
  BY GridFamilies DEF WInv, TypeInv, SelectionInv, Candidates
<1>2. \A family : TrainedSoFar(family)' = TrainedSoFar(family) \cup (IF family = g THEN {a} ELSE {})
  BY <1>1 DEF TrainedSoFar, InGrid
<1>3. \A family : \A n \in TrainedSoFar(family) :
        n \in Candidates /\ n < a /\ scores'[n] = scores[n] /\ scores[n] \in Int
  BY <1>1 DEF TrainedSoFar
<1>4. scores'[a] = score
  BY <1>1
<1> SUFFICES ASSUME NEW family \in Family PROVE FirstBest(family)'
  OBVIOUS
<1>5. FirstBest(family)
  BY <1>1
<1>6. CASE family # g
  <2>1. best'[family] = best[family] /\ TrainedSoFar(family)' = TrainedSoFar(family)
    BY <1>1, <1>2, <1>6
  <2> HIDE DEF g
  <2> QED
    BY <1>3, <1>5, <2>1 DEF FirstBest
<1>7. CASE family = g
  <2>1. TrainedSoFar(family)' = TrainedSoFar(family) \cup {a}
    BY <1>2, <1>7
  <2>2. best'[family] = IF best[family] = 0 \/ score > scores[best[family]] THEN a ELSE best[family]
    BY <1>1, <1>7 DEF Better
  <2>3. best[family] = 0 <=> TrainedSoFar(family) = {}
    BY <1>1, <1>5 DEF FirstBest, TrainedSoFar
  <2> HIDE DEF g
  <2>4. CASE TrainedSoFar(family) = {}
    BY <1>1, <1>4, <2>1, <2>2, <2>3, <2>4 DEF FirstBest
  <2>5. CASE TrainedSoFar(family) # {}
    <3>1. /\ best[family] \in TrainedSoFar(family)
          /\ \A n \in TrainedSoFar(family) :
               \/ scores[n] < scores[best[family]]
               \/ scores[n] = scores[best[family]] /\ best[family] <= n
      BY <1>5, <2>5 DEF FirstBest
    <3>2. CASE score > scores[best[family]]
      <4>1. best'[family] = a
        BY <2>2, <3>2
      <4>2. \A n \in TrainedSoFar(family) : scores'[n] < score
        BY <1>3, <3>1, <3>2
      <4> QED
        BY <1>1, <1>4, <2>1, <4>1, <4>2 DEF FirstBest
    <3>3. CASE ~ (score > scores[best[family]])
      <4>1. best'[family] = best[family]
        BY <2>2, <2>3, <2>5, <3>3
      <4>2. scores'[best[family]] = scores[best[family]] /\ best[family] < a
            /\ scores[best[family]] \in Int /\ best[family] \in Nat
        BY <1>1, <1>3, <3>1
      <4>3. \/ score < scores[best[family]]
            \/ score = scores[best[family]] /\ best[family] <= a
        BY <1>1, <3>3, <4>2
      <4> QED
        BY <1>3, <1>4, <2>1, <3>1, <4>1, <4>2, <4>3 DEF FirstBest
    <3> QED
      BY <3>2, <3>3
  <2> QED
    BY <2>4, <2>5
<1> QED
  BY <1>6, <1>7

LEMMA TrainWInv == WInv /\ Train => WInv'
<1> SUFFICES ASSUME WInv, Train PROVE WInv'
  OBVIOUS
<1>1. /\ phase = "train" /\ c' = c + 1 /\ c \in Candidates /\ c' \in 1 .. Len(Grid) + 1
      /\ phase' = IF c = Len(Grid) THEN "test" ELSE "train"
      /\ UNCHANGED <<config, w, f, capital, rows>>
  BY GridFamilies DEF Train, WInv, TypeInv, SelectionInv, Candidates, history, outcome
<1>2. PICK a \in Candidates : a = c
  BY <1>1
<1>3. /\ scores' \in [Candidates -> Int] /\ best' \in [Family -> 0 .. Len(Grid)]
      /\ \A family \in Family : FirstBest(family)'
  <2>1. CASE InGrid(a)
    <3>1. PICK summary \in Summaries :
            /\ scores' = [scores EXCEPT ![a] = Objective(summary)]
            /\ best' = [best EXCEPT ![Grid[a]] = IF Better(Objective(summary), Grid[a]) THEN a ELSE @]
      BY <1>2, <2>1 DEF Train
    <3>2. Objective(summary) \in Int
      BY ObjectiveInt
    <3>3. \A family \in Family : FirstBest(family)'
      BY <1>1, <1>2, <2>1, <3>1, <3>2, TrainedFirstBest
    <3>4. a \in 0 .. Len(Grid)
      BY GridFamilies DEF Candidates
    <3> QED
      BY <3>1, <3>2, <3>3, <3>4 DEF WInv, TypeInv
  <2>2. CASE ~ InGrid(a)
    <3>1. UNCHANGED <<scores, best>>
      BY <1>2, <2>2 DEF Train
    <3>2. \A family : TrainedSoFar(family)' = TrainedSoFar(family)
      BY <1>1, <1>2, <2>2, GridFamilies DEF TrainedSoFar, InGrid, Candidates
    <3>3. \A family \in Family : FirstBest(family)' = FirstBest(family)
      BY <3>1, <3>2 DEF FirstBest
    <3> QED
      BY <1>1, <3>1, <3>3 DEF WInv, TypeInv, SelectionInv
  <2> QED
    BY <2>1, <2>2
<1>4. TypeInv'
  BY <1>1, <1>3 DEF WInv, TypeInv, Phases
<1>5. SelectionInv'
  BY <1>1, <1>3, GridFamilies DEF SelectionInv, Candidates
<1> QED
  BY <1>1, <1>4, <1>5, CapitalKept DEF WInv

(* A test adds its row's profit to the linked capital of its family.       *)
LEMMA TestCapital ==
  ASSUME WInv, Test
  PROVE  capital' \in [Family -> Int] /\ rows' \in Seq(Row) /\ CapitalLinked'
<1>1. /\ phase = "test" /\ config' = config /\ capital \in [Family -> Int] /\ rows \in Seq(Row)
      /\ f \in Family /\ w \in Int /\ Start \in Int
      /\ \A family \in Family :
           capital[family] = Start + (IF Linked THEN Profit(family, rows) ELSE 0)
  BY WalkForwardAssumption DEF Test, WInv, TypeInv, CapitalLinked, history
<1>2. CASE best[f] = 0
  <2>1. UNCHANGED <<config, capital, rows>>
    BY <1>1, <1>2 DEF Test, outcome
  <2> QED
    BY <1>1, <2>1, CapitalKept
<1>3. CASE best[f] # 0
  <2>1. PICK growth \in Growths :
          LET ending == (Starting(f) * growth) \div G
          IN /\ capital' = IF Linked THEN [capital EXCEPT ![f] = ending] ELSE capital
             /\ rows' = Append(rows, [family |-> f, window |-> w,
                                      starting |-> Starting(f), ending |-> ending])
    BY <1>3 DEF Test
  <2>2. Starting(f) \in Int /\ (Linked => Starting(f) = capital[f])
    BY <1>1 DEF Starting
  <2>3. (Starting(f) * growth) \div G \in Int
    <3>1. growth \in Int /\ G \in Nat \ {0}
      BY WalkForwardAssumption
    <3>2. \A x, y \in Int, z \in Nat \ {0} : (x * y) \div z \in Int
      OBVIOUS
    <3> QED
      BY <2>2, <3>1, <3>2
  <2>4. PICK ending \in Int : ending = (Starting(f) * growth) \div G
    BY <2>3
  <2> DEFINE row == [family |-> f, window |-> w, starting |-> Starting(f), ending |-> ending]
  <2>5. row \in Row /\ rows' = Append(rows, row)
    BY <1>1, <2>1, <2>2, <2>4 DEF Row
  <2>6. \A family : Profit(family, rows') =
          Profit(family, rows) + (IF f = family THEN ending - Starting(f) ELSE 0)
    <3> TAKE family
    <3>1. row.family = f /\ row.ending = ending /\ row.starting = Starting(f)
      OBVIOUS
    <3> HIDE DEF row
    <3> QED
      BY <1>1, <2>5, <3>1, ProfitAppended
  <2>7. rows' \in Seq(Row)
    <3> HIDE DEF row
    <3> QED
      BY <1>1, <2>5
  <2>8. capital' = IF Linked THEN [capital EXCEPT ![f] = ending] ELSE capital
    BY <2>1, <2>4
  <2>9. capital' \in [Family -> Int]
    BY <1>1, <2>4, <2>8
  <2>10. \A family \in Family :
           capital'[family] = Start + (IF Linked THEN Profit(family, rows') ELSE 0)
    <3> TAKE family \in Family
    <3>1. CASE Linked
      <4>1. /\ capital[family] = Start + Profit(family, rows)
            /\ capital'[family] = IF family = f THEN ending ELSE capital[family]
        BY <1>1, <2>8, <3>1
      <4>2. Profit(family, rows) \in Int
        BY <1>1, ProfitInt
      <4>3. family = f => Starting(f) = capital[family]
        BY <2>2, <3>1
      <4> QED
        BY <1>1, <2>2, <2>4, <2>6, <3>1, <4>1, <4>2, <4>3
    <3>2. CASE ~ Linked
      BY <1>1, <2>8, <3>2
    <3> QED
      BY <3>1, <3>2
  <2>11. Linked' = Linked
    BY <1>1 DEF Linked
  <2> QED
    BY <2>7, <2>9, <2>10, <2>11 DEF CapitalLinked
<1> QED
  BY <1>2, <1>3

LEMMA TestWInv == WInv /\ Test => WInv'
<1> SUFFICES ASSUME WInv, Test PROVE WInv'
  OBVIOUS
<1>1. capital' \in [Family -> Int] /\ rows' \in Seq(Row) /\ CapitalLinked'
  BY TestCapital
<1>2. CASE f < Families
  <2>1. /\ f' = f + 1 /\ phase = "test" /\ UNCHANGED <<config, phase, w, c, scores, best>>
    BY <1>2 DEF Test, history
  <2>2. f' \in Family
    BY <1>2, <2>1, WalkForwardAssumption DEF WInv, TypeInv, Family
  <2>3. TypeInv'
    BY <1>1, <2>1, <2>2 DEF WInv, TypeInv
  <2>4. SelectionInv'
    BY <2>1, SelectionKept DEF WInv, SelectionInv
  <2> QED
    BY <1>1, <2>3, <2>4 DEF WInv
<1>3. CASE ~ (f < Families)
  <2>1. /\ w' = w + 1 /\ StartWindow /\ phase' \in {"summary", "train"} /\ config' = config
    BY <1>3 DEF Test, history
  <2>2. TypeInv'
    BY <1>1, <2>1, NothingTrainedNext DEF WInv, TypeInv, Phases
  <2>3. SelectionInv'
    BY <2>1, NothingTrainedNext, GridFamilies DEF SelectionInv
  <2> QED
    BY <1>1, <2>2, <2>3 DEF WInv
<1> QED
  BY <1>2, <1>3

LEMMA StepWInv == WInv /\ [Next]_vars => WInv'
<1> SUFFICES ASSUME WInv, [Next]_vars PROVE WInv'
  OBVIOUS
<1>1. CASE Next
  BY <1>1, LoadTickerWInv, RaiseWInv, TrainWInv, TestWInv, SummariseWInv DEF Next
<1>2. CASE UNCHANGED vars
  <2>1. UNCHANGED <<config, phase, c, w, f, scores, best, capital, rows>>
    BY <1>2 DEF vars, history, outcome
  <2>2. TypeInv' /\ CapitalLinked'
    BY <2>1 DEF WInv, TypeInv, CapitalLinked, Linked
  <2>3. SelectionInv'
    BY <2>1, SelectionKept DEF WInv, SelectionInv
  <2> QED
    BY <2>2, <2>3 DEF WInv
<1> QED
  BY <1>1, <1>2

-----------------------------------------------------------------------------
THEOREM WalkForwardInvariant == Spec => []WInv
BY InitWInv, StepWInv, PTL DEF Spec

(* Analysis tests the first of a family's candidates with the highest      *)
(* score, in every window of every history, for any grid, and whether or   *)
(* not any of them is eligible.                                            *)
THEOREM WalkForwardSelectsFirstBest == Spec => []SelectsFirstBest
<1>1. WInv => SelectsFirstBest
  <2> SUFFICES ASSUME WInv, phase = "test", NEW family \in Family PROVE
        LET trained == {n \in Candidates : InGrid(n) /\ Grid[n] = family}
        IN trained # {} =>
             /\ best[family] \in trained
             /\ \A n \in trained : \/ scores[n] < scores[best[family]]
                                   \/ scores[n] = scores[best[family]] /\ best[family] <= n
    BY DEF SelectsFirstBest
  <2>1. FirstBest(family) /\ c = Len(Grid) + 1
    BY DEF WInv, SelectionInv
  <2>2. TrainedSoFar(family) = {n \in Candidates : InGrid(n) /\ Grid[n] = family}
    BY <2>1, GridFamilies DEF TrainedSoFar, Candidates
  <2> QED
    BY <2>1, <2>2 DEF FirstBest
<1> QED
  BY <1>1, WalkForwardInvariant, PTL

(* Linked capital is the starting capital and the family's own profits on  *)
(* the ticker, however many windows, families and tickers there are.       *)
THEOREM WalkForwardCapitalLinked == Spec => []CapitalLinked
<1>1. WInv => CapitalLinked
  BY DEF WInv
<1> QED
  BY <1>1, WalkForwardInvariant, PTL

-----------------------------------------------------------------------------
(* The rows of a ticker *)

InFamily(family) == \E n \in Candidates : InGrid(n) /\ Grid[n] = family

(* The test loop is past the family of the window.                         *)
Past(family, v) == v < w \/ (v = w /\ family < f)

ProgressInv ==
  /\ w \in Nat \ {0}
  /\ phase \in {"ticker", "train", "summary"} => f = 1
  /\ phase = "ticker" => w = 1
  /\ phase # "ticker" => bars \in Histories /\ windows = WindowsOf(bars)
  /\ phase = "summary" => w = Len(windows) + 1

(* A row for every family of the grid and window the loop is past, once.   *)
RowsInv ==
  /\ \A i \in DOMAIN rows : /\ rows[i].window \in Nat \ {0}
                            /\ Past(rows[i].family, rows[i].window) /\ InFamily(rows[i].family)
  /\ \A i, j \in DOMAIN rows :
       rows[i].family = rows[j].family /\ rows[i].window = rows[j].window => i = j
  /\ \A family \in Family, v \in Nat \ {0} :
       Past(family, v) /\ InFamily(family) =>
         \E i \in DOMAIN rows : rows[i].family = family /\ rows[i].window = v

TestedInv == ProgressInv /\ RowsInv

LEMMA RowFields ==
  ASSUME rows \in Seq(Row), NEW i \in DOMAIN rows
  PROVE  rows[i].family \in Family
<1>1. rows[i] \in Row
  OBVIOUS
<1> QED
  BY <1>1 DEF Row

LEMMA NothingPast ==
  ASSUME w = 1, f = 1
  PROVE  \A family \in Family, v \in Nat \ {0} : ~ Past(family, v)
BY DEF Past, Family

LEMMA InitTestedInv == Init => TestedInv
<1> SUFFICES ASSUME Init PROVE TestedInv
  OBVIOUS
<1>1. ProgressInv
  BY DEF Init, ProgressInv
<1>2. w = 1 /\ f = 1 /\ DOMAIN rows = {}
  BY DEF Init
<1> QED
  BY <1>1, <1>2, NothingPast DEF TestedInv, RowsInv

(* Steps that test nothing keep the rows.                                  *)
LEMMA RowsKept ==
  ASSUME RowsInv, UNCHANGED <<config, w, f, rows>>
  PROVE  RowsInv'
BY DEF RowsInv, Past, InFamily, InGrid

LEMMA LoadTickerTested == TestedInv /\ LoadTicker => TestedInv'
<1> SUFFICES ASSUME TestedInv, LoadTicker PROVE TestedInv'
  OBVIOUS
<1>1. /\ phase = "ticker" /\ phase' \in {"train", "summary"}
      /\ bars' \in Histories /\ windows' = WindowsOf(bars')
      /\ phase' = "summary" => windows' = <<>>
      /\ UNCHANGED <<config, w, f, rows>>
  BY DEF LoadTicker
<1>2. windows' = WindowsOf(bars)'
  BY <1>1 DEF WindowsOf
<1>3. ProgressInv'
  BY <1>1, <1>2 DEF TestedInv, ProgressInv
<1> QED
  BY <1>1, <1>3, RowsKept DEF TestedInv

LEMMA RaiseOrTrainTested == WInv /\ TestedInv /\ (Raise \/ Train) => TestedInv'
<1> SUFFICES ASSUME WInv, TestedInv, Raise \/ Train PROVE TestedInv'
  OBVIOUS
<1>1. /\ phase \in {"train", "test"} /\ phase' \in {"error", "test", "train"}
      /\ phase' = "train" => phase = "train"
      /\ UNCHANGED <<config, bars, windows, w, f, rows>>
  BY DEF Raise, Train, history, outcome
<1>2. WindowsOf(bars)' = WindowsOf(bars)
  BY <1>1 DEF WindowsOf
<1>3. ProgressInv'
  BY <1>1, <1>2 DEF TestedInv, ProgressInv
<1> QED
  BY <1>1, <1>3, RowsKept DEF TestedInv

LEMMA SummariseTested == TestedInv /\ Summarise => TestedInv'
<1> SUFFICES ASSUME TestedInv, Summarise PROVE TestedInv'
  OBVIOUS
<1>1. phase' = "ticker" /\ rows' = <<>> /\ w' = 1 /\ f' = 1
  BY DEF Summarise, StartWindow
<1>2. ProgressInv'
  BY <1>1 DEF ProgressInv
<1>3. \A family \in Family, v \in Nat \ {0} : ~ Past(family, v)'
  BY <1>1 DEF Past, Family
<1>4. RowsInv'
  BY <1>1, <1>3 DEF RowsInv
<1> QED
  BY <1>2, <1>4 DEF TestedInv

LEMMA TestTested == WInv /\ TestedInv /\ Test => TestedInv'
<1> SUFFICES ASSUME WInv, TestedInv, Test PROVE TestedInv'
  OBVIOUS
<1>1. /\ phase = "test" /\ config' = config /\ bars' = bars /\ windows' = windows
      /\ f \in Family /\ w \in Nat \ {0} /\ rows \in Seq(Row) /\ best \in [Family -> 0 .. Len(Grid)]
      /\ c = Len(Grid) + 1 /\ FirstBest(f)
  BY DEF Test, history, WInv, TypeInv, SelectionInv, TestedInv, ProgressInv
<1>2. Families \in Nat \ {0} /\ Family = 1 .. Families
  BY WalkForwardAssumption DEF Family
<1>3. \/ f < Families /\ f' = f + 1 /\ w' = w /\ phase' = phase
      \/ ~ f < Families /\ f' = 1 /\ w' = w + 1 /\ phase' \in {"summary", "train"}
           /\ (phase' = "summary" => w = Len(windows))
  BY DEF Test, StartWindow
<1>4. ProgressInv'
  <2>1. WindowsOf(bars)' = WindowsOf(bars)
    BY <1>1 DEF WindowsOf
  <2>2. bars' \in Histories /\ windows' = WindowsOf(bars)'
    BY <1>1, <2>1 DEF TestedInv, ProgressInv
  <2>3. CASE f < Families
    BY <1>1, <1>3, <2>2, <2>3 DEF ProgressInv
  <2>4. CASE ~ f < Families
    BY <1>1, <1>3, <2>2, <2>4 DEF ProgressInv
  <2> QED
    BY <2>3, <2>4
<1>5. \A family \in Family, v \in Nat \ {0} :
        Past(family, v)' <=> Past(family, v) \/ (v = w /\ family = f)
  <2>1. CASE f < Families
    <3>1. f' = f + 1 /\ w' = w
      BY <1>3, <2>1
    <3> QED
      BY <1>1, <1>2, <3>1 DEF Past
  <2>2. CASE ~ f < Families
    <3>1. f' = 1 /\ w' = w + 1
      BY <1>3, <2>2
    <3>2. f = Families
      BY <1>1, <1>2, <2>2
    <3> QED
      BY <1>1, <1>2, <3>1, <3>2 DEF Past
  <2> QED
    BY <2>1, <2>2
<1>6. ~ Past(f, w)
  BY <1>1, <1>2 DEF Past
<1>7. best[f] = 0 <=> ~ InFamily(f)
  <2>1. TrainedSoFar(f) = {n \in Candidates : InGrid(n) /\ Grid[n] = f}
    BY <1>1, GridFamilies DEF TrainedSoFar, Candidates
  <2>2. InFamily(f) <=> TrainedSoFar(f) # {}
    BY <2>1 DEF InFamily
  <2>3. 0 \notin TrainedSoFar(f)
    BY GridFamilies DEF TrainedSoFar, Candidates
  <2> QED
    BY <1>1, <2>2, <2>3 DEF FirstBest
<1>8. \A family : InFamily(family)' <=> InFamily(family)
  BY <1>1 DEF InFamily, InGrid
<1>9. RowsInv
  BY DEF TestedInv
<1>10. \A i \in DOMAIN rows : rows[i].family \in Family
  BY RowFields DEF WInv, TypeInv
<1>11. CASE best[f] = 0
  <2>1. rows' = rows
    BY <1>11 DEF Test, outcome
  <2>2. ~ InFamily(f)
    BY <1>7, <1>11
  <2>3. RowsInv'
    BY <1>5, <1>8, <1>9, <1>10, <2>1, <2>2 DEF RowsInv
  <2> QED
    BY <1>4, <2>3 DEF TestedInv
<1>12. CASE best[f] # 0
  <2>1. PICK ending : rows' = Append(rows, [family |-> f, window |-> w,
                                            starting |-> Starting(f), ending |-> ending])
    BY <1>12 DEF Test
  <2> DEFINE n == Len(rows) + 1
  <2>2. /\ DOMAIN rows' = DOMAIN rows \cup {n} /\ n \notin DOMAIN rows
        /\ rows'[n].family = f /\ rows'[n].window = w
        /\ \A i \in DOMAIN rows : rows'[i] = rows[i]
    BY <1>1, <2>1
  <2> HIDE DEF n
  <2>3. InFamily(f)
    BY <1>7, <1>12
  <2>4. ASSUME NEW i \in DOMAIN rows'
        PROVE  (/\ rows[i].window \in Nat \ {0}
                /\ Past(rows[i].family, rows[i].window) /\ InFamily(rows[i].family))'
    <3>1. PICK g \in Family, v \in Nat \ {0} :
            /\ g = rows'[i].family /\ v = rows'[i].window
            /\ Past(g, v) \/ (v = w /\ g = f)
            /\ InFamily(g)
      <4>1. CASE i \in DOMAIN rows
        BY <1>9, <1>10, <2>2, <4>1 DEF RowsInv
      <4>2. CASE i = n
        BY <1>1, <2>2, <2>3, <4>2
      <4> QED
        BY <2>2, <4>1, <4>2
    <3>2. Past(g, v)' /\ InFamily(g)'
      BY <1>5, <1>8, <3>1
    <3>3. Past(rows[i].family, rows[i].window)' <=> Past(g, v)'
      BY <3>1 DEF Past
    <3>4. InFamily(rows[i].family)' <=> InFamily(g)'
      BY <3>1 DEF InFamily
    <3> QED
      BY <3>1, <3>2, <3>3, <3>4
  <2>5. \A i, j \in DOMAIN rows' :
          rows'[i].family = rows'[j].family /\ rows'[i].window = rows'[j].window => i = j
    BY <1>6, <1>9, <2>2 DEF RowsInv
  <2>6. \A family \in Family, v \in Nat \ {0} :
          Past(family, v)' /\ InFamily(family)' =>
            \E i \in DOMAIN rows' : rows'[i].family = family /\ rows'[i].window = v
    BY <1>5, <1>8, <1>9, <2>2 DEF RowsInv
  <2>7. RowsInv'
    <3>1. (\A i \in DOMAIN rows : /\ rows[i].window \in Nat \ {0}
                                  /\ Past(rows[i].family, rows[i].window) /\ InFamily(rows[i].family))'
      BY <2>4
    <3> QED
      BY <2>5, <2>6, <3>1 DEF RowsInv
  <2> QED
    BY <1>4, <2>7 DEF TestedInv
<1> QED
  BY <1>11, <1>12

LEMMA StepTestedInv == WInv /\ TestedInv /\ [Next]_vars => TestedInv'
<1> SUFFICES ASSUME WInv, TestedInv, [Next]_vars PROVE TestedInv'
  OBVIOUS
<1>1. CASE Next
  BY <1>1, LoadTickerTested, RaiseOrTrainTested, TestTested, SummariseTested DEF Next
<1>2. CASE UNCHANGED vars
  <2>1. UNCHANGED <<config, phase, bars, windows, w, f, rows>>
    BY <1>2 DEF vars, history, outcome
  <2>2. WindowsOf(bars)' = WindowsOf(bars)
    BY <2>1 DEF WindowsOf
  <2>3. ProgressInv'
    BY <2>1, <2>2 DEF TestedInv, ProgressInv
  <2> QED
    BY <2>1, <2>3, RowsKept DEF TestedInv
<1> QED
  BY <1>1, <1>2

THEOREM RowsInvariant == Spec => []TestedInv
BY InitTestedInv, StepTestedInv, WalkForwardInvariant, PTL DEF Spec

(* The rows of a family that test a session are as many as the windows.    *)
LEMMA RowsOfWindows ==
  ASSUME WInv, TestedInv, phase = "summary", NEW family \in Family, InFamily(family),
         Len(windows) \in Nat, DOMAIN windows = 1 .. Len(windows), NEW s
  PROVE  LET in == {i \in DOMAIN rows :
                      rows[i].family = family /\ In(windows[rows[i].window].test, s)}
         IN Cardinality(in) = Cardinality(TestedIn(windows, s))
<1> DEFINE in == {i \in DOMAIN rows : rows[i].family = family /\ In(windows[rows[i].window].test, s)}
           V == TestedIn(windows, s)
           pair == [i \in in |-> rows[i].window]
<1>1. w = Len(windows) + 1 /\ f = 1 /\ RowsInv /\ rows \in Seq(Row)
  BY DEF TestedInv, ProgressInv, WInv, TypeInv
<1>2. \A i \in DOMAIN rows : rows[i].window \in 1 .. Len(windows)
  <2> SUFFICES ASSUME NEW i \in DOMAIN rows PROVE rows[i].window \in 1 .. Len(windows)
    OBVIOUS
  <2>1. rows[i].window \in Nat \ {0} /\ Past(rows[i].family, rows[i].window) /\ rows[i].family \in Family
    BY <1>1, RowFields DEF RowsInv
  <2> QED
    BY <1>1, <2>1 DEF Past, Family
<1>3. pair \in [in -> V]
  BY <1>2 DEF TestedIn
<1>4. \A i, j \in in : pair[i] = pair[j] => i = j
  BY <1>1 DEF RowsInv
<1>5. \A v \in V : \E i \in in : pair[i] = v
  <2> SUFFICES ASSUME NEW v \in V PROVE \E i \in in : pair[i] = v
    OBVIOUS
  <2>1. v \in 1 .. Len(windows) /\ In(windows[v].test, s)
    BY DEF TestedIn
  <2>2. Past(family, v) /\ v \in Nat \ {0}
    BY <1>1, <2>1 DEF Past
  <2>3. PICK i \in DOMAIN rows : rows[i].family = family /\ rows[i].window = v
    BY <1>1, <2>2 DEF RowsInv
  <2> QED
    BY <2>1, <2>3
<1>6. IsFiniteSet(in)
  <2>1. Len(rows) \in Nat /\ DOMAIN rows = 1 .. Len(rows)
    BY <1>1
  <2>2. IsFiniteSet(1 .. Len(rows)) /\ in \in SUBSET (1 .. Len(rows))
    BY <2>1, FS_Interval
  <2> HIDE DEF in
  <2> QED
    BY <2>2, FS_Subset
<1> HIDE DEF in, V, pair
<1>7. Cardinality(V) = Cardinality(in)
  BY <1>3, <1>4, <1>5, <1>6, PairedSets
<1> QED
  BY <1>7 DEF in, V

(* With a step as long as a test, every session from the first tested to   *)
(* the last is in the test of one window of each family, for any history   *)
(* and any durations, unless that test was dropped as it has no session to *)
(* train on, or the session is a 28th where dates were clamped.            *)
THEOREM WalkForwardSessionsTestedOnce == Spec => []SessionsTestedOnce
<1>1. WInv /\ TestedInv => SessionsTestedOnce
  <2> SUFFICES ASSUME WInv, TestedInv, phase = "summary", rows # <<>>, ~ config.counted, config.step = Months,
                      NEW family \in {rows[i].family : i \in DOMAIN rows},
                      NEW s \in windows[1].test[1] .. windows[Len(windows)].test[2]
      PROVE  LET in == {i \in DOMAIN rows :
                          rows[i].family = family /\ In(windows[rows[i].window].test, s)}
             IN ~ ClampedSession(s) => Cardinality(in) = 1 \/ (in = {} /\ DroppedUntrained(s))
    BY DEF SessionsTestedOnce
  <2> DEFINE in == {i \in DOMAIN rows :
                      rows[i].family = family /\ In(windows[rows[i].window].test, s)}
             V == TestedIn(windows, s)
  <2>1. /\ IsHistory(bars) /\ Years \in Nat /\ Months \in Nat \ {0}
        /\ windows = CalendarDurations(bars, Years, Months, Months)
    BY WalkForwardAssumption DEF TestedInv, ProgressInv, WindowsOf
  <2>2. family \in Family /\ InFamily(family)
    <3>1. PICK i \in DOMAIN rows : family = rows[i].family
      OBVIOUS
    <3> QED
      BY <3>1, RowFields DEF TestedInv, RowsInv, WInv, TypeInv
  <2>3. Len(windows) \in Nat /\ DOMAIN windows = 1 .. Len(windows)
    <3>1. PICK n \in Nat : DOMAIN windows = 1 .. n
      BY <2>1, TestsApart
    <3>2. windows = [v \in 1 .. n |-> windows[v]]
      <4>1. \E D : windows = [v \in D |-> WindowFrom(bars, Anchors(bars, Months)[InOrder(Kept(bars, Years, Months, Months))[v]], Years, Months)]
        BY <2>1 DEF CalendarDurations
      <4> QED
        BY <3>1, <4>1
    <3>3. windows \in Seq({windows[v] : v \in 1 .. n})
      BY <3>2
    <3>4. Len(windows) = n
      BY <3>1, <3>3
    <3> QED
      BY <3>1, <3>4
  <2>4. windows # <<>>
    <3>1. PICK i : i \in DOMAIN rows
      <4>1. rows \in Seq(Row)
        BY DEF WInv, TypeInv
      <4> QED
        BY <4>1
    <3>2. rows[i].window \in Nat \ {0} /\ Past(rows[i].family, rows[i].window)
          /\ rows[i].family \in Family /\ w = Len(windows) + 1 /\ f = 1
      BY <3>1, RowFields DEF TestedInv, RowsInv, ProgressInv, WInv, TypeInv
    <3>3. Len(windows) # 0
      BY <2>3, <3>2 DEF Past, Family
    <3> QED
      BY <3>3
  <2>5. Cardinality(in) = Cardinality(V)
    BY <2>2, <2>3, RowsOfWindows
  <2>6. \/ Cardinality(V) = 1
        \/ Cardinality(V) = 2 /\ Odd(bars, s)
        \/ V = {} /\ (Odd(bars, s) \/ Dropped(bars, Years, Months, s))
    BY <2>1, <2>4, SessionsInWindows
  <2>7. Dropped(bars, Years, Months, s) <=> DroppedUntrained(s)
    BY DEF Dropped, DroppedUntrained
  <2>8. Cardinality(in) = 0 => in = {}
    <3>1. IsFiniteSet(in)
      <4>1. rows \in Seq(Row)
        BY DEF WInv, TypeInv
      <4>2. Len(rows) \in Nat /\ DOMAIN rows = 1 .. Len(rows)
        BY <4>1
      <4>3. IsFiniteSet(1 .. Len(rows)) /\ in \in SUBSET (1 .. Len(rows))
        BY <4>2, FS_Interval
      <4> HIDE DEF in
      <4> QED
        BY <4>3, FS_Subset
    <3> HIDE DEF in
    <3> QED
      BY <3>1, FS_EmptySet
  <2>9. Cardinality({}) = 0
    BY FS_EmptySet
  <2> HIDE DEF in, V
  <2>10. Odd(bars, s) \/ Cardinality(in) = 1 \/ (in = {} /\ DroppedUntrained(s))
    BY <2>5, <2>6, <2>7, <2>8, <2>9
  <2> QED
    BY <2>10 DEF in, Odd, ClampedSession
<1> QED
  BY <1>1, WalkForwardInvariant, RowsInvariant, PTL
=============================================================================
