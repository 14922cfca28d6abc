--------------------------- MODULE MCWalkForward ---------------------------
(***************************************************************************)
(* The windows of run_walk_forward, three years and twice six months, over *)
(* histories that start between the 28th and 31st of August 2016 or 2015,   *)
(* so that anchors are clamped to 28 February or stand on 29 February      *)
(* 2016.  Sessions are sparse; those next to the boundaries may be missing.*)
(* The last history has a hole longer than three years.                    *)
(***************************************************************************)
EXTENDS WalkForward

(* A history with each of its doubtful sessions, or without it.            *)
HistoriesOf(firsts, doubtful, days) ==
  {<<first>> \o SelectSeq(days, LAMBDA day : day \notin missing) :
     first \in firsts, missing \in SUBSET doubtful}

Doubtful2020 == {Date(2020, 2, 28), Date(2020, 8, 27), Date(2020, 8, 28)}
Doubtful2019 == {Date(2019, 2, 28), Date(2019, 8, 28), Date(2019, 8, 29)}

MCHistories ==
  HistoriesOf({Date(2016, 8, day) : day \in {28, 30, 31}}, Doubtful2020,
    <<Date(2017, 3, 1), Date(2018, 6, 1), Date(2019, 8, 30), Date(2019, 9, 2),
      Date(2020, 2, 28), Date(2020, 3, 2), Date(2020, 8, 27), Date(2020, 8, 28),
      Date(2020, 8, 31), Date(2021, 2, 26), Date(2021, 3, 1)>>)
  \cup
  HistoriesOf({Date(2015, 8, day) : day \in {28, 29, 30}}, Doubtful2019,
    <<Date(2016, 3, 1), Date(2017, 6, 1), Date(2018, 8, 30), Date(2018, 9, 3),
      Date(2019, 2, 28), Date(2019, 3, 4), Date(2019, 8, 28), Date(2019, 8, 29),
      Date(2019, 9, 2), Date(2020, 2, 28), Date(2020, 3, 2)>>)
  \cup
  {<<Date(2011, 7, 4), Date(2011, 8, 1), Date(2014, 7, 7), Date(2014, 8, 4),
     Date(2018, 2, 1), Date(2018, 3, 1), Date(2018, 8, 1), Date(2018, 9, 3), Date(2019, 1, 7)>>}

MCGrid == <<1, 1, 2>>

MCSummaries == {[trades |-> 2, score |-> 9, deep |-> FALSE],
                [trades |-> 3, score |-> 1, deep |-> FALSE],
                [trades |-> 4, score |-> 2, deep |-> TRUE]}
=============================================================================
