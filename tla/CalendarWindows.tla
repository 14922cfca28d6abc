-------------------------- MODULE CalendarWindows --------------------------
(***************************************************************************)
(* The walk-forward windows of a history: by calendar durations, as        *)
(* build_calendar_windows enumerates them, or by numbers of observations.  *)
(* A history is the sequence of its sessions' dates; a window holds the    *)
(* first and last session it trains on and the first and last it tests.    *)
(***************************************************************************)
EXTENDS CalendarDate, FiniteSets

(* Mutant of Window: the test includes its boundary.                       *)
WindowWithBoundary(train_begin, test_begin, after_test) ==
  [train |-> <<train_begin, test_begin - 1>>, test |-> <<test_begin, after_test>>]

Window(train_begin, test_begin, after_test) ==
  [train |-> <<train_begin, test_begin - 1>>, test |-> <<test_begin, after_test - 1>>]

Observations(range) == range[2] - range[1] + 1

In(range, s) == range[1] <= s /\ s <= range[2]

IsHistory(bars) ==
  /\ bars \in Seq(CivilDates) /\ bars # <<>>
  /\ \A i, j \in DOMAIN bars : i < j => Before(bars[i], bars[j])

(* One past the history if every session is before the date.               *)
FirstAtOrAfter(bars, date) ==
  1 + Cardinality({i \in DOMAIN bars : Before(bars[i], date)})

(* Each anchor is the one before it plus the step, as clamped.             *)
Anchors(bars, step) ==
  LET final == bars[Len(bars)]
      most  == ((final.year - bars[1].year) * 12 + final.month - bars[1].month) \div step
      anchor[i \in 0 .. most] == IF i = 0 THEN bars[1] ELSE AddMonths(anchor[i - 1], step)
  IN anchor

TestBoundary(anchor, years, months) == AddMonths(AddYears(anchor, years), months)

WindowFrom(bars, anchor, years, months) ==
  Window(FirstAtOrAfter(bars, anchor),
         FirstAtOrAfter(bars, AddYears(anchor, years)),
         FirstAtOrAfter(bars, TestBoundary(anchor, years, months)))

(* The loop ends at the first test that would pass the last session, and   *)
(* drops the windows that have no session to train on or to test.          *)
Kept(bars, years, months, step) ==
  LET anchors == Anchors(bars, step)
      window(i) == WindowFrom(bars, anchors[i], years, months)
  IN {i \in DOMAIN anchors :
        /\ \A j \in 0 .. i : ~ Before(bars[Len(bars)], TestBoundary(anchors[j], years, months))
        /\ Observations(window(i).train) > 0 /\ Observations(window(i).test) > 0}

(* The numbers of a set from the least to the greatest.                    *)
InOrder(some) ==
  [n \in 1 .. Cardinality(some) |-> CHOOSE i \in some : Cardinality({j \in some : j < i}) = n - 1]

CalendarDurations(bars, years, months, step) ==
  LET kept == InOrder(Kept(bars, years, months, step))
  IN [n \in DOMAIN kept |-> WindowFrom(bars, Anchors(bars, step)[kept[n]], years, months)]

ObservationCounts(bars, train, test, step) ==
  LET room == Len(bars) - train - test
  IN [i \in 1 .. (IF room < 0 THEN 0 ELSE (room \div step) + 1) |->
        LET begin == (i - 1) * step + 1
        IN Window(begin, begin + train, begin + train + test)]
=============================================================================
