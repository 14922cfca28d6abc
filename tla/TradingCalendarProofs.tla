----------------------- MODULE TradingCalendarProofs -----------------------
(***************************************************************************)
(* Proofs about TradingCalendar for any assets, histories, gaps between    *)
(* dates and staleness: a session is valued by the latest closes known,    *)
(* and the schedules pick the first session of every week and month.       *)
(***************************************************************************)
EXTENDS TradingCalendar, CommonLemmas

Marks == CivilDates \cup {NoMark}

SessionRecords == [date : CivilDates, open : SUBSET Assets, mark : [Assets -> Marks]]

TypeInv ==
  /\ mode \in {"union", "intersection_legacy"}
  /\ lastMarks \in [Assets -> Marks]
  /\ sessions \in Seq(SessionRecords)

DaysInOrder ==
  \A j, k \in 1 .. Len(sessions) :
    j < k => DayNumber(sessions[j].date) < DayNumber(sessions[k].date)

(* last_marks holds the latest date an asset has had a bar on, if any.     *)
Latest(a) ==
  LET dates == BarDates(a, Len(sessions))
  IN IF dates = {} THEN lastMarks[a] = NoMark
     ELSE /\ lastMarks[a] \in dates
          /\ \A date \in dates : DayNumber(date) <= DayNumber(lastMarks[a])

LastMarksInv == \A a \in Assets : Latest(a)

Fresh(a, k) ==
  {date \in BarDates(a, k) :
     \/ date = sessions[k].date
     \/ stale = "last_known" /\ DaysUntil(date, sessions[k].date) <= MaxAge}

MarkIsLatestKnown(a, k) ==
  IF Fresh(a, k) = {}
  THEN sessions[k].mark[a] = NoMark
  ELSE /\ sessions[k].mark[a] \in Fresh(a, k)
       /\ \A date \in Fresh(a, k) : DaysUntil(date, sessions[k].mark[a]) >= 0

MarksInv ==
  /\ TypeInv
  /\ DaysInOrder
  /\ LastMarksInv
  /\ \A k \in 1 .. Len(sessions), a \in Assets : MarkIsLatestKnown(a, k)

LEMMA NoMarkIsNoDay == NoMark \notin CivilDates
BY DEF NoMark, CivilDates, Date

LEMMA DaysAreDates ==
  /\ \A date : date \in CivilDates <=> IsDate(date)
  /\ \A date \in CivilDates : DayNumber(date) \in Nat
<1>1. \A date : date \in CivilDates <=> IsDate(date)
  BY DEF IsDate
<1> QED
  BY <1>1, DayNumberParts

LEMMA DatesAreDays ==
  ASSUME sessions \in Seq(SessionRecords)
  PROVE  \A j \in 1 .. Len(sessions) : sessions[j].date \in CivilDates
<1>1. \A j \in 1 .. Len(sessions) : sessions[j] \in SessionRecords
  OBVIOUS
<1>2. \A s \in SessionRecords : s.date \in CivilDates
  BY DEF SessionRecords
<1> QED
  BY <1>1, <1>2

(* The session a step of the timeline adds.                                *)
NewSession(date, open) ==
  [date |-> date, open |-> open, mark |-> [a \in Assets |-> Mark(a, date, open)]]

LEMMA NextDate ==
  ASSUME MarksInv, NEW open \in MayTrade, BuildSession(open)
  PROVE  \E date \in CivilDates :
           /\ sessions' = Append(sessions, NewSession(date, open))
           /\ lastMarks' = [a \in Assets |-> IF a \in open THEN date ELSE lastMarks[a]]
           /\ \A j \in 1 .. Len(sessions) : DayNumber(sessions[j].date) < DayNumber(date)
<1> DEFINE DatedBy(date) ==
             /\ sessions' = Append(sessions, NewSession(date, open))
             /\ lastMarks' = [a \in Assets |-> IF a \in open THEN date ELSE lastMarks[a]]
<1>1. sessions \in Seq(SessionRecords) /\ Len(sessions) \in Nat
  BY DEF MarksInv, TypeInv
<1>2. CASE sessions = << >>
  <2>1. PICK date \in FirstDays : DatedBy(date)
    BY <1>2 DEF BuildSession, NewSession
  <2>2. date \in CivilDates
    BY TradingCalendarAssumption, DaysAreDates
  <2> QED
    BY <1>2, <2>1, <2>2
<1>3. CASE sessions # << >>
  <2> DEFINE last == sessions[Len(sessions)].date
  <2>1. PICK g \in Gaps : DatedBy(AddDays(last, g))
    BY <1>3 DEF BuildSession, NewSession
  <2>2. g \in Nat \ {0}
    BY TradingCalendarAssumption
  <2>3. Len(sessions) \in 1 .. Len(sessions)
    BY <1>1, <1>3
  <2>4. sessions[Len(sessions)] \in SessionRecords
    BY <1>1, <2>3
  <2>5. last \in CivilDates
    BY <2>4 DEF SessionRecords
  <2>6. /\ AddDays(last, g) \in CivilDates
        /\ DayNumber(AddDays(last, g)) = DayNumber(last) + g
        /\ DayNumber(last) \in Nat
    BY <2>2, <2>5, DaysAreDates, AddDaysNumber
  <2>7. ASSUME NEW j \in 1 .. Len(sessions)
        PROVE  DayNumber(sessions[j].date) < DayNumber(AddDays(last, g))
    <3>1. sessions[j].date \in CivilDates
      BY <1>1, DatesAreDays
    <3>2. DayNumber(sessions[j].date) \in Nat
      BY <3>1, DaysAreDates
    <3>3. j < Len(sessions) \/ j = Len(sessions)
      BY <1>1
    <3>4. j < Len(sessions) => DayNumber(sessions[j].date) < DayNumber(last)
      BY <2>3 DEF MarksInv, DaysInOrder
    <3> QED
      BY <2>2, <2>6, <3>2, <3>3, <3>4
  <2> HIDE DEF last
  <2> QED
    BY <2>1, <2>6, <2>7
<1> QED
  BY <1>2, <1>3

LEMMA MarksInvInit == Init => MarksInv
<1> SUFFICES ASSUME Init PROVE MarksInv
  OBVIOUS
<1> USE DEF Init
<1>1. TypeInv
  BY DEF TypeInv, Marks
<1>2. DaysInOrder
  BY DEF DaysInOrder
<1>3. ASSUME NEW a \in Assets PROVE Latest(a)
  <2>1. BarDates(a, Len(sessions)) = {}
    BY DEF BarDates
  <2> QED
    BY <2>1 DEF Latest
<1>4. \A k \in 1 .. Len(sessions), a \in Assets : MarkIsLatestKnown(a, k)
  OBVIOUS
<1> QED
  BY <1>1, <1>2, <1>3, <1>4 DEF MarksInv, LastMarksInv

LEMMA MarkType ==
  ASSUME TypeInv, NEW a \in Assets, NEW date \in CivilDates, NEW open
  PROVE  Mark(a, date, open) \in Marks
BY DEF TypeInv, Mark, Marks

(* The bars of the sessions before a new one are those there were, and     *)
(* those of the new one are its own.                                       *)
LEMMA BarDatesGrow ==
  ASSUME sessions \in Seq(SessionRecords), NEW s \in SessionRecords,
         sessions' = Append(sessions, s), NEW a \in Assets
  PROVE  /\ \A k \in 1 .. Len(sessions) : BarDates(a, k)' = BarDates(a, k)
         /\ BarDates(a, Len(sessions))' = 
              BarDates(a, Len(sessions)) \cup (IF a \in s.open THEN {s.date} ELSE {})
BY DEF BarDates

(* A mark depends on the session it is of, and the bars up to it.          *)
LEMMA MarkStays ==
  ASSUME NEW a \in Assets, NEW k, sessions'[k] = sessions[k],
         BarDates(a, k)' = BarDates(a, k), stale' = stale, MarkIsLatestKnown(a, k)
  PROVE  MarkIsLatestKnown(a, k)'
BY DEF MarkIsLatestKnown, Fresh

LEMMA NewMarkIsLatestKnown ==
  ASSUME MarksInv, NEW a \in Assets, NEW open \in SUBSET Assets, NEW date \in CivilDates,
         sessions' = Append(sessions, NewSession(date, open)), stale' = stale,
         \A j \in 1 .. Len(sessions) : DayNumber(sessions[j].date) < DayNumber(date),
         NEW k \in Nat, k = Len(sessions) + 1
  PROVE  MarkIsLatestKnown(a, k)'
<1> DEFINE old == BarDates(a, Len(sessions))
           m == Mark(a, date, open)
<1>1. sessions \in Seq(SessionRecords) /\ Len(sessions) \in Nat
  BY DEF MarksInv, TypeInv
<1>2. NewSession(date, open) \in SessionRecords
  <2>1. \A b \in Assets : Mark(b, date, open) \in Marks
    BY MarkType DEF MarksInv
  <2> QED
    BY <2>1 DEF NewSession, SessionRecords
<1>3. sessions'[k].date = date /\ sessions'[k].mark[a] = m
  BY <1>1 DEF NewSession
<1>4. BarDates(a, k)' = old \cup (IF a \in open THEN {date} ELSE {})
  <2>1. Len(sessions') = k
    BY <1>1
  <2>2. BarDates(a, k)' = BarDates(a, Len(sessions))'
    BY <2>1
  <2> QED
    BY <1>1, <1>2, <2>2, BarDatesGrow DEF NewSession
<1>5. \A d \in old : d \in CivilDates /\ DayNumber(d) \in Nat /\ DayNumber(d) < DayNumber(date)
  <2>1. \A j \in 1 .. Len(sessions) : sessions[j].date \in CivilDates
    BY <1>1, DatesAreDays
  <2> QED
    BY <2>1, DaysAreDates DEF BarDates
<1>6. DayNumber(date) \in Nat /\ date \in CivilDates
  BY DaysAreDates
<1> DEFINE fresh == Fresh(a, k)'
<1>7. fresh = {d \in BarDates(a, k)' :
                 \/ d = date
                 \/ stale = "last_known" /\ DaysUntil(d, date) <= MaxAge}
  BY <1>3 DEF Fresh
<1>8. CASE a \in open
  <2>1. m = date
    BY <1>8 DEF Mark
  <2>2. date \in fresh /\ \A d \in fresh : d \in old \/ d = date
    BY <1>4, <1>7, <1>8
  <2>3. \A d \in fresh : DaysUntil(d, date) >= 0
    BY <1>5, <1>6, <2>2 DEF DaysUntil
  <2> QED
    BY <1>3, <2>1, <2>2, <2>3 DEF MarkIsLatestKnown
<1>9. CASE a \notin open
  <2>1. BarDates(a, k)' = old
    BY <1>4, <1>9
  <2>2. \A d \in old : d # date
    BY <1>5, <1>6
  <2>3. fresh = {d \in old : stale = "last_known" /\ DaysUntil(d, date) <= MaxAge}
    BY <1>7, <2>1, <2>2
  <2>4. Latest(a)
    BY DEF MarksInv, LastMarksInv
  <2>5. CASE old = {}
    <3>1. m = NoMark /\ fresh = {}
      BY <1>9, <2>3, <2>4, <2>5 DEF Mark, Latest
    <3> QED
      BY <1>3, <3>1 DEF MarkIsLatestKnown
  <2>6. CASE old # {}
    <3>1. lastMarks[a] \in old /\ \A d \in old : DayNumber(d) <= DayNumber(lastMarks[a])
      BY <2>4, <2>6 DEF Latest
    <3>2. lastMarks[a] # NoMark
      BY <1>5, <3>1, NoMarkIsNoDay
    <3>3. CASE stale = "last_known" /\ DaysUntil(lastMarks[a], date) <= MaxAge
      <4>1. m = lastMarks[a] /\ m \in fresh
        BY <1>9, <2>3, <3>1, <3>2, <3>3 DEF Mark
      <4>2. \A d \in fresh : DaysUntil(d, m) >= 0
        BY <1>5, <2>3, <3>1, <4>1 DEF DaysUntil
      <4> QED
        BY <1>3, <4>1, <4>2 DEF MarkIsLatestKnown
    <3>4. CASE ~ (stale = "last_known" /\ DaysUntil(lastMarks[a], date) <= MaxAge)
      <4>1. m = NoMark
        BY <1>9, <3>4 DEF Mark
      <4>2. \A d \in old : DaysUntil(lastMarks[a], date) <= DaysUntil(d, date)
        BY <1>5, <1>6, <3>1 DEF DaysUntil
      <4>3. \A d \in old : DaysUntil(d, date) \in Int
        BY <1>5, <1>6 DEF DaysUntil
      <4>4. MaxAge \in Nat
        BY TradingCalendarAssumption
      <4>5. fresh = {}
        BY <2>3, <3>1, <3>4, <4>2, <4>3, <4>4
      <4> QED
        BY <1>3, <4>1, <4>5 DEF MarkIsLatestKnown
    <3> QED
      BY <3>3, <3>4
  <2> QED
    BY <2>5, <2>6
<1> QED
  BY <1>8, <1>9

LEMMA MarksInvBuild ==
  ASSUME MarksInv, NEW open \in MayTrade, BuildSession(open)
  PROVE  MarksInv'
<1>1. PICK date \in CivilDates :
           /\ sessions' = Append(sessions, NewSession(date, open))
           /\ lastMarks' = [a \in Assets |-> IF a \in open THEN date ELSE lastMarks[a]]
           /\ \A j \in 1 .. Len(sessions) : DayNumber(sessions[j].date) < DayNumber(date)
  BY NextDate
<1> DEFINE s == NewSession(date, open)
<1>2. sessions \in Seq(SessionRecords) /\ Len(sessions) \in Nat /\ TypeInv
  BY DEF MarksInv, TypeInv
<1>3. open \in SUBSET Assets
  BY DEF MayTrade
<1>4. s \in SessionRecords /\ s.date = date /\ s.open = open
  <2>1. \A b \in Assets : Mark(b, date, open) \in Marks
    BY <1>2, MarkType
  <2> QED
    BY <1>3, <2>1 DEF NewSession, SessionRecords
<1>5. mode' = mode /\ stale' = stale
  BY DEF BuildSession
<1> HIDE DEF s
<1>6. /\ Len(sessions') = Len(sessions) + 1
      /\ \A k \in 1 .. Len(sessions) : sessions'[k] = sessions[k]
      /\ sessions'[Len(sessions) + 1] = s
      /\ sessions' \in Seq(SessionRecords)
  BY <1>1, <1>2, <1>4 DEF s
<1>7. TypeInv'
  BY <1>1, <1>2, <1>5, <1>6 DEF TypeInv, Marks
<1>8. DaysInOrder'
  <2> SUFFICES ASSUME NEW j \in 1 .. Len(sessions) + 1, NEW k \in 1 .. Len(sessions) + 1, j < k
               PROVE  DayNumber(sessions'[j].date) < DayNumber(sessions'[k].date)
    BY <1>6 DEF DaysInOrder
  <2>1. j \in 1 .. Len(sessions)
    BY <1>2
  <2>2. k \in 1 .. Len(sessions) \/ k = Len(sessions) + 1
    BY <1>2
  <2>3. CASE k \in 1 .. Len(sessions)
    <3>1. sessions'[j] = sessions[j] /\ sessions'[k] = sessions[k]
      BY <1>6, <2>1, <2>3
    <3> QED
      BY <2>1, <2>3, <3>1 DEF MarksInv, DaysInOrder
  <2>4. CASE k = Len(sessions) + 1
    BY <1>1, <1>4, <1>6, <2>1, <2>4
  <2> QED
    BY <2>2, <2>3, <2>4
<1>9. ASSUME NEW a \in Assets PROVE Latest(a)'
  <2> DEFINE old == BarDates(a, Len(sessions))
             new == BarDates(a, Len(sessions))'
  <2>1. new = old \cup (IF a \in open THEN {date} ELSE {})
    BY <1>1, <1>2, <1>4, BarDatesGrow DEF s
  <2>2. lastMarks'[a] = IF a \in open THEN date ELSE lastMarks[a]
    BY <1>1
  <2>3. Latest(a)
    BY DEF MarksInv, LastMarksInv
  <2>4. \A d \in old : DayNumber(d) \in Nat /\ DayNumber(d) < DayNumber(date)
    <3>1. \A j \in 1 .. Len(sessions) : sessions[j].date \in CivilDates
      BY <1>2, DatesAreDays
    <3> QED
      BY <1>1, <3>1, DaysAreDates DEF BarDates
  <2>5. DayNumber(date) \in Nat
    BY DaysAreDates
  <2>6. CASE a \in open
    <3>1. date \in new /\ lastMarks'[a] = date
      BY <2>1, <2>2, <2>6
    <3>2. \A d \in new : DayNumber(d) <= DayNumber(date)
      BY <2>1, <2>4, <2>5
    <3> QED
      BY <3>1, <3>2 DEF Latest
  <2>7. CASE a \notin open
    <3>1. new = old /\ lastMarks'[a] = lastMarks[a]
      BY <2>1, <2>2, <2>7
    <3> QED
      BY <2>3, <3>1 DEF Latest
  <2> QED
    BY <2>6, <2>7
<1>10. ASSUME NEW k \in 1 .. Len(sessions'), NEW a \in Assets PROVE MarkIsLatestKnown(a, k)'
  <2>1. CASE k \in 1 .. Len(sessions)
    <3>1. sessions'[k] = sessions[k] /\ BarDates(a, k)' = BarDates(a, k)
      BY <1>1, <1>2, <1>4, <1>6, <2>1, BarDatesGrow DEF s
    <3>2. MarkIsLatestKnown(a, k)
      BY <2>1 DEF MarksInv
    <3> QED
      BY <1>5, <3>1, <3>2, MarkStays
  <2>2. CASE k = Len(sessions) + 1
    <3>1. k \in Nat
      BY <1>2, <2>2
    <3> QED
      BY <1>1, <1>3, <1>5, <2>2, <3>1, NewMarkIsLatestKnown
  <2> QED
    BY <1>2, <1>6, <2>1, <2>2
<1> QED
  BY <1>7, <1>8, <1>9, <1>10 DEF MarksInv, LastMarksInv

(* No other step touches the sessions.                                     *)
LEMMA MarksInvOther ==
  ASSUME MarksInv, UNCHANGED <<mode, stale, lastMarks, sessions>>
  PROVE  MarksInv'
<1>1. TypeInv' /\ DaysInOrder'
  BY DEF MarksInv, TypeInv, DaysInOrder
<1>2. ASSUME NEW a \in Assets, NEW k PROVE BarDates(a, k)' = BarDates(a, k)
  BY DEF BarDates
<1>3. ASSUME NEW a \in Assets PROVE Latest(a)'
  <2>1. BarDates(a, Len(sessions))' = BarDates(a, Len(sessions))
    BY DEF BarDates
  <2>2. Latest(a)
    BY DEF MarksInv, LastMarksInv
  <2> QED
    BY <2>1, <2>2 DEF Latest
<1>4. ASSUME NEW k \in 1 .. Len(sessions'), NEW a \in Assets PROVE MarkIsLatestKnown(a, k)'
  <2>1. MarkIsLatestKnown(a, k)
    BY DEF MarksInv
  <2> QED
    BY <1>2, <2>1, MarkStays
<1> QED
  BY <1>1, <1>3, <1>4 DEF MarksInv, LastMarksInv

LEMMA MarksInvNext == MarksInv /\ [Next]_vars => MarksInv'
<1> SUFFICES ASSUME MarksInv, [Next]_vars PROVE MarksInv'
  OBVIOUS
<1>1. ASSUME NEW open \in MayTrade, BuildSession(open) PROVE MarksInv'
  BY <1>1, MarksInvBuild
<1>2. ASSUME NEW frequency \in {"weekly", "monthly"}, StartSchedule(frequency) PROVE MarksInv'
  BY <1>2, MarksInvOther DEF StartSchedule
<1>3. CASE ScheduleSession
  BY <1>3, MarksInvOther DEF ScheduleSession
<1>4. CASE FinishSchedule
  BY <1>4, MarksInvOther DEF FinishSchedule
<1>5. CASE UNCHANGED vars
  BY <1>5, MarksInvOther DEF vars
<1> QED
  BY <1>1, <1>2, <1>3, <1>4, <1>5 DEF Next

THEOREM CalendarMarksInv == Spec => []MarksInv
<1>1. MarksInv /\ [Next]_vars => MarksInv'
  BY MarksInvNext
<1> QED
  BY MarksInvInit, <1>1, PTL DEF Spec

(* Whatever the dates and the bars, a closed asset is valued by its own    *)
(* latest close while that is fresh enough, and else not at all.           *)
THEOREM CalendarMarksAreLatestKnown == Spec => []MarksAreLatestKnown
<1>1. MarksInv => MarksAreLatestKnown
  BY DEF MarksInv, MarksAreLatestKnown, MarkIsLatestKnown, Fresh
<1> QED
  BY CalendarMarksInv, <1>1, PTL

-----------------------------------------------------------------------------
(* Schedules *)

Scheduling == phase \in {"weekly", "monthly"}

(* The sessions the loop is past, and which of them begin another period.  *)
Passed == 2 .. index - 1
Begins(k) == k = 2 \/ KeyOf(sessions[k].date) # KeyOf(sessions[k - 1].date)

(* A schedule has one point for each session passed that begins a period,  *)
(* and none else.                                                          *)
Point(p) ==
  /\ schedule[p].index \in Passed
  /\ Begins(schedule[p].index)
  /\ schedule[p].scheduled = Scheduled(sessions[schedule[p].index].date)

PointsInv ==
  /\ \A p \in 1 .. Len(schedule) : Point(p)
  /\ \A p, q \in 1 .. Len(schedule) : schedule[p].index = schedule[q].index => p = q
  /\ \A k \in Passed : Begins(k) => \E p \in 1 .. Len(schedule) : schedule[p].index = k

ScheduleInv ==
  /\ phase \in {"build", "weekly", "monthly", "done"}
  /\ index \in Nat /\ schedule \in Seq([index : Nat, scheduled : CivilDates])
  /\ phase = "build" => index = 2 /\ key = << >> /\ schedule = << >>
  /\ Scheduling =>
       /\ index \in 2 .. Len(sessions) + 1
       /\ key = (IF index = 2 THEN << >> ELSE KeyOf(sessions[index - 1].date))
       /\ PointsInv

LEMMA KeysAreNotEmpty == \A date : KeyOf(date) # << >>
BY DEF KeyOf, WeekKey, MonthKey

LEMMA ScheduleInvInit == Init => ScheduleInv
BY DEF Init, ScheduleInv, Scheduling

LEMMA ScheduledIsDate ==
  ASSUME NEW date \in CivilDates PROVE Scheduled(date) \in CivilDates
<1>1. /\ date.year \in Nat \ {0} /\ date.month \in 1 .. 12
      /\ DaysInMonth(date.year, date.month) \in 28 .. 31
  BY DaysAreDates, DateFields, MonthSteps
<1>2. IsDate(Date(date.year, date.month, 1))
  BY <1>1, MakesDate
<1> QED
  BY <1>2, DaysAreDates DEF Scheduled

LEMMA ScheduleInvSession ==
  ASSUME MarksInv, ScheduleInv, ScheduleSession
  PROVE  ScheduleInv'
<1> DEFINE date == sessions[index].date
           point == [index |-> index, scheduled |-> Scheduled(date)]
<1>1. Scheduling /\ Scheduling' /\ sessions' = sessions /\ phase' = phase /\ index' = index + 1
  BY DEF ScheduleSession, Scheduling
<1>2. /\ sessions \in Seq(SessionRecords) /\ Len(sessions) \in Nat
      /\ index \in Nat /\ index \in 2 .. Len(sessions)
      /\ schedule \in Seq([index : Nat, scheduled : CivilDates]) /\ Len(schedule) \in Nat
      /\ PointsInv
      /\ key = (IF index = 2 THEN << >> ELSE KeyOf(sessions[index - 1].date))
  BY <1>1 DEF MarksInv, TypeInv, ScheduleInv, ScheduleSession
<1>3. /\ \A d : KeyOf(d)' = KeyOf(d) /\ Scheduled(d)' = Scheduled(d)
      /\ \A k \in Nat : Begins(k)' <=> Begins(k)
  BY <1>1 DEF KeyOf, Scheduled, Begins
<1>4. Begins(index) <=> KeyOf(date) # key
  BY <1>2, KeysAreNotEmpty DEF Begins
<1>5. date \in CivilDates /\ point \in [index : Nat, scheduled : CivilDates]
  BY <1>2, DatesAreDays, ScheduledIsDate
<1>6. \A k : k \in Passed' <=> k \in Passed \/ k = index
  BY <1>1, <1>2 DEF Passed
<1>7. index \notin Passed /\ Passed \subseteq Nat
  BY <1>2 DEF Passed
<1>8. CASE KeyOf(date) # key
  <2>1. schedule' = Append(schedule, point) /\ key' = KeyOf(date)
    BY <1>8 DEF ScheduleSession
  <2> HIDE DEF point
  <2>2. /\ Len(schedule') = Len(schedule) + 1
        /\ schedule' \in Seq([index : Nat, scheduled : CivilDates])
        /\ \A p \in 1 .. Len(schedule) : schedule'[p] = schedule[p]
        /\ schedule'[Len(schedule) + 1] = point
    BY <1>2, <1>5, <2>1
  <2>3. point.index = index /\ point.scheduled = Scheduled(date)
    BY DEF point
  <2>4. PointsInv'
    <3>1. ASSUME NEW p \in 1 .. Len(schedule') PROVE Point(p)'
      <4>1. CASE p \in 1 .. Len(schedule)
        <5>1. schedule'[p] = schedule[p] /\ Point(p)
          BY <1>2, <2>2, <4>1 DEF PointsInv
        <5> QED
          BY <1>1, <1>6, <5>1 DEF Point, Begins, KeyOf, Scheduled
      <4>2. CASE p = Len(schedule) + 1
        <5>1. schedule'[p].index = index /\ schedule'[p].scheduled = Scheduled(date)
          BY <2>2, <2>3, <4>2
        <5>2. Begins(index)
          BY <1>4, <1>8
        <5> QED
          BY <1>1, <1>6, <5>1, <5>2 DEF Point, Begins, KeyOf, Scheduled
      <4> QED
        BY <1>2, <2>2, <4>1, <4>2
    <3>2. ASSUME NEW p \in 1 .. Len(schedule'), NEW q \in 1 .. Len(schedule'),
                 schedule'[p].index = schedule'[q].index
          PROVE  p = q
      <4>1. \A r \in 1 .. Len(schedule) : schedule'[r].index = schedule[r].index /\ schedule[r].index # index
        BY <1>2, <1>7, <2>2 DEF PointsInv, Point
      <4>2. schedule'[Len(schedule) + 1].index = index
        BY <2>2, <2>3
      <4>3. /\ p \in 1 .. Len(schedule) \/ p = Len(schedule) + 1
            /\ q \in 1 .. Len(schedule) \/ q = Len(schedule) + 1
        BY <1>2, <2>2
      <4>4. CASE p \in 1 .. Len(schedule) /\ q \in 1 .. Len(schedule)
        BY <1>2, <3>2, <4>1, <4>4 DEF PointsInv
      <4> QED
        BY <3>2, <4>1, <4>2, <4>3, <4>4
    <3>3. ASSUME NEW k \in Passed', Begins(k)'
          PROVE  \E p \in 1 .. Len(schedule') : schedule'[p].index = k
      <4>1. CASE k \in Passed
        <5>1. PICK p \in 1 .. Len(schedule) : schedule[p].index = k
          BY <1>2, <1>3, <1>7, <3>3, <4>1 DEF PointsInv
        <5> QED
          BY <1>2, <2>2, <5>1
      <4>2. CASE k = index
        <5>1. Len(schedule) + 1 \in 1 .. Len(schedule')
          BY <1>2, <2>2
        <5>2. schedule'[Len(schedule) + 1].index = index
          BY <2>2, <2>3
        <5> QED
          BY <4>2, <5>1, <5>2
      <4> QED
        BY <1>6, <4>1, <4>2
    <3> QED
      BY <3>1, <3>2, <3>3 DEF PointsInv
  <2> QED
    BY <1>1, <1>2, <1>3, <2>1, <2>2, <2>4 DEF ScheduleInv, Scheduling
<1>9. CASE KeyOf(date) = key
  <2>1. schedule' = schedule /\ key' = key
    BY <1>9 DEF ScheduleSession
  <2>2. PointsInv'
    <3>1. ~ Begins(index)
      BY <1>4, <1>9
    <3>2. \A k \in Passed' : Begins(k)' => k \in Passed /\ Begins(k)
      BY <1>2, <1>3, <1>6, <1>7, <3>1
    <3>3. ASSUME NEW p \in 1 .. Len(schedule) PROVE Point(p)'
      <4>1. Point(p)
        BY <1>2 DEF PointsInv
      <4> QED
        BY <1>1, <1>6, <2>1, <4>1 DEF Point, Begins, KeyOf, Scheduled
    <3> QED
      BY <1>2, <2>1, <3>2, <3>3 DEF PointsInv
  <2>3. index # 2
    BY <1>2, <1>9, KeysAreNotEmpty
  <2> QED
    BY <1>1, <1>2, <1>3, <1>9, <2>1, <2>2, <2>3 DEF ScheduleInv, Scheduling
<1> QED
  BY <1>8, <1>9

LEMMA ScheduleInvNext == MarksInv /\ ScheduleInv /\ [Next]_vars => ScheduleInv'
<1> SUFFICES ASSUME MarksInv, ScheduleInv, [Next]_vars PROVE ScheduleInv'
  OBVIOUS
<1>1. ASSUME NEW open \in MayTrade, BuildSession(open) PROVE ScheduleInv'
  BY <1>1 DEF BuildSession, ScheduleInv, Scheduling
<1>2. ASSUME NEW frequency \in {"weekly", "monthly"}, StartSchedule(frequency) PROVE ScheduleInv'
  <2>1. /\ phase = "build" /\ phase' = frequency /\ Len(sessions) >= 2 /\ Len(sessions) \in Nat
        /\ UNCHANGED <<sessions, index, key, schedule>>
    BY <1>2 DEF StartSchedule, MarksInv, TypeInv
  <2>2. index = 2 /\ key = << >> /\ schedule = << >>
    BY <2>1 DEF ScheduleInv
  <2>3. PointsInv'
    BY <2>1, <2>2 DEF PointsInv, Passed
  <2> QED
    BY <2>1, <2>2, <2>3 DEF ScheduleInv, Scheduling
<1>3. CASE ScheduleSession
  BY <1>3, ScheduleInvSession
<1>4. CASE FinishSchedule
  BY <1>4 DEF FinishSchedule, ScheduleInv, Scheduling
<1>5. CASE UNCHANGED vars
  <2>1. PointsInv => PointsInv'
    BY <1>5 DEF vars, PointsInv, Point, Passed, Begins, KeyOf, Scheduled
  <2>2. \A date : KeyOf(date)' = KeyOf(date)
    BY <1>5 DEF vars, KeyOf
  <2> QED
    BY <1>5, <2>1, <2>2 DEF vars, ScheduleInv, Scheduling
<1> QED
  BY <1>1, <1>2, <1>3, <1>4, <1>5 DEF Next

CalendarInv == MarksInv /\ ScheduleInv

THEOREM CalendarInvariant == Spec => []CalendarInv
<1>1. Init => CalendarInv
  BY MarksInvInit, ScheduleInvInit DEF CalendarInv
<1>2. CalendarInv /\ [Next]_vars => CalendarInv'
  BY MarksInvNext, ScheduleInvNext DEF CalendarInv
<1> QED
  BY <1>1, <1>2, PTL DEF Spec

(* A session that does not begin a period is in that of the one before it, *)
(* and of two sessions in one period and year the later does not begin it. *)
LEMMA PeriodsAreIntervals ==
  ASSUME MarksInv, Scheduling, NEW j \in 2 .. Len(sessions), NEW k \in 2 .. Len(sessions),
         j < k, KeyOf(sessions[j].date) = KeyOf(sessions[k].date)
  PROVE  ~ Begins(k)
<1> DEFINE a == sessions[j].date
           b == sessions[k - 1].date
           c == sessions[k].date
<1>1. sessions \in Seq(SessionRecords) /\ Len(sessions) \in Nat
  BY DEF MarksInv, TypeInv
<1>2. /\ j \in 1 .. Len(sessions) /\ k - 1 \in 1 .. Len(sessions) /\ k \in 1 .. Len(sessions)
      /\ j <= k - 1 /\ k - 1 < k /\ k # 2
  BY <1>1
<1>3. a \in CivilDates /\ b \in CivilDates /\ c \in CivilDates
  BY <1>1, <1>2, DatesAreDays
<1>4. /\ IsDate(a) /\ IsDate(b) /\ IsDate(c)
      /\ DayNumber(a) \in Nat /\ DayNumber(b) \in Nat /\ DayNumber(c) \in Nat
  BY <1>3, DaysAreDates
<1>5. DayNumber(a) <= DayNumber(b) /\ DayNumber(b) <= DayNumber(c)
  <2>1. DayNumber(b) < DayNumber(c)
    BY <1>2 DEF MarksInv, DaysInOrder
  <2>2. j = k - 1 \/ DayNumber(a) < DayNumber(b)
    BY <1>2 DEF MarksInv, DaysInOrder
  <2> QED
    BY <1>4, <2>1, <2>2
<1> HIDE DEF a, b, c
<1>6. CASE phase = "weekly"
  <2>1. a.year = c.year /\ SundayOf(a) = SundayOf(c)
    BY <1>6 DEF KeyOf, WeekKey, a, c
  <2>2. b.year = a.year /\ SundayOf(b) = SundayOf(a)
    BY <1>4, <1>5, <2>1, WeeksAreIntervals, MonthsAreIntervals
  <2>3. KeyOf(c) = KeyOf(b)
    BY <1>6, <2>1, <2>2 DEF KeyOf, WeekKey
  <2> QED
    BY <1>2, <2>3 DEF Begins, b, c
<1>7. CASE phase = "monthly"
  <2>1. a.year = c.year /\ a.month = c.month
    BY <1>7 DEF KeyOf, MonthKey, a, c
  <2>2. b.year = a.year /\ b.month = a.month
    BY <1>4, <1>5, <2>1, MonthsAreIntervals
  <2>3. KeyOf(c) = KeyOf(b)
    BY <1>7, <2>1, <2>2 DEF KeyOf, MonthKey
  <2> QED
    BY <1>2, <2>3 DEF Begins, b, c
<1> QED
  BY <1>6, <1>7 DEF Scheduling

(* Two points of a schedule are never of the same period and year.         *)
LEMMA PointsDiffer ==
  ASSUME MarksInv, ScheduleInv, Scheduling,
         NEW p \in 1 .. Len(schedule), NEW q \in 1 .. Len(schedule), p # q
  PROVE  KeyOf(sessions[schedule[p].index].date) # KeyOf(sessions[schedule[q].index].date)
<1> DEFINE j == schedule[p].index
           k == schedule[q].index
<1>1. j \in Passed /\ k \in Passed /\ Begins(j) /\ Begins(k) /\ j # k
  BY DEF ScheduleInv, PointsInv, Point
<1>2. Passed \subseteq 2 .. Len(sessions) /\ Len(sessions) \in Nat
  BY DEF ScheduleInv, Passed, MarksInv, TypeInv
<1> HIDE DEF j, k
<1>3. j < k \/ k < j
  BY <1>1, <1>2
<1>4. KeyOf(sessions[j].date) # KeyOf(sessions[k].date)
  BY <1>1, <1>2, <1>3, PeriodsAreIntervals
<1> QED
  BY <1>4 DEF j, k

LEMMA PassedAll ==
  ASSUME MarksInv, ScheduleInv, Scheduling, index > Len(sessions)
  PROVE  Passed = 2 .. Len(sessions)
BY DEF ScheduleInv, Passed, MarksInv, TypeInv

(* A session with none of its period before it begins it.                  *)
LEMMA FirstBegins ==
  ASSUME NEW k \in 2 .. Len(sessions), Len(sessions) \in Nat,
         \A j \in 2 .. k - 1 : KeyOf(sessions[j].date) # KeyOf(sessions[k].date)
  PROVE  Begins(k)
<1>1. k # 2 => k - 1 \in 2 .. k - 1
  OBVIOUS
<1> QED
  BY <1>1 DEF Begins

(* For any histories, every civil week that can be decided on is           *)
(* rebalanced at its first session, and never twice in a calendar year.    *)
THEOREM CalendarWeeklyRebalances == Spec => []WeeklyRebalances
<1>1. CalendarInv => WeeklyRebalances
  <2> SUFFICES ASSUME CalendarInv, phase = "weekly", index > Len(sessions)
               PROVE  /\ FirstIn(SameWeek) \subseteq ScheduledIndices
                      /\ \A p, q \in 1 .. Len(schedule) :
                           LET d == sessions[schedule[p].index].date
                               e == sessions[schedule[q].index].date
                           IN p # q /\ SameWeek(d, e) => d.year # e.year
    BY DEF WeeklyRebalances
  <2>1. MarksInv /\ ScheduleInv /\ Scheduling /\ PointsInv /\ Len(sessions) \in Nat
    BY DEF CalendarInv, Scheduling, ScheduleInv, MarksInv, TypeInv
  <2>2. Passed = 2 .. Len(sessions)
    BY <2>1, PassedAll
  <2>3. ASSUME NEW k \in FirstIn(SameWeek) PROVE k \in ScheduledIndices
    <3>1. /\ k \in 2 .. Len(sessions)
          /\ \A j \in 2 .. k - 1 : SundayOf(sessions[j].date) # SundayOf(sessions[k].date)
      BY DEF FirstIn, SameWeek
    <3>2. \A j \in 2 .. k - 1 : KeyOf(sessions[j].date) # KeyOf(sessions[k].date)
      BY <3>1 DEF KeyOf, WeekKey
    <3>3. Begins(k)
      BY <2>1, <3>1, <3>2, FirstBegins
    <3>4. \E p \in 1 .. Len(schedule) : schedule[p].index = k
      BY <2>1, <2>2, <3>1, <3>3 DEF PointsInv
    <3> QED
      BY <3>4 DEF ScheduledIndices
  <2>4. ASSUME NEW p \in 1 .. Len(schedule), NEW q \in 1 .. Len(schedule), p # q,
               SameWeek(sessions[schedule[p].index].date, sessions[schedule[q].index].date)
        PROVE  sessions[schedule[p].index].date.year # sessions[schedule[q].index].date.year
    <3>1. KeyOf(sessions[schedule[p].index].date) # KeyOf(sessions[schedule[q].index].date)
      BY <2>1, <2>4, PointsDiffer
    <3> QED
      BY <2>4, <3>1 DEF KeyOf, WeekKey, SameWeek
  <2> QED
    BY <2>3, <2>4
<1> QED
  BY CalendarInvariant, <1>1, PTL

(* For any histories, every civil month that can be decided on is          *)
(* rebalanced once, at its first session, under the first day's date.      *)
THEOREM CalendarMonthlyRebalances == Spec => []MonthlyRebalances
<1>1. CalendarInv => MonthlyRebalances
  <2> SUFFICES ASSUME CalendarInv, phase = "monthly", index > Len(sessions)
               PROVE  /\ ScheduledIndices = FirstIn(SameMonth)
                      /\ \A p \in 1 .. Len(schedule) :
                           LET date == sessions[schedule[p].index].date
                           IN /\ SameMonth(schedule[p].scheduled, date)
                              /\ DaysUntil(schedule[p].scheduled, date) >= 0
    BY DEF MonthlyRebalances
  <2>1. /\ MarksInv /\ ScheduleInv /\ Scheduling /\ PointsInv
        /\ Len(sessions) \in Nat /\ sessions \in Seq(SessionRecords)
    BY DEF CalendarInv, Scheduling, ScheduleInv, MarksInv, TypeInv
  <2>2. Passed = 2 .. Len(sessions)
    BY <2>1, PassedAll
  <2>3. \A d, e : SameMonth(d, e) <=> KeyOf(d) = KeyOf(e)
    BY DEF SameMonth, KeyOf, MonthKey
  <2>4. ASSUME NEW k \in FirstIn(SameMonth) PROVE k \in ScheduledIndices
    <3>1. /\ k \in 2 .. Len(sessions)
          /\ \A j \in 2 .. k - 1 : KeyOf(sessions[j].date) # KeyOf(sessions[k].date)
      BY <2>3 DEF FirstIn
    <3>2. Begins(k)
      BY <2>1, <3>1, FirstBegins
    <3>3. \E p \in 1 .. Len(schedule) : schedule[p].index = k
      BY <2>1, <2>2, <3>1, <3>2 DEF PointsInv
    <3> QED
      BY <3>3 DEF ScheduledIndices
  <2>5. ASSUME NEW p \in 1 .. Len(schedule) PROVE schedule[p].index \in FirstIn(SameMonth)
    <3> DEFINE k == schedule[p].index
    <3>1. k \in 2 .. Len(sessions) /\ Begins(k)
      BY <2>1, <2>2 DEF PointsInv, Point
    <3> HIDE DEF k
    <3>2. ASSUME NEW j \in 2 .. k - 1 PROVE KeyOf(sessions[j].date) # KeyOf(sessions[k].date)
      <4>1. j \in 2 .. Len(sessions) /\ j < k
        BY <2>1, <3>1
      <4> QED
        BY <2>1, <3>1, <4>1, PeriodsAreIntervals
    <3>3. k \in FirstIn(SameMonth)
      BY <2>3, <3>1, <3>2 DEF FirstIn
    <3> QED
      BY <3>3 DEF k
  <2>6. ASSUME NEW p \in 1 .. Len(schedule)
        PROVE  LET date == sessions[schedule[p].index].date
               IN /\ SameMonth(schedule[p].scheduled, date)
                  /\ DaysUntil(schedule[p].scheduled, date) >= 0
    <3> DEFINE date == sessions[schedule[p].index].date
               first == Date(date.year, date.month, 1)
    <3>1. schedule[p].index \in 1 .. Len(sessions) /\ schedule[p].scheduled = first
      BY <2>1, <2>2 DEF PointsInv, Point, Scheduled
    <3>2. date \in CivilDates
      BY <2>1, <3>1, DatesAreDays
    <3> HIDE DEF date
    <3>3. IsDate(date) /\ date.year \in Nat \ {0} /\ date.month \in 1 .. 12 /\ date.day \in Nat \ {0}
      BY <3>2, DaysAreDates, DateFields
    <3>4. IsDate(first)
      <4>1. DaysInMonth(date.year, date.month) \in 28 .. 31
        BY <3>3, MonthSteps
      <4>2. 1 \in 1 .. DaysInMonth(date.year, date.month)
        BY <4>1
      <4> QED
        BY <3>3, <4>2, MakesDate, Zenon
    <3>5. SameMonth(first, date) /\ first.year = date.year /\ first.month = date.month /\ first.day = 1
      BY DEF SameMonth, Date
    <3>6. /\ DayNumber(first) = PastYears(first.year) + PastMonths(first.year, first.month) + first.day
          /\ PastYears(first.year) \in Nat /\ PastMonths(first.year, first.month) \in Nat
          /\ DayNumber(date) = PastYears(date.year) + PastMonths(date.year, date.month) + date.day
      BY <3>3, <3>4, DayNumberParts
    <3>7. DayNumber(date) - DayNumber(first) >= 0
      <4> HIDE DEF first
      <4> QED
        BY <3>3, <3>5, <3>6
    <3> QED
      BY <3>1, <3>5, <3>7 DEF DaysUntil, date
  <2> QED
    BY <2>4, <2>5, <2>6 DEF ScheduledIndices
<1> QED
  BY CalendarInvariant, <1>1, PTL
=============================================================================
