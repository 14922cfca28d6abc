-------------------------- MODULE TradingCalendar --------------------------
(***************************************************************************)
(* TradingCalendar: the union of the assets' bar dates becomes a sequence  *)
(* of sessions, each with a valuation mark per asset, and the sessions at  *)
(* which a portfolio rebalances are picked from it.                        *)
(*                                                                         *)
(* The bars are drawn while the timeline is walked: a session is a date    *)
(* and the assets that have a bar on it.  Under intersection_legacy the    *)
(* timeline holds the dates common to all assets, so there every asset has *)
(* a bar.  A mark is identified by the date of the close it comes from;    *)
(* prices are left to the portfolio.                                       *)
(***************************************************************************)
EXTENDS CalendarDate

CONSTANTS
  Assets,
  FirstDays,     \* the dates a history may begin with
  Gaps,          \* the numbers of days between consecutive union dates
  MaxSessions,   \* bound on the sessions
  MaxAge         \* max_stale_calendar_days

ASSUME TradingCalendarAssumption ==
  /\ Assets # {}
  /\ FirstDays \subseteq CivilDates
  /\ Gaps \subseteq Nat \ {0}
  /\ MaxSessions \in Nat
  /\ MaxAge \in Nat

VARIABLES
  mode,       \* policy.mode
  stale,      \* policy.stale_mark_policy
  phase,      \* "build", then "weekly" or "monthly" while scheduling, "done"
  lastMarks,  \* last_marks: the date of each asset's last bar, or NoMark
  sessions,
  index,      \* i, the session the schedule loop is at
  key,        \* week_start or month
  schedule    \* the schedule points pushed so far

vars == <<mode, stale, phase, lastMarks, sessions, index, key, schedule>>

NoMark == Date(0, 0, 0)   \* not a date

MayTrade == IF mode = "union" THEN SUBSET Assets \ {{}} ELSE {Assets}

Init ==
  /\ mode \in {"union", "intersection_legacy"}
  /\ stale \in {"last_known", "unavailable"}
  /\ phase = "build"
  /\ lastMarks = [a \in Assets |-> NoMark]
  /\ sessions = << >>
  /\ index = 2
  /\ key = << >>
  /\ schedule = << >>

(* Mutant of Mark: age >= max_stale_calendar_days is already too old.      *)
MarkTooYoung(a, date, open) ==
  IF a \in open THEN date
  ELSE IF /\ stale = "last_known"
          /\ lastMarks[a] # NoMark
          /\ DaysUntil(lastMarks[a], date) < MaxAge
       THEN lastMarks[a]
       ELSE NoMark

(* The close of the day if there is one, else the last known close while   *)
(* it is no older than max_stale_calendar_days.                            *)
Mark(a, date, open) ==
  IF a \in open THEN date
  ELSE IF /\ stale = "last_known"
          /\ lastMarks[a] # NoMark
          /\ DaysUntil(lastMarks[a], date) <= MaxAge
       THEN lastMarks[a]
       ELSE NoMark

(* The next date of the timeline.                                          *)
BuildSession(open) ==
  /\ phase = "build"
  /\ Len(sessions) < MaxSessions
  /\ \E date \in IF sessions = << >>
                 THEN FirstDays
                 ELSE {AddDays(sessions[Len(sessions)].date, g) : g \in Gaps} :
       /\ sessions' = Append(sessions,
            [date |-> date, open |-> open, mark |-> [a \in Assets |-> Mark(a, date, open)]])
       /\ lastMarks' = [a \in Assets |-> IF a \in open THEN date ELSE lastMarks[a]]
  /\ UNCHANGED <<mode, stale, phase, index, key, schedule>>

(* The timeline is exhausted; the portfolio asks for one of the schedules. *)
StartSchedule(frequency) ==
  /\ phase = "build"
  /\ Len(sessions) >= 2
  /\ phase' = frequency
  /\ UNCHANGED <<mode, stale, lastMarks, sessions, index, key, schedule>>

(* Mutant of WeekKey: the week ends seven days from the session.           *)
WeekKeyFromSession(date) == <<date.year, AddDays(date, 7)>>

(* The key of the weekly schedule: the year of the session, and the Sunday *)
(* that ends its civil week.                                               *)
WeekKey(date) == <<date.year, SundayOf(date)>>

(* Mutant of MonthKey: only the year of the date is compared.              *)
MonthKeyOfYear(date) == <<date.year>>

MonthKey(date) == <<date.year, date.month>>

KeyOf(date) == IF phase = "weekly" THEN WeekKey(date) ELSE MonthKey(date)

(* Weekly points carry the session's own date, monthly ones the first of   *)
(* the month.                                                              *)
Scheduled(date) == IF phase = "weekly" THEN date ELSE Date(date.year, date.month, 1)

(* One turn of the schedule loop.  The first session has none before it to *)
(* decide on, and the loop starts at the second.                           *)
ScheduleSession ==
  /\ phase \in {"weekly", "monthly"}
  /\ index <= Len(sessions)
  /\ LET date == sessions[index].date
     IN IF KeyOf(date) # key
        THEN /\ schedule' = Append(schedule, [index |-> index, scheduled |-> Scheduled(date)])
             /\ key' = KeyOf(date)
        ELSE UNCHANGED <<schedule, key>>
  /\ index' = index + 1
  /\ UNCHANGED <<mode, stale, phase, lastMarks, sessions>>

FinishSchedule ==
  /\ phase \in {"weekly", "monthly"}
  /\ index > Len(sessions)
  /\ phase' = "done"
  /\ UNCHANGED <<mode, stale, lastMarks, sessions, index, key, schedule>>

Next ==
  \/ \E open \in MayTrade : BuildSession(open)
  \/ \E frequency \in {"weekly", "monthly"} : StartSchedule(frequency)
  \/ ScheduleSession
  \/ FinishSchedule

Spec == Init /\ [][Next]_vars

-----------------------------------------------------------------------------
(* Properties *)

(* The bar dates an asset has had up to the k-th session.                  *)
BarDates(a, k) == {sessions[j].date : j \in {j \in 1 .. k : a \in sessions[j].open}}

(* docs/MARKET_CALENDAR.md: a closed asset is valued by its own latest     *)
(* close, never by a later one, as long as that close is at most           *)
(* max_stale_calendar_days old and the policy allows it at all, however    *)
(* often the asset has been closed and valued like this before.            *)
MarksAreLatestKnown ==
  \A k \in 1 .. Len(sessions), a \in Assets :
    LET mark   == sessions[k].mark[a]
        fresh  == {date \in BarDates(a, k) :
                     \/ date = sessions[k].date
                     \/ stale = "last_known" /\ DaysUntil(date, sessions[k].date) <= MaxAge}
    IN IF fresh = {}
       THEN mark = NoMark
       ELSE mark \in fresh /\ \A date \in fresh : DaysUntil(date, mark) >= 0

SameWeek(d, e)  == SundayOf(d) = SundayOf(e)
SameMonth(d, e) == d.year = e.year /\ d.month = e.month

ScheduledIndices == {schedule[p].index : p \in 1 .. Len(schedule)}

(* The sessions of a schedule are those before which, from the second      *)
(* session on, there is none of the same period.                           *)
FirstIn(Same(_, _)) ==
  {k \in 2 .. Len(sessions) :
     \A j \in 2 .. k - 1 : ~ Same(sessions[j].date, sessions[k].date)}

(* Every civil week that can be decided on is rebalanced at its first      *)
(* session, and never twice within a calendar year.                        *)
WeeklyRebalances ==
  phase = "weekly" /\ index > Len(sessions) =>
    /\ FirstIn(SameWeek) \subseteq ScheduledIndices
    /\ \A p, q \in 1 .. Len(schedule) :
         LET d == sessions[schedule[p].index].date
             e == sessions[schedule[q].index].date
         IN p # q /\ SameWeek(d, e) => d.year # e.year

(* Every civil month that can be decided on is rebalanced exactly once, at *)
(* its first session, under the date of that month's first day.            *)
MonthlyRebalances ==
  phase = "monthly" /\ index > Len(sessions) =>
    /\ ScheduledIndices = FirstIn(SameMonth)
    /\ \A p \in 1 .. Len(schedule) :
         LET date == sessions[schedule[p].index].date
         IN SameMonth(schedule[p].scheduled, date) /\ DaysUntil(schedule[p].scheduled, date) >= 0

(* docs/MARKET_CALENDAR.md: weekly scheduling selects the first union      *)
(* valuation in each Monday-through-Sunday civil week.  The key holds the  *)
(* session's year as well, so a week with a session on each side of New    *)
(* Year is selected twice.                                                 *)
WeeklyOncePerCivilWeek ==
  phase = "weekly" =>
    \A p, q \in 1 .. Len(schedule) :
      SameWeek(sessions[schedule[p].index].date, sessions[schedule[q].index].date) => p = q
=============================================================================
