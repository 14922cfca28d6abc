------------------------- MODULE MCTradingCalendar -------------------------
(***************************************************************************)
(* A small instance of TradingCalendar: histories that start shortly       *)
(* before a New Year in the middle of a week, or before a leap day.        *)
(***************************************************************************)
EXTENDS TradingCalendar

MCFirstDays == {Date(2024, 12, 28), Date(2024, 2, 27)}
=============================================================================
