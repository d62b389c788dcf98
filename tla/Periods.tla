------------------------------ MODULE Periods -------------------------------
(***************************************************************************)
(* The periods of the financial tabs (services/financial/period.py), in    *)
(* hours of UTC.  A period is bounded by midnights of Brasilia, three      *)
(* hours behind, and contains its start but not its end.                   *)
(***************************************************************************)
EXTENDS Integers, FiniteSetsExt

CONSTANTS
  MonthStarts,  \* the calendar: the first day of each month, as day numbers
  YearStarts    \* those that open a year

ASSUME PeriodsAssumption ==
  /\ MonthStarts \subseteq Int /\ YearStarts \subseteq MonthStarts
  /\ \A m \in MonthStarts : \A n \in MonthStarts : n > m => n - m >= 28

BrDay(t) == (t - 3) \div 24
UtcDay(t) == t \div 24  \* the session of the database is in UTC

FirstOf(starts, day) == Max({s \in starts : s <= day})

\* 32 days after the first of a month is in the next one.
NextMonth_Thirty(month) == FirstOf(MonthStarts, month + 30)  \* mutant
NextMonth(month) == FirstOf(MonthStarts, month + 32)
PrevMonth(month) == FirstOf(MonthStarts, month - 1)

Presets == {"today", "7d", "month", "lastMonth", "year"}

\* First day of the period, and the first after it
Days(period, today) ==
  LET month == FirstOf(MonthStarts, today)
      year == FirstOf(YearStarts, today)
  IN CASE period = "today" -> <<today, today + 1>>
       [] period = "7d" -> <<today - 6, today + 1>>
       [] period = "month" -> <<month, NextMonth(month)>>
       [] period = "lastMonth" -> <<PrevMonth(month), month>>
       [] period = "year" -> <<year, Min({s \in YearStarts : s > year})>>

\* The calendar holds the month and the year of the day, and those next to them.
Covers(day) ==
  /\ \E k, m, n \in MonthStarts :
       /\ k < m /\ m <= day /\ day < n /\ n - m <= 31 /\ m - k <= 31
  /\ \E y, z \in YearStarts :
       /\ y <= day /\ day < z /\ \A x \in YearStarts : x <= y \/ x >= z

\* resolve_range at instant now; what a custom period returns is a pair of days.
Within(t, days) == days[1] <= BrDay(t) /\ BrDay(t) < days[2]
=============================================================================
