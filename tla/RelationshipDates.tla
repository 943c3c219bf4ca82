-------------------------- MODULE RelationshipDates --------------------------
(***************************************************************************)
(* The dates of Our Space (relationship-dates.ts, our-space.tsx): how many *)
(* days two have been together, and the next monthly anniversary.  An      *)
(* anniversary falls on the day of the month the two started, or on the    *)
(* last day of a month that is too short.  The window computes the dates   *)
(* when it opens, every thirty seconds and when its page is shown again.   *)
(*                                                                         *)
(* A date is a month, counted from January 2023, and a day of it.          *)
(***************************************************************************)
EXTENDS Integers

CONSTANTS
    StartMonths, StartDays,     \* when two can have started
    LastMonth,      \* bound: the months that pass
    MaxAsleep       \* bound: the days a page can sleep through

ASSUME DatesAssumption ==
    /\ StartMonths \subseteq Nat /\ StartDays \subseteq 1..31
    /\ LastMonth \in Nat /\ MaxAsleep \in Nat

Month(date) == date[1]
Day(date) == date[2]

IsLeap(year) == year % 4 = 0 /\ (year % 100 # 0 \/ year % 400 = 0)

MonthDays(m) ==
    LET month == (m % 12) + 1 IN
    IF month = 2 THEN IF IsLeap(2023 + (m \div 12)) THEN 29 ELSE 28
    ELSE IF month \in {4, 6, 9, 11} THEN 30 ELSE 31

Before(d, e) == Month(d) < Month(e) \/ (Month(d) = Month(e) /\ Day(d) < Day(e))

\* The days of a date, counted from the first of January 2023.
DaysBefore[m \in Nat] == IF m = 0 THEN 0 ELSE DaysBefore[m - 1] + MonthDays(m - 1)
DayNumber(date) == DaysBefore[Month(date)] + Day(date)

Larger(a, b) == IF a > b THEN a ELSE b
Smaller(a, b) == IF a < b THEN a ELSE b

AnniversaryAt(start, months) ==
    <<Month(start) + months, Smaller(Day(start), MonthDays(Month(start) + months))>>

\* Slip: an anniversary of this month that is over is still the next.
StaysInMonth(today, start) == Larger(1, Month(today) - Month(start))

AnniversaryMonths(today, start) ==
    LET months == Larger(1, Month(today) - Month(start)) IN
    IF Before(AnniversaryAt(start, months), today) THEN months + 1 ELSE months

\* Slip: the first day counts as none.
CountsFromNought(today, start) ==
    LET months == AnniversaryMonths(today, start) IN
    [daysTogether |-> Larger(0, DayNumber(today) - DayNumber(start)),
     anniversaryMonths |-> months,
     daysUntil |-> DayNumber(AnniversaryAt(start, months)) - DayNumber(today)]

GetRelationshipDates(today, start) ==
    LET months == AnniversaryMonths(today, start) IN
    [daysTogether |-> Larger(0, DayNumber(today) - DayNumber(start) + 1),
     anniversaryMonths |-> months,
     daysUntil |-> DayNumber(AnniversaryAt(start, months)) - DayNumber(today)]

-----------------------------------------------------------------------------
VARIABLES
    startDate, today,
    computed,       \* ghost: the day on which the dates were last computed
    dates,          \* what the window shows
    together        \* ghost: the days together, counted as they come

datesVars == <<startDate, today, computed, dates, together>>

NextDay(date) ==
    IF Day(date) < MonthDays(Month(date)) THEN <<Month(date), Day(date) + 1>>
                                          ELSE <<Month(date) + 1, 1>>

DatesInit ==
    /\ startDate \in {s \in StartMonths \X StartDays : Day(s) <= MonthDays(Month(s))}
    /\ today = <<0, 1>> /\ computed = today
    /\ dates = GetRelationshipDates(today, startDate)
    /\ together = IF today = startDate THEN 1 ELSE 0

Midnight ==
    /\ Month(today) < LastMonth
    /\ DayNumber(today) - DayNumber(computed) < MaxAsleep
    /\ today' = NextDay(today)
    /\ together' = IF together > 0 \/ today' = startDate THEN together + 1 ELSE 0
    /\ UNCHANGED <<startDate, computed, dates>>

\* refresh, by the timer or because the page is shown
RefreshDates ==
    /\ computed # today
    /\ computed' = today
    /\ dates' = GetRelationshipDates(today, startDate)
    /\ UNCHANGED <<startDate, today, together>>

DatesNext == Midnight \/ RefreshDates

DatesSpec == DatesInit /\ [][DatesNext]_datesVars

-----------------------------------------------------------------------------
(* Properties.                                                             *)

\* The n-th anniversary is the first that is not over on a day.
IsNextAnniversary(n, day, start) ==
    /\ n \in Nat \ {0}
    /\ ~Before(AnniversaryAt(start, n), day)
    /\ \A k \in 1..n - 1 : Before(AnniversaryAt(start, k), day)

\* What the window shows was right on the day it was computed: the next
\* anniversary is the first that is not over, it is never behind and no further
\* ahead than the months between allow, and it is today exactly when no day is
\* left; the days together are those that came, one at each midnight of the
\* calendar, the first of them counted as one and none before it
\* (relationship-dates.ts:36).
DatesTrue ==
    /\ IsNextAnniversary(dates.anniversaryMonths, computed, startDate)
    /\ dates.daysUntil >= 0
    /\ dates.daysUntil = 0
          <=> computed = AnniversaryAt(startDate, dates.anniversaryMonths)
    /\ computed = today => dates.daysTogether = together
    /\ ~Before(computed, startDate) =>
          dates.daysUntil <= 31 + IF dates.anniversaryMonths = 1 THEN 31 ELSE 0
=============================================================================
