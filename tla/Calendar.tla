------------------------------ MODULE Calendar ------------------------------
(***************************************************************************)
(* The part of Python's datetime that leaderboard/updater.py uses: dates   *)
(* as day numbers (date.toordinal) and ISO 8601 weeks (isocalendar and     *)
(* fromisocalendar), in the closed form of the standard library.           *)
(***************************************************************************)
EXTENDS Integers, Sequences

IsLeap(y) == y % 4 = 0 /\ (y % 100 # 0 \/ y % 400 = 0)

DaysInMonth(y, m) ==
  IF m = 2 /\ IsLeap(y) THEN 29
  ELSE <<31, 28, 31, 30, 31, 30, 31, 31, 30, 31, 30, 31>>[m]

\* Days before January 1 of year y, and before the first of its month m.
DaysBeforeYear(y) ==
  365 * (y - 1) + (y - 1) \div 4 - (y - 1) \div 100 + (y - 1) \div 400

DaysBeforeMonth(y, m) ==
  <<0, 31, 59, 90, 120, 151, 181, 212, 243, 273, 304, 334>>[m]
    + (IF m > 2 /\ IsLeap(y) THEN 1 ELSE 0)

\* date(y, m, d).toordinal()
Ordinal(y, m, d) == DaysBeforeYear(y) + DaysBeforeMonth(y, m) + d

\* 0 for a Monday.
Weekday(n) == (n + 6) % 7

\* The Monday of ISO week 1 of year y: that of the week with January 4.
Week1Monday(y) ==
  LET first == DaysBeforeYear(y) + 1
  IN  first - Weekday(first) + (IF Weekday(first) > 3 THEN 7 ELSE 0)

\* isocalendar() of day n, which lies in year y.
IsoYear(y, n) ==
  IF n < Week1Monday(y) THEN y - 1
  ELSE IF n >= Week1Monday(y + 1) THEN y + 1 ELSE y

IsoWeek(y, n) == 1 + (n - Week1Monday(IsoYear(y, n))) \div 7

\* fromisocalendar(y, w, 1)
MondayOf(y, w) == Week1Monday(y) + 7 * (w - 1)
=============================================================================
