---------------------- MODULE LeaderboardBuckets_proofs ----------------------
(***************************************************************************)
(* The leaderboard's buckets for every date there is: two instants share a *)
(* weekly bucket exactly if they share a week, and a bucket's rows outlive *)
(* it by at least the grace period.                                        *)
(***************************************************************************)
EXTENDS LeaderboardBuckets, TLAPS

-----------------------------------------------------------------------------
(* ISO weeks.                                                              *)

InYear(y, n) == DaysBeforeYear(y) < n /\ n <= DaysBeforeYear(y + 1)

LEMMA DaysAreInts == ASSUME NEW y \in Int PROVE DaysBeforeYear(y) \in Int
BY DEF DaysBeforeYear

\* A year has at least 365 days, whatever the leap years between.
LEMMA YearsGrow ==
  ASSUME NEW y \in Int, NEW z \in Int, y < z
  PROVE  DaysBeforeYear(y) + 365 <= DaysBeforeYear(z)
<1> DEFINE a == (y - 1) \div 4
           b == (z - 1) \div 4
<1>1. a \in Int /\ b \in Int /\ a <= b
  OBVIOUS
<1>2. (y - 1) \div 100 = a \div 25 /\ (z - 1) \div 100 = b \div 25
  OBVIOUS
<1>3. (y - 1) \div 400 <= (z - 1) \div 400
  OBVIOUS
<1>4. ASSUME NEW c \in Int, NEW d \in Int, c <= d
      PROVE  c - c \div 25 <= d - d \div 25
  BY <1>4
<1>5. a - a \div 25 <= b - b \div 25
  BY <1>1, <1>4
<1> QED
  BY <1>1, <1>2, <1>3, <1>5 DEF DaysBeforeYear

\* ISO week 1 begins on a Monday within three days of New Year.
LEMMA Week1 ==
  ASSUME NEW y \in Int
  PROVE  /\ Week1Monday(y) \in Int
         /\ Weekday(Week1Monday(y)) = 0
         /\ DaysBeforeYear(y) - 2 <= Week1Monday(y)
         /\ Week1Monday(y) <= DaysBeforeYear(y) + 4
BY DaysAreInts DEF Week1Monday, Weekday

LEMMA Week1Grows ==
  ASSUME NEW y \in Int, NEW z \in Int, y < z
  PROVE  Week1Monday(y) < Week1Monday(z)
BY Week1, YearsGrow, DaysAreInts

\* isocalendar puts a day into the ISO year whose weeks it lies between.
LEMMA IsoYearSpan ==
  ASSUME NEW y \in Int, NEW n \in Int, InYear(y, n)
  PROVE  /\ IsoYear(y, n) \in Int
         /\ Week1Monday(IsoYear(y, n)) <= n
         /\ n < Week1Monday(IsoYear(y, n) + 1)
<1>1. DaysBeforeYear(y - 1) + 365 <= DaysBeforeYear(y)
      /\ DaysBeforeYear(y + 1) + 365 <= DaysBeforeYear(y + 2)
  BY YearsGrow
<1>2. /\ DaysBeforeYear(y - 1) \in Int /\ DaysBeforeYear(y) \in Int
      /\ DaysBeforeYear(y + 1) \in Int /\ DaysBeforeYear(y + 2) \in Int
  BY DaysAreInts
<1>3. CASE n < Week1Monday(y)
  <2>1. IsoYear(y, n) = y - 1 /\ (y - 1) + 1 = y
    BY <1>3 DEF IsoYear
  <2>2. Week1Monday(y - 1) \in Int /\ Week1Monday(y - 1) <= DaysBeforeYear(y - 1) + 4
    BY Week1
  <2> QED
    BY <2>1, <2>2, <1>1, <1>2, <1>3 DEF InYear
<1>4. CASE ~(n < Week1Monday(y)) /\ n >= Week1Monday(y + 1)
  <2>1. IsoYear(y, n) = y + 1 /\ (y + 1) + 1 = y + 2
    BY <1>4 DEF IsoYear
  <2>2. Week1Monday(y + 2) \in Int /\ DaysBeforeYear(y + 2) - 2 <= Week1Monday(y + 2)
    BY Week1
  <2> QED
    BY <2>1, <2>2, <1>1, <1>2, <1>4 DEF InYear
<1>5. CASE ~(n < Week1Monday(y)) /\ ~(n >= Week1Monday(y + 1))
  <2>1. IsoYear(y, n) = y
    BY <1>5 DEF IsoYear
  <2>2. Week1Monday(y) \in Int /\ Week1Monday(y + 1) \in Int
    BY Week1
  <2> QED
    BY <2>1, <2>2, <1>5
<1> QED
  BY <1>3, <1>4, <1>5

\* fromisocalendar of isocalendar is the Monday on or before the day.
LEMMA MondayOfWeek ==
  ASSUME NEW y \in Int, NEW n \in Int, InYear(y, n)
  PROVE  MondayOf(IsoYear(y, n), IsoWeek(y, n)) = n - Weekday(n)
<1> DEFINE m == Week1Monday(IsoYear(y, n))
<1>1. m \in Int /\ (m + 6) % 7 = 0
  BY IsoYearSpan, Week1 DEF Weekday
<1>2. ASSUME NEW k \in Int, (k + 6) % 7 = 0
      PROVE  k + 7 * ((n - k) \div 7) = n - ((n + 6) % 7)
  BY <1>2
<1>3. m + 7 * ((n - m) \div 7) = n - ((n + 6) % 7)
  BY <1>1, <1>2
<1>4. (n - m) \div 7 \in Int
  BY <1>1
<1> HIDE DEF m
<1>5. IsoWeek(y, n) = 1 + (n - m) \div 7
      /\ MondayOf(IsoYear(y, n), IsoWeek(y, n)) = m + 7 * (IsoWeek(y, n) - 1)
  BY DEF IsoWeek, MondayOf, m
<1> QED
  BY <1>1, <1>3, <1>4, <1>5 DEF Weekday

\* The name of a week says which one it is, and no week has two names.
LEMMA WeeksHaveNames ==
  ASSUME NEW y \in Int, NEW n \in Int, InYear(y, n),
         NEW z \in Int, NEW k \in Int, InYear(z, k)
  PROVE  IsoYear(y, n) = IsoYear(z, k) /\ IsoWeek(y, n) = IsoWeek(z, k)
           <=> n - Weekday(n) = k - Weekday(k)
<1>1. ASSUME IsoYear(y, n) = IsoYear(z, k), IsoWeek(y, n) = IsoWeek(z, k)
      PROVE  n - Weekday(n) = k - Weekday(k)
  BY <1>1, MondayOfWeek
<1>2. ASSUME n - Weekday(n) = k - Weekday(k)
      PROVE  IsoYear(y, n) = IsoYear(z, k) /\ IsoWeek(y, n) = IsoWeek(z, k)
  <2> DEFINE a == IsoYear(y, n)
             b == IsoYear(z, k)
  <2>1. a \in Int /\ b \in Int
    BY IsoYearSpan
  <2>2. /\ Week1Monday(a) \in Int /\ Week1Monday(a + 1) \in Int
        /\ Week1Monday(b) \in Int /\ Week1Monday(b + 1) \in Int
        /\ Weekday(Week1Monday(a)) = 0 /\ Weekday(Week1Monday(a + 1)) = 0
        /\ Weekday(Week1Monday(b)) = 0 /\ Weekday(Week1Monday(b + 1)) = 0
    BY <2>1, Week1
  <2>3. /\ Week1Monday(a) <= n /\ n < Week1Monday(a + 1)
        /\ Week1Monday(b) <= k /\ k < Week1Monday(b + 1)
    BY IsoYearSpan
  <2> HIDE DEF a, b
  <2>4. ASSUME NEW p \in Int, NEW q \in Int, NEW s \in Int,
               Weekday(p) = 0, Weekday(q) = 0, p <= s, s < q
        PROVE  p <= s - Weekday(s) /\ s - Weekday(s) < q
    BY <2>4 DEF Weekday
  <2>5. /\ Week1Monday(a) < Week1Monday(b + 1)
        /\ Week1Monday(b) < Week1Monday(a + 1)
    <3>1. Week1Monday(a) <= n - Weekday(n) /\ n - Weekday(n) < Week1Monday(a + 1)
      BY <2>2, <2>3, <2>4
    <3>2. Week1Monday(b) <= k - Weekday(k) /\ k - Weekday(k) < Week1Monday(b + 1)
      BY <2>2, <2>3, <2>4
    <3>3. n - Weekday(n) \in Int
      BY DEF Weekday
    <3> QED
      BY <1>2, <2>2, <3>1, <3>2, <3>3
  <2>6. ~(b + 1 <= a) /\ ~(a + 1 <= b)
    <3>1. ASSUME b + 1 <= a PROVE FALSE
      BY <3>1, <2>1, <2>2, <2>5, Week1Grows
    <3>2. ASSUME a + 1 <= b PROVE FALSE
      BY <3>2, <2>1, <2>2, <2>5, Week1Grows
    <3> QED BY <3>1, <3>2
  <2>7. a = b
    BY <2>1, <2>6
  <2>8. MondayOf(a, IsoWeek(y, n)) = MondayOf(a, IsoWeek(z, k))
    BY <1>2, <2>7, MondayOfWeek DEF a, b
  <2>9. IsoWeek(y, n) \in Int /\ IsoWeek(z, k) \in Int
    BY <2>1, <2>2 DEF IsoWeek, a, b
  <2>10. IsoWeek(y, n) = IsoWeek(z, k)
    BY <2>2, <2>8, <2>9 DEF MondayOf
  <2> QED
    BY <2>7, <2>10 DEF a, b
<1> QED
  BY <1>1, <1>2

-----------------------------------------------------------------------------
(* Instants.                                                               *)

LEMMA MonthLengths ==
  ASSUME NEW y \in Int, NEW m \in 1..12
  PROVE  /\ DaysInMonth(y, m) \in 28..31
         /\ DaysBeforeMonth(y, m) \in 0..335
         /\ DaysBeforeMonth(y, m) + DaysInMonth(y, m) <= (IF IsLeap(y) THEN 366 ELSE 365)
         /\ m < 12 => DaysBeforeMonth(y, m) + DaysInMonth(y, m) = DaysBeforeMonth(y, m + 1)
<1>1. m \in {1, 2, 3, 4, 5, 6, 7, 8, 9, 10, 11, 12}
  OBVIOUS
<1> QED
  BY <1>1 DEF DaysInMonth, DaysBeforeMonth

\* A year is as long as the calendar says.
LEMMA YearLength ==
  ASSUME NEW y \in Int
  PROVE  DaysBeforeYear(y + 1) = DaysBeforeYear(y) + (IF IsLeap(y) THEN 366 ELSE 365)
<1> DEFINE x == y - 1
<1>1. (x + 1) \div 4 = x \div 4 + (IF (x + 1) % 4 = 0 THEN 1 ELSE 0)
  OBVIOUS
<1>2. (x + 1) \div 100 = x \div 100 + (IF (x + 1) % 100 = 0 THEN 1 ELSE 0)
  OBVIOUS
<1>3. (x + 1) \div 400 = x \div 400 + (IF (x + 1) % 400 = 0 THEN 1 ELSE 0)
  OBVIOUS
<1>4. y % 100 = 0 => y % 4 = 0
  OBVIOUS
<1>5. y % 400 = 0 => y % 100 = 0
  OBVIOUS
<1> QED
  BY <1>1, <1>2, <1>3, <1>4, <1>5 DEF DaysBeforeYear, IsLeap

LEMMA DateInYear ==
  ASSUME NEW y \in Int, NEW m \in 1..12, NEW d \in 1..31, d <= DaysInMonth(y, m)
  PROVE  Ordinal(y, m, d) \in Int /\ InYear(y, Ordinal(y, m, d))
<1>1. DaysBeforeYear(y) \in Int
      /\ DaysBeforeYear(y + 1) = DaysBeforeYear(y) + (IF IsLeap(y) THEN 366 ELSE 365)
  BY DaysAreInts, YearLength
<1>2. /\ DaysInMonth(y, m) \in 28..31
      /\ DaysBeforeMonth(y, m) \in 0..335
      /\ DaysBeforeMonth(y, m) + DaysInMonth(y, m) <= (IF IsLeap(y) THEN 366 ELSE 365)
  BY MonthLengths
<1> QED
  BY <1>1, <1>2 DEF Ordinal, InYear

\* The first of the next month is one to 31 days away.
LEMMA NextMonth ==
  ASSUME NEW y \in Int, NEW m \in 1..12, NEW d \in 1..31, d <= DaysInMonth(y, m)
  PROVE  LET next == IF m = 12 THEN Ordinal(y + 1, 1, 1) ELSE Ordinal(y, m + 1, 1)
         IN  /\ next \in Int
             /\ Ordinal(y, m, d) + 1 <= next
             /\ next <= Ordinal(y, m, d) + 31
<1>1. DaysBeforeYear(y) \in Int
      /\ DaysBeforeYear(y + 1) = DaysBeforeYear(y) + (IF IsLeap(y) THEN 366 ELSE 365)
  BY DaysAreInts, YearLength
<1>2. DaysInMonth(y, m) \in 28..31 /\ DaysBeforeMonth(y, m) \in 0..335
  BY MonthLengths
<1>3. CASE m = 12
  <2>1. DaysBeforeMonth(y, 12) + DaysInMonth(y, 12) = (IF IsLeap(y) THEN 366 ELSE 365)
        /\ DaysBeforeMonth(y + 1, 1) = 0
    BY DEF DaysBeforeMonth, DaysInMonth
  <2> QED
    BY <1>1, <1>2, <1>3, <2>1 DEF Ordinal
<1>4. CASE m # 12
  <2>1. DaysBeforeMonth(y, m) + DaysInMonth(y, m) = DaysBeforeMonth(y, m + 1)
    BY <1>4, MonthLengths
  <2> QED
    BY <1>1, <1>2, <1>4, <2>1 DEF Ordinal
<1> QED
  BY <1>3, <1>4

LEMMA NextDay ==
  ASSUME NEW y \in Int, NEW m \in 1..12, NEW d \in Int
  PROVE  Ordinal(y, m, d + 1) = Ordinal(y, m, d) + 1
<1>1. DaysBeforeYear(y) \in Int /\ DaysBeforeMonth(y, m) \in 0..335
  BY DaysAreInts, MonthLengths
<1> QED
  BY <1>1 DEF Ordinal

\* The day after a month's last is the first of the next month.
LEMMA MonthEnds ==
  ASSUME NEW y \in Int, NEW m \in 1..12
  PROVE  (IF m = 12 THEN Ordinal(y + 1, 1, 1) ELSE Ordinal(y, m + 1, 1))
           = Ordinal(y, m, DaysInMonth(y, m)) + 1
<1>1. /\ DaysBeforeYear(y) \in Int
      /\ DaysBeforeYear(y + 1) = DaysBeforeYear(y) + (IF IsLeap(y) THEN 366 ELSE 365)
  BY DaysAreInts, YearLength
<1>2. DaysInMonth(y, m) \in 28..31 /\ DaysBeforeMonth(y, m) \in 0..335
  BY MonthLengths
<1>3. CASE m = 12
  <2>1. /\ DaysBeforeMonth(y, 12) + DaysInMonth(y, 12) = (IF IsLeap(y) THEN 366 ELSE 365)
        /\ DaysBeforeMonth(y + 1, 1) = 0
    BY DEF DaysBeforeMonth, DaysInMonth
  <2> QED
    BY <1>1, <1>2, <1>3, <2>1 DEF Ordinal
<1>4. CASE m # 12
  <2>1. DaysBeforeMonth(y, m) + DaysInMonth(y, m) = DaysBeforeMonth(y, m + 1)
    BY <1>4, MonthLengths
  <2> QED
    BY <1>1, <1>2, <1>4, <2>1 DEF Ordinal
<1> QED
  BY <1>3, <1>4

LEMMA InstantParts ==
  ASSUME NEW t \in Instants
  PROVE  /\ t.year \in Int /\ t.month \in 1..12 /\ t.day \in 1..31
         /\ t.day <= DaysInMonth(t.year, t.month)
         /\ t.second = 0 \/ t.second = DAY - 1
BY DEF Instants

LEMMA InstantInYear ==
  ASSUME NEW t \in Instants
  PROVE  t.year \in Int /\ DayOf(t) \in Int /\ InYear(t.year, DayOf(t))
BY InstantParts, DateInYear DEF DayOf

LEMMA Epoch == Ordinal(1970, 1, 1) \in Int
<1>1. ASSUME NEW y \in Int PROVE Ordinal(y, 1, 1) \in Int
  <2>1. DaysBeforeMonth(y, 1) = 0
    BY DEF DaysBeforeMonth
  <2> QED
    BY <2>1, DaysAreInts DEF Ordinal
<1> QED
  BY <1>1, SMT

\* Of the length of a day, no proof needs more; DAY is not expanded elsewhere.
LEMMA DayIsLong == DAY \in Nat /\ DAY >= 2
BY SMT DEF DAY

LEMMA DaysTimes ==
  ASSUME NEW a \in Int, NEW d \in Int, NEW D \in Nat
  PROVE  /\ a * D \in Int
         /\ (a + d) * D = a * D + d * D
         /\ d >= 0 => d * D >= 0
OBVIOUS

LEMMA TimestampArithmetic ==
  ASSUME NEW n \in Int, NEW k \in Int, NEW s, s = 0 \/ s = DAY - 1
  PROVE  /\ Timestamp(n, s) \in Int
         /\ Timestamp(k, -1) \in Int
         /\ n < k => Timestamp(n, s) <= Timestamp(k, -1)
         /\ k <= n + 7 => Timestamp(k, -1) < Timestamp(n, s) + 7 * DAY
         /\ k <= n + 31 => Timestamp(k, -1) < Timestamp(n, s) + 31 * DAY
<1>1. PICK e \in Int : e = Ordinal(1970, 1, 1)
  BY Epoch
<1>2. PICK D \in Nat : D = DAY /\ D >= 2
  BY DayIsLong
<1>3. s \in Int /\ 0 <= s /\ s <= D - 1
  BY <1>2
<1>4. /\ Timestamp(n, s) = (n - e) * D + s
      /\ Timestamp(k, -1) = (k - e) * D - 1
      /\ (n - e) * D \in Int /\ (k - e) * D \in Int
  <2>1. (n - e) * D \in Int /\ (k - e) * D \in Int
    BY DaysTimes
  <2> QED
    BY <1>1, <1>2, <2>1 DEF Timestamp
<1>5. n < k => (k - e) * D >= (n - e) * D + D
  <2> SUFFICES ASSUME n < k PROVE (k - e) * D >= (n - e) * D + D
    OBVIOUS
  <2>1. /\ ((n - e) + (k - n)) * D = (n - e) * D + (k - n) * D
        /\ (1 + (k - n - 1)) * D = 1 * D + (k - n - 1) * D
        /\ (k - n - 1) * D >= 0
        /\ (k - n) * D \in Int /\ (k - n - 1) * D \in Int
    BY DaysTimes
  <2>2. (n - e) + (k - n) = k - e /\ 1 + (k - n - 1) = k - n /\ 1 * D = D
    OBVIOUS
  <2> QED
    BY <1>4, <2>1, <2>2
<1>6. ASSUME NEW d \in Int, k <= n + d
      PROVE  (k - e) * D <= (n - e) * D + d * D
  <2>1. /\ ((k - e) + (n + d - k)) * D = (k - e) * D + (n + d - k) * D
        /\ ((n - e) + d) * D = (n - e) * D + d * D
        /\ (n + d - k) * D >= 0
        /\ (n + d - k) * D \in Int /\ d * D \in Int
    BY <1>6, DaysTimes
  <2>2. (k - e) + (n + d - k) = (n - e) + d
    OBVIOUS
  <2> QED
    BY <1>4, <2>1, <2>2
<1>7. /\ k <= n + 7 => (k - e) * D <= (n - e) * D + 7 * D
      /\ k <= n + 31 => (k - e) * D <= (n - e) * D + 31 * D
  BY <1>6
<1> QED
  BY <1>2, <1>3, <1>4, <1>5, <1>7

\* Two instants enter the same weekly bucket exactly if they lie in the same
\* week, Monday to Sunday, whatever years they lie in (updater.py:66-69).
THEOREM SameWeek ==
  ASSUME NEW t \in Instants, NEW u \in Instants
  PROVE  WeeklyBucket(t) = WeeklyBucket(u)
           <=> DayOf(t) - Weekday(DayOf(t)) = DayOf(u) - Weekday(DayOf(u))
<1> DEFINE n == DayOf(t)
           k == DayOf(u)
<1>1. WeeklyBucket(t) = WeeklyBucket(u)
        <=> /\ IsoYear(t.year, n) = IsoYear(u.year, k)
            /\ IsoWeek(t.year, n) = IsoWeek(u.year, k)
  BY DEF WeeklyBucket
<1>2. /\ t.year \in Int /\ n \in Int /\ InYear(t.year, n)
      /\ u.year \in Int /\ k \in Int /\ InYear(u.year, k)
  BY InstantInYear
<1> QED
  BY <1>1, <1>2, WeeksHaveNames

\* Whatever is entered into a weekly bucket is kept for TTL_GRACE, and less
\* than a week longer: the row's TTL counts from the week's last second, in
\* whichever year that is (updater.py:70-72).
THEOREM WeeklyGrace ==
  ASSUME NEW t \in Instants
  PROVE  /\ Timestamp(DayOf(t), t.second) + TTL_GRACE <= WeeklyTtl(t)
         /\ WeeklyTtl(t) < Timestamp(DayOf(t), t.second) + 7 * DAY + TTL_GRACE
<1> DEFINE n == DayOf(t)
           k == n - Weekday(n) + 7
<1>1. t.year \in Int /\ n \in Int /\ InYear(t.year, n)
  BY InstantInYear
<1>2. WeeklyTtl(t) = Timestamp(k, -1) + TTL_GRACE
  BY <1>1, MondayOfWeek DEF WeeklyTtl, WeeklyBucket
<1>3. k \in Int /\ n < k /\ k <= n + 7
  BY <1>1 DEF Weekday
<1>4. t.second = 0 \/ t.second = DAY - 1
  BY InstantParts
<1> HIDE DEF n, k
<1>5. /\ Timestamp(n, t.second) <= Timestamp(k, -1)
      /\ Timestamp(k, -1) < Timestamp(n, t.second) + 7 * DAY
      /\ Timestamp(n, t.second) \in Int /\ Timestamp(k, -1) \in Int
  BY <1>1, <1>3, <1>4, TimestampArithmetic
<1>6. TTL_GRACE \in Int /\ 7 * DAY \in Int
  BY DayIsLong DEF TTL_GRACE
<1> QED
  BY <1>2, <1>5, <1>6 DEF n

\* Likewise a monthly bucket, and less than 31 days longer (updater.py:75-82).
THEOREM MonthlyGrace ==
  ASSUME NEW t \in Instants
  PROVE  /\ Timestamp(DayOf(t), t.second) + TTL_GRACE <= MonthlyTtl(t)
         /\ MonthlyTtl(t) < Timestamp(DayOf(t), t.second) + 31 * DAY + TTL_GRACE
<1> DEFINE n == DayOf(t)
           k == FirstOfNext(t)
<1>1. n \in Int /\ (t.second = 0 \/ t.second = DAY - 1)
  BY InstantInYear, InstantParts
<1>2. k \in Int /\ n < k /\ k <= n + 31
  <2>1. /\ t.year \in Int /\ t.month \in 1..12 /\ t.day \in 1..31
        /\ t.day <= DaysInMonth(t.year, t.month)
    BY InstantParts
  <2>2. k = IF t.month = 12 THEN Ordinal(t.year + 1, 1, 1)
            ELSE Ordinal(t.year, t.month + 1, 1)
    BY DEF FirstOfNext
  <2> HIDE DEF k
  <2>3. k \in Int /\ Ordinal(t.year, t.month, t.day) + 1 <= k
        /\ k <= Ordinal(t.year, t.month, t.day) + 31
    BY <2>1, <2>2, NextMonth
  <2> QED
    BY <1>1, <2>3 DEF DayOf
<1> HIDE DEF n, k
<1>3. /\ Timestamp(n, t.second) <= Timestamp(k, -1)
      /\ Timestamp(k, -1) < Timestamp(n, t.second) + 31 * DAY
      /\ Timestamp(n, t.second) \in Int /\ Timestamp(k, -1) \in Int
  BY <1>1, <1>2, TimestampArithmetic
<1>4. TTL_GRACE \in Int /\ 31 * DAY \in Int
  BY DayIsLong DEF TTL_GRACE
<1> QED
  BY <1>3, <1>4 DEF n, k, MonthlyTtl

-----------------------------------------------------------------------------
(* The boards.                                                             *)

TtlOf(scope, t) == IF scope = "weekly" THEN WeeklyTtl(t) ELSE MonthlyTtl(t)

\* Whatever delivery d entered is of instant t, which the clock showed then.
AllOf(d, t) ==
  /\ [delivery |-> d, instant |-> t] \in shown
  /\ \A e \in entries : e.delivery = d =>
       e.bucket = BucketOf(e.scope, t) /\ e.ttl = TtlOf(e.scope, t)

\* Each delivery has its instant, the latest the one it read, and it writes
\* weekly, then monthly.
EntryInv ==
  /\ \A d \in 1..tries : \E t \in Instants : AllOf(d, t)
  /\ tries >= 1 => AllOf(tries, now)
  /\ \A e \in entries : e.scope = "monthly" =>
       \E f \in entries : f.scope = "weekly" /\ f.delivery = e.delivery
  /\ stage = "monthly" =>
       \E f \in entries : f.scope = "weekly" /\ f.delivery = tries
  /\ stage # "queue" => tries >= 1

IInv == TypeOK /\ EntryInv

\* A bucket's name fixes its TTL.
LEMMA NameFixesTtl ==
  ASSUME NEW scope, NEW t, NEW u, BucketOf(scope, t) = BucketOf(scope, u)
  PROVE  TtlOf(scope, t) = TtlOf(scope, u)
<1>1. CASE scope = "weekly"
  BY <1>1 DEF BucketOf, TtlOf, WeeklyTtl
<1>2. CASE scope # "weekly"
  <2>1. t.year = u.year /\ t.month = u.month
    BY <1>2 DEF BucketOf, MonthlyBucket
  <2>2. FirstOfNext(t) = FirstOfNext(u)
    BY <2>1 DEF FirstOfNext
  <2> QED
    BY <1>2, <2>2 DEF TtlOf, MonthlyTtl
<1> QED
  BY <1>1, <1>2

\* The clock goes from one instant to another.
LEMMA ClockGoesOn ==
  ASSUME NEW t \in Instants
  PROVE  NextInstant(t) \in Instants
<1>1. /\ t \in [year : Nat, month : 1..12, day : 1..31, second : {0, DAY - 1}]
      /\ t.year >= 1 /\ t.day <= DaysInMonth(t.year, t.month)
  BY DEF Instants
<1>2. \A y \in Nat, m \in 1..12 : DaysInMonth(y, m) \in 28..31
  BY MonthLengths
<1>3. CASE t.second = 0
  BY <1>1, <1>3 DEF NextInstant, Instants
<1>4. CASE t.second # 0 /\ ~LastDay(t)
  <2>1. NextInstant(t) = [t EXCEPT !.second = 0, !.day = @ + 1]
    BY <1>4 DEF NextInstant
  <2>2. t.day + 1 \in 1..31 /\ t.day + 1 <= DaysInMonth(t.year, t.month)
    <3>1. DaysInMonth(t.year, t.month) \in 28..31
      BY <1>1, <1>2
    <3> QED
      BY <1>1, <1>4, <3>1 DEF LastDay
  <2> DEFINE u == [t EXCEPT !.second = 0, !.day = @ + 1]
  <2>3. /\ u \in [year : Nat, month : 1..12, day : 1..31, second : {0, DAY - 1}]
        /\ u.year = t.year /\ u.month = t.month /\ u.day = t.day + 1
    BY <1>1, <2>2
  <2> HIDE DEF u
  <2>4. u.year >= 1 /\ u.day <= DaysInMonth(u.year, u.month)
    BY <1>1, <2>2, <2>3
  <2>5. u \in Instants
    BY <2>3, <2>4 DEF Instants
  <2> QED
    BY <2>1, <2>5 DEF u
<1>5. CASE t.second # 0 /\ LastDay(t) /\ t.month < 12
  <2>1. NextInstant(t) = [t EXCEPT !.second = 0, !.day = 1, !.month = @ + 1]
    BY <1>5 DEF NextInstant
  <2> DEFINE u == [t EXCEPT !.second = 0, !.day = 1, !.month = @ + 1]
  <2>2. /\ u \in [year : Nat, month : 1..12, day : 1..31, second : {0, DAY - 1}]
        /\ u.year = t.year /\ u.month = t.month + 1 /\ u.day = 1
    <3>1. t.month + 1 \in 1..12 /\ 1 \in 1..31 /\ 0 \in {0, DAY - 1}
      BY <1>1, <1>5
    <3> QED
      BY <1>1, <3>1
  <2> HIDE DEF u
  <2>3. DaysInMonth(u.year, u.month) \in 28..31
    BY <1>2, <2>2
  <2>4. u.year >= 1 /\ u.day <= DaysInMonth(u.year, u.month)
    BY <1>1, <2>2, <2>3
  <2>5. u \in Instants
    BY <2>2, <2>4 DEF Instants
  <2> QED
    BY <2>1, <2>5 DEF u
<1>6. CASE t.second # 0 /\ LastDay(t) /\ ~(t.month < 12)
  <2>1. NextInstant(t) = [year |-> t.year + 1, month |-> 1, day |-> 1, second |-> 0]
    BY <1>6 DEF NextInstant
  <2>2. 1 \in 1..12 /\ t.year + 1 \in Nat
    BY <1>1
  <2> QED
    BY <1>1, <1>2, <2>1, <2>2 DEF Instants
<1> QED
  BY <1>3, <1>4, <1>5, <1>6

LEMMA InitInv == Init => IInv
<1> SUFFICES ASSUME Init PROVE IInv
  OBVIOUS
<1>1. clock \in Instants
  <2>1. 1 \in 1..12 /\ DaysInMonth(FirstYear, 1) = 31
    BY DEF DaysInMonth
  <2> QED
    BY <2>1, BucketsAssumption DEF Init, Instants
<1> QED
  BY <1>1, BucketsAssumption DEF Init, IInv, TypeOK, EntryInv

\* A write leaves the log of entries as EntryInv describes it.
LEMMA WriteKeeps ==
  ASSUME IInv, NEW scope \in Scopes,
         stage = (IF scope = "weekly" THEN "weekly" ELSE "monthly"),
         AddXp(scope, BucketOf(scope, now), TtlOf(scope, now)),
         stage' = (IF scope = "weekly" THEN "monthly" ELSE "done"),
         UNCHANGED <<clock, weekday, now, tries, age, shown>>
  PROVE  IInv'
<1> DEFINE new == [delivery |-> tries, scope |-> scope, bucket |-> BucketOf(scope, now),
                   ttl |-> TtlOf(scope, now)]
<1>1. entries' = entries \cup {new}
  BY DEF AddXp
<1>2. /\ new.delivery = tries /\ new.scope = scope
      /\ new.bucket = BucketOf(new.scope, now) /\ new.ttl = TtlOf(new.scope, now)
  OBVIOUS
<1> HIDE DEF new
<1>3. TypeOK'
  <2>1. tries \in 1..tries
    BY DEF IInv, TypeOK, EntryInv, Scopes
  <2>2. stage' \in {"queue", "weekly", "monthly", "done"}
    OBVIOUS
  <2> QED
    BY <1>1, <1>2, <2>1, <2>2 DEF IInv, TypeOK
<1>4. EntryInv'
  <2>1. /\ \A d \in 1..tries : \E t \in Instants : AllOf(d, t)'
        /\ tries >= 1 => AllOf(tries, now)'
    <3>1. tries >= 1 /\ now \in Instants /\ AllOf(tries, now)
      BY DEF IInv, TypeOK, EntryInv, Scopes
    <3>2. AllOf(tries, now)'
      BY <1>1, <1>2, <3>1 DEF AllOf
    <3>3. ASSUME NEW d \in 1..tries, d # tries PROVE \E t \in Instants : AllOf(d, t)'
      <4>1. PICK t \in Instants : AllOf(d, t)
        BY DEF IInv, EntryInv
      <4>2. AllOf(d, t)'
        BY <1>1, <1>2, <3>3, <4>1 DEF AllOf
      <4> QED
        BY <4>2
    <3> QED
      BY <3>1, <3>2, <3>3
  <2>2. CASE scope = "weekly"
    BY <1>1, <1>2, <2>1, <2>2 DEF IInv, EntryInv
  <2>3. CASE scope = "monthly"
    BY <1>1, <1>2, <2>1, <2>3 DEF IInv, EntryInv
  <2> QED
    BY <2>2, <2>3 DEF Scopes
<1> QED
  BY <1>3, <1>4 DEF IInv

LEMMA NextInv == IInv /\ [Next]_vars => IInv'
<1> SUFFICES ASSUME IInv, [Next]_vars PROVE IInv'
  OBVIOUS
<1>1. CASE Tick
  <2>1. clock' \in Instants
    BY <1>1, ClockGoesOn DEF Tick, IInv, TypeOK
  <2>2. weekday' \in 0..6
    BY <1>1 DEF Tick, IInv, TypeOK
  <2>3. age' \in 0..Retention
    BY <1>1, BucketsAssumption DEF Tick, IInv, TypeOK
  <2>4. UNCHANGED <<stage, now, tries, entries>>
    BY <1>1 DEF Tick
  <2>5. /\ shown \subseteq shown'
        /\ \A s \in shown' \ shown : stage # "queue" /\ s.delivery = tries /\ s.instant = clock'
    BY <1>1 DEF Tick, Shows
  <2>6. TypeOK'
    BY <2>1, <2>2, <2>3, <2>4, <2>5 DEF IInv, TypeOK, EntryInv
  <2>7. \A d, t : AllOf(d, t) => AllOf(d, t)'
    BY <2>4, <2>5 DEF AllOf
  <2>8. EntryInv'
    BY <2>4, <2>7 DEF IInv, EntryInv
  <2> QED
    BY <2>6, <2>8 DEF IInv
<1>2. CASE Deliver
  <2>1. /\ tries' = tries + 1 /\ tries' \in 0..MaxReceive
        /\ 1..tries \subseteq 1..(tries')
    BY <1>2, BucketsAssumption DEF Deliver, IInv, TypeOK
  <2>2. /\ now' = clock /\ stage' = "weekly" /\ UNCHANGED <<clock, weekday, age, entries>>
        /\ shown' = shown \cup {[delivery |-> tries', instant |-> clock]}
    BY <1>2 DEF Deliver, Shows
  <2>3. TypeOK'
    BY <2>1, <2>2 DEF IInv, TypeOK
  <2>4. ASSUME NEW d \in 1..tries PROVE \E t \in Instants : AllOf(d, t)'
    <3>1. PICK t \in Instants : AllOf(d, t)
      BY DEF IInv, EntryInv
    <3>2. AllOf(d, t)'
      BY <2>2, <3>1 DEF AllOf
    <3> QED
      BY <3>2
  <2>5. AllOf(tries, now)'
    BY <2>1, <2>2 DEF IInv, TypeOK, AllOf
  <2>6. \A d \in 1..(tries') : d \in 1..tries \/ d = tries'
    BY <2>1 DEF IInv, TypeOK
  <2>7. \A d \in 1..(tries') : \E t \in Instants : AllOf(d, t)'
    <3>1. PICK t \in Instants : t = now'
      BY <2>3 DEF TypeOK
    <3>2. ASSUME NEW d, d = tries' PROVE \E u \in Instants : AllOf(d, u)'
      <4>1. AllOf(d, t)'
        BY <2>5, <3>1, <3>2 DEF AllOf
      <4> QED
        BY <4>1
    <3> QED
      BY <2>4, <2>6, <3>2
  <2> QED
    BY <2>1, <2>2, <2>3, <2>5, <2>7 DEF IInv, TypeOK, EntryInv
<1>3. CASE WriteWeekly
  <2>1. "weekly" \in Scopes
    BY DEF Scopes
  <2> QED
    BY <1>3, <2>1, WriteKeeps DEF WriteWeekly, BucketOf, TtlOf
<1>4. CASE WriteMonthly
  <2>1. "monthly" \in Scopes
    BY DEF Scopes
  <2> QED
    BY <1>4, <2>1, WriteKeeps DEF WriteMonthly, BucketOf, TtlOf
<1>5. CASE Fail
  BY <1>5 DEF Fail, IInv, TypeOK, EntryInv, AllOf
<1>6. CASE UNCHANGED vars
  BY <1>6 DEF vars, IInv, TypeOK, EntryInv, AllOf
<1> QED
  BY <1>1, <1>2, <1>3, <1>4, <1>5, <1>6 DEF Next

LEMMA AlwaysInv == Spec => []IInv
BY InitInv, NextInv, PTL DEF Spec

\* Every variable keeps its type; the clock only shows dates there are.
THEOREM TypeCorrect == Spec => []TypeOK
<1>1. IInv => TypeOK
  BY DEF IInv
<1> QED
  BY <1>1, AlwaysInv, PTL

\* The boards a delivery enters were open together while it was under way,
\* whatever midnight comes between its writes (updater.py:46-58).
THEOREM OneInstant == Spec => []OneInstantPerDelivery
<1>1. IInv => OneInstantPerDelivery
  <2> SUFFICES ASSUME IInv, NEW d \in 1..tries
               PROVE  \E s \in shown :
                        /\ s.delivery = d
                        /\ \A e \in entries :
                             e.delivery = d => e.bucket = BucketOf(e.scope, s.instant)
    BY DEF OneInstantPerDelivery
  <2>1. PICK t \in Instants : AllOf(d, t)
    BY DEF IInv, EntryInv
  <2> DEFINE s == [delivery |-> d, instant |-> t]
  <2>2. s \in shown /\ s.delivery = d /\ s.instant = t
    BY <2>1 DEF AllOf
  <2> HIDE DEF s
  <2>3. \A e \in entries : e.delivery = d => e.bucket = BucketOf(e.scope, s.instant)
    BY <2>1, <2>2 DEF AllOf
  <2> QED
    BY <2>2, <2>3
<1> QED
  BY <1>1, AlwaysInv, PTL

\* The monthly board is covered by the weekly ones, and TTLs do not move.
THEOREM Consistent == Spec => []BoardsConsistent
<1>1. IInv => BoardsConsistent
  <2> SUFFICES ASSUME IInv PROVE BoardsConsistent
    OBVIOUS
  <2>1. ASSUME NEW e \in entries, NEW f \in entries,
               e.scope = f.scope, e.bucket = f.bucket
        PROVE  e.ttl = f.ttl
    <3>1. e.delivery \in 1..tries /\ f.delivery \in 1..tries
      BY DEF IInv, TypeOK
    <3>2. PICK t \in Instants : AllOf(e.delivery, t)
      BY <3>1 DEF IInv, EntryInv
    <3>3. PICK u \in Instants : AllOf(f.delivery, u)
      BY <3>1 DEF IInv, EntryInv
    <3>4. /\ e.bucket = BucketOf(e.scope, t) /\ e.ttl = TtlOf(e.scope, t)
          /\ f.bucket = BucketOf(f.scope, u) /\ f.ttl = TtlOf(f.scope, u)
      BY <3>2, <3>3 DEF AllOf
    <3>5. BucketOf(e.scope, t) = BucketOf(e.scope, u)
      BY <2>1, <3>4
    <3>6. TtlOf(e.scope, t) = TtlOf(e.scope, u)
      BY <3>5, NameFixesTtl
    <3> QED
      BY <2>1, <3>4, <3>6
  <2> QED
    BY <2>1 DEF IInv, EntryInv, BoardsConsistent
<1> QED
  BY <1>1, AlwaysInv, PTL

-----------------------------------------------------------------------------
(* Midnight.                                                               *)

\* The clock either goes from the first to the last second of a date, or to
\* the first second of the day after, which is the next of the month or the
\* first of the next month.
LEMMA ClockSteps ==
  ASSUME NEW t \in Instants, NEW u \in Instants, u = NextInstant(t)
  PROVE  \/ /\ u.second # 0
            /\ u.year = t.year /\ u.month = t.month /\ u.day = t.day
         \/ /\ u.second = 0 /\ DayOf(u) = DayOf(t) + 1
            /\ \/ u.year = t.year /\ u.month = t.month /\ u.day = t.day + 1
               \/ /\ u.day = 1 /\ t.day # 1
                  /\ MonthlyBucket(u) # MonthlyBucket(t) /\ DayOf(u) = FirstOfNext(t)
<1>1. /\ t \in [year : Nat, month : 1..12, day : 1..31, second : {0, DAY - 1}]
      /\ t.day <= DaysInMonth(t.year, t.month)
      /\ DaysInMonth(t.year, t.month) \in 28..31
  BY MonthLengths DEF Instants
<1>2. CASE t.second = 0
  <2>1. u = [t EXCEPT !.second = DAY - 1]
    BY <1>2 DEF NextInstant
  <2> QED
    BY <1>1, <2>1, DayIsLong
<1>3. CASE t.second # 0 /\ ~LastDay(t)
  <2>1. u = [t EXCEPT !.second = 0, !.day = @ + 1]
    BY <1>3 DEF NextInstant
  <2>2. u.second = 0 /\ u.year = t.year /\ u.month = t.month /\ u.day = t.day + 1
    BY <1>1, <2>1
  <2>3. DayOf(u) = Ordinal(t.year, t.month, t.day + 1)
    BY <2>2 DEF DayOf
  <2>4. DayOf(u) = DayOf(t) + 1
    <3>1. t.year \in Int /\ t.month \in 1..12 /\ t.day \in Int
      BY InstantParts
    <3>2. Ordinal(t.year, t.month, t.day + 1) = Ordinal(t.year, t.month, t.day) + 1
      BY <3>1, NextDay
    <3> QED
      BY <2>3, <3>2 DEF DayOf
  <2> QED
    BY <2>2, <2>4
<1>4. CASE t.second # 0 /\ LastDay(t)
  <2>1. u.second = 0 /\ u.day = 1 /\ u.month # t.month /\ DayOf(u) = FirstOfNext(t)
    <3>1. CASE t.month < 12
      <4>1. u = [t EXCEPT !.second = 0, !.day = 1, !.month = @ + 1]
        BY <1>4, <3>1 DEF NextInstant
      <4> QED
        BY <1>1, <3>1, <4>1 DEF FirstOfNext, DayOf
    <3>2. CASE ~(t.month < 12)
      <4>1. u = [year |-> t.year + 1, month |-> 1, day |-> 1, second |-> 0]
        BY <1>4, <3>2 DEF NextInstant
      <4> QED
        BY <1>1, <3>2, <4>1 DEF FirstOfNext, DayOf
    <3> QED
      BY <3>1, <3>2
  <2>2. t.day = DaysInMonth(t.year, t.month) /\ t.day # 1
    BY <1>1, <1>4 DEF LastDay
  <2>3. FirstOfNext(t) = DayOf(t) + 1
    <3>1. t.year \in Int /\ t.month \in 1..12
      BY InstantParts
    <3>2. FirstOfNext(t) = Ordinal(t.year, t.month, DaysInMonth(t.year, t.month)) + 1
      BY <3>1, MonthEnds DEF FirstOfNext
    <3> QED
      BY <2>2, <3>2 DEF DayOf
  <2> QED
    BY <2>1, <2>2, <2>3 DEF MonthlyBucket
<1> QED
  BY <1>2, <1>3, <1>4

\* The week after a week is the next of its ISO year or the first of the next.
LEMMA WeekFollows ==
  ASSUME NEW y \in Int, NEW n \in Int, InYear(y, n), Weekday(n) = 6,
         NEW z \in Int, InYear(z, n + 1)
  PROVE  \/ IsoYear(z, n + 1) = IsoYear(y, n) /\ IsoWeek(z, n + 1) = IsoWeek(y, n) + 1
         \/ IsoYear(z, n + 1) = IsoYear(y, n) + 1 /\ IsoWeek(z, n + 1) = 1
<1> DEFINE a == IsoYear(y, n)
           b == IsoYear(z, n + 1)
<1>1. n + 1 \in Int /\ Weekday(n + 1) = 0
  BY DEF Weekday
<1>2. /\ a \in Int /\ Week1Monday(a) <= n /\ n < Week1Monday(a + 1)
      /\ b \in Int /\ Week1Monday(b) <= n + 1 /\ n + 1 < Week1Monday(b + 1)
  BY <1>1, IsoYearSpan
<1>3. MondayOf(a, IsoWeek(y, n)) = n - 6 /\ MondayOf(b, IsoWeek(z, n + 1)) = n + 1
  BY <1>1, MondayOfWeek
<1>4. /\ Week1Monday(a) \in Int /\ Week1Monday(b) \in Int
      /\ Week1Monday(a + 1) \in Int /\ Week1Monday(b + 1) \in Int
  BY <1>2, Week1
<1>5. IsoWeek(y, n) \in Int /\ IsoWeek(z, n + 1) \in Int
  BY <1>1, <1>4 DEF IsoWeek
<1> HIDE DEF a, b
<1>6. b = a \/ b = a + 1
  <2>1. ~(b + 1 <= a)
    <3>1. b + 1 < a => Week1Monday(b + 1) < Week1Monday(a)
      BY <1>2, Week1Grows
    <3> QED
      BY <1>2, <1>4, <3>1
  <2>2. ~(a + 1 < b)
    <3>1. a + 1 < b => Week1Monday(a + 1) < Week1Monday(b)
      BY <1>2, Week1Grows
    <3> QED
      BY <1>2, <1>4, <3>1
  <2> QED
    BY <1>2, <2>1, <2>2
<1>7. CASE b = a
  BY <1>3, <1>4, <1>5, <1>7 DEF MondayOf, a, b
<1>8. CASE b = a + 1
  <2>1. Week1Monday(b) = n + 1
    BY <1>2, <1>4, <1>8
  <2>2. IsoWeek(z, n + 1) = 1
    BY <1>3, <1>4, <1>5, <2>1 DEF MondayOf
  <2> QED
    BY <1>8, <2>2 DEF a, b
<1> QED
  BY <1>6, <1>7, <1>8

LEMMA MidnightIsLastSecond ==
  ASSUME NEW n \in Int
  PROVE  Timestamp(n, -1) = Timestamp(n, 0) - 1
<1>1. PICK e \in Int : e = Ordinal(1970, 1, 1)
  BY Epoch
<1>2. (n - e) * DAY \in Int
  BY DayIsLong, DaysTimes
<1> QED
  BY <1>1, <1>2 DEF Timestamp

\* The counted weekday is the calendar's.
WeekdayRight == weekday = Weekday(DayOf(clock))

LEMMA WeekdayStep ==
  ASSUME IInv, Tick, WeekdayRight
  PROVE  /\ clock' \in Instants /\ clock' = NextInstant(clock)
         /\ WeekdayRight'
<1>1. clock \in Instants /\ clock' = NextInstant(clock) /\ clock' \in Instants
  BY ClockGoesOn DEF Tick, IInv, TypeOK
<1>2. DayOf(clock) \in Int
  BY <1>1, InstantInYear
<1>3. CASE clock'.second # 0
  <2>1. DayOf(clock') = DayOf(clock)
    BY <1>1, <1>3, ClockSteps DEF DayOf
  <2> QED
    BY <1>1, <1>3, <2>1 DEF Tick, WeekdayRight
<1>4. CASE clock'.second = 0
  <2>1. DayOf(clock') = DayOf(clock) + 1
    BY <1>1, <1>4, ClockSteps
  <2>2. weekday' = (Weekday(DayOf(clock)) + 1) % 7
    BY <1>4 DEF Tick, WeekdayRight
  <2> QED
    BY <1>1, <1>2, <2>1, <2>2 DEF WeekdayRight, Weekday
<1> QED
  BY <1>3, <1>4

\* What one step of the clock does to the weekly board, and to the monthly one.
WeekTurns ==
  LET old == WeeklyBucket(clock)  new == WeeklyBucket(clock')
  IN  IF weekday' = 0 /\ weekday = 6
        THEN /\ new \in {<<old[1], old[2] + 1>>, <<old[1] + 1, 1>>}
             /\ WeeklyTtl(clock) = Midnight(clock') - 1 + TTL_GRACE
        ELSE new = old /\ WeeklyTtl(clock') = WeeklyTtl(clock)

MonthTurns ==
  IF clock'.day = 1 /\ clock.day # 1
    THEN /\ MonthlyBucket(clock') # MonthlyBucket(clock)
         /\ MonthlyTtl(clock) = Midnight(clock') - 1 + TTL_GRACE
    ELSE MonthlyTtl(clock') = MonthlyTtl(clock)

\* Two days that no Sunday's midnight parts are in the same week.
LEMMA SundaysPart ==
  ASSUME NEW n \in Int, NEW k, k = n \/ k = n + 1
  PROVE  /\ Weekday(k) = 0 /\ Weekday(n) = 6 => k = n + 1
         /\ ~(Weekday(k) = 0 /\ Weekday(n) = 6) => n - Weekday(n) = k - Weekday(k)
<1>1. Weekday(n) \in 0..6
  BY DEF Weekday
<1>2. Weekday(n + 1) = IF Weekday(n) = 6 THEN 0 ELSE Weekday(n) + 1
  BY DEF Weekday
<1>3. CASE k = n
  BY <1>1, <1>3
<1>4. CASE k = n + 1
  BY <1>1, <1>2, <1>4
<1> QED
  BY <1>3, <1>4

LEMMA WeekStep ==
  ASSUME IInv, Tick, WeekdayRight
  PROVE  WeekTurns
<1> DEFINE n == DayOf(clock)
           k == DayOf(clock')
<1>1. /\ clock \in Instants /\ clock' \in Instants /\ clock' = NextInstant(clock)
      /\ weekday = Weekday(n) /\ weekday' = Weekday(k)
  BY WeekdayStep DEF IInv, TypeOK, WeekdayRight
<1>2. /\ clock.year \in Int /\ n \in Int /\ InYear(clock.year, n)
      /\ clock'.year \in Int /\ k \in Int /\ InYear(clock'.year, k)
  BY <1>1, InstantInYear
<1>3. k = n \/ k = n + 1
  BY <1>1, ClockSteps DEF DayOf
<1>4. CASE weekday' = 0 /\ weekday = 6
  <2>1. k = n + 1 /\ Weekday(n) = 6
    BY <1>1, <1>2, <1>3, <1>4, SundaysPart
  <2>2. WeeklyTtl(clock) = Timestamp(n - 6 + 7, -1) + TTL_GRACE
    BY <1>2, <2>1, MondayOfWeek DEF WeeklyTtl, WeeklyBucket
  <2>3. n - 6 + 7 = k
    BY <1>2, <2>1
  <2>4. WeeklyTtl(clock) = Midnight(clock') - 1 + TTL_GRACE
    BY <1>2, <2>2, <2>3, MidnightIsLastSecond DEF Midnight
  <2>5. \/ /\ IsoYear(clock'.year, k) = IsoYear(clock.year, n)
           /\ IsoWeek(clock'.year, k) = IsoWeek(clock.year, n) + 1
        \/ /\ IsoYear(clock'.year, k) = IsoYear(clock.year, n) + 1
           /\ IsoWeek(clock'.year, k) = 1
    BY <1>2, <2>1, WeekFollows
  <2> QED
    BY <1>4, <2>4, <2>5 DEF WeekTurns, WeeklyBucket
<1>5. CASE ~(weekday' = 0 /\ weekday = 6)
  <2>1. n - Weekday(n) = k - Weekday(k)
    BY <1>1, <1>2, <1>3, <1>5, SundaysPart
  <2>2. WeeklyBucket(clock') = WeeklyBucket(clock)
    BY <1>1, <2>1, SameWeek
  <2> QED
    BY <1>5, <2>2 DEF WeekTurns, WeeklyTtl
<1> QED
  BY <1>4, <1>5

LEMMA MonthStep ==
  ASSUME IInv, Tick, WeekdayRight
  PROVE  MonthTurns
<1>1. clock \in Instants /\ clock' \in Instants /\ clock' = NextInstant(clock)
  BY WeekdayStep DEF IInv, TypeOK
<1>2. clock.day \in 1..31 /\ DayOf(clock') \in Int
  BY <1>1, InstantParts, InstantInYear
<1>3. CASE clock'.year = clock.year /\ clock'.month = clock.month
            /\ clock'.day \in {clock.day, clock.day + 1}
  <2>1. FirstOfNext(clock') = FirstOfNext(clock)
    BY <1>3 DEF FirstOfNext
  <2> QED
    BY <1>2, <1>3, <2>1 DEF MonthTurns, MonthlyTtl
<1>4. CASE /\ clock'.day = 1 /\ clock.day # 1
           /\ MonthlyBucket(clock') # MonthlyBucket(clock)
           /\ DayOf(clock') = FirstOfNext(clock)
  <2>1. MonthlyTtl(clock) = Midnight(clock') - 1 + TTL_GRACE
    BY <1>2, <1>4, MidnightIsLastSecond DEF MonthlyTtl, Midnight
  <2> QED
    BY <1>4, <2>1 DEF MonthTurns
<1> QED
  BY <1>1, <1>3, <1>4, ClockSteps

\* In every year, the weekly board turns over at the midnight before a Monday
\* and the monthly one at that before a first, each to a name of its own, and
\* a closed board's rows expire TTL_GRACE after its last second: if the clock
\* starts on the right weekday (updater.py:66-82).
THEOREM MidnightTurnsBoards ==
  FirstWeekday = Weekday(Ordinal(FirstYear, 1, 1)) => (Spec => BoardsTurnOver)
<1> SUFFICES ASSUME FirstWeekday = Weekday(Ordinal(FirstYear, 1, 1))
             PROVE  Spec => BoardsTurnOver
  OBVIOUS
<1> DEFINE Turns == clock' # clock => WeekTurns /\ MonthTurns
<1>1. Init => WeekdayRight
  BY DEF Init, WeekdayRight, DayOf
<1>2. IInv /\ [Next]_vars /\ WeekdayRight => WeekdayRight'
  BY WeekdayStep DEF Next, Deliver, WriteWeekly, WriteMonthly, Fail, vars, WeekdayRight
<1>3. IInv /\ [Next]_vars /\ WeekdayRight => [Turns]_vars
  BY WeekStep, MonthStep DEF Next, Deliver, WriteWeekly, WriteMonthly, Fail, vars
<1>4. [Turns]_vars =>
        [clock' # clock =>
           LET old == WeeklyBucket(clock)  new == WeeklyBucket(clock')
           IN  /\ IF weekday' = 0 /\ weekday = 6
                    THEN /\ new \in {<<old[1], old[2] + 1>>, <<old[1] + 1, 1>>}
                         /\ WeeklyTtl(clock) = Midnight(clock') - 1 + TTL_GRACE
                    ELSE new = old /\ WeeklyTtl(clock') = WeeklyTtl(clock)
               /\ IF clock'.day = 1 /\ clock.day # 1
                    THEN /\ MonthlyBucket(clock') # MonthlyBucket(clock)
                         /\ MonthlyTtl(clock) = Midnight(clock') - 1 + TTL_GRACE
                    ELSE MonthlyTtl(clock') = MonthlyTtl(clock)]_vars
  BY DEF WeekTurns, MonthTurns
<1> QED
  BY <1>1, <1>2, <1>3, <1>4, AlwaysInv, PTL DEF Spec, BoardsTurnOver
=============================================================================
