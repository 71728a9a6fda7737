------------------------- MODULE LeaderboardBuckets -------------------------
(***************************************************************************)
(* The buckets of leaderboard/updater.py while the calendar goes on: one   *)
(* award is delivered, fails between its two writes, and is delivered      *)
(* again some days later.  An award has no date of its own; the buckets it *)
(* enters are those of the moment a delivery reads the clock.              *)
(*                                                                         *)
(* The clock shows the first and the last second of each day, one date     *)
(* after the other; which day of the week it is it counts by itself.       *)
(***************************************************************************)
EXTENDS Calendar, FiniteSets

CONSTANTS
  FirstYear, LastYear,  \* bound: the years the clock goes through
  FirstWeekday,         \* of January 1 of FirstYear, 0 for a Monday
  MaxReceive,           \* maxReceiveCount of the queue
  Retention             \* bound: ticks between an award's deliveries

ASSUME BucketsAssumption ==
  /\ FirstYear \in Nat /\ LastYear \in Nat /\ FirstYear >= 1
  /\ FirstWeekday \in 0..6
  /\ MaxReceive \in Nat /\ Retention \in Nat

VARIABLES
  clock,    \* [year, month, day, second]
  weekday,  \* of the clock's date, counted
  stage,    \* of the award: "queue", "weekly", "monthly" (its next write), "done"
  now,      \* the instant this delivery's update_leaderboard read
  tries,    \* deliveries so far
  age,      \* ticks since the first
  entries,  \* history: the ADDs that were made
  shown     \* history: what the clock showed from each delivery to its last write

vars == <<clock, weekday, stage, now, tries, age, entries, shown>>

DAY == 86400

Instants ==
  {t \in [year : Nat, month : 1..12, day : 1..31, second : {0, DAY - 1}] :
     t.year >= 1 /\ t.day <= DaysInMonth(t.year, t.month)}

DayOf(t) == Ordinal(t.year, t.month, t.day)

\* Seconds since 1970-01-01.
Timestamp(day, second) == (day - Ordinal(1970, 1, 1)) * DAY + second

TTL_GRACE == 30 * DAY

\* Broken: the calendar year in front of the ISO week.
BrokenWeeklyBucket(t) == <<t.year, IsoWeek(t.year, DayOf(t))>>

\* _weekly_bucket: the year and week in the bucket's name, and its TTL.
WeeklyBucket(t) == <<IsoYear(t.year, DayOf(t)), IsoWeek(t.year, DayOf(t))>>

\* Broken: the week of grace begins with the write.
BrokenWeeklyTtl(t) == Timestamp(DayOf(t) + 7, -1) + TTL_GRACE

WeeklyTtl(t) ==
  Timestamp(MondayOf(WeeklyBucket(t)[1], WeeklyBucket(t)[2]) + 7, -1) + TTL_GRACE

\* _monthly_bucket
MonthlyBucket(t) == <<t.year, t.month>>

FirstOfNext(t) ==
  IF t.month = 12 THEN Ordinal(t.year + 1, 1, 1) ELSE Ordinal(t.year, t.month + 1, 1)

MonthlyTtl(t) == Timestamp(FirstOfNext(t), -1) + TTL_GRACE

-----------------------------------------------------------------------------
Scopes == {"weekly", "monthly"}

TypeOK ==
  /\ clock \in Instants /\ now \in Instants
  /\ weekday \in 0..6
  /\ stage \in {"queue", "weekly", "monthly", "done"}
  /\ tries \in 0..MaxReceive
  /\ age \in 0..Retention
  /\ \A e \in entries :
       e.delivery \in 1..tries /\ e.scope \in Scopes
  /\ \A s \in shown :
       s.delivery \in 1..tries /\ s.instant \in Instants

Init ==
  /\ clock = [year |-> FirstYear, month |-> 1, day |-> 1, second |-> 0]
  /\ weekday = FirstWeekday
  /\ stage = "queue"
  /\ now = clock
  /\ tries = 0
  /\ age = 0
  /\ entries = {} /\ shown = {}

-----------------------------------------------------------------------------
LastDay(t) == t.day = DaysInMonth(t.year, t.month)

NextInstant(t) ==
  CASE t.second = 0 -> [t EXCEPT !.second = DAY - 1]
    [] t.second # 0 /\ ~LastDay(t) -> [t EXCEPT !.second = 0, !.day = @ + 1]
    [] t.second # 0 /\ LastDay(t) /\ t.month < 12 ->
         [t EXCEPT !.second = 0, !.day = 1, !.month = @ + 1]
    [] OTHER -> [year |-> t.year + 1, month |-> 1, day |-> 1, second |-> 0]

\* Delivery d sees the clock show t.
Shows(d, t) == shown' = shown \cup {[delivery |-> d, instant |-> t]}

\* Time passes, at most Retention ticks between an award's first delivery and
\* its last write, and none once it is acknowledged or dead.
Tick ==
  /\ stage # "done" /\ (stage = "queue" => tries < MaxReceive)
  /\ tries > 0 => age < Retention
  /\ clock' = NextInstant(clock)
  /\ clock'.year <= LastYear
  /\ weekday' = IF clock'.second = 0 THEN (weekday + 1) % 7 ELSE weekday
  /\ age' = IF tries > 0 THEN age + 1 ELSE 0
  /\ IF stage \in {"weekly", "monthly"} THEN Shows(tries, clock') ELSE UNCHANGED shown
  /\ UNCHANGED <<stage, now, tries, entries>>

\* Broken: one delivery more than the queue allows.
BrokenDeliver ==
  /\ stage = "queue"
  /\ tries <= MaxReceive
  /\ tries' = tries + 1
  /\ now' = clock /\ Shows(tries', clock)
  /\ stage' = "weekly"
  /\ UNCHANGED <<clock, weekday, age, entries>>

\* The award is delivered and update_leaderboard reads the clock.
Deliver ==
  /\ stage = "queue"
  /\ tries < MaxReceive
  /\ tries' = tries + 1
  /\ now' = clock /\ Shows(tries', clock)
  /\ stage' = "weekly"
  /\ UNCHANGED <<clock, weekday, age, entries>>

\* _add_xp: ADD xp and SET ttl in one update of the bucket's row.
AddXp(scope, bucket, ttl) ==
  entries' = entries \cup
    {[delivery |-> tries, scope |-> scope, bucket |-> bucket, ttl |-> ttl]}

WriteWeekly ==
  /\ stage = "weekly"
  /\ AddXp("weekly", WeeklyBucket(now), WeeklyTtl(now))
  /\ stage' = "monthly"
  /\ UNCHANGED <<clock, weekday, now, tries, age, shown>>

\* Broken: the clock is read again.
BrokenWriteMonthly ==
  /\ stage = "monthly"
  /\ now' = clock
  /\ AddXp("monthly", MonthlyBucket(now'), MonthlyTtl(now'))
  /\ stage' = "done"
  /\ UNCHANGED <<clock, weekday, tries, age, shown>>

WriteMonthly ==
  /\ stage = "monthly"
  /\ AddXp("monthly", MonthlyBucket(now), MonthlyTtl(now))
  /\ stage' = "done"
  /\ UNCHANGED <<clock, weekday, now, tries, age, shown>>

\* A write, or something after both, fails and the message goes back.
Fail ==
  /\ stage \in {"weekly", "monthly", "done"}
  /\ stage' = "queue"
  /\ UNCHANGED <<clock, weekday, now, tries, age, entries, shown>>

Next == Tick \/ Deliver \/ WriteWeekly \/ WriteMonthly \/ Fail

Spec == Init /\ [][Next]_vars

-----------------------------------------------------------------------------
Midnight(t) == Timestamp(DayOf(t), 0)

\* The weekly board turns over on Mondays at midnight, the monthly one on the
\* first of each month, and at no other time, New Year included; a new week
\* never has the name of an old one, and the rows of a board that closes expire
\* TTL_GRACE after its last second (updater.py:66-82).
BoardsTurnOver ==
  [][clock' # clock =>
       LET old == WeeklyBucket(clock)  new == WeeklyBucket(clock')
       IN  /\ IF weekday' = 0 /\ weekday = 6
                THEN /\ new \in {<<old[1], old[2] + 1>>, <<old[1] + 1, 1>>}
                     /\ WeeklyTtl(clock) = Midnight(clock') - 1 + TTL_GRACE
                ELSE new = old /\ WeeklyTtl(clock') = WeeklyTtl(clock)
           /\ IF clock'.day = 1 /\ clock.day # 1
                THEN /\ MonthlyBucket(clock') # MonthlyBucket(clock)
                     /\ MonthlyTtl(clock) = Midnight(clock') - 1 + TTL_GRACE
                ELSE MonthlyTtl(clock') = MonthlyTtl(clock)]_vars

\* The boards a delivery enters were open together while it was under way: for
\* the weekly and the monthly entry of a delivery there is one instant that the
\* clock showed between its start and its last write and that belongs to both,
\* even if a week and a month end between the two writes (updater.py:46-58).
BucketOf(scope, t) == IF scope = "weekly" THEN WeeklyBucket(t) ELSE MonthlyBucket(t)

OneInstantPerDelivery ==
  \A d \in 1..tries : \E s \in shown :
    /\ s.delivery = d
    /\ \A e \in entries : e.delivery = d => e.bucket = BucketOf(e.scope, s.instant)

\* However often an award is redelivered: the monthly board never has more of
\* it than the weekly boards, and no row's TTL is moved by a later write.
BoardsConsistent ==
  /\ \A e \in entries : e.scope = "monthly" =>
       \E f \in entries : f.scope = "weekly" /\ f.delivery = e.delivery
  /\ \A e, f \in entries :
       e.scope = f.scope /\ e.bucket = f.bucket => e.ttl = f.ttl
=============================================================================
