------------------------------ MODULE Calendar ------------------------------
(***************************************************************************)
(* How a task's fire time moves over the calendar: by completing a         *)
(* repeating task (repeat.ts), by the composer's quick choices             *)
(* (composer.ts), by the adjust panel (adjust.ts) and by the editor's date *)
(* chips; and the drawer of the list it is shown in (sections.ts).         *)
(*                                                                         *)
(* An instant is a count of 10-second ticks since the start of FirstYear   *)
(* in the device's winter time.  Its clock is an hour ahead from Spring to *)
(* Autumn, so that one hour of the wall clock is skipped and one happens   *)
(* twice.                                                                  *)
(***************************************************************************)
EXTENDS Integers, FiniteSets

CONSTANTS
  FirstYear, LastYear,      \* bounds on the calendar
  Spring, Autumn,           \* instants at which the clocks change
  Moments,                  \* when the user may look at the clock
  Fires,                    \* fire times a task may have come with
  MaxTurns, MaxMoves        \* bounds on completions and on other changes

VARIABLES
  at,             \* fireAt
  rule,           \* repeatRule
  clock,          \* now
  first, turns,   \* history: at, and the completions, since it was last moved
  moves           \* times it was moved otherwise

calendarVars == <<at, rule, clock, first, turns, moves>>

Hour == 360
DayLength == 24 * Hour
Years == FirstYear .. LastYear
Rules == {"daily", "weekly", "monthly", "yearly"}

-----------------------------------------------------------------------------
(* The Date object: dates, and local time.                                 *)

Leap(y) == y % 4 = 0 /\ (y % 100 # 0 \/ y % 400 = 0)

DaysInMonth(y, m) == CASE m = 2 -> IF Leap(y) THEN 29 ELSE 28
                       [] m \in {4, 6, 9, 11} -> 30
                       [] OTHER -> 31

LeapsBefore(y) == {z \in FirstYear .. y - 1 : Leap(z)}

YearStart(y) == 365 * (y - FirstYear) + Cardinality(LeapsBefore(y))

\* Days before a month of a year that is not a leap year.
DaysBefore == <<0, 31, 59, 90, 120, 151, 181, 212, 243, 273, 304, 334>>

MonthStart(y, m) ==
  YearStart(y) + DaysBefore[m] + (IF m > 2 /\ Leap(y) THEN 1 ELSE 0)

DateOf(n) ==
  LET y == CHOOSE z \in Years : YearStart(z) <= n /\ n < YearStart(z + 1)
      m == CHOOSE k \in 1 .. 12 : /\ MonthStart(y, k) <= n
                                  /\ n < MonthStart(y, k) + DaysInMonth(y, k)
  IN [year |-> y, month |-> m, day |-> n - MonthStart(y, m) + 1]

\* What the wall clock shows at an instant.
Local(i) == IF Spring <= i /\ i < Autumn THEN i + Hour ELSE i

\* The instant of a time on the wall clock; one that is skipped or happens
\* twice is read with the offset from before the change.
InstantOf(l) ==
  IF Spring + Hour <= l /\ l < Autumn + Hour THEN l - Hour ELSE l

DayOf(i) == Local(i) \div DayLength
TimeOf(i) == Local(i) % DayLength

\* setDate and setFullYear keep the time of day, setHours the day.
OnDay(n, time) == InstantOf(n * DayLength + time)

\* Faulty variant: a day is taken for 24 hours.
AddDaysOfHours(i, n) == i + n * DayLength

AddDays(i, n) == OnDay(DayOf(i) + n, TimeOf(i))

AtTimeOfDay(i, hour) == OnDay(DayOf(i), hour * Hour)

StartOfDay(i) == AtTimeOfDay(i, 0)

-----------------------------------------------------------------------------
(* The next fire time.                                                     *)

\* Faulty variant: the day is not clamped and overflows into the next month.
AddMonthsOverflowing(i, months) ==
  LET d == DateOf(DayOf(i))
      total == d.month - 1 + months
  IN OnDay(MonthStart(d.year + total \div 12, (total % 12) + 1) + d.day - 1,
           TimeOf(i))

AddMonthsClamped(i, months) ==
  LET d == DateOf(DayOf(i))
      total == d.month - 1 + months
      y == d.year + total \div 12
      m == (total % 12) + 1
      day == IF d.day < DaysInMonth(y, m) THEN d.day ELSE DaysInMonth(y, m)
  IN OnDay(MonthStart(y, m) + day - 1, TimeOf(i))

NextRepeat(i, r) == CASE r = "daily"   -> AddDays(i, 1)
                      [] r = "weekly"  -> AddDays(i, 7)
                      [] r = "monthly" -> AddMonthsClamped(i, 1)
                      [] r = "yearly"  -> AddMonthsClamped(i, 12)

QuickChoices == {"now", "hour", "tonight", "tomorrow"}

\* quickFireAt: 21:00, or tomorrow's if it is less than half an hour away; 09:00.
QuickFire(choice, i) ==
  LET tonight == AtTimeOfDay(i, 21)
  IN CASE choice = "now"      -> i + 1
       [] choice = "hour"     -> i + Hour
       [] choice = "tonight"  -> IF tonight - i < Hour \div 2
                                 THEN AddDays(tonight, 1) ELSE tonight
       [] choice = "tomorrow" -> AtTimeOfDay(AddDays(i, 1), 9)

Latest(a, b) == IF a >= b THEN a ELSE b

\* shiftFireAt.
ShiftFire(i, delta, time) ==
  Latest((IF delta >= 0 THEN Latest(i, time) ELSE i) + delta, time)

\* ADJUST_STEPS, in both directions.
AdjustSteps == {30, Hour, DayLength, -30, -Hour, -DayLength}

\* bucketForTask, for a task that has a date and is not done.
Bucket(i, time) ==
  LET startTomorrow == AddDays(StartOfDay(time), 1)
  IN CASE i <= time -> "past"
       [] i > time /\ i < startTomorrow -> "today"
       [] i > time /\ i >= startTomorrow /\ i < AddDays(startTomorrow, 1)
            -> "tomorrow"
       [] i > time /\ i >= AddDays(startTomorrow, 1)
            -> IF i < AddDays(StartOfDay(time), 8) THEN "week" ELSE "later"

-----------------------------------------------------------------------------
InCalendar(i) == i >= 0 /\ DayOf(i) + 366 < YearStart(LastYear + 1)

ASSUME CalendarAssumption ==
  /\ FirstYear \in Int /\ LastYear \in Int
  /\ Moments \subseteq Int
  /\ Fires \subseteq Int /\ \A i \in Fires : InCalendar(i)

\* The clocks change on a date and not at its ends: midnight is not skipped,
\* and no date goes on after the next one has begun.  Where they go forward at
\* midnight, as in some countries, the drawers are an hour off on that day:
\* sections.ts:46-50 goes on from a start of the day that is at one o'clock.
ASSUME ClocksAssumption ==
  /\ Spring \in Int /\ Autumn \in Int /\ Spring + Hour <= Autumn
  /\ 0 < Spring % DayLength /\ (Spring % DayLength) + 2 * Hour <= DayLength
  /\ (Autumn % DayLength) + Hour <= DayLength

CalendarInit ==
  /\ at \in Fires /\ rule \in Rules /\ clock \in Moments
  /\ first = at /\ turns = 0 /\ moves = 0

\* completeTask, for a repeating task.
CompleteRepeating ==
  /\ turns < MaxTurns /\ InCalendar(at)
  /\ at' = NextRepeat(at, rule)
  /\ turns' = turns + 1
  /\ UNCHANGED <<rule, clock, first, moves>>

MoveTo(i) ==
  /\ moves < MaxMoves /\ moves' = moves + 1
  /\ InCalendar(i)
  /\ at' = i /\ first' = i /\ turns' = 0
  /\ UNCHANGED <<rule, clock>>

\* addPreset with a quick choice; adjustTaskFireAt.
Compose == \E choice \in QuickChoices : MoveTo(QuickFire(choice, clock))
AdjustFire == \E delta \in AdjustSteps : MoveTo(ShiftFire(at, delta, clock))

\* The editor's chips: a time of day, Today, +1 day and +1 week.
PickTimeOfDay == \E hour \in {7, 12, 17, 21} : MoveTo(AtTimeOfDay(at, hour))
PickToday == MoveTo(OnDay(DayOf(clock), TimeOf(at) - (TimeOf(at) % 6)))
PickLater == \E days \in {1, 7} : MoveTo(at + days * DayLength)

Tick ==
  /\ clock' \in {m \in Moments : m > clock}
  /\ UNCHANGED <<at, rule, first, turns, moves>>

CalendarNext == \/ CompleteRepeating \/ Compose \/ AdjustFire \/ PickTimeOfDay
                \/ PickToday \/ PickLater \/ Tick

CalendarSpec == CalendarInit /\ [][CalendarNext]_calendarVars

-----------------------------------------------------------------------------

MonthsOf(d) == 12 * d.year + d.month

(***************************************************************************)
(* A repeating task moves by exactly one period per completion             *)
(* (repeat.ts:48-58): however often it is completed, no month or year is   *)
(* skipped or met twice, it keeps its day of the month unless that day     *)
(* does not exist, and its time of day unless that hour was skipped.       *)
(***************************************************************************)
RepeatsMarchOn ==
  LET was == DateOf(DayOf(first))
      is == DateOf(DayOf(at))
      late == TimeOf(at) - TimeOf(first)
  IN /\ CASE rule = "daily"   -> DayOf(at) = DayOf(first) + turns
          [] rule = "weekly"  -> DayOf(at) = DayOf(first) + 7 * turns
          [] rule = "monthly" -> MonthsOf(is) = MonthsOf(was) + turns
          [] rule = "yearly"  -> MonthsOf(is) = MonthsOf(was) + 12 * turns
     /\ rule \in {"monthly", "yearly"} =>
          is.day <= was.day /\ (was.day <= 28 => is.day = was.day)
     /\ late # 0 => /\ late = Hour
                    /\ Spring % DayLength <= TimeOf(first)
                    /\ TimeOf(first) < (Spring % DayLength) + Hour

(***************************************************************************)
(* The drawer says what the calendar says (sections.ts:45-79), also on the *)
(* days that have 23 or 25 hours; and what the composer calls tomorrow is  *)
(* found under Tomorrow.                                                   *)
(***************************************************************************)
DrawersMeanDates ==
  LET days == DayOf(at) - DayOf(clock)
      drawer == Bucket(at, clock)
  IN /\ drawer = "past" <=> at <= clock
     /\ drawer # "past" =>
          drawer = CASE days = 0 -> "today"
                     [] days = 1 -> "tomorrow"
                     [] days \in 2 .. 7 -> "week"
                     [] OTHER -> "later"
     /\ Bucket(QuickFire("tomorrow", clock), clock) = "tomorrow"
=============================================================================
