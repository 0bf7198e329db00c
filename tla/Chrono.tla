------------------------------- MODULE Chrono -------------------------------
(***************************************************************************)
(* Dates and times of chrono/: a date is a year, a month and a day, the    *)
(* number of a date counts the days since the first of January of year 1,  *)
(* and a time is hours, minutes, seconds and milliseconds.  One date and   *)
(* one time are moved in every way the classes offer; `elapsed` and        *)
(* `total` say by plain counting where they must be.                       *)
(***************************************************************************)
EXTENDS Integers, Sequences

CONSTANTS
    Given,      \* the day numbers a run looks at
    Steps,      \* the numbers of days added or taken away at once
    Clocks      \* the times a run sets, as milliseconds

VARIABLES
    date,       \* [year, month, day]
    elapsed,    \* days counted since the first day
    clock,      \* [hour, minute, second, milisecond]
    total,      \* milliseconds last given to the clock
    cleared     \* history: a datetime was given, and no time after it

chronoVars == <<date, elapsed, clock, total, cleared>>

-----------------------------------------------------------------------------
(* Dates: date.h, day.hpp and lookup_table.hpp.                            *)

MonthLeap   == <<31, 29, 31, 30, 31, 30, 31, 31, 30, 31, 30, 31>>
MonthNormal == <<31, 28, 31, 30, 31, 30, 31, 31, 30, 31, 30, 31>>
SumLeap     == <<0, 31, 60, 91, 121, 152, 182, 213, 244, 274, 305, 335, 366>>
SumNormal   == <<0, 31, 59, 90, 120, 151, 181, 212, 243, 273, 304, 334, 365>>

Date(y, m, d) == [year |-> y, month |-> m, day |-> d]

IsLeap(y) == (y % 4) = 0 /\ ((y % 100) # 0 \/ (y % 400) = 0)

DaysOfMonth(y, m) == IF IsLeap(y) THEN MonthLeap[m] ELSE MonthNormal[m]

Sums(y) == IF IsLeap(y) THEN SumLeap ELSE SumNormal

IsValid(d) ==
    /\ d.year > 0
    /\ d.month \in 1 .. 12
    /\ d.day \in 1 .. DaysOfMonth(d.year, d.month)

(* The number of a date. *)
DayNumber(d) ==
    LET y == d.year - 1
        a == y % 400
        b == a % 100
    IN  (y * 365) + ((y \div 400) * 97) + ((a \div 100) * 24) + (b \div 4)
            + Sums(d.year)[d.month] + d.day - 1

(* The date of a number: the whole groups of 400, 100, 4 and 1 years, the  *)
(* last day of a group apart, then a guess of the month by 31 days.        *)
DateOf(n) ==
    LET v0 == n + 1
        p0 == (v0 \div 146097) * 400
        p1 == v0 % 146097
        p2 == (p1 \div 36524) * 100
        p3 == p1 % 36524
        p4 == (p3 \div 1461) * 4
        p5 == p3 % 1461
        p6 == p5 \div 365
        p7 == p5 % 365
        y  == p0 + p2 + p4 + p6 + 1
        lu == Sums(y)
        p8 == p7 \div 31
        p9 == IF p7 > lu[p8 + 2] THEN p8 + 1
              ELSE IF p7 > lu[p8 + 1] THEN p8 ELSE p8 - 1
    IN  IF p5 = 0
        THEN Date(p0 + p2 + p4, 12, IF p2 # 400 THEN 31 ELSE 30)
        ELSE IF p7 = 0
        THEN Date(p0 + p2 + p4 + p6, 12, IF p6 # 4 THEN 31 ELSE 30)
        ELSE Date(y, p9 + 1, p7 - lu[p9 + 1])

DayOfWeek(d) == (DayNumber(d) + 1) % 7

DayOfYear(d) == Sums(d.year)[d.month] + d.day

TomorrowOf(d) ==
    IF d.day + 1 <= DaysOfMonth(d.year, d.month) THEN [d EXCEPT !.day = @ + 1]
    ELSE IF d.month + 1 <= 12 THEN Date(d.year, d.month + 1, 1)
    ELSE Date(d.year + 1, 1, 1)

YesterdayOf_SameMonth(d) ==
    IF d.day > 1 THEN [d EXCEPT !.day = @ - 1]
    ELSE IF d.month > 1
    THEN Date(d.year, d.month - 1, DaysOfMonth(d.year, d.month))
    ELSE Date(d.year - 1, 12, 31)

YesterdayOf(d) ==
    IF d.day > 1 THEN [d EXCEPT !.day = @ - 1]
    ELSE IF d.month > 1
    THEN Date(d.year, d.month - 1, DaysOfMonth(d.year, d.month - 1))
    ELSE Date(d.year - 1, 12, 31)

-----------------------------------------------------------------------------
(* Times: time.hpp.  With fields of 32 bits the hour has ten, a year 23.   *)

HourRoom == 1024
Hour     == 60 * 60 * 1000
Minute   == 60 * 1000
Second   == 1000
OneDay   == 24 * Hour

TotalMilisecond(c) ==
    c.milisecond + (c.second * Second) + (c.minute * Minute) + (c.hour * Hour)

ClockOf(v) ==
    [hour |-> (v \div Hour) % HourRoom,
     minute |-> (v % Hour) \div Minute,
     second |-> (v % Minute) \div Second,
     milisecond |-> v % Second]

Midnight == ClockOf(0)

-----------------------------------------------------------------------------
YearRoom   == 8388608
DateFields == [year : 0 .. YearRoom - 1, month : 1 .. 12, day : 1 .. 31]
TimeFields == [hour : 0 .. HourRoom - 1, minute : 0 .. 59, second : 0 .. 59,
               milisecond : 0 .. 999]

(* The years and hours of what is given fit their fields.                  *)
ASSUME ChronoAssumption ==
    /\ \A n \in Given : n \in Nat /\ n \div 365 < YearRoom - 1
    /\ \A v \in Clocks : v \in Nat /\ v \div Hour < HourRoom

ChronoInit ==
    /\ elapsed \in Given
    /\ date = DateOf(elapsed)
    /\ clock = Midnight
    /\ total = 0
    /\ cleared = FALSE

MoveTo(n, d) ==
    /\ n \in Given
    /\ date' = d
    /\ elapsed' = n
    /\ UNCHANGED <<clock, total, cleared>>

Tomorrow  == MoveTo(elapsed + 1, TomorrowOf(date))
Yesterday == MoveTo(elapsed - 1, YesterdayOf(date))

(* date + day and date - day, both by way of the day number. *)
Add      == \E k \in Steps : MoveTo(elapsed + k, DateOf(DayNumber(date) + k))
Subtract == \E k \in Steps : MoveTo(elapsed - k, DateOf(DayNumber(date) - k))

(* total_milisecond of a time. *)
SetTime ==
    \E v \in Clocks :
        /\ clock' = ClockOf(v)
        /\ total' = v
        /\ cleared' = FALSE
        /\ UNCHANGED <<date, elapsed>>

(* total_milisecond of a datetime, given the day elapsed + k and v of its  *)
(* milliseconds: the time of the day is stored (136), then the whole object *)
(* is assigned from the day (138), which clears it again.                  *)
SetDateTime ==
    \E k \in Steps, v \in Clocks :
        /\ v < OneDay /\ elapsed + k \in Given
        /\ elapsed' = elapsed + k
        /\ total' = v
        /\ date' = DateOf(elapsed + k)
        /\ clock' = Midnight
        /\ cleared' = TRUE

ChronoNext == Tomorrow \/ Yesterday \/ Add \/ Subtract \/ SetTime \/ SetDateTime

ChronoSpec == ChronoInit /\ [][ChronoNext]_chronoVars

-----------------------------------------------------------------------------
ChronoTypeOK ==
    /\ date \in DateFields
    /\ elapsed \in Given
    /\ clock \in TimeFields
    /\ total \in {0} \cup Clocks
    /\ cleared \in BOOLEAN

(* The days of a year before a date, counted month by month. *)
DaysBefore(d) ==
    LET before[m \in 1 .. 12] ==
            IF m = 1 THEN 0 ELSE before[m - 1] + DaysOfMonth(d.year, m - 1)
    IN  before[d.month]

(* However a date was reached, by the day before or after, or by the       *)
(* number of days between, it exists in the calendar, its number is the    *)
(* count of days passed, its day of the year agrees with the lengths of    *)
(* the months before it.  A time given to a time object is the time read,  *)
(* as long as its hours fit the field; of the time that is given with a    *)
(* datetime nothing is said: it is lost (TimeKept).                        *)
DatesExact ==
    /\ IsValid(date)
    /\ DayNumber(date) = elapsed
    /\ DayOfWeek(date) = (elapsed + 1) % 7
    /\ DayOfYear(date) = DaysBefore(date) + date.day
    /\ ~cleared => TotalMilisecond(clock) = total

(* The time read is the time given, be it alone or with a day.  The code   *)
(* does not keep this: a datetime stores the time of the day (datetime.hpp *)
(* 136) and then assigns the day to the whole object (138).                *)
TimeKept == TotalMilisecond(clock) = total
=============================================================================
