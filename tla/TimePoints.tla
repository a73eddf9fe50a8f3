----------------------------- MODULE TimePoints -----------------------------
(***************************************************************************)
(* TimePoint::SystemTime and TimePoint::FromSystemTime, with the calendar  *)
(* arithmetic of date.h that they use.  A time point is a number of        *)
(* seconds since the epoch, its text the six numbers that are written.     *)
(* Days are counted as in the code; the parts of a day are parameters.     *)
(***************************************************************************)
EXTENDS Integers

CONSTANTS
    Hours,      \* hours of a day
    Minutes,    \* minutes of an hour
    Seconds     \* seconds of a minute

ASSUME ClockAssumption == {Hours, Minutes, Seconds} \subseteq Nat \ {0}

Day == Hours * Minutes * Seconds

(* The division of C++ rounds towards zero. *)
Trunc(a, b) == IF a >= 0 THEN a \div b ELSE -((-a) \div b)

(* Mutant: the time of day is taken from the day rounded towards zero. *)
FloorDays_Trunc(s) == Trunc(s, Day)

(* floor<days> *)
FloorDays(s) == IF Trunc(s, Day) * Day > s THEN Trunc(s, Day) - 1 ELSE Trunc(s, Day)

(* date::year keeps 16 bits. *)
Short(n) == ((n + 32768) % 65536) - 32768

(* year_month_day::from_days: eras of 400 years that begin in March. *)
YearOfEra(doe) == (doe - doe \div 1460 + doe \div 36524 - doe \div 146096) \div 365

FromDays(n) ==
    LET z   == n + 719468
        era == Trunc(IF z >= 0 THEN z ELSE z - 146096, 146097)
        doe == z - era * 146097
        yoe == YearOfEra(doe)
        doy == doe - (365 * yoe + yoe \div 4 - yoe \div 100)
        mp  == (5 * doy + 2) \div 153
        m   == IF mp < 10 THEN mp + 3 ELSE mp - 9
    IN  [year |-> Short(yoe + era * 400 + (IF m <= 2 THEN 1 ELSE 0)),
         month |-> m,
         day |-> doy - (153 * mp + 2) \div 5 + 1]

(* Mutant: eras before year 0 are rounded towards zero. *)
ToDays_Trunc(date) ==
    LET y   == date.year - (IF date.month <= 2 THEN 1 ELSE 0)
        era == Trunc(y, 400)
        yoe == y - era * 400
        doy == (153 * (IF date.month > 2 THEN date.month - 3 ELSE date.month + 9) + 2) \div 5
                   + date.day - 1
    IN  era * 146097 + yoe * 365 + yoe \div 4 - yoe \div 100 + doy - 719468

(* year_month_day::to_days *)
ToDays(date) ==
    LET y   == date.year - (IF date.month <= 2 THEN 1 ELSE 0)
        era == Trunc(IF y >= 0 THEN y ELSE y - 399, 400)
        yoe == y - era * 400
        doy == (153 * (IF date.month > 2 THEN date.month - 3 ELSE date.month + 9) + 2) \div 5
                   + date.day - 1
    IN  era * 146097 + yoe * 365 + yoe \div 4 - yoe \div 100 + doy - 719468

IsLeap(y) == y % 4 = 0 /\ (y % 100 # 0 \/ y % 400 = 0)

(* year_month_day_last::day *)
LastDay(y, m) ==
    IF m = 2 /\ IsLeap(y) THEN 29
    ELSE <<31, 28, 31, 30, 31, 30, 31, 31, 30, 31, 30, 31>>[m]

(* year::ok *)
Years == -32767..32767

(* year_month_day::ok *)
ValidDate(date) ==
    /\ date.year \in Years
    /\ date.month \in 1..12
    /\ date.day \in 1..LastDay(date.year, date.month)

-----------------------------------------------------------------------------
(* The text: the date of the day and make_time of what is left of it. *)
SystemTime(s) ==
    LET rest == s - FloorDays(s) * Day
    IN  [date |-> FromDays(FloorDays(s)),
         hour |-> rest \div (Minutes * Seconds),
         minute |-> (rest \div Seconds) % Minutes,
         second |-> rest % Seconds]

(* date::parse with %FT%TZ: four digits of a year at most, a date that     *)
(* exists and a time of day.                                               *)
FourDigits == -9999..9999

Parses(text) ==
    /\ text.date.year \in FourDigits
    /\ ValidDate(text.date)
    /\ text.hour \in 0..(Hours - 1)
    /\ text.minute \in 0..(Minutes - 1)
    /\ text.second \in 0..(Seconds - 1)

(* A text that does not parse leaves the time point as it was made, at the *)
(* epoch: the state of the stream is not looked at.                        *)
FromSystemTime(text) ==
    IF ~Parses(text) THEN 0
    ELSE ToDays(text.date) * Day
             + text.hour * Minutes * Seconds + text.minute * Seconds + text.second
=============================================================================
