------------------------------ MODULE Calendar ------------------------------
(***************************************************************************)
(* The Gregorian calendar, walked day by day: the reference with which the *)
(* arithmetic of TimePoints is compared.  A walk begins some cycles of 400 *)
(* years before or after the epoch.                                        *)
(***************************************************************************)
EXTENDS TimePoints

CONSTANT Walks      \* pairs of the cycle where a walk begins and its days

ASSUME WalksAssumption == Walks \subseteq Int \X Nat

VARIABLES
    number,     \* days since the epoch
    today,      \* the date of that day
    left        \* days that are left to walk

vars == <<number, today, left>>

(* A cycle has 400 years, 97 of them leap years. *)
Cycle == 400 * 365 + 97

Init == \E w \in Walks :
    /\ number = w[1] * Cycle
    /\ today = [year |-> 1970 + 400 * w[1], month |-> 1, day |-> 1]
    /\ left = w[2]

Length(y, m) ==
    CASE m = 2 -> IF y % 400 = 0 \/ (y % 4 = 0 /\ y % 100 # 0) THEN 29 ELSE 28
      [] m \in {4, 6, 9, 11} -> 30
      [] OTHER -> 31

Tomorrow ==
    /\ left > 0
    /\ left' = left - 1
    /\ number' = number + 1
    /\ \/ /\ today.day < Length(today.year, today.month)
          /\ today' = [today EXCEPT !.day = @ + 1]
       \/ /\ today.day = Length(today.year, today.month)
          /\ today.month < 12
          /\ today' = [today EXCEPT !.month = @ + 1, !.day = 1]
       \/ /\ today.day = Length(today.year, today.month)
          /\ today.month = 12
          /\ today' = [year |-> today.year + 1, month |-> 1, day |-> 1]

Next == Tomorrow

Spec == Init /\ [][Next]_vars

-----------------------------------------------------------------------------
(* from_days and to_days agree with the calendar on every day, before year *)
(* 0 and in years divisible by 100 too, as long as a year fits a short;    *)
(* beyond, from_days keeps the low 16 bits of the year.                    *)
CalendarRight ==
    /\ FromDays(number) = [today EXCEPT !.year = Short(@)]
    /\ ToDays(today) = number

(* Every second of a day whose year has at most four digits, before or     *)
(* after the epoch, is read back from its text; of another year it is not, *)
(* and it is read as the epoch, or, when the low 16 bits of the year have  *)
(* four digits, as a time some multiple of 65536 years away.               *)
TextReadBack ==
    \A s \in 0..(Day - 1) :
        LET time == number * Day + s
            read == FromSystemTime(SystemTime(time))
        IN  IF today.year \in FourDigits THEN read = time
            ELSE /\ read # time
                 /\ read # 0 => SystemTime(read) = SystemTime(time)
=============================================================================
