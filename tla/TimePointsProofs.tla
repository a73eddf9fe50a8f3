-------------------------- MODULE TimePointsProofs --------------------------
(***************************************************************************)
(* Facts about the arithmetic of TimePoints, for every integer number of   *)
(* days and of seconds, and for clocks with any parts of a day.            *)
(***************************************************************************)
EXTENDS TimePoints, NaturalsInduction, WellFoundedInduction, TLAPS

(* Induction over the natural numbers, for a set: a least number outside   *)
(* of S would have a predecessor in S.                                     *)
LEMMA SetInduction ==
    ASSUME NEW S, 0 \in S, \A n \in Nat : n \in S => n + 1 \in S
    PROVE  Nat \subseteq S
<1> SUFFICES ASSUME NEW T, T = Nat \ S, T # {} PROVE FALSE
  OBVIOUS
<1>1. PICK x \in T : \A y \in T : <<y, x>> \notin OpToRel(<,Nat)
  BY NatLessThanWellFounded, WFMin, Zenon
<1>2. x - 1 \in Nat /\ <<x - 1, x>> \in OpToRel(<,Nat) /\ (x - 1) + 1 = x
  BY DEF OpToRel
<1>3. QED
  BY <1>1, <1>2, Zenon

(* Rounding towards zero, after the shift of negative numbers that the     *)
(* code makes first, rounds down.                                          *)
LEMMA Floor400 ==
    ASSUME NEW y \in Int
    PROVE  Trunc(IF y >= 0 THEN y ELSE y - 399, 400) = y \div 400
BY SMT DEF Trunc

LEMMA FloorEra ==
    ASSUME NEW z \in Int
    PROVE  Trunc(IF z >= 0 THEN z ELSE z - 146096, 146097) = z \div 146097
BY SMT DEF Trunc

(* Dates as the code counts them, in years that begin in March: the year,  *)
(* the month from 0, the day of the year from 0, and the days of the       *)
(* calendar before a year.                                                 *)
MarchYear(y, m) == IF m <= 2 THEN y - 1 ELSE y
MarchMonth(m)   == IF m > 2 THEN m - 3 ELSE m + 9
DayOfYear(m, d) == (153 * MarchMonth(m) + 2) \div 5 + d - 1
YearStart(y)    == 365 * y + y \div 4 - y \div 100 + y \div 400

LEMMA YearInEra ==
    ASSUME NEW y \in Int, NEW era \in Int, era = y \div 400, NEW yoe \in Int, yoe = y - era * 400
    PROVE  era * 146097 + yoe * 365 + yoe \div 4 - yoe \div 100 = YearStart(y)
BY SMT DEF YearStart

(* The days of a month, without the table of the code. *)
DaysOf(y, m) ==
    CASE m = 2 -> IF y % 400 = 0 \/ (y % 4 = 0 /\ y % 100 # 0) THEN 29 ELSE 28
      [] m \in {4, 6, 9, 11} -> 30
      [] OTHER -> 31

(* A date of the calendar. *)
IsDate(date) ==
    /\ date.year \in Int
    /\ date.month \in 1..12
    /\ date.day \in 1..DaysOf(date.year, date.month)

LEMMA ToDaysIs ==
    ASSUME NEW date, date.year \in Int, date.month \in Int, date.day \in Int
    PROVE  ToDays(date) = YearStart(MarchYear(date.year, date.month))
               + DayOfYear(date.month, date.day) - 719468
<1> DEFINE y == MarchYear(date.year, date.month)
<1>1. y \in Int /\ y = date.year - (IF date.month <= 2 THEN 1 ELSE 0)
  BY SMT DEF MarchYear
<1> HIDE DEF y
<1> DEFINE era == Trunc(IF y >= 0 THEN y ELSE y - 399, 400)
           yoe == y - era * 400
<1>2. era = y \div 400 /\ era \in Int /\ yoe \in Int
  BY <1>1, Floor400, SMT
<1>3. ToDays(date) = era * 146097 + yoe * 365 + yoe \div 4 - yoe \div 100
                       + DayOfYear(date.month, date.day) - 719468
  BY <1>1, SMT DEF ToDays, DayOfYear, MarchMonth
<1> HIDE DEF era
<1>4. era * 146097 + yoe * 365 + yoe \div 4 - yoe \div 100 = YearStart(y)
  BY <1>1, <1>2, YearInEra, SMT
<1>5. QED
  BY <1>3, <1>4, SMT DEF y

(* A year from March ends with February of the next year. *)
LEMMA YearLength ==
    ASSUME NEW y \in Int
    PROVE  YearStart(y + 1) - YearStart(y) = 337 + DaysOf(y + 1, 2)
BY SMT DEF YearStart, DaysOf

(* The correction terms of from_days find the year of an era from the day  *)
(* of an era, whose years have 365 days and those before a 29 February     *)
(* one day more: c centuries, b times four years and a years.              *)
LEMMA YoeRight ==
    ASSUME NEW yoe \in Int, 0 <= yoe, yoe < 400, NEW doy \in Int, 0 <= doy, doy <= 365,
           doy = 365 => (yoe + 1) % 400 = 0 \/ ((yoe + 1) % 4 = 0 /\ (yoe + 1) % 100 # 0),
           NEW doe \in Int, doe = 365 * yoe + yoe \div 4 - yoe \div 100 + doy
    PROVE  /\ 0 <= doe /\ doe <= 146096
           /\ YearOfEra(doe) = yoe
<1>1. PICK c \in Int, b \in Int, a \in Int :
           /\ yoe = 100 * c + 4 * b + a
           /\ 0 <= a /\ a <= 3 /\ 0 <= b /\ b <= 24 /\ 0 <= c /\ c <= 3
  <2>1. yoe = 100 * (yoe \div 100) + 4 * ((yoe % 100) \div 4) + (yoe % 4)
    BY SMT
  <2>2. /\ 0 <= yoe \div 100 /\ yoe \div 100 <= 3
        /\ 0 <= (yoe % 100) \div 4 /\ (yoe % 100) \div 4 <= 24
        /\ 0 <= yoe % 4 /\ yoe % 4 <= 3
    BY SMT
  <2>3. QED
    BY <2>1, <2>2, SMT
<1>2. yoe \div 4 = 25 * c + b /\ yoe \div 100 = c
  BY <1>1, SMT
<1>3. doe = 36524 * c + 1461 * b + 365 * a + doy
  BY <1>1, <1>2, SMT
<1>4. doy = 365 => a = 3 /\ (b < 24 \/ c = 3)
  BY <1>1, SMT
<1>5. 0 <= doe /\ doe <= 146096
  BY <1>1, <1>3, <1>4, SMT
<1>6. doe \div 36524 - doe \div 146096 = c
  <2>1. CASE doe = 146096
    <3>1. c = 3
      BY <1>1, <1>3, <1>4, <2>1, SMT
    <3>2. doe \div 36524 = 4 /\ doe \div 146096 = 1
      BY <2>1, SMT
    <3>3. QED
      BY <3>1, <3>2, SMT
  <2>2. CASE doe # 146096
    <3>1. doe \div 146096 = 0
      BY <1>5, <2>2, SMT
    <3>2. 36524 * c <= doe /\ doe < 36524 * c + 36524
      BY <1>1, <1>3, <1>4, <1>5, <2>2, SMT
    <3>3. doe \div 36524 = c
      BY <3>2, SMT
    <3>4. QED
      BY <3>1, <3>3, SMT
  <2>3. QED
    BY <2>1, <2>2
<1>7. PICK e \in Int : /\ e = 0 \/ e = 1
                       /\ e = 1 <=> 24 * c + b + 365 * a + doy >= 1460
  BY SMT
<1>8. doe \div 1460 = 25 * c + b + e
  <2>1. 1460 * (25 * c + b + e) <= doe /\ doe < 1460 * (25 * c + b + e) + 1460
    BY <1>1, <1>3, <1>4, <1>7, SMT
  <2>2. QED
    BY <2>1, SMT
<1>9. doe - doe \div 1460 + doe \div 36524 - doe \div 146096 = 365 * yoe + doy - e
  BY <1>1, <1>3, <1>6, <1>8, SMT
<1>10. 0 <= doy - e /\ doy - e < 365
  BY <1>1, <1>4, <1>7, SMT
<1>11. (365 * yoe + doy - e) \div 365 = yoe
  BY <1>10, SMT
<1>12. QED
  BY <1>5, <1>9, <1>11, SMT DEF YearOfEra

(* The months from March on have 31, 30, 31, 30, 31, 31, 30, ... days,     *)
(* which is what the line through 153 / 5 gives.                           *)
LEMMA MonthRight ==
    ASSUME NEW y \in Int, NEW m \in Int, 1 <= m, m <= 12,
           NEW d \in Int, 1 <= d, d <= DaysOf(y, m)
    PROVE  /\ DayOfYear(m, d) \in Int
           /\ 0 <= DayOfYear(m, d) /\ DayOfYear(m, d) <= 365
           /\ DayOfYear(m, d) = 365 =>
                  m = 2 /\ (y % 400 = 0 \/ (y % 4 = 0 /\ y % 100 # 0))
           /\ (5 * DayOfYear(m, d) + 2) \div 153 = MarchMonth(m)
           /\ DayOfYear(m, d) - (153 * MarchMonth(m) + 2) \div 5 + 1 = d
<1>1. CASE m = 2
  <2>1. DaysOf(y, m) = IF y % 400 = 0 \/ (y % 4 = 0 /\ y % 100 # 0) THEN 29 ELSE 28
    BY <1>1 DEF DaysOf
  <2>2. QED
    BY <1>1, <2>1, SMT DEF DayOfYear, MarchMonth
<1>2. CASE m \in {4, 6, 9, 11}
  <2>1. DaysOf(y, m) = 30
    BY <1>2 DEF DaysOf
  <2>2. QED
    BY <1>2, <2>1, SMT DEF DayOfYear, MarchMonth
<1>3. CASE m \in {1, 3, 5, 7, 8, 10, 12}
  <2>1. DaysOf(y, m) = 31
    BY <1>3 DEF DaysOf
  <2>2. QED
    BY <1>3, <2>1, SMT DEF DayOfYear, MarchMonth
<1>4. QED
  BY <1>1, <1>2, <1>3, SMT

(* from_days is the inverse of to_days, but for the upper bits of the year. *)
LEMMA FromDaysRight ==
    ASSUME NEW date, IsDate(date)
    PROVE  FromDays(ToDays(date)) =
               [year |-> Short(date.year), month |-> date.month, day |-> date.day]
<1> DEFINE dy  == date.year
           dm  == date.month
           dd  == date.day
           y   == MarchYear(dy, dm)
           q   == y \div 400
           u   == y - q * 400
           s   == DayOfYear(dm, dd)
           t   == 365 * u + u \div 4 - u \div 100 + s
           n   == ToDays(date)
           z   == n + 719468
           era == Trunc(IF z >= 0 THEN z ELSE z - 146096, 146097)
           doe == z - era * 146097
           yoe == YearOfEra(doe)
           doy == doe - (365 * yoe + yoe \div 4 - yoe \div 100)
           mp  == (5 * doy + 2) \div 153
           m   == IF mp < 10 THEN mp + 3 ELSE mp - 9
<1>1. dy \in Int /\ dm \in Int /\ 1 <= dm /\ dm <= 12 /\ dd \in Int /\ 1 <= dd
      /\ dd <= DaysOf(dy, dm)
  BY DEF IsDate, DaysOf
<1>2. FromDays(n) = [year |-> Short(yoe + era * 400 + (IF m <= 2 THEN 1 ELSE 0)),
                     month |-> m,
                     day |-> doy - (153 * mp + 2) \div 5 + 1]
  BY SMT DEF FromDays
<1>3. y \in Int /\ dy = (IF dm <= 2 THEN y + 1 ELSE y)
  BY <1>1, SMT DEF MarchYear
<1> HIDE DEF dy, dm, dd, y
<1>4. q \in Int /\ u \in Int /\ 0 <= u /\ u < 400 /\ q = y \div 400 /\ u = y - q * 400
  BY <1>3, SMT
<1>5. /\ s \in Int /\ 0 <= s /\ s <= 365
      /\ s = 365 => dm = 2 /\ (dy % 400 = 0 \/ (dy % 4 = 0 /\ dy % 100 # 0))
      /\ (5 * s + 2) \div 153 = MarchMonth(dm)
      /\ s - (153 * MarchMonth(dm) + 2) \div 5 + 1 = dd
  BY <1>1, MonthRight, SMT
<1>6. n = YearStart(y) + s - 719468
  BY <1>1, ToDaysIs, SMT DEF dy, dm, dd, y
<1> HIDE DEF q, u, s, n
<1>7. t \in Int /\ t = 365 * u + u \div 4 - u \div 100 + s
  BY <1>4, <1>5, SMT
<1>8. /\ q * 146097 + u * 365 + u \div 4 - u \div 100 = YearStart(y)
      /\ YearStart(y) \in Int
  BY <1>3, <1>4, SMT DEF YearStart
<1>9. z \in Int /\ z = q * 146097 + t
  BY <1>4, <1>5, <1>6, <1>8, SMT
<1>10. s = 365 => (u + 1) % 400 = 0 \/ ((u + 1) % 4 = 0 /\ (u + 1) % 100 # 0)
  BY <1>1, <1>3, <1>4, <1>5, SMT
<1> HIDE DEF t, z
<1>11. 0 <= t /\ t <= 146096 /\ YearOfEra(t) = u
  BY <1>4, <1>5, <1>7, <1>10, YoeRight, SMT
<1>12. era = q
  <2>1. era = z \div 146097
    BY <1>9, FloorEra, SMT
  <2>2. QED
    BY <1>4, <1>7, <1>9, <1>11, <2>1, SMT
<1> HIDE DEF era
<1>13. doe = t
  BY <1>4, <1>7, <1>9, <1>12, SMT
<1>14. yoe = u /\ doy = s
  BY <1>4, <1>5, <1>7, <1>11, <1>13, SMT
<1> HIDE DEF yoe, doy
<1>15. mp = MarchMonth(dm) /\ doy - (153 * mp + 2) \div 5 + 1 = dd
  BY <1>5, <1>14, SMT
<1> HIDE DEF mp
<1>16. m = dm
  BY <1>1, <1>15, SMT DEF MarchMonth
<1>17. yoe + era * 400 + (IF m <= 2 THEN 1 ELSE 0) = dy
  BY <1>1, <1>3, <1>4, <1>12, <1>14, <1>16, SMT
<1> HIDE DEF m
<1>18. QED
  BY <1>2, <1>15, <1>16, <1>17, SMT DEF dy, dm, dd, n


LEMMA DaysOfType ==
    ASSUME NEW y \in Int, NEW m
    PROVE  DaysOf(y, m) \in Int /\ 28 <= DaysOf(y, m) /\ DaysOf(y, m) <= 31
<1>1. CASE m = 2
  <2>1. DaysOf(y, m) = IF y % 400 = 0 \/ (y % 4 = 0 /\ y % 100 # 0) THEN 29 ELSE 28
    BY <1>1 DEF DaysOf
  <2>2. QED
    BY <2>1, SMT
<1>2. CASE m \in {4, 6, 9, 11}
  <2>1. DaysOf(y, m) = 30
    BY <1>2 DEF DaysOf
  <2>2. QED
    BY <2>1, SMT
<1>3. CASE m \notin {2, 4, 6, 9, 11}
  <2>1. DaysOf(y, m) = 31
    BY <1>3 DEF DaysOf
  <2>2. QED
    BY <2>1, SMT
<1>4. QED
  BY <1>1, <1>2, <1>3

(* The first day of a month follows the last one of the month before. *)
LEMMA MonthEnds ==
    ASSUME NEW y \in Int, NEW m \in Int, 1 <= m, m < 12
    PROVE  YearStart(MarchYear(y, m + 1)) + DayOfYear(m + 1, 1)
               = YearStart(MarchYear(y, m)) + DayOfYear(m, DaysOf(y, m)) + 1
<1>1. CASE m = 2
  <2>1. MarchYear(y, m + 1) = y /\ MarchYear(y, m) = y - 1
    BY <1>1, SMT DEF MarchYear
  <2>2. DayOfYear(m + 1, 1) = 0 /\ DayOfYear(m, DaysOf(y, m)) = 336 + DaysOf(y, 2)
    BY <1>1, DaysOfType, SMT DEF DayOfYear, MarchMonth
  <2>3. YearStart(y) - YearStart(y - 1) = 337 + DaysOf(y, 2)
    BY YearLength, SMT
  <2>4. YearStart(y) \in Int /\ YearStart(y - 1) \in Int /\ DaysOf(y, 2) \in Int
    BY DaysOfType, SMT DEF YearStart
  <2>5. QED
    BY <2>1, <2>2, <2>3, <2>4, SMT
<1>2. CASE m # 2
  <2>1. MarchYear(y, m + 1) = MarchYear(y, m) /\ MarchYear(y, m) \in Int
    BY <1>2, SMT DEF MarchYear
  <2>2. DayOfYear(m + 1, 1) = DayOfYear(m, DaysOf(y, m)) + 1
    <3>1. CASE m \in {4, 6, 9, 11}
      <4>1. DaysOf(y, m) = 30
        BY <3>1 DEF DaysOf
      <4>2. QED
        BY <3>1, <4>1, SMT DEF DayOfYear, MarchMonth
    <3>2. CASE m \in {1, 3, 5, 7, 8, 10}
      <4>1. DaysOf(y, m) = 31
        BY <3>2 DEF DaysOf
      <4>2. QED
        BY <3>2, <4>1, SMT DEF DayOfYear, MarchMonth
    <3>3. QED
      BY <1>2, <3>1, <3>2, SMT
  <2>3. /\ YearStart(MarchYear(y, m)) \in Int
        /\ DayOfYear(m, DaysOf(y, m)) \in Int
    BY <2>1, DaysOfType, SMT DEF YearStart, DayOfYear, MarchMonth
  <2>4. QED
    BY <2>1, <2>2, <2>3, SMT
<1>3. QED
  BY <1>1, <1>2

DayAfter(date) ==
    IF date.day < DaysOf(date.year, date.month)
    THEN [year |-> date.year, month |-> date.month, day |-> date.day + 1]
    ELSE IF date.month < 12
    THEN [year |-> date.year, month |-> date.month + 1, day |-> 1]
    ELSE [year |-> date.year + 1, month |-> 1, day |-> 1]

LEMMA DayAfterRight ==
    ASSUME NEW date, IsDate(date)
    PROVE  IsDate(DayAfter(date)) /\ ToDays(DayAfter(date)) = ToDays(date) + 1
<1> DEFINE y == date.year
           m == date.month
           d == date.day
           l == DaysOf(y, m)
<1>1. /\ y \in Int /\ m \in Int /\ 1 <= m /\ m <= 12 /\ d \in Int /\ 1 <= d /\ d <= l
      /\ l \in Int /\ 28 <= l
  BY DaysOfType DEF IsDate
<1>2. ToDays(date) = YearStart(MarchYear(y, m)) + DayOfYear(m, d) - 719468
  BY <1>1, ToDaysIs
<1>3. YearStart(MarchYear(y, m)) \in Int /\ DayOfYear(m, d) \in Int
  BY <1>1, SMT DEF YearStart, MarchYear, DayOfYear, MarchMonth
<1>4. ASSUME NEW a \in Int, NEW b \in Int, 1 <= b, b <= 12, NEW c \in Int, 1 <= c,
             c <= DaysOf(a, b), DayAfter(date) = [year |-> a, month |-> b, day |-> c],
             YearStart(MarchYear(a, b)) + DayOfYear(b, c)
                 = YearStart(MarchYear(y, m)) + DayOfYear(m, d) + 1
      PROVE  IsDate(DayAfter(date)) /\ ToDays(DayAfter(date)) = ToDays(date) + 1
  <2> DEFINE new == DayAfter(date)
  <2>1. new.year = a /\ new.month = b /\ new.day = c
    BY <1>4
  <2> HIDE DEF y, m, d, new
  <2>2. IsDate(new)
    <3>1. b \in 1..12 /\ c \in 1..DaysOf(a, b)
      BY <1>4, DaysOfType
    <3>2. QED
      BY <1>4, <2>1, <3>1 DEF IsDate
  <2>3. ToDays(new) = YearStart(MarchYear(a, b)) + DayOfYear(b, c) - 719468
    BY <1>4, <2>1, ToDaysIs
  <2>4. YearStart(MarchYear(a, b)) \in Int /\ DayOfYear(b, c) \in Int
    BY <1>4, SMT DEF YearStart, MarchYear, DayOfYear, MarchMonth
  <2>5. YearStart(MarchYear(a, b)) + DayOfYear(b, c)
            = YearStart(MarchYear(y, m)) + DayOfYear(m, d) + 1
    BY <1>4
  <2>6. ToDays(new) = ToDays(date) + 1
    BY <1>2, <1>3, <2>3, <2>4, <2>5, SMT
  <2>7. QED
    BY <2>2, <2>6 DEF new
<1>5. CASE d < l
  <2>1. DayAfter(date) = [year |-> y, month |-> m, day |-> d + 1]
    BY <1>5 DEF DayAfter
  <2> HIDE DEF y, m, d
  <2>2. DayOfYear(m, d + 1) = DayOfYear(m, d) + 1
    BY <1>1, SMT DEF DayOfYear, MarchMonth
  <2>3. /\ YearStart(MarchYear(y, m)) + DayOfYear(m, d + 1)
              = YearStart(MarchYear(y, m)) + DayOfYear(m, d) + 1
        /\ d + 1 \in Int /\ 1 <= d + 1 /\ d + 1 <= l
    BY <1>1, <1>3, <1>5, <2>2, SMT
  <2>4. QED
    BY <1>1, <1>4, <2>1, <2>3
<1>6. CASE d = l /\ m < 12
  <2>1. DayAfter(date) = [year |-> y, month |-> m + 1, day |-> 1]
    BY <1>1, <1>6 DEF DayAfter
  <2> HIDE DEF y, m, d
  <2>2. 1 <= DaysOf(y, m + 1) /\ m + 1 \in Int /\ 1 <= m + 1 /\ m + 1 <= 12
    BY <1>1, <1>6, DaysOfType, SMT
  <2>3. YearStart(MarchYear(y, m + 1)) + DayOfYear(m + 1, 1)
          = YearStart(MarchYear(y, m)) + DayOfYear(m, d) + 1
    BY <1>1, <1>6, MonthEnds
  <2>4. QED
    BY <1>1, <1>4, <2>1, <2>2, <2>3
<1>7. CASE d = l /\ m = 12
  <2>1. DayAfter(date) = [year |-> y + 1, month |-> 1, day |-> 1]
    BY <1>1, <1>7 DEF DayAfter
  <2> HIDE DEF y, m, d
  <2>2. d = 31 /\ m = 12
    BY <1>7 DEF DaysOf
  <2>3. MarchYear(y + 1, 1) = MarchYear(y, m) /\ DayOfYear(1, 1) = DayOfYear(m, d) + 1
    <3>1. MarchYear(y + 1, 1) = y /\ MarchYear(y, 12) = y
      BY <1>1, SMT DEF MarchYear
    <3>2. DayOfYear(1, 1) = DayOfYear(12, 31) + 1
      BY SMT DEF DayOfYear, MarchMonth
    <3>3. QED
      BY <2>2, <3>1, <3>2
  <2>4. YearStart(MarchYear(y + 1, 1)) + DayOfYear(1, 1)
          = YearStart(MarchYear(y, m)) + DayOfYear(m, d) + 1
    BY <1>3, <2>3, SMT
  <2>5. 1 <= DaysOf(y + 1, 1) /\ y + 1 \in Int
    BY <1>1, DaysOfType, SMT
  <2>6. QED
    BY <1>1, <1>4, <2>1, <2>4, <2>5
<1>8. QED
  BY <1>1, <1>5, <1>6, <1>7, SMT

(* 1 January of every 400th year from 1970. *)
CycleStart(k) == [year |-> 1970 + 400 * k, month |-> 1, day |-> 1]

LEMMA CycleStartRight ==
    ASSUME NEW k \in Int
    PROVE  IsDate(CycleStart(k)) /\ ToDays(CycleStart(k)) = 146097 * k
<1> DEFINE date == CycleStart(k)
<1>1. /\ date.year = 1970 + 400 * k /\ date.year \in Int
      /\ date.month = 1 /\ date.day = 1
  BY SMT DEF CycleStart
<1> HIDE DEF date
<1>2. IsDate(date)
  BY <1>1, DaysOfType, SMT DEF IsDate
<1>3. ToDays(date) = YearStart(MarchYear(1970 + 400 * k, 1)) + DayOfYear(1, 1) - 719468
  BY <1>1, ToDaysIs, SMT
<1>4. MarchYear(1970 + 400 * k, 1) = 1969 + 400 * k /\ DayOfYear(1, 1) = 306
  BY SMT DEF MarchYear, DayOfYear, MarchMonth
<1>5. YearStart(1969 + 400 * k) = 719162 + 146097 * k
  BY SMT DEF YearStart
<1>6. QED
  BY <1>2, <1>3, <1>4, <1>5, SMT DEF date

-----------------------------------------------------------------------------
(* The time of day. *)

LEMMA DivFacts ==
    ASSUME NEW a \in Int, NEW b \in Nat \ {0}
    PROVE  /\ a \div b \in Int /\ a % b \in Int
           /\ a = b * (a \div b) + (a % b)
           /\ 0 <= a % b /\ a % b < b
BY SMT

LEMMA DivIs ==
    ASSUME NEW a \in Int, NEW b \in Nat \ {0}, NEW q \in Int, NEW r \in Int,
           0 <= r, r < b, a = b * q + r
    PROVE  a \div b = q
BY SMT

LEMMA DayType == Day \in Nat \ {0}
BY ClockAssumption, SMT DEF Day

(* floor<days> rounds down, before the epoch too. *)
LEMMA FloorDaysIs ==
    ASSUME NEW n \in Int, NEW s \in Int, 0 <= s, s < Day
    PROVE  FloorDays(n * Day + s) = n
<1> DEFINE x == n * Day + s
<1>0. Day \in Nat \ {0} /\ x \in Int /\ x = Day * n + s
  BY DayType, SMT
<1> HIDE DEF x
<1>1. CASE x >= 0
  <2>1. Trunc(x, Day) = n
    BY <1>0, <1>1, DivIs, SMT DEF Trunc
  <2>2. n * Day <= x
    BY <1>0, SMT
  <2>3. QED
    BY <2>1, <2>2, <1>0, SMT DEF FloorDays, x
<1>2. CASE x < 0 /\ s = 0
  <2>1. -x = Day * (-n) + 0 /\ -n \in Int /\ -x \in Int
    BY <1>0, <1>2, SMT
  <2>2. (-x) \div Day = -n
    BY <1>0, <2>1, DivIs, SMT
  <2>3. Trunc(x, Day) = n
    BY <1>0, <1>2, <2>2, SMT DEF Trunc
  <2>4. ~(n * Day > x)
    BY <1>0, <1>2, SMT
  <2>5. QED
    BY <2>3, <2>4 DEF FloorDays, x
<1>3. CASE x < 0 /\ s > 0
  <2>1. -x = Day * (-n - 1) + (Day - s) /\ -n - 1 \in Int /\ -x \in Int
        /\ Day - s \in Int /\ 0 <= Day - s /\ Day - s < Day
    BY <1>0, <1>3, SMT
  <2>2. (-x) \div Day = -n - 1
    BY <1>0, <2>1, DivIs, SMT
  <2>3. Trunc(x, Day) = n + 1
    BY <1>0, <1>3, <2>2, SMT DEF Trunc
  <2>4. (n + 1) * Day > x
    BY <1>0, SMT
  <2>5. QED
    BY <2>3, <2>4, SMT DEF FloorDays, x
<1>4. QED
  BY <1>0, <1>1, <1>2, <1>3, SMT

(* make_time takes the seconds of a day apart, and they add up again. *)
LEMMA ClockRight ==
    ASSUME NEW s \in Int, 0 <= s, s < Day
    PROVE  LET hour   == s \div (Minutes * Seconds)
               minute == (s \div Seconds) % Minutes
               second == s % Seconds
           IN  /\ hour \in 0..(Hours - 1)
               /\ minute \in 0..(Minutes - 1)
               /\ second \in 0..(Seconds - 1)
               /\ hour * Minutes * Seconds + minute * Seconds + second = s
<1> DEFINE q == s \div Seconds
           h == q \div Minutes
           mi == q % Minutes
           se == s % Seconds
<1>0. Hours \in Nat \ {0} /\ Minutes \in Nat \ {0} /\ Seconds \in Nat \ {0}
  BY ClockAssumption
<1>1. q \in Int /\ se \in Int /\ s = Seconds * q + se /\ 0 <= se /\ se < Seconds
  BY <1>0, DivFacts
<1> HIDE DEF q, se
<1>2. h \in Int /\ mi \in Int /\ q = Minutes * h + mi /\ 0 <= mi /\ mi < Minutes
  BY <1>0, <1>1, DivFacts
<1> HIDE DEF h, mi
<1>3. Seconds * mi \in Int /\ 0 <= Seconds * mi /\ Seconds * mi <= Seconds * (Minutes - 1)
  BY <1>0, <1>2, SMT
<1>4. Seconds * (Minutes - 1) = Minutes * Seconds - Seconds
  BY <1>0, SMT
<1>5. Seconds * q = (Minutes * Seconds) * h + Seconds * mi
  BY <1>0, <1>2, SMT
<1>6. /\ Minutes * Seconds \in Nat \ {0} /\ Seconds * mi + se \in Int
      /\ 0 <= Seconds * mi + se /\ Seconds * mi + se < Minutes * Seconds
  BY <1>0, <1>1, <1>2, <1>3, <1>4, SMT
<1>7. s = (Minutes * Seconds) * h + (Seconds * mi + se)
  BY <1>0, <1>1, <1>2, <1>3, <1>5, <1>6, SMT
<1>8. s \div (Minutes * Seconds) = h
  BY <1>2, <1>6, <1>7, DivIs
<1>9. 0 <= h
  <2>1. h <= -1 => (Minutes * Seconds) * h <= -(Minutes * Seconds)
    BY <1>2, <1>6, SMT
  <2>2. QED
    BY <1>2, <1>6, <1>7, <2>1, SMT
<1>10. h <= Hours - 1
  <2>1. h >= Hours => (Minutes * Seconds) * h >= (Minutes * Seconds) * Hours
    BY <1>0, <1>2, <1>6, SMT
  <2>2. Day = (Minutes * Seconds) * Hours
    BY <1>0, SMT DEF Day
  <2>3. QED
    BY <1>0, <1>2, <1>6, <1>7, <2>1, <2>2, SMT
<1>11. h * Minutes * Seconds + mi * Seconds + se = s
  BY <1>0, <1>1, <1>2, <1>7, SMT
<1>12. (s \div Seconds) % Minutes = mi /\ s % Seconds = se
  BY DEF q, mi, se
<1>13. h \in 0..(Hours - 1) /\ mi \in 0..(Minutes - 1) /\ se \in 0..(Seconds - 1)
  BY <1>0, <1>1, <1>2, <1>9, <1>10, SMT
<1>14. QED
  BY <1>8, <1>11, <1>12, <1>13, Zenon

(* A date with the time s seconds after midnight, read and written. *)
LEMMA WrittenAs ==
    ASSUME NEW n \in Int, NEW s \in Int, 0 <= s, s < Day
    PROVE  SystemTime(n * Day + s) =
               [date |-> FromDays(n), hour |-> s \div (Minutes * Seconds),
                minute |-> (s \div Seconds) % Minutes, second |-> s % Seconds]
<1>1. FloorDays(n * Day + s) = n
  BY FloorDaysIs
<1>2. (n * Day + s) - n * Day = s
  BY DayType, SMT
<1>3. QED
  BY <1>1, <1>2, Zenon DEF SystemTime

LEMMA Interval ==
    ASSUME NEW l \in Int, NEW h \in Int, NEW y
    PROVE  y \in l..h <=> y \in Int /\ l <= y /\ y <= h
BY SMT

LEMMA FourDigitsAre ==
    ASSUME NEW y
    PROVE  /\ y \in FourDigits <=> y \in Int /\ -9999 <= y /\ y <= 9999
           /\ y \in FourDigits => y \in Years
<1> DEFINE l == -9999
           h == 9999
           a == -32767
           b == 32767
<1>1. l \in Int /\ h \in Int /\ a \in Int /\ b \in Int /\ a <= l /\ h <= b
  BY SMT
<1>2. FourDigits = l..h /\ Years = a..b
  BY DEF FourDigits, Years
<1> HIDE DEF l, h, a, b
<1>3. y \in FourDigits <=> y \in Int /\ l <= y /\ y <= h
  BY <1>1, <1>2, Interval
<1>4. y \in FourDigits => y \in Int /\ a <= y /\ y <= b
  BY <1>1, <1>3, SMT
<1>5. QED
  BY <1>1, <1>2, <1>3, <1>4, Interval DEF l, h

LEMMA LastDayIs ==
    ASSUME NEW y \in Int, NEW m \in 1..12
    PROVE  LastDay(y, m) = DaysOf(y, m)
<1>1. CASE m = 2
  <2>1. y % 400 = 0 => y % 4 = 0
    BY SMT
  <2>2. LastDay(y, 2) = IF IsLeap(y) THEN 29 ELSE 28
    BY SMT DEF LastDay
  <2>3. DaysOf(y, 2) = IF IsLeap(y) THEN 29 ELSE 28
    BY <2>1 DEF DaysOf, IsLeap
  <2>4. QED
    BY <1>1, <2>2, <2>3
<1>2. CASE m \in {4, 6, 9, 11}
  BY <1>2, SMT DEF LastDay, DaysOf
<1>3. CASE m \in {1, 3, 5, 7, 8, 10, 12}
  BY <1>3, SMT DEF LastDay, DaysOf
<1>4. QED
  BY <1>1, <1>2, <1>3, SMT

LEMMA DatesValid ==
    ASSUME NEW date, date.year \in FourDigits
    PROVE  /\ IsDate(date) <=> ValidDate(date)
           /\ IsDate(date) => ToDays(date) \in Int
<1>1. date.year \in Int /\ date.year \in Years
  BY FourDigitsAre
<1>2. IsDate(date) <=> ValidDate(date)
  BY <1>1, LastDayIs DEF ValidDate, IsDate
<1>3. IsDate(date) => date.month \in Int /\ date.day \in Int
  BY <1>1, DaysOfType DEF IsDate
<1>4. ASSUME date.month \in Int, date.day \in Int PROVE ToDays(date) \in Int
  BY <1>1, <1>4, ToDaysIs, SMT DEF YearStart, DayOfYear, MarchYear, MarchMonth
<1>5. QED
  BY <1>2, <1>3, <1>4

TextOf(date, h, mi, se) == [date |-> date, hour |-> h, minute |-> mi, second |-> se]

LEMMA ReadAgain ==
    ASSUME NEW date, ValidDate(date), date.year \in FourDigits, ToDays(date) \in Int,
           NEW h \in 0..(Hours - 1), NEW mi \in 0..(Minutes - 1), NEW se \in 0..(Seconds - 1),
           NEW s \in Int, h * Minutes * Seconds + mi * Seconds + se = s
    PROVE  FromSystemTime(TextOf(date, h, mi, se)) = ToDays(date) * Day + s
<1> DEFINE text == TextOf(date, h, mi, se)
<1>1. text.hour = h /\ text.minute = mi /\ text.second = se /\ text.date = date
  BY DEF TextOf
<1> HIDE DEF text
<1>2. Parses(text)
  BY <1>1, SMT DEF Parses
<1>3. FromSystemTime(text) = ToDays(date) * Day + h * Minutes * Seconds + mi * Seconds + se
  BY <1>1, <1>2, SMT DEF FromSystemTime
<1>4. /\ h * Minutes * Seconds \in Int /\ mi * Seconds \in Int /\ se \in Int
      /\ ToDays(date) * Day \in Int
  BY ClockAssumption, DayType, SMT
<1>5. FromSystemTime(text) = ToDays(date) * Day + s
  BY <1>3, <1>4, SMT
<1>6. QED
  BY <1>5 DEF text

LEMMA ShortFacts ==
    ASSUME NEW n \in Int
    PROVE  /\ Short(n) \in Int /\ -32768 <= Short(n) /\ Short(n) <= 32767
           /\ \E k \in Int : n = Short(n) + 65536 * k
           /\ -32768 <= n /\ n <= 32767 => Short(n) = n
<1> DEFINE k == (n + 32768) \div 65536
<1>1. k \in Int /\ n = Short(n) + 65536 * k
  BY SMT DEF Short
<1>2. Short(n) \in Int /\ -32768 <= Short(n) /\ Short(n) <= 32767
  BY SMT DEF Short
<1>3. -32768 <= n /\ n <= 32767 => Short(n) = n
  BY SMT DEF Short
<1> HIDE DEF k
<1>4. QED
  BY <1>1, <1>2, <1>3

LEMMA ShortYear ==
    ASSUME NEW n \in FourDigits
    PROVE  Short(n) = n
<1>1. n \in Int /\ -9999 <= n /\ n <= 9999
  BY FourDigitsAre
<1>2. -32768 <= n /\ n <= 32767
  BY <1>1, SMT
<1>3. QED
  BY <1>1, <1>2, ShortFacts

-----------------------------------------------------------------------------
(* Every day has a date: r days after the beginning of cycle k. *)
LEMMA EveryDay ==
    ASSUME NEW n \in Int
    PROVE  \E date : IsDate(date) /\ ToDays(date) = n
<1>1. PICK k \in Int, rest \in Nat : n = 146097 * k + rest
  <2>1. /\ n = 146097 * (n \div 146097) + (n % 146097)
        /\ n \div 146097 \in Int /\ n % 146097 \in Nat
    BY SMT
  <2>2. QED
    BY <2>1
<1> DEFINE S == {r \in Nat : \E date : IsDate(date) /\ ToDays(date) = 146097 * k + r}
<1>2. 0 \in S
  <2>1. IsDate(CycleStart(k)) /\ ToDays(CycleStart(k)) = 146097 * k
    BY <1>1, CycleStartRight
  <2>2. 146097 * k + 0 = 146097 * k
    BY <1>1, SMT
  <2>3. QED
    BY <2>1, <2>2
<1>3. ASSUME NEW r \in Nat, r \in S PROVE r + 1 \in S
  <2>1. PICK date : IsDate(date) /\ ToDays(date) = 146097 * k + r
    BY <1>3
  <2>2. IsDate(DayAfter(date)) /\ ToDays(DayAfter(date)) = 146097 * k + r + 1
    BY <2>1, DayAfterRight
  <2>3. 146097 * k + r + 1 = 146097 * k + (r + 1)
    BY <1>1, SMT
  <2>4. QED
    BY <2>2, <2>3
<1>4. Nat \subseteq S
  <2> HIDE DEF S
  <2>1. QED
    BY <1>2, <1>3, SetInduction
<1>5. rest \in S
  BY <1>4
<1>6. QED
  BY <1>1, <1>5

JanuaryFirst(y) == [year |-> y, month |-> 1, day |-> 1]

LEMMA YearsOrdered ==
    ASSUME NEW a \in Int, NEW b \in Int
    PROVE  /\ YearStart(a) \in Int
           /\ a <= b => YearStart(a) <= YearStart(b)
           /\ YearStart(a - 1) + 365 <= YearStart(a)
BY SMT DEF YearStart

(* A date is before the first day of a year if its year is, and else not. *)
LEMMA YearBegins ==
    ASSUME NEW date, IsDate(date), NEW y \in Int
    PROVE  /\ ToDays(date) \in Int /\ ToDays(JanuaryFirst(y)) \in Int
           /\ date.year < y <=> ToDays(date) < ToDays(JanuaryFirst(y))
<1> DEFINE a == date.year
           m == date.month
           d == date.day
           first == JanuaryFirst(y)
<1>1. /\ a \in Int /\ m \in Int /\ 1 <= m /\ m <= 12 /\ d \in Int /\ 1 <= d
      /\ d <= DaysOf(a, m)
  BY DaysOfType DEF IsDate
<1>2. first.year = y /\ first.month = 1 /\ first.day = 1
  BY DEF JanuaryFirst
<1>3. ToDays(date) = YearStart(MarchYear(a, m)) + DayOfYear(m, d) - 719468
  BY <1>1, ToDaysIs
<1> HIDE DEF first
<1>4. ToDays(first) = YearStart(MarchYear(y, 1)) + DayOfYear(1, 1) - 719468
  BY <1>2, ToDaysIs
<1> HIDE DEF a, m, d
<1>5. MarchYear(y, 1) = y - 1 /\ DayOfYear(1, 1) = 306
  BY SMT DEF MarchYear, DayOfYear, MarchMonth
<1>6. DayOfYear(m, d) \in Int /\ 0 <= DayOfYear(m, d) /\ DayOfYear(m, d) <= 365
  BY <1>1, MonthRight
<1>7. /\ YearStart(a) \in Int /\ YearStart(a - 1) \in Int /\ YearStart(y - 1) \in Int
      /\ YearStart(a - 1) + 365 <= YearStart(a)
  BY <1>1, YearsOrdered
<1>8. a < y => YearStart(a) <= YearStart(y - 1)
  BY <1>1, YearsOrdered, SMT
<1>9. ~(a < y) => YearStart(y - 1) <= YearStart(a - 1)
  BY <1>1, YearsOrdered, SMT
<1>10. CASE m <= 2
  <2>1. MarchYear(a, m) = a - 1
    BY <1>10 DEF MarchYear
  <2>2. 306 <= DayOfYear(m, d)
    BY <1>1, <1>10, SMT DEF DayOfYear, MarchMonth
  <2>3. QED
    BY <1>3, <1>4, <1>5, <1>6, <1>7, <1>8, <1>9, <2>1, <2>2, SMT DEF a, first
<1>11. CASE m > 2
  <2>1. MarchYear(a, m) = a
    BY <1>1, <1>11, SMT DEF MarchYear
  <2>2. DayOfYear(m, d) <= 305
    <3>1. d <= 31
      BY <1>1, DaysOfType, SMT
    <3>2. QED
      BY <1>1, <1>11, <3>1, SMT DEF DayOfYear, MarchMonth
  <2>3. QED
    BY <1>3, <1>4, <1>5, <1>6, <1>7, <1>8, <1>9, <2>1, <2>2, SMT DEF a, first
<1>12. QED
  BY <1>1, <1>10, <1>11, SMT

LEMMA WholeDays ==
    ASSUME NEW a \in Int, NEW b \in Int, NEW l \in Nat \ {0},
           NEW s \in Int, 0 <= s, s < l
    PROVE  b * l <= a * l + s <=> b <= a
<1>1. ASSUME b <= a PROVE b * l <= a * l
  BY <1>1, SMT
<1>2. ASSUME a + 1 <= b PROVE (a + 1) * l <= b * l
  BY <1>2, SMT
<1>3. (a + 1) * l = a * l + l /\ a * l \in Int /\ b * l \in Int
  BY SMT
<1>4. CASE b <= a
  BY <1>1, <1>3, <1>4, SMT
<1>5. CASE a + 1 <= b
  BY <1>2, <1>3, <1>5, SMT
<1>6. QED
  BY <1>4, <1>5, SMT

(* A time of a year with at most four digits is read back as it was        *)
(* written.                                                                *)
LEMMA TimeSurvives ==
    ASSUME NEW v \in Int,
           ToDays(JanuaryFirst(-9999)) * Day <= v, v < ToDays(JanuaryFirst(10000)) * Day
    PROVE  FromSystemTime(SystemTime(v)) = v
<1> DEFINE n == v \div Day
           s == v % Day
           h == s \div (Minutes * Seconds)
           mi == (s \div Seconds) % Minutes
           se == s % Seconds
<1>1. n \in Int /\ s \in Int /\ 0 <= s /\ s < Day /\ v = n * Day + s
  BY DayType, DivFacts, SMT
<1>2. /\ h \in 0..(Hours - 1) /\ mi \in 0..(Minutes - 1) /\ se \in 0..(Seconds - 1)
      /\ h * Minutes * Seconds + mi * Seconds + se = s
  BY <1>1, ClockRight
<1>3. \A k \in Int : SystemTime(k * Day + s) = TextOf(FromDays(k), h, mi, se)
  BY <1>1, WrittenAs DEF TextOf
<1> HIDE DEF n, s, h, mi, se
<1>4. PICK date : IsDate(date) /\ ToDays(date) = n
  BY <1>1, EveryDay
<1>5. date.year \in Int
  BY <1>4 DEF IsDate
<1>6. PICK a \in Int, b \in Int : a = -9999 /\ b = 10000
  BY SMT
<1>7. ToDays(JanuaryFirst(a)) \in Int /\ ToDays(JanuaryFirst(b)) \in Int
  BY <1>4, YearBegins
<1>8. ToDays(JanuaryFirst(a)) <= n /\ ~(ToDays(JanuaryFirst(b)) <= n)
  <2>1. ToDays(JanuaryFirst(a)) * Day <= n * Day + s
    BY <1>1, <1>6
  <2>2. ~(ToDays(JanuaryFirst(b)) * Day <= n * Day + s)
    <3>1. n * Day + s < ToDays(JanuaryFirst(b)) * Day
      BY <1>1, <1>6
    <3>2. ToDays(JanuaryFirst(b)) * Day \in Int /\ n * Day + s \in Int
      BY <1>1, <1>7, DayType, SMT
    <3>3. QED
      BY <3>1, <3>2, SMT
  <2>3. QED
    BY <1>1, <1>7, <2>1, <2>2, DayType, WholeDays
<1>9. ~(date.year < a) /\ date.year < b
  BY <1>1, <1>4, <1>7, <1>8, YearBegins, SMT
<1>10. date.year \in FourDigits
  BY <1>5, <1>6, <1>9, FourDigitsAre, SMT
<1>11. Short(date.year) = date.year /\ ValidDate(date)
  BY <1>4, <1>10, ShortYear, DatesValid
<1> DEFINE read == [year |-> date.year, month |-> date.month, day |-> date.day]
<1>12. FromDays(n) = read
  BY <1>4, <1>11, FromDaysRight
<1>13. /\ read.year = date.year /\ read.month = date.month /\ read.day = date.day
  OBVIOUS
<1> HIDE DEF read
<1>14. IsDate(read) /\ ToDays(read) = n
  <2>1. IsDate(read)
    BY <1>4, <1>13 DEF IsDate
  <2>2. ToDays(read) = ToDays(date)
    BY <1>13 DEF ToDays
  <2>3. QED
    BY <1>4, <2>1, <2>2
<1>15. ValidDate(read) /\ read.year \in FourDigits
  BY <1>10, <1>13, <1>14, DatesValid
<1>16. FromSystemTime(TextOf(read, h, mi, se)) = n * Day + s
  BY <1>1, <1>2, <1>14, <1>15, ReadAgain
<1>17. QED
  BY <1>1, <1>3, <1>12, <1>16
=============================================================================
