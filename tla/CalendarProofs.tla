--------------------------- MODULE CalendarProofs ---------------------------
(***************************************************************************)
(* Proofs about Calendar: the arithmetic of TimePoints is right on every   *)
(* day of every walk.                                                      *)
(***************************************************************************)
EXTENDS Calendar, TimePointsProofs

LEMMA LengthIs == \A y, m : Length(y, m) = DaysOf(y, m)
BY DEF Length, DaysOf

Inv ==
    /\ number \in Int
    /\ today = [year |-> today.year, month |-> today.month, day |-> today.day]
    /\ IsDate(today)
    /\ ToDays(today) = number

LEMMA WalkInit == Init => Inv
<1> SUFFICES ASSUME Init PROVE Inv
  OBVIOUS
<1>1. PICK w \in Walks : /\ number = w[1] * Cycle
                        /\ today = CycleStart(w[1])
  BY DEF Init, CycleStart
<1>2. PICK k \in Int : k = w[1]
  BY WalksAssumption
<1>3. number = 146097 * k /\ number \in Int
  BY <1>1, <1>2, SMT DEF Cycle
<1>4. IsDate(today) /\ ToDays(today) = number
  BY <1>1, <1>2, <1>3, CycleStartRight
<1>5. today = [year |-> today.year, month |-> today.month, day |-> today.day]
  BY <1>1 DEF CycleStart
<1>6. QED
  BY <1>3, <1>4, <1>5 DEF Inv

LEMMA WalkNext == Inv /\ [Next]_vars => Inv'
<1> SUFFICES ASSUME Inv, [Next]_vars PROVE Inv'
  OBVIOUS
<1>1. CASE UNCHANGED vars
  BY <1>1 DEF vars, Inv, IsDate
<1>2. CASE Tomorrow
  <2>1. /\ today = [year |-> today.year, month |-> today.month, day |-> today.day]
        /\ number \in Int /\ IsDate(today) /\ ToDays(today) = number
        /\ number' = number + 1
    BY <1>2 DEF Inv, Tomorrow
  <2>2. today.month <= 12 /\ today.day <= DaysOf(today.year, today.month)
    BY <2>1, DaysOfType DEF IsDate
  <2>3. today' = DayAfter(today)
    <3> DEFINE y == today.year
               m == today.month
               d == today.day
    <3>1. today = [year |-> y, month |-> m, day |-> d] /\ m <= 12 /\ d <= DaysOf(y, m)
          /\ y \in Int /\ m \in Int /\ d \in Int /\ DaysOf(y, m) \in Int
      BY <2>1, <2>2, DaysOfType DEF IsDate
    <3>2. DayAfter(today) =
              IF d < DaysOf(y, m) THEN [year |-> y, month |-> m, day |-> d + 1]
              ELSE IF m < 12 THEN [year |-> y, month |-> m + 1, day |-> 1]
              ELSE [year |-> y + 1, month |-> 1, day |-> 1]
      BY DEF DayAfter
    <3>3. Length(y, m) = DaysOf(y, m)
      BY LengthIs
    <3> HIDE DEF y, m, d
    <3>4. CASE d < DaysOf(y, m) /\ today' = [year |-> y, month |-> m, day |-> d + 1]
      BY <3>2, <3>4
    <3>5. CASE d = DaysOf(y, m) /\ m < 12 /\ today' = [year |-> y, month |-> m + 1, day |-> 1]
      <4>1. ~(d < DaysOf(y, m))
        BY <3>1, <3>5
      <4>2. QED
        BY <3>2, <3>5, <4>1
    <3>6. CASE d = DaysOf(y, m) /\ m = 12 /\ today' = [year |-> y + 1, month |-> 1, day |-> 1]
      <4>1. ~(d < DaysOf(y, m)) /\ ~(m < 12)
        BY <3>1, <3>6
      <4>2. QED
        BY <3>2, <3>6, <4>1
    <3>7. QED
      BY <1>2, <3>1, <3>3, <3>4, <3>5, <3>6 DEF Tomorrow, y, m, d
  <2>4. IsDate(today') /\ ToDays(today') = number'
    BY <2>1, <2>3, DayAfterRight
  <2>5. today' = [year |-> today'.year, month |-> today'.month, day |-> today'.day]
    BY <2>3 DEF DayAfter
  <2>6. QED
    BY <2>1, <2>4, <2>5 DEF Inv, IsDate
<1>3. QED
  BY <1>1, <1>2 DEF Next

LEMMA AlwaysInv == Spec => []Inv
BY WalkInit, WalkNext, PTL DEF Spec

(* from_days and to_days are right on every day of every walk.             *)
THEOREM CalendarIsRight == Spec => []CalendarRight
<1>1. Inv => CalendarRight
  BY FromDaysRight DEF Inv, CalendarRight
<1>2. QED
  BY <1>1, AlwaysInv, PTL

-----------------------------------------------------------------------------
(* Dates of different years are different days. *)
LEMMA YearsDiffer ==
    ASSUME NEW a \in Int, NEW b \in Int, NEW m \in Int, NEW d \in Int, a # b,
           NEW date, date.year = a, date.month = m, date.day = d,
           NEW other, other.year = b, other.month = m, other.day = d
    PROVE  ToDays(date) # ToDays(other)
<1>1. \A x, y \in Int : x < y => YearStart(x) < YearStart(y)
  BY SMT DEF YearStart
<1>2. /\ MarchYear(a, m) \in Int /\ MarchYear(b, m) \in Int
      /\ MarchYear(a, m) # MarchYear(b, m)
  BY SMT DEF MarchYear
<1>3. YearStart(MarchYear(a, m)) # YearStart(MarchYear(b, m))
  <2>1. \A x \in Int : YearStart(x) \in Int
    BY SMT DEF YearStart
  <2>2. QED
    BY <1>1, <1>2, <2>1, SMT
<1>4. YearStart(MarchYear(a, m)) \in Int /\ YearStart(MarchYear(b, m)) \in Int
      /\ DayOfYear(m, d) \in Int
  BY <1>2, SMT DEF YearStart, DayOfYear, MarchMonth
<1>5. /\ ToDays(date) = YearStart(MarchYear(a, m)) + DayOfYear(m, d) - 719468
      /\ ToDays(other) = YearStart(MarchYear(b, m)) + DayOfYear(m, d) - 719468
  BY ToDaysIs
<1>6. QED
  BY <1>3, <1>4, <1>5, SMT

LEMMA EpochIs == FromDays(0) = [year |-> 1970, month |-> 1, day |-> 1]
<1> DEFINE date == [year |-> 1970, month |-> 1, day |-> 1]
<1>1. date.year = 1970 /\ date.month = 1 /\ date.day = 1
  OBVIOUS
<1> HIDE DEF date
<1>2. IsDate(date)
  BY <1>1, DaysOfType, SMT DEF IsDate
<1>3. YearStart(MarchYear(1970, 1)) = 719162 /\ DayOfYear(1, 1) = 306
  BY SMT DEF YearStart, MarchYear, DayOfYear, MarchMonth
<1>4. ToDays(date) = 0
  BY <1>1, <1>3, ToDaysIs, SMT
<1>5. Short(1970) = 1970
  BY SMT DEF Short
<1>6. QED
  BY <1>1, <1>2, <1>4, <1>5, FromDaysRight

LEMMA ReadBack ==
    ASSUME Inv, NEW s \in 0..(Day - 1)
    PROVE  LET time == number * Day + s
               read == FromSystemTime(SystemTime(time))
           IN  IF today.year \in FourDigits THEN read = time
               ELSE /\ read # time
                    /\ read # 0 => SystemTime(read) = SystemTime(time)
<1> DEFINE time == number * Day + s
           read == FromSystemTime(SystemTime(time))
           h    == s \div (Minutes * Seconds)
           mi   == (s \div Seconds) % Minutes
           se   == s % Seconds
           y    == today.year
           date == [year |-> Short(y), month |-> today.month, day |-> today.day]
<1>0. s \in Int /\ 0 <= s /\ s < Day
  BY DayType, SMT
<1>1. /\ h \in 0..(Hours - 1) /\ mi \in 0..(Minutes - 1) /\ se \in 0..(Seconds - 1)
      /\ h * Minutes * Seconds + mi * Seconds + se = s
  BY <1>0, ClockRight
<1>2. number \in Int /\ IsDate(today) /\ ToDays(today) = number
      /\ today = [year |-> today.year, month |-> today.month, day |-> today.day]
  BY DEF Inv
<1>3. FromDays(number) = date
  BY <1>2, FromDaysRight
<1>4. \A n \in Int : SystemTime(n * Day + s) = TextOf(FromDays(n), h, mi, se)
  BY <1>0, WrittenAs DEF TextOf
<1> HIDE DEF h, mi, se
<1>5. SystemTime(time) = TextOf(date, h, mi, se)
  BY <1>2, <1>3, <1>4
<1>6. y \in Int /\ Short(y) \in Int
  BY <1>2, ShortFacts DEF IsDate
<1>7. /\ date.year = Short(y) /\ date.month = today.month /\ date.day = today.day
  OBVIOUS
<1> HIDE DEF date
<1>8. ASSUME IsDate(date), Short(y) \in FourDigits
      PROVE  read = ToDays(date) * Day + s /\ ToDays(date) \in Int
  <2>1. ValidDate(date) /\ ToDays(date) \in Int
    BY <1>7, <1>8, DatesValid
  <2>2. QED
    BY <1>0, <1>1, <1>5, <1>7, <1>8, <2>1, ReadAgain
<1>9. CASE y \in FourDigits
  <2>1. Short(y) = y
    BY <1>9, ShortYear
  <2>2. date = today
    BY <1>2, <2>1 DEF date
  <2>3. read = time
    BY <1>2, <1>8, <1>9, <2>1, <2>2
  <2>4. QED
    BY <1>9, <2>3
<1>10. CASE y \notin FourDigits
  <2>1. CASE Parses(SystemTime(time))
    <3>1. SystemTime(time).date = date
      BY <1>5 DEF TextOf
    <3>2. Short(y) \in FourDigits /\ ValidDate(date)
      BY <1>7, <2>1, <3>1 DEF Parses
    <3>3. IsDate(date)
      BY <1>7, <3>2, DatesValid
    <3>4. read = ToDays(date) * Day + s /\ ToDays(date) \in Int
      BY <1>8, <3>2, <3>3
    <3>5. ToDays(date) # number
      <4>1. Short(y) # y
        BY <1>10, <3>2
      <4>2. today.month \in Int /\ today.day \in Int
        BY <1>2, <1>6, DaysOfType DEF IsDate
      <4>3. QED
        BY <1>2, <1>6, <1>7, <4>1, <4>2, YearsDiffer
    <3>6. read # time
      <4>1. FloorDays(read) = ToDays(date)
        BY <1>0, <3>4, FloorDaysIs
      <4>2. FloorDays(time) = number
        BY <1>0, <1>2, FloorDaysIs
      <4>3. QED
        BY <3>5, <4>1, <4>2
    <3>7. FromDays(ToDays(date)) = date
      <4>1. Short(date.year) = date.year
        BY <1>7, <3>2, ShortYear
      <4>2. QED
        BY <3>3, <4>1, FromDaysRight DEF date
    <3>8. SystemTime(read) = SystemTime(time)
      BY <1>4, <1>5, <3>4, <3>7
    <3>9. QED
      BY <1>10, <3>6, <3>8
  <2>2. CASE ~Parses(SystemTime(time))
    <3>1. read = 0
      BY <2>2 DEF FromSystemTime
    <3>2. time # 0
      <4>1. SUFFICES ASSUME time = 0 PROVE FALSE
        OBVIOUS
      <4>2. FloorDays(time) = number
        BY <1>0, <1>2, FloorDaysIs
      <4>3. FloorDays(0 * Day + 0) = 0
        BY DayType, FloorDaysIs, SMT
      <4>4. 0 * Day + 0 = 0
        BY DayType, SMT
      <4>5. number = 0
        BY <4>1, <4>2, <4>3, <4>4
      <4>6. date = [year |-> 1970, month |-> 1, day |-> 1]
        BY <1>3, <4>5, EpochIs
      <4>7. date.year = 1970 /\ date.month = 1 /\ date.day = 1
        BY <4>6
      <4>8. Short(y) \in FourDigits
        BY <1>7, <4>7, FourDigitsAre, SMT
      <4>9. IsDate(date)
        BY <4>7, DaysOfType, SMT DEF IsDate
      <4>10. ValidDate(date) /\ date.year \in FourDigits
        BY <1>7, <4>8, <4>9, DatesValid
      <4>11. /\ SystemTime(time).date = date /\ SystemTime(time).hour = h
             /\ SystemTime(time).minute = mi /\ SystemTime(time).second = se
        BY <1>5 DEF TextOf
      <4>12. Parses(SystemTime(time))
        BY <1>1, <4>10, <4>11 DEF Parses
      <4>13. QED
        BY <2>2, <4>12
    <3>3. QED
      BY <1>10, <3>1, <3>2
  <2>3. QED
    BY <2>1, <2>2
<1>11. QED
  BY <1>9, <1>10

(* What TimePoint writes it reads back, every second of a day, unless the  *)
(* year has more than four digits, and then it does not.                   *)
THEOREM TimesReadBack == Spec => []TextReadBack
<1>1. Inv => TextReadBack
  BY ReadBack DEF TextReadBack
<1>2. QED
  BY <1>1, AlwaysInv, PTL
=============================================================================
