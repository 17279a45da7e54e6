------------------------------ MODULE TimeProofs ------------------------------
(***************************************************************************)
(* Proofs about Periods, for any frequencies, any moments that leave years *)
(* enough on each side of them, and any count of ticks in a day.           *)
(*                                                                         *)
(* The calendar comes first: years and months follow one another without   *)
(* a gap, so YearOf and MonthOf find the one a date is in (YearIs,         *)
(* MonthIs).  A year, a quarter and a month then count months from one     *)
(* they start with (MonthUnits), a week days, and business days weeks of   *)
(* five (WorkedDays).  So the spans of a frequency follow one another, no  *)
(* two overlap, and the ordinal of a moment is that of the one span it is  *)
(* in (SpanHolds, SpanIsOne).  Two frequencies that Sub- or SuperPeriod    *)
(* allows fit: no span of the finer one lies across the start or the end   *)
(* of one of the coarser (DividesFits).  The rest is bookkeeping.          *)
(***************************************************************************)
EXTENDS MCTime, WellFoundedInduction, TLAPS
-----------------------------------------------------------------------------
(* The calendar. *)
LEMMA FourYears ==
  ASSUME NEW y \in Int
  PROVE  /\ (y - 1901) \div 100 = ((y - 1969) \div 4 + 17) \div 25
         /\ (y - 1601) \div 400 = ((y - 1969) \div 4 + 92) \div 100
<1> DEFINE A == (y - 1969) \div 4
<1>1. A \in Int /\ 4 * A <= y - 1969 /\ y - 1969 <= 4 * A + 3
  OBVIOUS
<1> HIDE DEF A
<1>2. (y - 1901) \div 100 = (A + 17) \div 25
  BY <1>1
<1>3. (y - 1601) \div 400 = (A + 92) \div 100
  BY <1>1
<1>4. QED
  BY <1>2, <1>3 DEF A

\* A year is followed by the next.
LEMMA YearsAreLong ==
  ASSUME NEW y \in Int
  PROVE  /\ NewYear(y) \in Int
         /\ NewYear(y + 1) = NewYear(y) + IF IsLeap(y) THEN 366 ELSE 365
<1>1. NewYear(y) \in Int
  BY DEF NewYear
<1>2. (y + 1 - 1969) \div 4 = (y - 1969) \div 4 + IF y % 4 = 0 THEN 1 ELSE 0
  OBVIOUS
<1>3. (y + 1 - 1901) \div 100 = (y - 1901) \div 100 + IF y % 100 = 0 THEN 1 ELSE 0
  OBVIOUS
<1>4. (y + 1 - 1601) \div 400 = (y - 1601) \div 400 + IF y % 400 = 0 THEN 1 ELSE 0
  OBVIOUS
<1>5. (y % 400 = 0 => y % 100 = 0) /\ (y % 100 = 0 => y % 4 = 0)
  OBVIOUS
<1>6. QED
  BY <1>1, <1>2, <1>3, <1>4, <1>5 DEF NewYear, IsLeap

\* No year is shorter than 365 days.
LEMMA YearsRise ==
  ASSUME NEW y \in Int, NEW z \in Int, y <= z
  PROVE  NewYear(y) + 365 * (z - y) <= NewYear(z)
<1> DEFINE A == (y - 1969) \div 4
           B == (z - 1969) \div 4
<1>1. A \in Int /\ B \in Int /\ A <= B
  OBVIOUS
<1>2. /\ (y - 1901) \div 100 = (A + 17) \div 25 /\ (y - 1601) \div 400 = (A + 92) \div 100
      /\ (z - 1901) \div 100 = (B + 17) \div 25 /\ (z - 1601) \div 400 = (B + 92) \div 100
  BY FourYears
<1>3. /\ NewYear(y) = 365 * (y - 1970) + A - (A + 17) \div 25 + (A + 92) \div 100
      /\ NewYear(z) = 365 * (z - 1970) + B - (B + 17) \div 25 + (B + 92) \div 100
  BY <1>2 DEF NewYear
<1> HIDE DEF A, B
<1>4. (B + 17) \div 25 - (A + 17) \div 25 <= B - A
  BY <1>1
<1>5. (A + 92) \div 100 <= (B + 92) \div 100
  BY <1>1
<1>6. (A + 17) \div 25 \in Int /\ (B + 17) \div 25 \in Int /\ (A + 92) \div 100 \in Int /\ (B + 92) \div 100 \in Int
  BY <1>1
<1>7. QED
  BY <1>1, <1>3, <1>4, <1>5, <1>6

\* The dates whose year YearOf finds.
CivilDates == 0 .. NewYear(2420) - 1

\* YearOf finds the year a date is in, and a date is in no other.
LEMMA YearIs ==
  ASSUME NEW date \in CivilDates
  PROVE  /\ YearOf(date) \in 1970 .. 2419
         /\ NewYear(YearOf(date)) <= date /\ date < NewYear(YearOf(date) + 1)
         /\ \A y \in Int : NewYear(y) <= date /\ date < NewYear(y + 1) => y = YearOf(date)
<1> DEFINE q == date \div 366
           early == 1970 + q
<1>1. NewYear(2420) = 164359
  BY DEF NewYear
<1>2. date \in Int /\ q \in 0 .. 449 /\ 366 * q <= date /\ date < 366 * q + 366
  BY <1>1 DEF CivilDates
<1>3. NewYear(early) <= 366 * q
  BY <1>2 DEF NewYear
<1>4. 366 * q + 366 <= NewYear(early + 2)
  <2>1. NewYear(early + 2) = 365 * (q + 2) + (q + 3) \div 4 - (q + 71) \div 100 + (q + 371) \div 400
    BY <1>2 DEF NewYear
  <2>2. /\ (q + 3) \div 4 \in Int /\ (q + 71) \div 100 \in 0 .. 5 /\ (q + 371) \div 400 \in Int
        /\ 0 <= (q + 371) \div 400 /\ 4 * ((q + 3) \div 4) >= q
    BY <1>2
  <2>3. QED
    BY <1>2, <2>1, <2>2
<1>5. /\ early \in Int /\ NewYear(early) \in Int /\ NewYear(early + 1) \in Int
      /\ NewYear(early + 2) \in Int /\ early + 1 + 1 = early + 2
  BY <1>2, YearsAreLong
<1> HIDE DEF early
<1>6. PICK y \in early .. early + 1 : NewYear(y) <= date /\ date < NewYear(y + 1)
  <2>1. CASE date < NewYear(early + 1)
    BY <1>2, <1>3, <1>5, <2>1
  <2>2. CASE ~(date < NewYear(early + 1))
    <3>1. early + 1 \in early .. early + 1 /\ NewYear(early + 1) <= date
      BY <1>2, <1>5, <2>2
    <3>2. date < NewYear(early + 1 + 1)
      BY <1>2, <1>4, <1>5
    <3>3. QED
      BY <3>1, <3>2
  <2>3. QED
    BY <2>1, <2>2
<1>7. \A z \in Int : NewYear(z) <= date /\ date < NewYear(z + 1) => z = y
  <2>1. SUFFICES ASSUME NEW z \in Int, NewYear(z) <= date, date < NewYear(z + 1), z # y
                 PROVE  FALSE
    OBVIOUS
  <2>2. y \in Int /\ NewYear(y) \in Int /\ NewYear(y + 1) \in Int /\ NewYear(z) \in Int /\ NewYear(z + 1) \in Int
    BY <1>2, <1>6, YearsAreLong
  <2>3. CASE z < y
    <3>1. z + 1 \in Int /\ z + 1 <= y /\ 0 <= 365 * (y - (z + 1))
      BY <2>2, <2>3
    <3>2. NewYear(z + 1) + 365 * (y - (z + 1)) <= NewYear(y)
      BY <2>2, <3>1, YearsRise
    <3>3. QED
      BY <1>2, <1>6, <2>1, <2>2, <3>1, <3>2
  <2>4. CASE y < z
    <3>1. y + 1 \in Int /\ y + 1 <= z /\ 0 <= 365 * (z - (y + 1))
      BY <2>2, <2>4
    <3>2. NewYear(y + 1) + 365 * (z - (y + 1)) <= NewYear(z)
      BY <2>2, <3>1, YearsRise
    <3>3. QED
      BY <1>2, <1>6, <2>1, <2>2, <3>1, <3>2
  <2>5. QED
    BY <2>1, <2>2, <2>3, <2>4
<1>8. YearOf(date) = CHOOSE x \in early .. early + 1 : NewYear(x) <= date /\ date < NewYear(x + 1)
  BY DEF YearOf, early
<1>9. /\ YearOf(date) \in early .. early + 1
      /\ NewYear(YearOf(date)) <= date /\ date < NewYear(YearOf(date) + 1)
  BY <1>6, <1>8
<1>10. YearOf(date) \in Int /\ YearOf(date) = y
  BY <1>2, <1>7, <1>9
<1>11. y \in 1970 .. 2420
  BY <1>2, <1>6 DEF early
<1>12. y # 2420
  BY <1>1, <1>2, <1>6 DEF CivilDates
<1>13. QED
  BY <1>7, <1>9, <1>10, <1>11, <1>12

-----------------------------------------------------------------------------
(* The months. *)

\* The months of a year, one after another.
LEMMA MonthsFollow ==
  ASSUME NEW y \in Int, NEW m \in 1 .. 12
  PROVE  /\ Date(y, m, 1) \in Int /\ LastDay(y, m) \in 28 .. 31
         /\ Date(y, 1, 1) = NewYear(y)
         /\ Date(y, m, LastDay(y, m)) = Date(y, m, 1) + LastDay(y, m) - 1
         /\ m < 12 => Date(y, m + 1, 1) = Date(y, m, 1) + LastDay(y, m)
         /\ m = 12 => NewYear(y + 1) = Date(y, m, 1) + LastDay(y, m)
<1> DEFINE leap == IsLeap(y)
           before == DaysBefore[m]
           year == NewYear(y)
<1>1. /\ NewYear(y) \in Int
      /\ NewYear(y + 1) = NewYear(y) + IF leap THEN 366 ELSE 365
  BY YearsAreLong
<1>2. /\ DaysBefore[1] = 0 /\ DaysBefore[2] = 31 /\ DaysBefore[3] = 59 /\ DaysBefore[4] = 90
      /\ DaysBefore[5] = 120 /\ DaysBefore[6] = 151 /\ DaysBefore[7] = 181
      /\ DaysBefore[8] = 212 /\ DaysBefore[9] = 243 /\ DaysBefore[10] = 273
      /\ DaysBefore[11] = 304 /\ DaysBefore[12] = 334
  BY DEF DaysBefore
<1>3. leap \in BOOLEAN
  BY DEF IsLeap
<1>4. LastDay(y, m) = IF m = 2 THEN IF leap THEN 29 ELSE 28
                      ELSE IF m \in {4, 6, 9, 11} THEN 30 ELSE 31
  BY DEF LastDay
<1>5. \A d : \A k \in 1 .. 12 : Date(y, k, d) = NewYear(y) + DaysBefore[k] + (IF k > 2 /\ leap THEN 1 ELSE 0) + d - 1
  BY DEF Date
<1> HIDE DEF leap
<1>6. LastDay(y, m) \in 28 .. 31
  BY <1>4
<1>7. Date(y, m, 1) = NewYear(y) + DaysBefore[m] + (IF m > 2 /\ leap THEN 1 ELSE 0)
      /\ DaysBefore[m] \in Int
  <2>1. DaysBefore[m] \in Int
    BY <1>2
  <2>2. QED
    BY <1>1, <1>5, <2>1
<1>8. Date(y, m, LastDay(y, m)) = Date(y, m, 1) + LastDay(y, m) - 1
  BY <1>1, <1>5, <1>6, <1>7
<1>9. Date(y, 1, 1) = NewYear(y)
  BY <1>1, <1>2, <1>5
<1>10. ASSUME m < 12
       PROVE  Date(y, m + 1, 1) = Date(y, m, 1) + LastDay(y, m)
  <2>1. Date(y, m + 1, 1) = NewYear(y) + DaysBefore[m + 1] + (IF m + 1 > 2 /\ leap THEN 1 ELSE 0)
    BY <1>1, <1>2, <1>5, <1>10
  <2>2. m \in 1 .. 11
    BY <1>10
  <2>3. QED
    BY <1>1, <1>2, <1>3, <1>4, <1>7, <2>1, <2>2
<1>11. ASSUME m = 12
       PROVE  NewYear(y + 1) = Date(y, m, 1) + LastDay(y, m)
  BY <1>1, <1>2, <1>3, <1>4, <1>7, <1>11
<1>12. QED
  BY <1>1, <1>6, <1>7, <1>8, <1>9, <1>10, <1>11

\* The first day of a month, months counted from the year zero.
MonthStart(k) == Date(k \div 12, (k % 12) + 1, 1)

MonthCount(date) == YearOf(date) * 12 + MonthOf(date) - 1

\* A month is followed by the next.
LEMMA MonthStarts ==
  ASSUME NEW k \in Int
  PROVE  /\ MonthStart(k) \in Int
         /\ MonthStart(k + 1) \in MonthStart(k) + 28 .. MonthStart(k) + 31
<1> DEFINE y == k \div 12
           m == (k % 12) + 1
<1>1. y \in Int /\ m \in 1 .. 12 /\ k = 12 * y + m - 1
  OBVIOUS
<1>2. MonthStart(k) = Date(y, m, 1)
  BY DEF MonthStart
<1>3. CASE m < 12
  <2>1. (k + 1) \div 12 = y /\ ((k + 1) % 12) + 1 = m + 1
    BY <1>3
  <2>2. MonthStart(k + 1) = Date(y, m + 1, 1)
    BY <2>1 DEF MonthStart
  <2> HIDE DEF y, m
  <2>3. /\ Date(y, m, 1) \in Int /\ LastDay(y, m) \in 28 .. 31
        /\ Date(y, m + 1, 1) = Date(y, m, 1) + LastDay(y, m)
    BY <1>1, <1>3, MonthsFollow
  <2>4. QED
    BY <1>2, <2>2, <2>3
<1>4. CASE m = 12
  <2>1. (k + 1) \div 12 = y + 1 /\ ((k + 1) % 12) + 1 = 1
    BY <1>4
  <2>2. MonthStart(k + 1) = Date(y + 1, 1, 1)
    BY <2>1 DEF MonthStart
  <2> HIDE DEF y, m
  <2>3. y + 1 \in Int /\ 1 \in 1 .. 12
    BY <1>1
  <2>4. Date(y + 1, 1, 1) = NewYear(y + 1)
    BY <2>3, MonthsFollow
  <2>5. /\ Date(y, m, 1) \in Int /\ LastDay(y, m) \in 28 .. 31
        /\ NewYear(y + 1) = Date(y, m, 1) + LastDay(y, m)
    BY <1>1, <1>4, MonthsFollow
  <2>6. QED
    BY <1>2, <2>2, <2>4, <2>5
<1>5. QED
  BY <1>1, <1>3, <1>4

\* A year has its twelve months in it.
LEMMA MonthsOfYear ==
  ASSUME NEW y \in Int, NEW m \in 1 .. 12
  PROVE  /\ MonthStart(12 * y + m - 1) = Date(y, m, 1)
         /\ MonthStart(12 * y) = NewYear(y)
         /\ 12 * y + m - 1 \in Int
<1>1. (12 * y + m - 1) \div 12 = y /\ ((12 * y + m - 1) % 12) + 1 = m
  OBVIOUS
<1>2. (12 * y) \div 12 = y /\ ((12 * y) % 12) + 1 = 1
  OBVIOUS
<1>3. Date(y, 1, 1) = NewYear(y)
  BY MonthsFollow
<1>4. QED
  BY <1>1, <1>2, <1>3 DEF MonthStart

\* Months rise: by induction on how many there are between two.
LEMMA MonthsRise ==
  ASSUME NEW j \in Int, NEW k \in Int, j <= k
  PROVE  MonthStart(j) + 28 * (k - j) <= MonthStart(k)
<1> DEFINE y == j \div 12
           a == j % 12
           z == k \div 12
           b == k % 12
<1>1. /\ y \in Int /\ a \in 0 .. 11 /\ j = 12 * y + a
      /\ z \in Int /\ b \in 0 .. 11 /\ k = 12 * z + b
  OBVIOUS
<1>2. /\ MonthStart(j) = Date(y, a + 1, 1)
      /\ MonthStart(k) = Date(z, b + 1, 1)
  BY DEF MonthStart
<1> HIDE DEF y, a, z, b
<1>3. \A m \in 0 .. 11 : 28 * m <= DaysBefore[m + 1] /\ DaysBefore[m + 1] + 28 * (12 - m) <= 365 /\ DaysBefore[m + 1] \in Int
  BY DEF DaysBefore
<1>4. \A m, n \in 0 .. 11 : m <= n => DaysBefore[m + 1] + 28 * (n - m) <= DaysBefore[n + 1]
  BY DEF DaysBefore
<1>5. /\ MonthStart(j) = NewYear(y) + DaysBefore[a + 1] + (IF a + 1 > 2 /\ IsLeap(y) THEN 1 ELSE 0)
      /\ MonthStart(k) = NewYear(z) + DaysBefore[b + 1] + (IF b + 1 > 2 /\ IsLeap(z) THEN 1 ELSE 0)
  <2>1. NewYear(y) \in Int /\ NewYear(z) \in Int /\ DaysBefore[a + 1] \in Int /\ DaysBefore[b + 1] \in Int
    BY <1>1, <1>3, YearsAreLong
  <2>2. QED
    BY <1>2, <2>1 DEF Date
<1>6. NewYear(y) \in Int /\ NewYear(z) \in Int /\ IsLeap(y) \in BOOLEAN /\ IsLeap(z) \in BOOLEAN
  BY <1>1, YearsAreLong DEF IsLeap
<1>7. CASE y = z
  <2>1. DaysBefore[a + 1] + 28 * (b - a) <= DaysBefore[b + 1]
    BY <1>1, <1>4, <1>7
  <2>2. k - j = b - a
    BY <1>1, <1>7
  <2>3. DaysBefore[a + 1] \in Int /\ DaysBefore[b + 1] \in Int
    BY <1>1, <1>3
  <2>4. QED
    BY <1>1, <1>5, <1>6, <1>7, <2>1, <2>2, <2>3
<1>8. CASE y < z
  <2>1. y + 1 \in Int /\ y + 1 <= z
    BY <1>1, <1>8
  <2>2. NewYear(y + 1) + 365 * (z - (y + 1)) <= NewYear(z)
    BY <1>1, <2>1, YearsRise
  <2>3. NewYear(y + 1) = NewYear(y) + IF IsLeap(y) THEN 366 ELSE 365
    BY <1>1, YearsAreLong
  <2>4. /\ DaysBefore[a + 1] \in Int /\ DaysBefore[b + 1] \in Int
        /\ DaysBefore[a + 1] + 28 * (12 - a) <= 365 /\ 28 * b <= DaysBefore[b + 1]
    BY <1>1, <1>3
  <2>5. k - j = 12 * (z - (y + 1)) + (12 - a) + b
    BY <1>1
  <2>6. QED
    BY <1>1, <1>5, <1>6, <2>1, <2>2, <2>3, <2>4, <2>5
<1>9. y <= z
  BY <1>1
<1>10. QED
  BY <1>1, <1>7, <1>8, <1>9

\* The month a date is in, and no other.
LEMMA MonthIs ==
  ASSUME NEW date \in CivilDates
  PROVE  /\ MonthOf(date) \in 1 .. 12 /\ MonthCount(date) \in Int
         /\ MonthStart(MonthCount(date)) <= date /\ date < MonthStart(MonthCount(date) + 1)
         /\ \A k \in Int : MonthStart(k) <= date /\ date < MonthStart(k + 1) => k = MonthCount(date)
<1> DEFINE y == YearOf(date)
           in(m) == Date(y, m, 1) <= date /\ date <= Date(y, m, LastDay(y, m))
<1>1. /\ y \in Int /\ NewYear(y) <= date /\ date < NewYear(y + 1) /\ date \in Int
      /\ NewYear(y) \in Int /\ NewYear(y + 1) \in Int /\ y + 1 \in Int
  <2>1. /\ y \in Int /\ NewYear(y) <= date /\ date < NewYear(y + 1) /\ date \in Int
    BY YearIs DEF CivilDates
  <2> HIDE DEF y
  <2>2. y + 1 \in Int
    BY <2>1
  <2>3. QED
    BY <2>1, <2>2, YearsAreLong
<1>2. MonthOf(date) = CHOOSE m \in 1 .. 12 : in(m)
  BY DEF MonthOf
<1> HIDE DEF y
<1>3. \A m \in 1 .. 12 :
        /\ in(m) <=> MonthStart(12 * y + m - 1) <= date /\ date < MonthStart(12 * y + m)
        /\ 12 * y + m - 1 \in Int /\ 12 * y + m \in Int
  <2>1. SUFFICES ASSUME NEW m \in 1 .. 12
                 PROVE  /\ in(m) <=> MonthStart(12 * y + m - 1) <= date /\ date < MonthStart(12 * y + m)
                        /\ 12 * y + m - 1 \in Int /\ 12 * y + m \in Int
    OBVIOUS
  <2>2. MonthStart(12 * y + m - 1) = Date(y, m, 1)
    BY <1>1, MonthsOfYear
  <2>3. MonthStart(12 * y + m) = Date(y, m, 1) + LastDay(y, m)
    <3>1. CASE m < 12
      <4>1. m + 1 \in 1 .. 12 /\ 12 * y + (m + 1) - 1 = 12 * y + m
        BY <1>1, <3>1
      <4>2. MonthStart(12 * y + (m + 1) - 1) = Date(y, m + 1, 1)
        BY <1>1, <4>1, MonthsOfYear
      <4>3. QED
        BY <1>1, <3>1, <4>1, <4>2, MonthsFollow
    <3>2. CASE m = 12
      <4>1. 12 * y + m = 12 * (y + 1) /\ 1 \in 1 .. 12
        BY <1>1, <3>2
      <4>2. MonthStart(12 * (y + 1)) = NewYear(y + 1)
        BY <1>1, <4>1, MonthsOfYear
      <4>3. QED
        BY <1>1, <3>2, <4>1, <4>2, MonthsFollow
    <3>3. QED
      BY <3>1, <3>2
  <2>4. /\ Date(y, m, LastDay(y, m)) = Date(y, m, 1) + LastDay(y, m) - 1
        /\ Date(y, m, 1) \in Int /\ LastDay(y, m) \in Int
    <3>1. /\ Date(y, m, LastDay(y, m)) = Date(y, m, 1) + LastDay(y, m) - 1
          /\ Date(y, m, 1) \in Int /\ LastDay(y, m) \in 28 .. 31
      BY <1>1, MonthsFollow
    <3>2. QED
      BY <3>1
  <2>5. QED
    BY <1>1, <2>2, <2>3, <2>4
<1>4. \E m \in 1 .. 12 : in(m)
  <2> DEFINE s(m) == MonthStart(12 * y + m)
  <2>1. MonthStart(12 * y) = NewYear(y) /\ MonthStart(12 * (y + 1)) = NewYear(y + 1)
    <3>1. 1 \in 1 .. 12
      OBVIOUS
    <3>2. QED
      BY <1>1, <3>1, MonthsOfYear
  <2>2. 12 * (y + 1) = 12 * y + 12 /\ 12 * y + 0 = 12 * y
    BY <1>1
  <2>3. s(0) <= date /\ date < s(12)
    BY <1>1, <2>1, <2>2
  <2>4. \A m \in 0 .. 12 : s(m) \in Int
    <3>1. \A m \in 0 .. 12 : 12 * y + m \in Int
      BY <1>1
    <3>2. QED
      BY <3>1, MonthStarts
  <2>5. \A m \in 1 .. 12 : in(m) <=> s(m - 1) <= date /\ date < s(m)
    <3>1. \A m \in 1 .. 12 : 12 * y + (m - 1) = 12 * y + m - 1
      BY <1>1
    <3>2. QED
      BY <1>3, <3>1
  <2> HIDE DEF s, in
  <2>6. SUFFICES ASSUME \A m \in 1 .. 12 : ~(s(m - 1) <= date /\ date < s(m)) PROVE FALSE
    BY <2>5
  <2>7. /\ s(1) <= date /\ s(2) <= date /\ s(3) <= date /\ s(4) <= date /\ s(5) <= date
        /\ s(6) <= date /\ s(7) <= date /\ s(8) <= date /\ s(9) <= date /\ s(10) <= date
        /\ s(11) <= date /\ s(12) <= date
    BY <1>1, <2>3, <2>4, <2>6
  <2>8. QED
    BY <1>1, <2>3, <2>4, <2>7
<1>5. MonthOf(date) \in 1 .. 12 /\ in(MonthOf(date))
  BY <1>2, <1>4
<1> DEFINE c == MonthCount(date)
<1>6. c = 12 * y + MonthOf(date) - 1 /\ c \in Int /\ c + 1 = 12 * y + MonthOf(date)
  BY <1>1, <1>5 DEF MonthCount, y
<1>7. MonthStart(c) <= date /\ date < MonthStart(c + 1)
  BY <1>3, <1>5, <1>6
<1> HIDE DEF c
<1>8. ASSUME NEW k \in Int, MonthStart(k) <= date, date < MonthStart(k + 1), k # c
      PROVE  FALSE
  <2>1. /\ MonthStart(k) \in Int /\ MonthStart(k + 1) \in Int /\ MonthStart(c) \in Int
        /\ MonthStart(c + 1) \in Int /\ k + 1 \in Int /\ c + 1 \in Int
    BY <1>6, MonthStarts
  <2>2. CASE k < c
    <3>1. k + 1 <= c /\ 0 <= 28 * (c - (k + 1))
      BY <1>6, <2>2
    <3>2. MonthStart(k + 1) + 28 * (c - (k + 1)) <= MonthStart(c)
      BY <1>6, <2>1, <3>1, MonthsRise
    <3>3. QED
      BY <1>1, <1>6, <1>7, <1>8, <2>1, <3>1, <3>2
  <2>3. CASE c < k
    <3>1. c + 1 <= k /\ 0 <= 28 * (k - (c + 1))
      BY <1>6, <2>3
    <3>2. MonthStart(c + 1) + 28 * (k - (c + 1)) <= MonthStart(k)
      BY <1>6, <2>1, <3>1, MonthsRise
    <3>3. QED
      BY <1>1, <1>6, <1>7, <1>8, <2>1, <3>1, <3>2
  <2>4. QED
    BY <1>6, <1>8, <2>2, <2>3
<1>9. QED
  BY <1>5, <1>6, <1>7, <1>8 DEF c

-----------------------------------------------------------------------------
(* Days and moments. *)
LEMMA MomentsOfDays ==
  ASSUME NEW d \in Int
  PROVE  /\ Day \in Nat \ {0} /\ d * Day \in Int /\ (d + 1) * Day = d * Day + Day
         /\ DateOf(d * Day) = d /\ DateOf(d * Day - 1) = d - 1
<1>1. Day \in Nat \ {0} /\ d * Day \in Int
  BY CalendarAssumption
<1>2. (d + 1) * Day = d * Day + Day /\ (d - 1) * Day = d * Day - Day
  BY <1>1
<1>3. (d * Day) \div Day = d
  BY <1>1
<1>4. (d * Day - 1) \div Day = d - 1
  BY <1>1, <1>2
<1>5. QED
  BY <1>1, <1>2, <1>3, <1>4 DEF DateOf

\* A moment is in the day it is dated.
LEMMA DayOfMoment ==
  ASSUME NEW m \in Int
  PROVE  /\ DateOf(m) \in Int /\ DateOf(m) * Day \in Int
         /\ DateOf(m) * Day <= m /\ m < DateOf(m) * Day + Day
<1>1. Day \in Nat \ {0}
  BY CalendarAssumption
<1>2. QED
  BY <1>1 DEF DateOf

\* Days keep their order as moments.
LEMMA DaysInOrder ==
  ASSUME NEW d \in Int, NEW e \in Int, d <= e
  PROVE  d * Day <= e * Day
BY CalendarAssumption

\* A moment between two days is dated between them.
LEMMA MomentBetweenDays ==
  ASSUME NEW d \in Int, NEW e \in Int, NEW m \in Int, d * Day <= m, m < e * Day
  PROVE  d <= DateOf(m) /\ DateOf(m) < e
<1>1. /\ DateOf(m) \in Int /\ DateOf(m) * Day \in Int
      /\ DateOf(m) * Day <= m /\ m < DateOf(m) * Day + Day
      /\ Day \in Nat \ {0} /\ d * Day \in Int /\ e * Day \in Int
  BY DayOfMoment, CalendarAssumption
<1> DEFINE x == DateOf(m)
<1>2. (x + 1) * Day = x * Day + Day
  BY <1>1
<1> HIDE DEF x
<1>3. ASSUME x < d PROVE FALSE
  <2>1. x \in Int /\ x + 1 \in Int /\ x + 1 <= d
    BY <1>1, <1>3 DEF x
  <2>2. (x + 1) * Day <= d * Day
    BY <2>1, DaysInOrder
  <2>3. QED
    BY <1>1, <1>2, <2>2 DEF x
<1>4. ASSUME e <= x PROVE FALSE
  <2>1. x \in Int
    BY <1>1 DEF x
  <2>2. e * Day <= x * Day
    BY <1>4, <2>1, DaysInOrder
  <2>3. QED
    BY <1>1, <2>2 DEF x
<1>5. QED
  BY <1>1, <1>3, <1>4 DEF x
-----------------------------------------------------------------------------
(* The units of a frequency that are whole months. *)
MonthKinds == {"Y", "Q", "M"}

MonthsIn(f) == IF f.kind = "Y" THEN 12 ELSE IF f.kind = "Q" THEN 3 ELSE 1
FirstMonth(f) == 12 * 1970 + IF f.kind = "M" THEN 0 ELSE f.anchor - 12

\* Years, quarters and months count so many months from one they start with.
LEMMA MonthUnits ==
  ASSUME NEW f, f.kind \in MonthKinds, f.anchor \in 1 .. 12
  PROVE  /\ \A o \in Int : FirstDay(f, o) = MonthStart(MonthsIn(f) * o + FirstMonth(f))
         /\ \A m, back : DateOf(m) \in CivilDates =>
              Ordinal(f, m, back) = (MonthCount(DateOf(m)) - FirstMonth(f)) \div MonthsIn(f)
<1>1. ASSUME NEW o \in Int
      PROVE  FirstDay(f, o) = MonthStart(MonthsIn(f) * o + FirstMonth(f))
  <2>1. CASE f.kind = "Y"
    <3>1. MonthsIn(f) = 12 /\ FirstMonth(f) = 12 * 1970 + f.anchor - 12
      BY <2>1 DEF MonthsIn, FirstMonth
    <3>2. 12 * o + (12 * 1970 + f.anchor - 12) = (o + 1970) * 12 + f.anchor - 12
      OBVIOUS
    <3>3. QED
      BY <2>1, <3>1, <3>2 DEF FirstDay, MonthStart
  <2>2. CASE f.kind = "Q"
    <3>1. MonthsIn(f) = 3 /\ FirstMonth(f) = 12 * 1970 + f.anchor - 12
      BY <2>2 DEF MonthsIn, FirstMonth
    <3>2. 3 * o + (12 * 1970 + f.anchor - 12)
            = (o \div 4 + 1970) * 12 + f.anchor - 1 - 3 * (3 - (o % 4)) - 2
      OBVIOUS
    <3>3. QED
      BY <2>2, <3>1, <3>2 DEF FirstDay, MonthStart
  <2>3. CASE f.kind = "M"
    <3>1. MonthsIn(f) = 1 /\ FirstMonth(f) = 12 * 1970
      BY <2>3 DEF MonthsIn, FirstMonth
    <3>2. 1 * o + 12 * 1970 = o + 1970 * 12
      OBVIOUS
    <3>3. QED
      BY <2>3, <3>1, <3>2 DEF FirstDay, MonthStart
  <2>4. QED
    BY <2>1, <2>2, <2>3 DEF MonthKinds
<1>2. ASSUME NEW m, NEW back, DateOf(m) \in CivilDates
      PROVE  Ordinal(f, m, back) = (MonthCount(DateOf(m)) - FirstMonth(f)) \div MonthsIn(f)
  <2> DEFINE date == DateOf(m)
             y == YearOf(date)
             k == MonthOf(date)
  <2>1. y \in Int /\ k \in 1 .. 12 /\ MonthCount(date) = y * 12 + k - 1
    BY <1>2, YearIs, MonthIs DEF MonthCount
  <2>2. CASE f.kind = "Y"
    <3>1. Ordinal(f, m, back) = (y + IF k > f.anchor THEN 1 ELSE 0) - 1970
      BY <2>2 DEF Ordinal
    <3>2. MonthsIn(f) = 12 /\ FirstMonth(f) = 12 * 1970 + f.anchor - 12
      BY <2>2 DEF MonthsIn, FirstMonth
    <3> HIDE DEF y, k, date
    <3>3. (y * 12 + k - 1 - (12 * 1970 + f.anchor - 12)) \div 12
             = (y + IF k > f.anchor THEN 1 ELSE 0) - 1970
      BY <2>1
    <3>4. QED
      BY <2>1, <3>1, <3>2, <3>3 DEF date
  <2>3. CASE f.kind = "Q"
    <3>1. Ordinal(f, m, back) = ((y + IF k > f.anchor THEN 1 ELSE 0) - 1970) * 4
                                  + ((k - f.anchor - 1) % 12) \div 3
      BY <2>3 DEF Ordinal
    <3>2. MonthsIn(f) = 3 /\ FirstMonth(f) = 12 * 1970 + f.anchor - 12
      BY <2>3 DEF MonthsIn, FirstMonth
    <3> HIDE DEF y, k, date
    <3>3. (y * 12 + k - 1 - (12 * 1970 + f.anchor - 12)) \div 3
             = ((y + IF k > f.anchor THEN 1 ELSE 0) - 1970) * 4 + ((k - f.anchor - 1) % 12) \div 3
      <4> DEFINE r == k - f.anchor - 1
      <4>1. r \in -12 .. 10 /\ (k > f.anchor <=> r >= 0) /\ k \in Int /\ f.anchor \in Int
        BY <2>1
      <4>2. r % 12 = IF r >= 0 THEN r ELSE r + 12
        BY <4>1
      <4>3. y * 12 + k - 1 - (12 * 1970 + f.anchor - 12) = 12 * (y - 1969) + r
        BY <2>1, <4>1
      <4> HIDE DEF r
      <4>4. (12 * (y - 1969) + r) \div 3 = 4 * (y - 1969) + r \div 3
        BY <2>1, <4>1
      <4>5. (r + 12) \div 3 = r \div 3 + 4
        BY <4>1
      <4>6. r \div 3 \in Int
        BY <4>1
      <4>7. ((k - f.anchor - 1) % 12) \div 3 = IF r >= 0 THEN r \div 3 ELSE r \div 3 + 4
        BY <4>2, <4>5 DEF r
      <4>8. QED
        BY <2>1, <4>1, <4>3, <4>4, <4>6, <4>7
    <3>4. QED
      BY <2>1, <3>1, <3>2, <3>3 DEF date
  <2>4. CASE f.kind = "M"
    <3>1. Ordinal(f, m, back) = (y - 1970) * 12 + k - 1
      BY <2>4 DEF Ordinal
    <3>2. MonthsIn(f) = 1 /\ FirstMonth(f) = 12 * 1970
      BY <2>4 DEF MonthsIn, FirstMonth
    <3> HIDE DEF y, k, date
    <3>3. (y * 12 + k - 1 - 12 * 1970) \div 1 = (y - 1970) * 12 + k - 1
      BY <2>1
    <3>4. QED
      BY <2>1, <3>1, <3>2, <3>3 DEF date
  <2>5. QED
    BY <2>2, <2>3, <2>4 DEF MonthKinds
<1>3. QED
  BY <1>1, <1>2

(* Weeks. *)
LEMMA WeekUnits ==
  ASSUME NEW f, f.kind = "W", f.anchor \in 0 .. 6
  PROVE  /\ \A o \in Int : FirstDay(f, o) = 7 * o - 10 + ((f.anchor + 1) % 7)
         /\ \A m, back : DateOf(m) \in Int =>
              Ordinal(f, m, back) = (DateOf(m) + 10 - ((f.anchor + 1) % 7)) \div 7
<1>1. ASSUME NEW o \in Int
      PROVE  FirstDay(f, o) = 7 * o - 10 + ((f.anchor + 1) % 7)
  <2>1. Weekday(7 * (o - 1) + 3) = 6
    BY DEF Weekday
  <2>2. FirstDay(f, o) = 7 * (o - 1) + 3 + ((f.anchor - 6) % 7) - 6
    BY <2>1 DEF FirstDay
  <2>3. (f.anchor - 6) % 7 = (f.anchor + 1) % 7
    OBVIOUS
  <2>4. QED
    BY <2>2, <2>3
<1>2. ASSUME NEW m, NEW back, DateOf(m) \in Int
      PROVE  Ordinal(f, m, back) = (DateOf(m) + 10 - ((f.anchor + 1) % 7)) \div 7
  <2> DEFINE d == DateOf(m)
             q == (d + 3) \div 7
             r == (d + 3) % 7
             a == f.anchor
  <2>1. Ordinal(f, m, back) = (d + ((a - Weekday(d)) % 7) - 3) \div 7 + 1
    BY DEF Ordinal
  <2>2. q \in Int /\ r \in 0 .. 6 /\ d = 7 * q + r - 3 /\ a \in 0 .. 6 /\ Weekday(d) = r
    BY <1>2 DEF Weekday
  <2> HIDE DEF d, q, r, a
  <2>3. (a - r) % 7 = IF a >= r THEN a - r ELSE a - r + 7
    BY <2>2
  <2>4. (a + 1) % 7 = IF a = 6 THEN 0 ELSE a + 1
    BY <2>2
  <2>5. (d + ((a - r) % 7) - 3) \div 7 + 1 = (d + 10 - ((a + 1) % 7)) \div 7
    <3>1. CASE a >= r
      <4>1. (d + ((a - r) % 7) - 3) \div 7 = q + ((a - 6) \div 7)
        BY <2>2, <2>3, <3>1
      <4>2. CASE a = 6
        BY <2>2, <2>4, <3>1, <4>1, <4>2
      <4>3. CASE a # 6
        BY <2>2, <2>4, <3>1, <4>1, <4>3
      <4>4. QED
        BY <4>2, <4>3
    <3>2. CASE a < r
      <4>1. a \in 0 .. 5
        BY <2>2, <3>2
      <4>2. d + ((a - r) % 7) - 3 = 7 * q + a + 1
        BY <2>2, <2>3, <3>2
      <4>3. (7 * q + a + 1) \div 7 = q
        BY <2>2, <4>1
      <4>4. d + 10 - ((a + 1) % 7) = 7 * q + 7 + (r - a - 1)
        BY <2>2, <2>4, <3>2, <4>1
      <4>5. (7 * q + 7 + (r - a - 1)) \div 7 = q + 1
        BY <2>2, <3>2, <4>1
      <4>6. QED
        BY <4>2, <4>3, <4>4, <4>5
    <3>3. QED
      BY <2>2, <3>1, <3>2
  <2>6. QED
    BY <2>1, <2>2, <2>5 DEF d, a
<1>3. QED
  BY <1>1, <1>2

-----------------------------------------------------------------------------
(* Any frequency but the finest counts days: its units follow one another  *)
(* (those of "B" with weekends between them), none longer than a year.     *)
WorkedDay(o) == ((o + 3) \div 5) * 7 + ((o + 3) % 5) - 3

DayEdge(f, o) == CASE f.kind = "B" -> WorkedDay(o)
                   [] f.kind = "D" -> o
                   [] OTHER        -> FirstDay(f, o)
DayStop(f, o) == IF f.kind = "B" THEN WorkedDay(o) + 1 ELSE DayEdge(f, o + 1)

\* Business days follow one another, over a weekend after a Friday.
LEMMA WorkedDays ==
  ASSUME NEW o \in Int
  PROVE  /\ WorkedDay(o) \in Int /\ Weekday(WorkedDay(o)) = (o + 3) % 5
         /\ Weekday(WorkedDay(o)) <= 4
         /\ WorkedDay(o + 1) = WorkedDay(o) + IF Weekday(WorkedDay(o)) = 4 THEN 3 ELSE 1
<1> DEFINE q == (o + 3) \div 5
           r == (o + 3) % 5
<1>1. q \in Int /\ r \in 0 .. 4 /\ o = 5 * q + r - 3 /\ WorkedDay(o) = 7 * q + r - 3
  BY DEF WorkedDay
<1>2. WorkedDay(o + 1) = ((o + 1 + 3) \div 5) * 7 + ((o + 1 + 3) % 5) - 3
  BY DEF WorkedDay
<1> HIDE DEF q, r
<1>3. Weekday(WorkedDay(o)) = r
  BY <1>1 DEF Weekday
<1>4. CASE r < 4
  <2>1. (o + 1 + 3) \div 5 = q /\ (o + 1 + 3) % 5 = r + 1
    BY <1>1, <1>4
  <2>2. QED
    BY <1>1, <1>2, <1>3, <1>4, <2>1 DEF r
<1>5. CASE r = 4
  <2>1. (o + 1 + 3) \div 5 = q + 1 /\ (o + 1 + 3) % 5 = 0
    BY <1>1, <1>5
  <2>2. QED
    BY <1>1, <1>2, <1>3, <1>5, <2>1 DEF r
<1>6. QED
  BY <1>1, <1>4, <1>5

\* The ordinal of a moment of business days is that of the day it goes on or
\* back to.
LEMMA WorkedOrdinal ==
  ASSUME NEW f, f.kind = "B", NEW m, NEW back, DateOf(m) \in Int
  PROVE  LET d == DateOf(m)
             w == IF Weekday(d) <= 4 THEN d
                  ELSE IF back THEN d + 4 - Weekday(d) ELSE d + 7 - Weekday(d)
         IN  /\ Ordinal(f, m, back) \in Int
             /\ \A o \in Int : Ordinal(f, m, back) = o <=> WorkedDay(o) = w
             /\ Weekday(d) \in 0 .. 6
<1> DEFINE d == DateOf(m)
           w == IF Weekday(d) <= 4 THEN d
                ELSE IF back THEN d + 4 - Weekday(d) ELSE d + 7 - Weekday(d)
           q == (d + 3) \div 7
           r == (d + 3) % 7
           s == IF r <= 4 THEN r ELSE IF back THEN 4 ELSE 7
<1>1. Ordinal(f, m, back) = ((w + 4) \div 7) * 5 + ((w + 4) % 7) - 4
  BY DEF Ordinal
<1>2. q \in Int /\ r \in 0 .. 6 /\ d = 7 * q + r - 3 /\ Weekday(d) = r
  BY DEF Weekday
<1>3. w = 7 * q + s - 3 /\ s \in {0, 1, 2, 3, 4, 7}
  BY <1>2
<1> HIDE DEF d, w, q, r, s
<1>4. ((w + 4) \div 7) * 5 + ((w + 4) % 7) - 4 = IF s = 7 THEN 5 * q + 2 ELSE 5 * q + s - 3
  BY <1>2, <1>3
<1>5. ASSUME NEW o \in Int
      PROVE  (IF s = 7 THEN 5 * q + 2 ELSE 5 * q + s - 3) = o <=> WorkedDay(o) = w
  <2> DEFINE p == (o + 3) \div 5
             t == (o + 3) % 5
  <2>1. p \in Int /\ t \in 0 .. 4 /\ o = 5 * p + t - 3 /\ WorkedDay(o) = 7 * p + t - 3
    BY DEF WorkedDay
  <2> HIDE DEF p, t
  <2>2. QED
    BY <1>2, <1>3, <2>1
<1>6. QED
  BY <1>1, <1>2, <1>3, <1>4, <1>5 DEF d, w

\* Years, quarters and months rise, by no more than 372 days.
LEMMA MonthUnitEdges ==
  ASSUME NEW f, IsFreq(f), f.kind \in MonthKinds, NEW o \in Int
  PROVE  /\ FirstDay(f, o) \in Int /\ FirstDay(f, o) + 1 <= FirstDay(f, o + 1)
         /\ FirstDay(f, o + 1) <= FirstDay(f, o) + 372
  <1> DEFINE k == MonthsIn(f) * o + FirstMonth(f)
             s == MonthsIn(f)
  <1>1. /\ s \in {1, 3, 12} /\ FirstMonth(f) \in Int /\ k \in Int
        /\ MonthsIn(f) * (o + 1) + FirstMonth(f) = k + s
    BY DEF MonthsIn, FirstMonth, IsFreq, MonthKinds
  <1>2. FirstDay(f, o) = MonthStart(k) /\ FirstDay(f, o + 1) = MonthStart(k + s)
    <2>1. f.anchor \in 1 .. 12 /\ o + 1 \in Int
      BY DEF IsFreq, MonthKinds
    <2>2. QED
      BY <1>1, <2>1, MonthUnits
  <1> HIDE DEF k, s
  <1>3. \A j \in Int : MonthStart(j) \in Int /\ MonthStart(j + 1) \in MonthStart(j) + 28 .. MonthStart(j) + 31
    BY MonthStarts
  <1>4. \A j \in Int : MonthStart(j) \in Int /\ MonthStart(j + 1) \in Int
                        /\ MonthStart(j) + 28 <= MonthStart(j + 1) /\ MonthStart(j + 1) <= MonthStart(j) + 31
    BY <1>3
  <1>5. CASE s = 1
    BY <1>1, <1>2, <1>4, <1>5
  <1>6. \A j \in Int : MonthStart(j) + 84 <= MonthStart(j + 3) /\ MonthStart(j + 3) <= MonthStart(j) + 93
    <2>1. SUFFICES ASSUME NEW j \in Int
                   PROVE  MonthStart(j) + 84 <= MonthStart(j + 3) /\ MonthStart(j + 3) <= MonthStart(j) + 93
      OBVIOUS
    <2>2. j + 1 \in Int /\ j + 2 \in Int /\ (j + 1) + 1 = j + 2 /\ (j + 2) + 1 = j + 3
      OBVIOUS
    <2>3. QED
      BY <1>4, <2>2
  <1>7. CASE s = 3
    <2>1. /\ MonthStart(k) \in Int /\ k + 3 \in Int /\ MonthStart(k + 3) \in Int
          /\ MonthStart(k) + 84 <= MonthStart(k + 3) /\ MonthStart(k + 3) <= MonthStart(k) + 93
      <3>1. k \in Int /\ k + 3 \in Int
        BY <1>1
      <3>2. MonthStart(k) \in Int /\ MonthStart(k + 3) \in Int
        BY <1>4, <3>1
      <3>3. MonthStart(k) + 84 <= MonthStart(k + 3) /\ MonthStart(k + 3) <= MonthStart(k) + 93
        BY <1>6, <3>1
      <3>4. QED
        BY <3>1, <3>2, <3>3
    <2>2. QED
      BY <1>2, <1>7, <2>1
  <1>8. CASE s = 12
    <2>1. /\ k + 3 \in Int /\ k + 6 \in Int /\ k + 9 \in Int
          /\ (k + 3) + 3 = k + 6 /\ (k + 6) + 3 = k + 9 /\ (k + 9) + 3 = k + 12
      BY <1>1
    <2>2. /\ MonthStart(k) \in Int /\ MonthStart(k + 3) \in Int /\ MonthStart(k + 6) \in Int
          /\ MonthStart(k + 9) \in Int /\ k + 12 \in Int /\ MonthStart(k + 12) \in Int
      BY <1>1, <1>4, <2>1
    <2>3. /\ MonthStart(k) + 84 <= MonthStart(k + 3) /\ MonthStart(k + 3) <= MonthStart(k) + 93
          /\ MonthStart(k + 3) + 84 <= MonthStart(k + 6) /\ MonthStart(k + 6) <= MonthStart(k + 3) + 93
          /\ MonthStart(k + 6) + 84 <= MonthStart(k + 9) /\ MonthStart(k + 9) <= MonthStart(k + 6) + 93
          /\ MonthStart(k + 9) + 84 <= MonthStart(k + 12) /\ MonthStart(k + 12) <= MonthStart(k + 9) + 93
      BY <1>1, <1>6, <2>1
    <2>4. QED
      BY <1>2, <1>8, <2>2, <2>3
  <1>9. QED
    BY <1>1, <1>5, <1>7, <1>8

-----------------------------------------------------------------------------
\* And so do all units of a day or longer.
LEMMA UnitEdges ==
  ASSUME NEW f, IsFreq(f), f.kind # "h", NEW o \in Int
  PROVE  /\ DayEdge(f, o) \in Int /\ DayStop(f, o) \in Int
         /\ DayEdge(f, o) < DayStop(f, o) /\ DayStop(f, o) <= DayEdge(f, o + 1)
         /\ DayEdge(f, o + 1) <= DayEdge(f, o) + 372
<1>1. CASE f.kind = "B"
  <2>1. /\ DayEdge(f, o) = WorkedDay(o) /\ DayEdge(f, o + 1) = WorkedDay(o + 1)
        /\ DayStop(f, o) = WorkedDay(o) + 1
    BY <1>1 DEF DayEdge, DayStop
  <2>2. WorkedDay(o) \in Int /\ WorkedDay(o + 1) \in WorkedDay(o) + 1 .. WorkedDay(o) + 3
    <3>1. /\ WorkedDay(o) \in Int
          /\ WorkedDay(o + 1) = WorkedDay(o) + IF Weekday(WorkedDay(o)) = 4 THEN 3 ELSE 1
      BY WorkedDays
    <3>2. QED
      BY <3>1
  <2>3. QED
    BY <2>1, <2>2
<1>2. CASE f.kind = "D"
  <2>1. /\ DayEdge(f, o) = o /\ DayEdge(f, o + 1) = o + 1 /\ DayStop(f, o) = o + 1
    BY <1>2 DEF DayEdge, DayStop
  <2>2. QED
    BY <2>1
<1>3. CASE f.kind \in MonthKinds
  <2>1. /\ DayEdge(f, o) = FirstDay(f, o) /\ DayEdge(f, o + 1) = FirstDay(f, o + 1)
        /\ DayStop(f, o) = FirstDay(f, o + 1)
    BY <1>3 DEF DayEdge, DayStop, MonthKinds
  <2>2. /\ FirstDay(f, o) \in Int /\ FirstDay(f, o) + 1 <= FirstDay(f, o + 1)
        /\ FirstDay(f, o + 1) <= FirstDay(f, o) + 372
    BY <1>3, MonthUnitEdges
  <2>3. FirstDay(f, o + 1) \in Int
    BY <1>3, MonthUnitEdges
  <2>4. QED
    BY <2>1, <2>2, <2>3
<1>4. CASE f.kind = "W"
  <2>1. /\ DayEdge(f, o) = FirstDay(f, o) /\ DayEdge(f, o + 1) = FirstDay(f, o + 1)
        /\ DayStop(f, o) = FirstDay(f, o + 1)
    BY <1>4 DEF DayEdge, DayStop
  <2>2. f.anchor \in 0 .. 6 /\ (f.anchor + 1) % 7 \in Int /\ o + 1 \in Int
    BY <1>4 DEF IsFreq
  <2>3. /\ FirstDay(f, o) = 7 * o - 10 + ((f.anchor + 1) % 7)
        /\ FirstDay(f, o + 1) = 7 * (o + 1) - 10 + ((f.anchor + 1) % 7)
    BY <1>4, <2>2, WeekUnits
  <2>4. QED
    BY <2>1, <2>2, <2>3
<1>5. QED
  BY <1>1, <1>2, <1>3, <1>4 DEF IsFreq, FreqKinds, MonthKinds

\* The date of a moment lies in the unit whose ordinal it is given.
LEMMA UnitHolds ==
  ASSUME NEW f, IsFreq(f), f.kind # "h", NEW m, NEW back, DateOf(m) \in CivilDates,
         f.kind = "B" => Weekday(DateOf(m)) <= 4
  PROVE  /\ Ordinal(f, m, back) \in Int
         /\ DayEdge(f, Ordinal(f, m, back)) <= DateOf(m)
         /\ DateOf(m) < DayStop(f, Ordinal(f, m, back))
<1> DEFINE d == DateOf(m)
           x == Ordinal(f, m, back)
<1>0. d \in Int
  BY DEF CivilDates
<1>1. CASE f.kind = "B"
  <2>1. x \in Int /\ WorkedDay(x) = d
    BY <1>0, <1>1, WorkedOrdinal
  <2>2. DayEdge(f, x) = WorkedDay(x) /\ DayStop(f, x) = WorkedDay(x) + 1
    BY <1>1 DEF DayEdge, DayStop
  <2> HIDE DEF d, x
  <2>3. QED
    BY <1>0, <2>1, <2>2 DEF d, x
<1>2. CASE f.kind = "D"
  <2>1. x = m \div Day
    BY <1>2 DEF Ordinal, UnitLength
  <2>2. x = d /\ DayEdge(f, x) = x /\ DayStop(f, x) = x + 1
    BY <1>2, <2>1 DEF DateOf, DayEdge, DayStop
  <2> HIDE DEF d, x
  <2>3. QED
    BY <1>0, <2>2 DEF d, x
<1>3. CASE f.kind \in MonthKinds
  <2> DEFINE c == MonthCount(d)
             s == MonthsIn(f)
             b == FirstMonth(f)
  <2>1. f.anchor \in 1 .. 12
    BY <1>3 DEF IsFreq, MonthKinds
  <2>2. x = (c - b) \div s
    BY <1>3, <2>1, MonthUnits
  <2>3. s \in {1, 3, 12} /\ b \in Int
    BY <2>1 DEF MonthsIn, FirstMonth
  <2>4. c \in Int /\ MonthStart(c) <= d /\ d < MonthStart(c + 1)
    BY MonthIs
  <2> HIDE DEF c, s, b, d
  <2>5. x \in Int /\ s * x \in Int /\ s * (x + 1) \in Int /\ s * x + b <= c /\ c + 1 <= s * (x + 1) + b
    <3>1. CASE s = 1
      BY <2>2, <2>3, <2>4, <3>1
    <3>2. CASE s = 3
      BY <2>2, <2>3, <2>4, <3>2
    <3>3. CASE s = 12
      BY <2>2, <2>3, <2>4, <3>3
    <3>4. QED
      BY <2>3, <3>1, <3>2, <3>3
  <2> HIDE DEF x
  <2>6. /\ FirstDay(f, x) = MonthStart(s * x + b)
        /\ FirstDay(f, x + 1) = MonthStart(s * (x + 1) + b)
    <3>1. x + 1 \in Int
      BY <2>5
    <3>2. QED
      BY <1>3, <2>1, <2>5, <3>1, MonthUnits DEF s, b
  <2>7. DayEdge(f, x) = FirstDay(f, x) /\ DayStop(f, x) = FirstDay(f, x + 1)
    BY <1>3 DEF DayEdge, DayStop, MonthKinds
  <2>8. MonthStart(s * x + b) <= MonthStart(c)
    <3>1. s * x + b \in Int /\ s * x + b <= c /\ 0 <= 28 * (c - (s * x + b))
      BY <2>3, <2>4, <2>5
    <3>2. MonthStart(s * x + b) + 28 * (c - (s * x + b)) <= MonthStart(c)
      BY <2>4, <3>1, MonthsRise
    <3>3. MonthStart(s * x + b) \in Int /\ MonthStart(c) \in Int
      BY <2>4, <3>1, MonthStarts
    <3>4. QED
      BY <2>3, <2>4, <2>5, <3>1, <3>2, <3>3
  <2>9. MonthStart(c + 1) <= MonthStart(s * (x + 1) + b)
    <3> DEFINE e == s * (x + 1) + b
    <3>1. e \in Int /\ c + 1 \in Int /\ c + 1 <= e
      BY <2>3, <2>4, <2>5
    <3> HIDE DEF e
    <3>0. 0 <= 28 * (e - (c + 1))
      BY <3>1
    <3>2. MonthStart(c + 1) + 28 * (e - (c + 1)) <= MonthStart(e)
      BY <3>1, MonthsRise
    <3>3. MonthStart(e) \in Int /\ MonthStart(c + 1) \in Int
      BY <3>1, MonthStarts
    <3>4. MonthStart(c + 1) <= MonthStart(e)
      BY <3>0, <3>1, <3>2, <3>3
    <3>5. QED
      BY <3>4 DEF e
  <2>10. /\ MonthStart(c) \in Int /\ MonthStart(c + 1) \in Int /\ MonthStart(s * x + b) \in Int
         /\ MonthStart(s * (x + 1) + b) \in Int /\ d \in Int
    <3>1. c + 1 \in Int /\ s * x + b \in Int /\ s * (x + 1) + b \in Int
      BY <2>3, <2>4, <2>5
    <3>2. QED
      BY <1>0, <2>4, <3>1, MonthStarts DEF d
  <2>11. DayEdge(f, x) <= d /\ d < DayStop(f, x)
    BY <2>4, <2>6, <2>7, <2>8, <2>9, <2>10
  <2>12. QED
    BY <2>5, <2>11 DEF d, x
<1>4. CASE f.kind = "W"
  <2> DEFINE c == (f.anchor + 1) % 7
  <2>1. f.anchor \in 0 .. 6 /\ c \in Int
    BY <1>4 DEF IsFreq
  <2>2. x = (d + 10 - c) \div 7
    BY <1>0, <1>4, <2>1, WeekUnits
  <2> HIDE DEF d, c
  <2>3. x \in Int /\ x + 1 \in Int /\ 7 * x <= d + 10 - c /\ d + 10 - c < 7 * (x + 1)
    BY <1>0, <2>1, <2>2 DEF d
  <2> HIDE DEF x
  <2>4. FirstDay(f, x) = 7 * x - 10 + c /\ FirstDay(f, x + 1) = 7 * (x + 1) - 10 + c
    BY <1>4, <2>1, <2>3, WeekUnits DEF c
  <2>5. DayEdge(f, x) = FirstDay(f, x) /\ DayStop(f, x) = FirstDay(f, x + 1)
    BY <1>4 DEF DayEdge, DayStop
  <2>6. DayEdge(f, x) <= d /\ d < DayStop(f, x)
    BY <1>0, <2>1, <2>3, <2>4, <2>5 DEF d
  <2>7. QED
    BY <2>3, <2>6 DEF d, x
<1>5. QED
  BY <1>1, <1>2, <1>3, <1>4 DEF IsFreq, FreqKinds, MonthKinds

-----------------------------------------------------------------------------
\* Induction over the naturals, for a set in the place of a predicate.
LEMMA NatSets ==
  ASSUME NEW S, 0 \in S, \A k \in Nat : k \in S => k + 1 \in S
  PROVE  \A k \in Nat : k \in S
<1> DEFINE T == {k \in Nat : k \notin S}
<1>1. SUFFICES ASSUME T # {} PROVE FALSE
  OBVIOUS
<1>2. PICK m \in T : \A k \in T : ~ (k < m)
  <2> DEFINE R == {ss \in Nat \X Nat : ss[1] < ss[2]}
  <2>1. IsWellFoundedOn(R, Nat)
    BY NatLessThanWellFounded DEF OpToRel
  <2>2. \A x, y \in Nat : x < y => <<x, y>> \in R
    OBVIOUS
  <2> HIDE DEF R
  <2>3. \E x \in T : \A y \in T : ~ (<<y, x>> \in R)
    BY <1>1, <2>1, WFMin DEF R
  <2>4. QED
    BY <2>2, <2>3
<1>3. m # 0 /\ m - 1 \in Nat /\ m - 1 \notin S
  BY <1>2
<1>4. QED
  BY <1>2, <1>3

\* So many units on is at least so many days on, and at most so many years.
LEMMA UnitsRise ==
  ASSUME NEW f, IsFreq(f), f.kind # "h", NEW o \in Int, NEW n \in Nat
  PROVE  /\ DayEdge(f, o) \in Int /\ DayEdge(f, o + n) \in Int
         /\ DayEdge(f, o) + n <= DayEdge(f, o + n)
         /\ DayEdge(f, o + n) <= DayEdge(f, o) + 372 * n
<1> DEFINE e(k) == DayEdge(f, o + k)
           S == {k \in Nat : e(0) + k <= e(k) /\ e(k) <= e(0) + 372 * k}
<1>1. \A k \in Nat : e(k) \in Int /\ e(k) + 1 <= e(k + 1) /\ e(k + 1) <= e(k) + 372
  <2>1. SUFFICES ASSUME NEW k \in Nat
                 PROVE  e(k) \in Int /\ e(k) + 1 <= e(k + 1) /\ e(k + 1) <= e(k) + 372
    OBVIOUS
  <2> DEFINE p == o + k
  <2>2. p \in Int /\ o + (k + 1) = p + 1 /\ p + 1 \in Int
    OBVIOUS
  <2> HIDE DEF p
  <2>3. /\ DayEdge(f, p) \in Int /\ DayStop(f, p) \in Int /\ DayEdge(f, p + 1) \in Int
        /\ DayEdge(f, p) < DayStop(f, p) /\ DayStop(f, p) <= DayEdge(f, p + 1)
        /\ DayEdge(f, p + 1) <= DayEdge(f, p) + 372
    BY <2>2, UnitEdges
  <2>4. e(k) = DayEdge(f, p) /\ e(k + 1) = DayEdge(f, p + 1)
    BY <2>2 DEF p
  <2> HIDE DEF e
  <2>5. QED
    BY <2>3, <2>4
<1>2. e(0) = DayEdge(f, o)
  <2>1. o + 0 = o
    OBVIOUS
  <2>2. QED
    BY <2>1
<1> HIDE DEF e
<1>3. 0 \in S
  BY <1>1
<1>4. ASSUME NEW k \in Nat, k \in S
      PROVE  k + 1 \in S
  BY <1>1, <1>4
<1>5. \A k \in Nat : k \in S
  <2> HIDE DEF S
  <2>1. QED
    BY <1>3, <1>4, NatSets
<1>6. e(0) \in Int /\ e(n) \in Int /\ e(0) + n <= e(n) /\ e(n) <= e(0) + 372 * n
  BY <1>1, <1>5
<1>7. QED
  BY <1>2, <1>6 DEF e

\* No unit starts before an earlier one stops.
LEMMA UnitsInOrder ==
  ASSUME NEW f, IsFreq(f), f.kind # "h", NEW i \in Int, NEW j \in Int, i < j
  PROVE  DayStop(f, i) <= DayEdge(f, j)
<1>1. i + 1 \in Int /\ j - (i + 1) \in Nat /\ (i + 1) + (j - (i + 1)) = j
  OBVIOUS
<1>2. DayEdge(f, i + 1) + (j - (i + 1)) <= DayEdge(f, j) /\ DayEdge(f, i + 1) \in Int /\ DayEdge(f, j) \in Int
  <2> DEFINE k == i + 1
             n == j - (i + 1)
  <2>1. k \in Int /\ n \in Nat /\ k + n = j
    BY <1>1
  <2> HIDE DEF k, n
  <2>2. DayEdge(f, k) + n <= DayEdge(f, k + n) /\ DayEdge(f, k) \in Int /\ DayEdge(f, k + n) \in Int
    BY <2>1, UnitsRise
  <2>3. QED
    BY <2>1, <2>2 DEF k, n
<1>3. DayStop(f, i) \in Int /\ DayStop(f, i) <= DayEdge(f, i + 1)
  BY UnitEdges
<1>4. QED
  BY <1>1, <1>2, <1>3
-----------------------------------------------------------------------------
(* Spans of moments. *)
LEMMA BoundsAre ==
  ASSUME NEW f, IsFreq(f), NEW o \in Int
  PROVE  /\ f.kind = "h" => Bounds(f, o) = <<o, o + 1>>
         /\ f.kind # "h" => Bounds(f, o) = <<DayEdge(f, o) * Day, DayStop(f, o) * Day>>
<1>1. ASSUME f.kind = "h"
      PROVE  Bounds(f, o) = <<o, o + 1>>
  <2>1. Bounds(f, o) = <<o * UnitLength[f.kind], (o + 1) * UnitLength[f.kind]>>
    BY <1>1 DEF Bounds, UnitLength
  <2>2. UnitLength["h"] = 1
    BY DEF UnitLength
  <2>3. QED
    BY <1>1, <2>1, <2>2
<1>2. ASSUME f.kind # "h"
      PROVE  Bounds(f, o) = <<DayEdge(f, o) * Day, DayStop(f, o) * Day>>
  <2>1. CASE f.kind = "B"
    <3>1. Bounds(f, o) = <<WorkedDay(o) * Day, (WorkedDay(o) + 1) * Day>>
      <4>1. f.kind \notin DOMAIN UnitLength
        BY <2>1 DEF UnitLength
      <4>2. QED
        BY <2>1, <4>1 DEF Bounds, WorkedDay
    <3>2. DayEdge(f, o) = WorkedDay(o) /\ DayStop(f, o) = WorkedDay(o) + 1
      BY <2>1 DEF DayEdge, DayStop
    <3>3. QED
      BY <3>1, <3>2
  <2>2. CASE f.kind = "D"
    <3>1. Bounds(f, o) = <<o * UnitLength[f.kind], (o + 1) * UnitLength[f.kind]>>
      BY <2>2 DEF Bounds, UnitLength
    <3>2. UnitLength["D"] = Day /\ DayEdge(f, o) = o /\ DayStop(f, o) = o + 1
      BY <2>2 DEF UnitLength, DayEdge, DayStop
    <3>3. QED
      BY <2>2, <3>1, <3>2
  <2>3. CASE f.kind \notin {"B", "D"}
    <3>1. f.kind \notin DOMAIN UnitLength
      BY <1>2, <2>3 DEF UnitLength
    <3>2. QED
      BY <2>3, <3>1 DEF Bounds, DayEdge, DayStop
  <2>4. QED
    BY <2>1, <2>2, <2>3
<1>3. QED
  BY <1>1, <1>2

From(f, o) == Bounds(f, o)[1]
Upto(f, o) == Bounds(f, o)[2]

\* Spans follow one another, with no gap but the weekends of business days.
LEMMA SpansFollow ==
  ASSUME NEW f, IsFreq(f), NEW o \in Int
  PROVE  /\ From(f, o) \in Int /\ Upto(f, o) \in Int /\ From(f, o) < Upto(f, o)
         /\ f.kind # "B" => Upto(f, o) = From(f, o + 1)
         /\ \A j \in Int : o < j => Upto(f, o) <= From(f, j)
<1>1. CASE f.kind = "h"
  <2>1. \A j \in Int : From(f, j) = j /\ Upto(f, j) = j + 1
    BY <1>1, BoundsAre DEF From, Upto
  <2>2. QED
    BY <2>1
<1>2. CASE f.kind # "h"
  <2>1. \A j \in Int : From(f, j) = DayEdge(f, j) * Day /\ Upto(f, j) = DayStop(f, j) * Day
    BY <1>2, BoundsAre DEF From, Upto
  <2>2. DayEdge(f, o) \in Int /\ DayStop(f, o) \in Int /\ DayEdge(f, o) + 1 <= DayStop(f, o)
    BY <1>2, UnitEdges
  <2>3. From(f, o) \in Int /\ Upto(f, o) \in Int /\ From(f, o) < Upto(f, o)
    <3> DEFINE a == DayEdge(f, o)
               b == DayStop(f, o)
    <3>1. a \in Int /\ a + 1 \in Int /\ b \in Int /\ a + 1 <= b
      BY <2>2
    <3> HIDE DEF a, b
    <3>2. /\ Day \in Nat \ {0} /\ a * Day \in Int /\ b * Day \in Int
          /\ (a + 1) * Day = a * Day + Day
      BY <3>1, MomentsOfDays
    <3>3. (a + 1) * Day <= b * Day
      BY <3>1, DaysInOrder
    <3>4. a * Day < b * Day
      BY <3>2, <3>3
    <3>5. QED
      BY <2>1, <3>2, <3>4 DEF a, b
  <2>4. f.kind # "B" => Upto(f, o) = From(f, o + 1)
    <3>1. o + 1 \in Int
      OBVIOUS
    <3>2. QED
      BY <2>1, <3>1 DEF DayStop
  <2>5. ASSUME NEW j \in Int, o < j
        PROVE  Upto(f, o) <= From(f, j)
    <3>1. DayStop(f, o) <= DayEdge(f, j) /\ DayStop(f, o) \in Int /\ DayEdge(f, j) \in Int
      BY <1>2, <2>5, UnitsInOrder, UnitEdges
    <3>2. DayStop(f, o) * Day <= DayEdge(f, j) * Day
      BY <3>1, DaysInOrder
    <3>3. QED
      BY <2>1, <3>2
  <2>6. QED
    BY <2>3, <2>4, <2>5
<1>3. QED
  BY <1>1, <1>2

\* Spans keep the order of their ordinals.
LEMMA SpansInOrder ==
  ASSUME NEW f, IsFreq(f), NEW i \in Int, NEW j \in Int
  PROVE  /\ i <= j => From(f, i) <= From(f, j) /\ Upto(f, i) <= Upto(f, j)
         /\ From(f, i) < Upto(f, j) => i <= j
<1>1. /\ From(f, i) \in Int /\ Upto(f, i) \in Int /\ From(f, i) < Upto(f, i)
      /\ From(f, j) \in Int /\ Upto(f, j) \in Int /\ From(f, j) < Upto(f, j)
  BY SpansFollow
<1>2. i < j => Upto(f, i) <= From(f, j)
  BY SpansFollow
<1>3. j < i => Upto(f, j) <= From(f, i)
  BY SpansFollow
<1>4. QED
  BY <1>1, <1>2, <1>3

-----------------------------------------------------------------------------
(* Spans and the ordinals of the moments in them. *)

\* A moment lies in the span whose ordinal it is given, and in no other.
LEMMA SpanHolds ==
  ASSUME NEW f, IsFreq(f), NEW m \in Int, NEW back, DateOf(m) \in CivilDates,
         f.kind = "B" => ~Weekend(m)
  PROVE  /\ Ordinal(f, m, back) \in Int
         /\ From(f, Ordinal(f, m, back)) <= m /\ m < Upto(f, Ordinal(f, m, back))
<1> DEFINE x == Ordinal(f, m, back)
           d == DateOf(m)
<1>1. CASE f.kind = "h"
  <2>1. x = m \div UnitLength["h"]
    BY <1>1 DEF Ordinal
  <2>2. x = m
    BY <2>1 DEF UnitLength
  <2>3. Bounds(f, m) = <<m, m + 1>>
    BY <1>1, BoundsAre
  <2>4. QED
    BY <2>2, <2>3 DEF From, Upto
<1>2. CASE f.kind # "h"
  <2>1. d \in Int /\ (f.kind = "B" => Weekday(d) <= 4)
    <3>1. d \in Int
      BY DEF CivilDates
    <3>2. Weekday(d) \in Int
      BY <3>1 DEF Weekday
    <3>3. QED
      BY <3>1, <3>2 DEF Weekend
  <2>2. x \in Int /\ DayEdge(f, x) <= d /\ d < DayStop(f, x)
    BY <1>2, <2>1, UnitHolds
  <2> HIDE DEF x
  <2>3. From(f, x) = DayEdge(f, x) * Day /\ Upto(f, x) = DayStop(f, x) * Day
    BY <1>2, <2>2, BoundsAre DEF From, Upto
  <2>4. /\ d * Day \in Int /\ d * Day <= m /\ m < d * Day + Day
        /\ (d + 1) * Day = d * Day + Day
    BY <2>1, DayOfMoment, MomentsOfDays
  <2> HIDE DEF d
  <2>5. DayEdge(f, x) \in Int /\ DayStop(f, x) \in Int /\ d + 1 \in Int /\ d + 1 <= DayStop(f, x)
    BY <1>2, <2>1, <2>2, UnitEdges
  <2>6. DayEdge(f, x) * Day <= d * Day /\ (d + 1) * Day <= DayStop(f, x) * Day
    BY <2>1, <2>2, <2>5, DaysInOrder
  <2>7. Day \in Int /\ DayEdge(f, x) * Day \in Int /\ DayStop(f, x) * Day \in Int
    BY <2>5, CalendarAssumption
  <2>8. QED
    BY <2>2, <2>3, <2>4, <2>6, <2>7 DEF x
<1>3. QED
  BY <1>1, <1>2

\* A moment in a span has its ordinal.
LEMMA SpanIsOne ==
  ASSUME NEW f, IsFreq(f), NEW m \in Int, NEW back, DateOf(m) \in CivilDates,
         NEW o \in Int, From(f, o) <= m, m < Upto(f, o)
  PROVE  Ordinal(f, m, back) = o
<1> DEFINE x == Ordinal(f, m, back)
<1>1. f.kind = "B" => ~Weekend(m)
  <2>1. SUFFICES ASSUME f.kind = "B" PROVE ~Weekend(m)
    OBVIOUS
  <2>2. From(f, o) = DayEdge(f, o) * Day /\ Upto(f, o) = DayStop(f, o) * Day
    BY <2>1, BoundsAre DEF From, Upto
  <2>3. DayEdge(f, o) = WorkedDay(o) /\ DayStop(f, o) = WorkedDay(o) + 1
    BY <2>1 DEF DayEdge, DayStop
  <2>4. WorkedDay(o) \in Int /\ WorkedDay(o) + 1 \in Int /\ Weekday(WorkedDay(o)) = (o + 3) % 5
    BY WorkedDays
  <2>5. WorkedDay(o) <= DateOf(m) /\ DateOf(m) < WorkedDay(o) + 1
    BY <2>2, <2>3, <2>4, MomentBetweenDays
  <2>6. DateOf(m) = WorkedDay(o)
    BY <2>4, <2>5, DayOfMoment
  <2>7. QED
    BY <2>4, <2>6 DEF Weekend
<1>2. x \in Int /\ From(f, x) <= m /\ m < Upto(f, x)
  BY <1>1, SpanHolds
<1> HIDE DEF x
<1>3. /\ From(f, x) \in Int /\ Upto(f, x) \in Int /\ From(f, o) \in Int /\ Upto(f, o) \in Int
  BY <1>2, SpansFollow
<1>4. x <= o /\ o <= x
  <2>1. From(f, x) < Upto(f, o) /\ From(f, o) < Upto(f, x)
    BY <1>2, <1>3
  <2>2. QED
    BY <1>2, <2>1, SpansInOrder
<1>5. QED
  BY <1>2, <1>4 DEF x

\* Both ends of a span read back as it, and the moments outside as the next
\* to it, those of a weekend on either side of a business day too.
LEMMA EndsReadBack ==
  ASSUME NEW f, IsFreq(f), NEW o \in Int,
         DateOf(From(f, o)) \in CivilDates, DateOf(Upto(f, o) - 1) \in CivilDates,
         DateOf(From(f, o) - 1) \in CivilDates, DateOf(Upto(f, o)) \in CivilDates
  PROVE  /\ Ordinal(f, From(f, o), FALSE) = o
         /\ Ordinal(f, Upto(f, o) - 1, FALSE) = o
         /\ Ordinal(f, From(f, o) - 1, TRUE) = o - 1
         /\ Ordinal(f, Upto(f, o), FALSE) = o + 1
<1>1. /\ o - 1 \in Int /\ o + 1 \in Int /\ (o - 1) + 1 = o
      /\ From(f, o) \in Int /\ Upto(f, o) \in Int /\ From(f, o) < Upto(f, o)
      /\ From(f, o) - 1 \in Int /\ Upto(f, o) - 1 \in Int
  BY SpansFollow
<1>2. Ordinal(f, From(f, o), FALSE) = o /\ Ordinal(f, Upto(f, o) - 1, FALSE) = o
  <2>1. /\ From(f, o) <= From(f, o) /\ From(f, o) <= Upto(f, o) - 1 /\ Upto(f, o) - 1 < Upto(f, o)
    BY <1>1
  <2>2. QED
    BY <1>1, <2>1, SpanIsOne
<1>3. ASSUME f.kind # "B"
      PROVE  Ordinal(f, From(f, o) - 1, TRUE) = o - 1 /\ Ordinal(f, Upto(f, o), FALSE) = o + 1
  <2>1. Upto(f, o - 1) = From(f, o) /\ From(f, o - 1) \in Int /\ From(f, o - 1) < Upto(f, o - 1)
    BY <1>1, <1>3, SpansFollow
  <2>2. From(f, o + 1) = Upto(f, o) /\ Upto(f, o + 1) \in Int /\ From(f, o + 1) < Upto(f, o + 1)
    BY <1>1, <1>3, SpansFollow
  <2>3. From(f, o - 1) <= From(f, o) - 1 /\ From(f, o) - 1 < Upto(f, o - 1)
    BY <1>1, <2>1
  <2>4. From(f, o + 1) <= Upto(f, o) /\ Upto(f, o) < Upto(f, o + 1)
    BY <1>1, <2>2
  <2>5. Ordinal(f, From(f, o) - 1, TRUE) = o - 1
    BY <1>1, <2>3, SpanIsOne
  <2>6. Ordinal(f, Upto(f, o), FALSE) = o + 1
    BY <1>1, <2>4, SpanIsOne
  <2>7. QED
    BY <2>5, <2>6
<1>4. ASSUME f.kind = "B"
      PROVE  Ordinal(f, From(f, o) - 1, TRUE) = o - 1 /\ Ordinal(f, Upto(f, o), FALSE) = o + 1
  <2> DEFINE w == WorkedDay(o)
  <2>1. From(f, o) = w * Day /\ Upto(f, o) = (w + 1) * Day
    BY <1>4, BoundsAre DEF From, Upto, DayEdge, DayStop
  <2>2. /\ w \in Int /\ Weekday(w) = (o + 3) % 5
        /\ WorkedDay(o + 1) = w + IF Weekday(w) = 4 THEN 3 ELSE 1
    BY WorkedDays
  <2>3. /\ w = WorkedDay(o - 1) + (IF Weekday(WorkedDay(o - 1)) = 4 THEN 3 ELSE 1)
        /\ WorkedDay(o - 1) \in Int /\ Weekday(WorkedDay(o - 1)) <= 4
    <3>1. /\ WorkedDay((o - 1) + 1) = WorkedDay(o - 1) + (IF Weekday(WorkedDay(o - 1)) = 4 THEN 3 ELSE 1)
          /\ WorkedDay(o - 1) \in Int /\ Weekday(WorkedDay(o - 1)) <= 4
      BY <1>1, WorkedDays
    <3>2. QED
      BY <1>1, <3>1
  <2> HIDE DEF w
  <2>4. DateOf(From(f, o) - 1) = w - 1
    BY <2>1, <2>2, MomentsOfDays
  <2>5. DateOf(Upto(f, o)) = w + 1
    <3>1. w + 1 \in Int
      BY <2>2
    <3>2. DateOf((w + 1) * Day) = w + 1
      BY <3>1, MomentsOfDays
    <3>3. QED
      BY <2>1, <3>2
  <2>6. Ordinal(f, Upto(f, o), FALSE) = o + 1
    <3>1. Weekday(w + 1) = (Weekday(w) + 1) % 7 /\ Weekday(w) \in 0 .. 4
      BY <2>2 DEF Weekday
    <3>2. Weekday(w) = 4 => Weekday(w + 1) = 5
      BY <3>1
    <3>3. Weekday(w) # 4 => Weekday(w + 1) <= 4
      BY <3>1
    <3>4. WorkedDay(o + 1) = IF Weekday(w + 1) <= 4 THEN w + 1 ELSE w + 1 + 7 - Weekday(w + 1)
      BY <2>2, <3>1, <3>2, <3>3
    <3>5. w + 1 \in Int
      BY <2>2
    <3>6. WorkedDay(o + 1) = (IF Weekday(w + 1) <= 4 THEN w + 1
                              ELSE IF FALSE THEN w + 1 + 4 - Weekday(w + 1) ELSE w + 1 + 7 - Weekday(w + 1))
      BY <3>4
    <3> DEFINE at(d, back) == IF Weekday(d) <= 4 THEN d
                              ELSE IF back THEN d + 4 - Weekday(d) ELSE d + 7 - Weekday(d)
               u == Upto(f, o)
    <3>7. DateOf(u) \in Int
      BY <2>5, <3>5
    <3>10. \A p \in Int : Ordinal(f, u, FALSE) = p <=> WorkedDay(p) = at(DateOf(u), FALSE)
      BY <1>4, <3>7, WorkedOrdinal
    <3> HIDE DEF at
    <3>11. \A p \in Int : Ordinal(f, u, FALSE) = p <=> WorkedDay(p) = at(w + 1, FALSE)
      BY <2>5, <3>10
    <3>8. \A p \in Int : Ordinal(f, Upto(f, o), FALSE) = p <=>
             WorkedDay(p) = (IF Weekday(w + 1) <= 4 THEN w + 1
                             ELSE IF FALSE THEN w + 1 + 4 - Weekday(w + 1) ELSE w + 1 + 7 - Weekday(w + 1))
      BY <3>11 DEF at
    <3>9. QED
      BY <1>1, <3>6, <3>8
  <2>7. Ordinal(f, From(f, o) - 1, TRUE) = o - 1
    <3> DEFINE v == WorkedDay(o - 1)
    <3>1. Weekday(v) \in 0 .. 4 /\ v \in Int
      <4>1. \A e \in Int : Weekday(e) \in 0 .. 6
        BY DEF Weekday
      <4>2. v \in Int /\ Weekday(v) <= 4
        BY <2>3
      <4> HIDE DEF v
      <4>3. QED
        BY <4>1, <4>2
    <3>2. w = v + IF Weekday(v) = 4 THEN 3 ELSE 1
      BY <2>3
    <3> HIDE DEF v
    <3>3. Weekday(v) = 4 => w - 1 = v + 2 /\ Weekday(v + 2) = 6
      BY <3>1, <3>2 DEF Weekday
    <3>4. Weekday(v) # 4 => w - 1 = v
      BY <3>1, <3>2
    <3>5. v = (IF Weekday(w - 1) <= 4 THEN w - 1
               ELSE IF TRUE THEN w - 1 + 4 - Weekday(w - 1) ELSE w - 1 + 7 - Weekday(w - 1))
      BY <3>1, <3>3, <3>4
    <3>6. DateOf(From(f, o) - 1) \in Int
      BY <2>2, <2>4
    <3> DEFINE at(d, back) == IF Weekday(d) <= 4 THEN d
                              ELSE IF back THEN d + 4 - Weekday(d) ELSE d + 7 - Weekday(d)
               u == From(f, o) - 1
    <3>10. \A p \in Int : Ordinal(f, u, TRUE) = p <=> WorkedDay(p) = at(DateOf(u), TRUE)
      BY <1>4, <3>6, WorkedOrdinal
    <3> HIDE DEF at
    <3>11. \A p \in Int : Ordinal(f, u, TRUE) = p <=> WorkedDay(p) = at(w - 1, TRUE)
      BY <2>4, <3>10
    <3>7. \A p \in Int : Ordinal(f, From(f, o) - 1, TRUE) = p <=>
             WorkedDay(p) = (IF Weekday(w - 1) <= 4 THEN w - 1
                             ELSE IF TRUE THEN w - 1 + 4 - Weekday(w - 1) ELSE w - 1 + 7 - Weekday(w - 1))
      BY <3>11 DEF at
    <3>8. QED
      BY <1>1, <3>5, <3>7 DEF v
  <2>8. QED
    BY <2>6, <2>7
<1>5. QED
  BY <1>2, <1>3, <1>4

-----------------------------------------------------------------------------
(* Spans of two frequencies. *)

\* Spans and their ordinals go by the kind and what it ends on.
LEMMA SameSpans ==
  ASSUME NEW f, NEW g, SameName(f, g), NEW o, NEW m, NEW back
  PROVE  /\ Bounds(f, o) = Bounds(g, o) /\ From(f, o) = From(g, o) /\ Upto(f, o) = Upto(g, o)
         /\ Ordinal(f, m, back) = Ordinal(g, m, back)
<1>1. f.kind = g.kind /\ f.anchor = g.anchor
  BY DEF SameName
<1>2. FirstDay(f, o) = FirstDay(g, o) /\ FirstDay(f, o + 1) = FirstDay(g, o + 1)
  BY <1>1 DEF FirstDay
<1>3. Bounds(f, o) = Bounds(g, o)
  BY <1>1, <1>2 DEF Bounds
<1>4. Ordinal(f, m, back) = Ordinal(g, m, back)
  BY <1>1 DEF Ordinal
<1>5. QED
  BY <1>3, <1>4 DEF From, Upto

\* No span of f has a moment on each side of where a span of g starts or
\* stops.
Whole(f, e) == \A i \in Int : From(f, i) < e => Upto(f, i) <= e
Fits(f, g) == \A j \in Int : Whole(f, From(g, j)) /\ Whole(f, Upto(g, j))

\* The pairs of kinds that is so of.
Divides(f, g) ==
  \/ f.kind = "h"
  \/ f.kind \in {"D", "B"} /\ g.kind # "h"
  \/ f.kind = "M" /\ g.kind \in {"Y", "Q"}
  \/ f.kind = "Q" /\ g.kind = "Y" /\ Conform(f, g)
  \/ SameName(f, g)

\* Rows are gathered into spans theirs divide, and spread over spans that divide
\* theirs.
LEMMA NamesDivide ==
  ASSUME NEW f, IsFreq(f), NEW g, IsFreq(g)
  PROVE  /\ SubPeriod(f, g) => Divides(f, g)
         /\ SuperPeriod(f, g) => Divides(g, f)
<1>1. f.kind \in FreqKinds /\ g.kind \in FreqKinds
  BY DEF IsFreq
<1>2. \A k \in FreqKinds : Finer(k) = IF k \in {"B", "D"} THEN {k, "h"} ELSE IF k = "h" THEN {"h"} ELSE {}
  BY DEF FreqKinds, Finer
<1>3. Conform(f, g) <=> Conform(g, f)
  BY DEF Conform
<1>4. ASSUME SubPeriod(f, g) PROVE Divides(f, g)
  BY <1>1, <1>2, <1>4 DEF SubPeriod, Divides, SameName, FreqKinds, DayKinds
<1>5. ASSUME SuperPeriod(f, g) PROVE Divides(g, f)
  <2>1. CASE f.kind = "Y"
    BY <1>1, <1>3, <1>5, <2>1 DEF SuperPeriod, Divides, SameName, FreqKinds, DayKinds
  <2>2. CASE f.kind \in {"Q", "M"}
    BY <1>1, <1>5, <2>2 DEF SuperPeriod, Divides, SameName, FreqKinds, DayKinds
  <2>3. CASE f.kind = "W"
    BY <1>1, <1>5, <2>3 DEF SuperPeriod, Divides, SameName, FreqKinds, DayKinds
  <2>4. CASE f.kind \in {"B", "D"}
    BY <1>1, <1>5, <2>4 DEF SuperPeriod, Divides, SameName, FreqKinds, DayKinds
  <2>5. CASE f.kind = "h"
    BY <1>1, <1>2, <1>5, <2>5 DEF SuperPeriod, Divides, SameName, FreqKinds, DayKinds
  <2>6. QED
    BY <1>1, <2>1, <2>2, <2>3, <2>4, <2>5 DEF FreqKinds
<1>6. QED
  BY <1>4, <1>5

\* Spans are whole at a day's start when each is a day, and at the start of
\* one of them in any case.
LEMMA WholeAtDays ==
  ASSUME NEW f, IsFreq(f), f.kind \in {"D", "B"}, NEW d \in Int
  PROVE  Whole(f, d * Day)
<1>1. SUFFICES ASSUME NEW i \in Int, From(f, i) < d * Day PROVE Upto(f, i) <= d * Day
  BY DEF Whole
<1> DEFINE e == DayEdge(f, i)
<1>2. e \in Int /\ DayStop(f, i) = e + 1
  <2>1. WorkedDay(i) \in Int
    BY WorkedDays
  <2>2. CASE f.kind = "D"
    BY <2>2 DEF DayEdge, DayStop
  <2>3. CASE f.kind = "B"
    BY <2>1, <2>3 DEF DayEdge, DayStop
  <2>4. QED
    BY <2>2, <2>3
<1>3. From(f, i) = e * Day /\ Upto(f, i) = (e + 1) * Day
  BY <1>2, BoundsAre DEF From, Upto
<1> HIDE DEF e
<1>4. e + 1 <= d
  <2>1. SUFFICES ASSUME d <= e PROVE FALSE
    BY <1>2
  <2>2. d * Day <= e * Day
    BY <1>2, <2>1, DaysInOrder
  <2>3. d * Day \in Int /\ e * Day \in Int
    BY <1>2, CalendarAssumption
  <2>4. QED
    BY <1>1, <1>3, <2>2, <2>3
<1>5. e + 1 \in Int
  BY <1>2
<1>6. (e + 1) * Day <= d * Day
  BY <1>4, <1>5, DaysInOrder
<1>7. QED
  BY <1>3, <1>6

\* No span of f lies across the start or end of another.
LEMMA WholeAtSpans ==
  ASSUME NEW f, IsFreq(f), NEW o \in Int
  PROVE  Whole(f, From(f, o)) /\ Whole(f, Upto(f, o))
<1>1. SUFFICES ASSUME NEW i \in Int
               PROVE  /\ From(f, i) < From(f, o) => Upto(f, i) <= From(f, o)
                      /\ From(f, i) < Upto(f, o) => Upto(f, i) <= Upto(f, o)
  BY DEF Whole
<1>2. /\ From(f, i) \in Int /\ From(f, o) \in Int
      /\ o <= i => From(f, o) <= From(f, i)
  BY SpansFollow, SpansInOrder
<1>3. From(f, i) < From(f, o) => i < o
  BY <1>2
<1>4. i < o => Upto(f, i) <= From(f, o)
  BY SpansFollow
<1>5. From(f, i) < Upto(f, o) => Upto(f, i) <= Upto(f, o)
  BY SpansInOrder
<1>6. QED
  BY <1>3, <1>4, <1>5

\* A month a longer span starts in starts a shorter one.
LEMMA WholeAtMonths ==
  ASSUME NEW f, IsFreq(f), f.kind \in {"Q", "M"}, NEW k \in Int,
         f.kind = "Q" => k % 3 = f.anchor % 3
  PROVE  Whole(f, MonthStart(k) * Day)
<1> DEFINE s == MonthsIn(f)
           a == FirstMonth(f)
           o == (k - a) \div s
<1>1. f.anchor \in 1 .. 12 /\ f.kind \in MonthKinds
  BY DEF IsFreq, MonthKinds
<1>2. s \in {1, 3} /\ a \in Int /\ k = s * o + a /\ o \in Int
  <2>1. CASE f.kind = "M"
    BY <2>1 DEF MonthsIn, FirstMonth
  <2>2. CASE f.kind = "Q"
    <3>1. s = 3 /\ a = 12 * 1970 + f.anchor - 12
      BY <2>2 DEF MonthsIn, FirstMonth
    <3>2. k % 3 = f.anchor % 3
      BY <2>2
    <3>3. (k - a) % 3 = 0
      BY <1>1, <3>1, <3>2
    <3>4. a \in Int
      BY <1>1, <3>1
    <3> HIDE DEF a
    <3>5. o = (k - a) \div 3
      BY <3>1
    <3> HIDE DEF o, s
    <3>6. k = 3 * o + a /\ o \in Int
      BY <3>3, <3>4, <3>5
    <3>7. QED
      BY <3>1, <3>4, <3>6
  <2>3. QED
    BY <2>1, <2>2
<1>3. FirstDay(f, o) = MonthStart(s * o + a)
  BY <1>1, <1>2, MonthUnits
<1>4. DayEdge(f, o) = MonthStart(k)
  BY <1>2, <1>3 DEF DayEdge
<1>5. From(f, o) = DayEdge(f, o) * Day
  BY <1>2, BoundsAre DEF From
<1>6. Whole(f, From(f, o))
  BY <1>2, WholeAtSpans
<1>7. QED
  BY <1>4, <1>5, <1>6

-----------------------------------------------------------------------------
\* Where spans of a day or longer start and stop, and months.
LEMMA EdgesAreDays ==
  ASSUME NEW g, IsFreq(g), g.kind # "h", NEW j \in Int
  PROVE  /\ \E d \in Int : From(g, j) = d * Day
         /\ \E d \in Int : Upto(g, j) = d * Day
<1>1. DayEdge(g, j) \in Int /\ DayStop(g, j) \in Int
  BY UnitEdges
<1>2. From(g, j) = DayEdge(g, j) * Day /\ Upto(g, j) = DayStop(g, j) * Day
  BY BoundsAre DEF From, Upto
<1>3. QED
  BY <1>1, <1>2

\* A year or a quarter starts with a month, a year with one its name tells.
LEMMA EdgesAreMonths ==
  ASSUME NEW g, IsFreq(g), g.kind \in {"Y", "Q"}, NEW j \in Int
  PROVE  \E k \in Int : /\ From(g, j) = MonthStart(k) * Day
                        /\ g.kind = "Y" => k % 3 = g.anchor % 3
<1> DEFINE k == MonthsIn(g) * j + FirstMonth(g)
<1>1. g.anchor \in 1 .. 12 /\ g.kind \in MonthKinds
  BY DEF IsFreq, MonthKinds
<1>2. k \in Int
  BY <1>1 DEF MonthsIn, FirstMonth
<1>3. FirstDay(g, j) = MonthStart(k)
  BY <1>1, MonthUnits
<1>4. From(g, j) = MonthStart(k) * Day
  BY <1>3, BoundsAre DEF From, DayEdge
<1>5. ASSUME g.kind = "Y" PROVE k % 3 = g.anchor % 3
  <2>1. k = 12 * j + 12 * 1970 + g.anchor - 12
    BY <1>1, <1>5 DEF MonthsIn, FirstMonth
  <2>2. QED
    BY <1>1, <2>1
<1>6. QED
  BY <1>2, <1>4, <1>5

\* The spans of the finer frequency do not lie across those of the coarser.
LEMMA DividesFits ==
  ASSUME NEW f, IsFreq(f), NEW g, IsFreq(g), Divides(f, g)
  PROVE  Fits(f, g)
<1>1. SUFFICES ASSUME NEW j \in Int PROVE Whole(f, From(g, j)) /\ Whole(f, Upto(g, j))
  BY DEF Fits
<1>2. From(g, j) \in Int /\ Upto(g, j) \in Int /\ j + 1 \in Int
  BY SpansFollow
<1>3. CASE f.kind = "h"
  <2>1. \A i \in Int : From(f, i) = i /\ Upto(f, i) = i + 1
    BY <1>3, BoundsAre DEF From, Upto
  <2>2. QED
    BY <1>2, <2>1 DEF Whole
<1>4. CASE f.kind \in {"D", "B"} /\ g.kind # "h"
  <2>1. PICK d \in Int : From(g, j) = d * Day
    BY <1>4, EdgesAreDays
  <2>2. PICK e \in Int : Upto(g, j) = e * Day
    BY <1>4, EdgesAreDays
  <2>3. Whole(f, d * Day) /\ Whole(f, e * Day)
    BY <1>4, WholeAtDays
  <2>4. QED
    BY <2>1, <2>2, <2>3
<1>5. ASSUME \/ f.kind = "M" /\ g.kind \in {"Y", "Q"}
             \/ f.kind = "Q" /\ g.kind = "Y" /\ Conform(f, g)
      PROVE  Whole(f, From(g, j)) /\ Whole(f, Upto(g, j))
  <2>1. Upto(g, j) = From(g, j + 1)
    BY <1>5, SpansFollow
  <2>2. PICK k \in Int : From(g, j) = MonthStart(k) * Day /\ (g.kind = "Y" => k % 3 = g.anchor % 3)
    BY <1>5, EdgesAreMonths
  <2>3. PICK l \in Int : From(g, j + 1) = MonthStart(l) * Day /\ (g.kind = "Y" => l % 3 = g.anchor % 3)
    BY <1>2, <1>5, EdgesAreMonths
  <2>4. f.kind \in {"Q", "M"}
    BY <1>5
  <2>5. (f.kind = "Q" => k % 3 = f.anchor % 3) /\ (f.kind = "Q" => l % 3 = f.anchor % 3)
    BY <1>5, <2>2, <2>3 DEF Conform
  <2>6. Whole(f, MonthStart(k) * Day) /\ Whole(f, MonthStart(l) * Day)
    BY <2>4, <2>5, WholeAtMonths
  <2>7. QED
    BY <2>1, <2>2, <2>3, <2>6
<1>6. CASE SameName(f, g)
  <2>1. From(f, j) = From(g, j) /\ Upto(f, j) = Upto(g, j)
    BY <1>6, SameSpans
  <2>2. Whole(f, From(f, j)) /\ Whole(f, Upto(f, j))
    BY WholeAtSpans
  <2>3. QED
    BY <2>1, <2>2
<1>7. CASE f.kind = "M" /\ g.kind \in {"Y", "Q"}
  BY <1>5, <1>7
<1>8. CASE f.kind = "Q" /\ g.kind = "Y" /\ Conform(f, g)
  BY <1>5, <1>8
<1>9. QED
  BY <1>3, <1>4, <1>6, <1>7, <1>8 DEF Divides

-----------------------------------------------------------------------------
\* The ordinal of the longer span that holds a moment of a shorter one holds
\* the whole of it.
LEMMA SpanInside ==
  ASSUME NEW f, IsFreq(f), NEW g, IsFreq(g), Fits(f, g), NEW o \in Int,
         NEW m \in Int, From(f, o) <= m, m < Upto(f, o), DateOf(m) \in CivilDates, NEW back,
         g.kind = "B" => ~Weekend(m)
  PROVE  /\ Ordinal(g, m, back) \in Int
         /\ From(g, Ordinal(g, m, back)) <= From(f, o)
         /\ Upto(f, o) <= Upto(g, Ordinal(g, m, back))
<1> DEFINE x == Ordinal(g, m, back)
<1>1. x \in Int /\ From(g, x) <= m /\ m < Upto(g, x)
  BY SpanHolds
<1> HIDE DEF x
<1>2. /\ From(f, o) \in Int /\ Upto(f, o) \in Int /\ From(g, x) \in Int /\ Upto(g, x) \in Int
  BY <1>1, SpansFollow
<1>3. Whole(f, From(g, x)) /\ Whole(f, Upto(g, x))
  BY <1>1 DEF Fits
<1>4. /\ From(f, o) < From(g, x) => Upto(f, o) <= From(g, x)
      /\ From(f, o) < Upto(g, x) => Upto(f, o) <= Upto(g, x)
  BY <1>3 DEF Whole
<1>5. From(g, x) <= From(f, o) /\ Upto(f, o) <= Upto(g, x)
  BY <1>1, <1>2, <1>4
<1>6. QED
  BY <1>1, <1>5 DEF x

\* The ordinals of the shorter spans that hold the first and the last moment
\* of a longer one's are the first and last inside it.
LEMMA SpansInside ==
  ASSUME NEW f, IsFreq(f), NEW g, IsFreq(g), Fits(f, g), NEW i \in Int, NEW j \in Int,
         NEW back, NEW ahead, i <= j,
         DateOf(From(g, i)) \in CivilDates, DateOf(Upto(g, j) - 1) \in CivilDates,
         f.kind = "B" => ~Weekend(From(g, i)) /\ ~Weekend(Upto(g, j) - 1)
  PROVE  LET x == Ordinal(f, From(g, i), back)
             z == Ordinal(f, Upto(g, j) - 1, ahead)
         IN  /\ x \in Int /\ z \in Int /\ x <= z
             /\ From(g, i) <= From(f, x) /\ Upto(f, z) <= Upto(g, j)
             /\ From(g, i) <= From(f, z)
<1> DEFINE x == Ordinal(f, From(g, i), back)
           z == Ordinal(f, Upto(g, j) - 1, ahead)
           u == From(g, i)
           v == Upto(g, j)
<1>1. u \in Int /\ v \in Int /\ u < v /\ v - 1 \in Int
  <2>1. /\ From(g, i) \in Int /\ Upto(g, j) \in Int /\ From(g, j) \in Int
        /\ From(g, j) < Upto(g, j) /\ From(g, i) <= From(g, j)
    BY SpansFollow, SpansInOrder
  <2>2. QED
    BY <2>1
<1>2. Whole(f, u) /\ Whole(f, v)
  BY DEF Fits
<1> HIDE DEF u, v
<1>3. x \in Int /\ From(f, x) <= u /\ u < Upto(f, x)
  BY <1>1, SpanHolds DEF u
<1>4. z \in Int /\ From(f, z) <= v - 1 /\ v - 1 < Upto(f, z)
  BY <1>1, SpanHolds DEF v
<1> HIDE DEF x, z
<1>5. /\ From(f, x) \in Int /\ From(f, z) \in Int /\ Upto(f, x) \in Int /\ Upto(f, z) \in Int
  BY <1>3, <1>4, SpansFollow
<1>6. From(f, x) < u => Upto(f, x) <= u
  BY <1>2, <1>3 DEF Whole
<1>7. From(f, z) < v => Upto(f, z) <= v
  BY <1>2, <1>4 DEF Whole
<1>8. u <= From(f, x) /\ Upto(f, z) <= v /\ From(f, x) < Upto(f, z)
  BY <1>1, <1>3, <1>4, <1>5, <1>6, <1>7
<1>9. x <= z
  BY <1>3, <1>4, <1>8, SpansInOrder
<1>10. From(f, x) <= From(f, z)
  BY <1>3, <1>4, <1>9, SpansInOrder
<1>11. QED
  BY <1>1, <1>3, <1>4, <1>5, <1>8, <1>9, <1>10 DEF u, v, x, z

-----------------------------------------------------------------------------
(* The years a period needs. *)

\* All the moments a period is told by are on dates whose year is found.
InYears(f, o) ==
  \A m \in Int : From(f, o) - 1 <= m /\ m <= Upto(f, o + f.n - 1) => DateOf(m) \in CivilDates

\* So many units from a moment of the rows is still in the years the calendar
\* finds.
LEMMA YearsSuffice ==
  ASSUME NEW n \in Nat \ {0}, NEW d \in Int,
         d \in NewYear(FirstYear + 1) .. NewYear(LastYear - n) - 1
  PROVE  d \in CivilDates /\ 374 <= d /\ d + 372 * n + 4 < NewYear(2420)
<1>1. FirstYear \in Int /\ LastYear \in Int /\ n \in Int /\ 1971 <= FirstYear /\ LastYear <= 2399 /\ 1 <= n
  BY CalendarAssumption
<1>2. /\ NewYear(FirstYear + 1) <= d /\ d < NewYear(LastYear - n)
      /\ NewYear(FirstYear + 1) \in Int /\ NewYear(LastYear - n) \in Int
  <2>1. FirstYear + 1 \in Int /\ LastYear - n \in Int
    BY <1>1
  <2>2. NewYear(FirstYear + 1) \in Int /\ NewYear(LastYear - n) \in Int
    BY <2>1, YearsAreLong
  <2> HIDE DEF NewYear
  <2>3. QED
    BY <2>2
<1>3. NewYear(1972) = 730 /\ NewYear(2399) = 156689 /\ NewYear(2420) = 164359
  BY DEF NewYear
<1>4. 730 <= NewYear(FirstYear + 1)
  <2>1. 1972 \in Int /\ FirstYear + 1 \in Int /\ 1972 <= FirstYear + 1
    BY <1>1
  <2>2. \A y, z \in Int : y <= z => NewYear(y) + 365 * (z - y) <= NewYear(z)
    BY YearsRise
  <2> DEFINE y == 1972
             z == FirstYear + 1
  <2>3. y \in Int /\ z \in Int /\ y <= z
    BY <2>1
  <2> HIDE DEF y, z
  <2>4. NewYear(y) + 365 * (z - y) <= NewYear(z)
    BY <2>2, <2>3
  <2>5. NewYear(y) = 730 /\ NewYear(z) = NewYear(FirstYear + 1) /\ 0 <= 365 * (z - y)
    BY <1>3, <2>3 DEF y, z
  <2>6. 365 * (z - y) \in Int
    BY <2>3
  <2>7. 730 <= NewYear(z)
    BY <1>2, <2>4, <2>5, <2>6
  <2>8. QED
    BY <2>7 DEF z
<1>5. NewYear(LastYear - n) + 365 * n <= 156689
  <2>1. LastYear - n \in Int /\ 2399 \in Int /\ LastYear - n <= 2399
    BY <1>1
  <2>2. NewYear(LastYear - n) + 365 * (2399 - (LastYear - n)) <= NewYear(2399)
    BY <2>1, YearsRise
  <2>3. n <= 2399 - (LastYear - n)
    BY <1>1
  <2>4. QED
    BY <1>1, <1>2, <1>3, <2>2, <2>3
<1>6. 730 + 365 * n <= 156689
  BY <1>1, <1>2, <1>4, <1>5
<1>7. 7 * n <= 2999
  BY <1>1, <1>6
<1>8. d + 372 * n + 4 < 164359
  BY <1>1, <1>2, <1>5, <1>7
<1>9. 0 <= d /\ d <= NewYear(2420) - 1
  BY <1>1, <1>2, <1>3, <1>4, <1>8
<1>10. QED
  BY <1>2, <1>3, <1>4, <1>8, <1>9 DEF CivilDates

\* So are all the moments its period is told by.
LEMMA OrdinalsInYears ==
  ASSUME NEW f, IsFreq(f), NEW m \in Int, NEW back,
         DateOf(m) \in NewYear(FirstYear + 1) .. NewYear(LastYear - f.n) - 1
  PROVE  Ordinal(f, m, back) \in Int /\ InYears(f, Ordinal(f, m, back))
<1> DEFINE o == Ordinal(f, m, back)
           d == DateOf(m)
<1>1. f.n \in Nat \ {0} /\ d \in Int
  BY DayOfMoment DEF IsFreq
<1>2. d \in CivilDates /\ 374 <= d /\ d + 372 * f.n + 4 < NewYear(2420)
  <2> HIDE DEF d
  <2>1. d \in NewYear(FirstYear + 1) .. NewYear(LastYear - f.n) - 1
    BY DEF d
  <2>2. QED
    BY <1>1, <2>1, YearsSuffice
<1>3. ASSUME NEW b \in Int, NEW e \in Int, NEW j \in Int, 0 < b, e < NewYear(2420), b * Day <= j + 1, j < e * Day
      PROVE  DateOf(j) \in CivilDates
  <2>1. b - 1 \in Int /\ (b - 1) * Day <= j
    BY <1>3, CalendarAssumption
  <2>2. b - 1 <= DateOf(j) /\ DateOf(j) < e /\ DateOf(j) \in Int
    <3>1. DateOf(j) \in Int
      BY <1>3, DayOfMoment
    <3>2. j < e * Day /\ j \in Int /\ e \in Int
      BY <1>3
    <3>3. b - 1 <= DateOf(j) /\ DateOf(j) < e
      BY <2>1, <3>2, MomentBetweenDays
    <3>4. QED
      BY <3>1, <3>3
  <2>3. NewYear(2420) \in Int
    BY DEF NewYear
  <2>4. QED
    BY <2>2, <2>3, <1>3 DEF CivilDates
<1>4. CASE f.kind = "h"
  <2>1. o = m
    BY <1>4 DEF Ordinal, UnitLength
  <2>2. f.n \in Int /\ 1 <= f.n /\ o + f.n - 1 \in Int
    BY <1>1, <2>1
  <2>3. From(f, o) = m /\ Upto(f, o + f.n - 1) = m + f.n
    BY <1>4, <2>1, <2>2, BoundsAre DEF From, Upto
  <2>4. d * Day <= m /\ m < d * Day + Day /\ d * Day \in Int
    BY DayOfMoment
  <2> HIDE DEF d, o
  <2>5. Day \in Int /\ 1 <= Day
    BY CalendarAssumption
  <2>6. d + f.n + 1 \in Int /\ d + f.n + 1 < NewYear(2420) /\ 0 < d
    <3>1. NewYear(2420) \in Int
      BY DEF NewYear
    <3>2. QED
      BY <1>1, <1>2, <2>2, <3>1
  <2>7. (d + f.n + 1) * Day = d * Day + f.n * Day + Day
    BY <1>1, <2>2, <2>5
  <2>8. f.n * Day \in Int /\ f.n <= f.n * Day
    BY <2>2, <2>5
  <2>9. ASSUME NEW j \in Int, m - 1 <= j, j <= m + f.n
        PROVE  DateOf(j) \in CivilDates
    <3>1. d * Day <= j + 1
      BY <2>4, <2>9
    <3>2. j < (d + f.n + 1) * Day
      BY <2>2, <2>4, <2>5, <2>7, <2>8, <2>9
    <3>3. QED
      BY <1>1, <1>3, <2>6, <3>1, <3>2
  <2>10. QED
    BY <2>1, <2>2, <2>3, <2>9 DEF InYears, o
<1>5. CASE f.kind # "h"
  <2>1. o \in Int /\ DayEdge(f, o) \in d - 371 .. d + 2
    <3>1. CASE f.kind = "B"
      <4> DEFINE w == IF Weekday(d) <= 4 THEN d
                      ELSE IF back THEN d + 4 - Weekday(d) ELSE d + 7 - Weekday(d)
      <4>1. o \in Int /\ WorkedDay(o) = w /\ Weekday(d) \in 0 .. 6
        BY <1>1, <3>1, WorkedOrdinal
      <4>2. w \in d - 2 .. d + 2
        BY <1>1, <4>1
      <4>3. DayEdge(f, o) = WorkedDay(o)
        BY <3>1 DEF DayEdge
      <4> HIDE DEF w, o, d
      <4>4. QED
        BY <1>1, <4>1, <4>2, <4>3
    <3>2. CASE f.kind # "B"
      <4>1. o \in Int /\ DayEdge(f, o) <= d /\ d < DayStop(f, o)
        BY <1>2, <1>5, <3>2, UnitHolds
      <4> HIDE DEF o, d
      <4>2. /\ DayEdge(f, o) \in Int /\ DayStop(f, o) \in Int /\ DayStop(f, o) <= DayEdge(f, o + 1)
            /\ DayEdge(f, o + 1) <= DayEdge(f, o) + 372 /\ o + 1 \in Int
        BY <1>5, <4>1, UnitEdges
      <4>3. DayEdge(f, o + 1) \in Int
        BY <1>5, <4>2, UnitEdges
      <4>4. QED
        BY <1>1, <4>1, <4>2, <4>3
    <3>3. QED
      BY <3>1, <3>2
  <2> HIDE DEF o, d
  <2>2. f.n - 1 \in Nat /\ f.n \in Nat /\ o + f.n - 1 \in Int /\ (o + f.n - 1) + 1 = o + f.n /\ o + f.n \in Int
    BY <1>1, <2>1
  <2> DEFINE z == o + f.n - 1
             b == DayEdge(f, o)
             e == DayStop(f, z)
  <2>3. b \in Int /\ DayEdge(f, o + f.n) \in Int /\ DayEdge(f, o + f.n) <= b + 372 * f.n
    BY <1>5, <2>1, <2>2, UnitsRise
  <2>4. e \in Int /\ e <= DayEdge(f, o + f.n)
    <3>1. z \in Int /\ z + 1 = o + f.n
      BY <2>2
    <3>2. DayStop(f, z) \in Int /\ DayStop(f, z) <= DayEdge(f, z + 1)
      BY <1>5, <3>1, UnitEdges
    <3>3. QED
      BY <3>1, <3>2
  <2>5. From(f, o) = b * Day /\ Upto(f, z) = e * Day
    BY <1>5, <2>1, <2>2, BoundsAre DEF From, Upto
  <2>6. b * Day \in Int /\ e * Day \in Int /\ e + 1 \in Int /\ (e + 1) * Day = e * Day + Day /\ Day \in Int /\ 1 <= Day
    BY <2>3, <2>4, CalendarAssumption
  <2> HIDE DEF b, e
  <2>7. 0 < b /\ e + 1 < NewYear(2420)
    <3>1. NewYear(2420) \in Int
      BY DEF NewYear
    <3>2. b \in d - 371 .. d + 2
      BY <2>1 DEF b
    <3>3. QED
      BY <1>1, <1>2, <2>2, <2>3, <2>4, <3>1, <3>2
  <2>8. ASSUME NEW j \in Int, From(f, o) - 1 <= j, j <= Upto(f, z)
        PROVE  DateOf(j) \in CivilDates
    <3>1. b * Day <= j + 1
      BY <2>5, <2>6, <2>8
    <3>2. j < (e + 1) * Day
      BY <2>5, <2>6, <2>8
    <3>3. QED
      BY <1>3, <2>3, <2>6, <2>7, <3>1, <3>2
  <2>9. QED
    BY <2>1, <2>8 DEF InYears, o, z
<1>6. QED
  BY <1>4, <1>5

-----------------------------------------------------------------------------
(* What a period reads back as. *)

\* The month a quarter read off a period starts in is that of its first day.
LEMMA QuartersReadBack ==
  ASSUME NEW f, IsFreq(f), f.kind = "Q", NEW o \in Int, DateOf(From(f, o)) \in CivilDates,
         NEW p, p = [freq |-> f, ordinal |-> o]
  PROVE  FromQuarter(p.freq, QuarterOf(p)[1], QuarterOf(p)[2]) = p
<1> DEFINE a == f.anchor
           t == o \div 4
           r == o % 4
           month == ((a + r * 3) % 12) + 1
           year == IF month > a THEN t + 1970 - 1 ELSE t + 1970
           k == MonthsIn(f) * o + FirstMonth(f)
<1>1. /\ a \in 1 .. 12 /\ f.kind \in MonthKinds /\ t \in Int /\ r \in 0 .. 3 /\ o = 4 * t + r
      /\ k = 3 * o + 12 * 1970 + a - 12
  BY DEF IsFreq, MonthKinds, MonthsIn, FirstMonth
<1>2. QuarterOf(p)[1] = t + 1970 /\ QuarterOf(p)[2] = r + 1
  BY DEF QuarterOf
<1>3. r + 1 - 1 = r
  BY <1>1
<1>4. Quartered(t + 1970, r + 1, a) = <<year, month>>
  BY <1>3 DEF Quartered
<1> HIDE DEF a, t, r
<1>5. month \in 1 .. 12 /\ year \in Int /\ 12 * year + month - 1 = k
  <2>1. a + r * 3 \in 1 .. 21
    BY <1>1
  <2>2. CASE a + r * 3 <= 11
    BY <1>1, <2>1, <2>2
  <2>3. CASE a + r * 3 >= 12
    BY <1>1, <2>1, <2>3
  <2>4. QED
    BY <2>1, <2>2, <2>3
<1> HIDE DEF year, month
<1>6. Date(year, month, 1) = MonthStart(k)
  BY <1>5, MonthsOfYear
<1>7. FirstDay(f, o) = MonthStart(k)
  BY <1>1, MonthUnits DEF a
<1> HIDE DEF k
<1>8. From(f, o) = MonthStart(k) * Day
  BY <1>7, BoundsAre DEF From, DayEdge
<1>9. Moment(Date(year, month, 1), 0) = From(f, o)
  <2>1. MonthStart(k) \in Int
    BY <1>1, MonthStarts
  <2>2. MonthStart(k) * Day \in Int
    BY <2>1, CalendarAssumption
  <2>3. QED
    BY <1>6, <1>8, <2>2 DEF Moment
<1>10. Ordinal(f, From(f, o), FALSE) = o
  <2>1. From(f, o) \in Int /\ From(f, o) <= From(f, o) /\ From(f, o) < Upto(f, o)
    BY SpansFollow
  <2>2. QED
    BY <2>1, SpanIsOne
<1>11. FromQuarter(f, t + 1970, r + 1) = [freq |-> f, ordinal |-> Ordinal(f, Moment(Date(year, month, 1), 0), FALSE)]
  <2>1. (IF f.kind \in {"Y", "Q"} THEN f.anchor ELSE 12) = a
    BY DEF a
  <2>2. Quartered(t + 1970, r + 1, IF f.kind \in {"Y", "Q"} THEN f.anchor ELSE 12) = <<year, month>>
    BY <1>4, <2>1
  <2> DEFINE at == Quartered(t + 1970, r + 1, IF f.kind \in {"Y", "Q"} THEN f.anchor ELSE 12)
  <2>3. FromQuarter(f, t + 1970, r + 1)
          = [freq |-> f, ordinal |-> Ordinal(f, Moment(Date(at[1], at[2], 1), 0), FALSE)]
    BY DEF FromQuarter
  <2>4. at[1] = year /\ at[2] = month
    BY <2>2
  <2> HIDE DEF at
  <2>5. QED
    BY <2>3, <2>4
<1>12. FromQuarter(f, t + 1970, r + 1) = p
  <2> DEFINE x == Ordinal(f, Moment(Date(year, month, 1), 0), FALSE)
  <2>1. x = o
    BY <1>9, <1>10
  <2>2. FromQuarter(f, t + 1970, r + 1) = [freq |-> f, ordinal |-> x]
    BY <1>11
  <2> HIDE DEF x
  <2>3. QED
    BY <2>1, <2>2
<1>13. p.freq = f
  OBVIOUS
<1>14. QED
  BY <1>2, <1>12, <1>13

\* A period is of one of the frequencies and starts and ends on dates the
\* calendar finds.
IsPeriod(p) ==
  \E f, o : /\ IsFreq(f) /\ o \in Int /\ InYears(f, o)
            /\ p = [freq |-> f, ordinal |-> o]

\* Both ends of a period read back as it, and the moments outside as the next.
LEMMA PeriodsReadBack ==
  ASSUME IsPeriod(period)
  PROVE  BoundsReadBack
<1>1. PICK f, o : IsFreq(f) /\ o \in Int /\ InYears(f, o) /\ period = [freq |-> f, ordinal |-> o]
  BY DEF IsPeriod
<1>2. f.n - 1 \in Nat /\ o + f.n - 1 \in Int /\ o <= o + f.n - 1
  BY <1>1 DEF IsFreq
<1>3. /\ From(f, o) \in Int /\ Upto(f, o) \in Int /\ From(f, o) < Upto(f, o)
      /\ Upto(f, o + f.n - 1) \in Int /\ Upto(f, o) <= Upto(f, o + f.n - 1)
  BY <1>1, <1>2, SpansFollow, SpansInOrder
<1>4. \A m \in Int : From(f, o) - 1 <= m /\ m <= Upto(f, o) => DateOf(m) \in CivilDates
  <2>1. SUFFICES ASSUME NEW m \in Int, From(f, o) - 1 <= m, m <= Upto(f, o)
                 PROVE  DateOf(m) \in CivilDates
    OBVIOUS
  <2>2. m <= Upto(f, o + f.n - 1)
    BY <1>3, <2>1
  <2>3. QED
    BY <1>1, <2>1, <2>2 DEF InYears
<1>5. /\ From(f, o) - 1 \in Int /\ Upto(f, o) - 1 \in Int
      /\ From(f, o) - 1 <= From(f, o) /\ From(f, o) <= Upto(f, o)
      /\ From(f, o) - 1 <= Upto(f, o) - 1 /\ Upto(f, o) - 1 <= Upto(f, o)
      /\ From(f, o) - 1 <= From(f, o) - 1 /\ From(f, o) - 1 <= Upto(f, o)
      /\ Upto(f, o) <= Upto(f, o) /\ From(f, o) - 1 <= Upto(f, o)
  BY <1>3
<1>6. /\ DateOf(From(f, o)) \in CivilDates /\ DateOf(Upto(f, o) - 1) \in CivilDates
      /\ DateOf(From(f, o) - 1) \in CivilDates /\ DateOf(Upto(f, o)) \in CivilDates
  BY <1>3, <1>4, <1>5
<1>7. /\ Ordinal(f, From(f, o), FALSE) = o
      /\ Ordinal(f, Upto(f, o) - 1, FALSE) = o
      /\ Ordinal(f, From(f, o) - 1, TRUE) = o - 1
      /\ Ordinal(f, Upto(f, o), FALSE) = o + 1
  BY <1>1, <1>6, EndsReadBack
<1>8. f.kind = "Q" => FromQuarter(f, QuarterOf(period)[1], QuarterOf(period)[2]) = period
  <2>1. SUFFICES ASSUME f.kind = "Q"
                 PROVE  FromQuarter(f, QuarterOf(period)[1], QuarterOf(period)[2]) = period
    OBVIOUS
  <2>2. FromQuarter(period.freq, QuarterOf(period)[1], QuarterOf(period)[2]) = period
    BY <1>1, <1>6, <2>1, QuartersReadBack
  <2>3. QED
    BY <1>1, <2>2
<1>9. period.freq = f /\ period.ordinal = o
  BY <1>1
<1>10. QED
  BY <1>7, <1>8, <1>9 DEF BoundsReadBack, From, Upto

\* So does the period of a behaviour that is not about periods.
LEMMA RestReadsBack ==
  ASSUME PeriodsRest
  PROVE  BoundsReadBack
<1>1. period.freq.kind = "D" /\ period.freq.anchor = 12 /\ period.ordinal = 0
  BY DEF PeriodsRest, Freq
<1> DEFINE f == period.freq
<1>2. 0 * Day = 0 /\ 1 * Day = Day /\ 0 \div Day = 0 /\ Day \div Day = 1 /\ (0 - 1) \div Day = -1 /\ (Day - 1) \div Day = 0
  <2>1. /\ DateOf(0 * Day) = 0 /\ DateOf(0 * Day - 1) = 0 - 1 /\ Day \in Nat \ {0}
        /\ DateOf(1 * Day) = 1 /\ DateOf(1 * Day - 1) = 1 - 1
    BY MomentsOfDays
  <2>2. 0 * Day = 0 /\ 1 * Day = Day
    BY <2>1
  <2>3. QED
    BY <2>1, <2>2 DEF DateOf
<1>3. Bounds(f, 0) = <<0, Day>>
  BY <1>1, <1>2 DEF Bounds, UnitLength
<1>4. \A m, back : Ordinal(f, m, back) = m \div Day
  BY <1>1 DEF Ordinal, UnitLength
<1>5. <<0, Day>>[1] = 0 /\ <<0, Day>>[2] = Day /\ f.kind # "Q"
  BY <1>1
<1> HIDE DEF f
<1>8. Bounds(f, 0)[1] = 0 /\ Bounds(f, 0)[2] = Day
  BY <1>3, <1>5
<1> DEFINE x(m, back) == Ordinal(f, m, back)
           q(m) == m \div Day
           b == Bounds(f, 0)
<1>9. \A m, back : x(m, back) = q(m)
  BY <1>4
<1>10. q(0) = 0 /\ q(Day - 1) = 0 /\ q(0 - 1) = 0 - 1 /\ q(Day) = 0 + 1
  BY <1>2
<1>11. b[1] = 0 /\ b[2] = Day
  BY <1>8
<1> HIDE DEF x, b, q
<1>12. q(b[1]) = 0 /\ q(b[2] - 1) = 0 /\ q(b[1] - 1) = 0 - 1 /\ q(b[2]) = 0 + 1
  BY <1>10, <1>11
<1>13. x(b[1], FALSE) = 0 /\ x(b[2] - 1, FALSE) = 0 /\ x(b[1] - 1, TRUE) = 0 - 1 /\ x(b[2], FALSE) = 0 + 1
  BY <1>9, <1>12
<1>6. /\ Ordinal(f, Bounds(f, 0)[1], FALSE) = 0
      /\ Ordinal(f, Bounds(f, 0)[2] - 1, FALSE) = 0
      /\ Ordinal(f, Bounds(f, 0)[1] - 1, TRUE) = 0 - 1
      /\ Ordinal(f, Bounds(f, 0)[2], FALSE) = 0 + 1
  BY <1>13 DEF x, b
<1>7. QED
  BY <1>1, <1>5, <1>6 DEF BoundsReadBack, f

-----------------------------------------------------------------------------
(* Periods that move. *)

\* What the last three parts of PeriodsNest say of each move.
GatheredNest ==
  moved.how = "gathered" /\ ~NoSingleBin(moved.to) =>
    Starts(moved.to) <= Starts(period) /\ Stops(period) <= Stops(moved.to)
SpreadNest ==
  moved.how = "spread" /\ ~NoSingleBin(moved.to) =>
    /\ Starts(period) <= Starts(moved.to) /\ Stops(moved.last) <= Stops(period)
    /\ moved.to.ordinal <= moved.last.ordinal
SteppedNest ==
  moved.how = "stepped" /\ moved.count = 1 /\ period.freq.kind # "B" =>
    Starts(moved.to) = Stops(period)

BinAt(x, k, n) == (x - k) + ((x - (x - k)) \div n) * n

\* A bin of so many ordinals holds the ordinal it is for.
LEMMA BinsHold ==
  ASSUME NEW x \in Int, NEW n \in Nat \ {0}, NEW k \in Nat
  PROVE  /\ BinAt(x, k, n) \in Int /\ BinAt(x, k, n) <= x
         /\ x <= BinAt(x, k, n) + n - 1 /\ BinAt(x, k, n) + n - 1 \in Int
<1> DEFINE q == k \div n
<1>1. x - (x - k) = k
  OBVIOUS
<1>2. q \in Int /\ q * n \in Int /\ q * n <= k /\ k < q * n + n
  OBVIOUS
<1>3. (x - (x - k)) \div n = q
  BY <1>1
<1> HIDE DEF q
<1>4. BinAt(x, k, n) = (x - k) + q * n
  BY <1>3 DEF BinAt
<1>5. QED
  BY <1>2, <1>4

\* A row lies inside the bin it is gathered in.
LEMMA GatherNests ==
  ASSUME NEW f, IsFreq(f), NEW o \in Int, InYears(f, o), period = [freq |-> f, ordinal |-> o],
         NEW g \in Targets, NEW end \in BOOLEAN, NEW earlier \in 0 .. 2,
         SubPeriod(f, g), f.n = 1,
         g.kind = "B" => ~Weekend(Starts(period)) /\ ~Weekend(Stops(period) - 1),
         NEW to, to = AsFreq(period, g, end),
         NEW bin, bin = BinLabel(to, to.ordinal - earlier)
  PROVE  Starts(bin) <= Starts(period) /\ Stops(period) <= Stops(bin)
<1> DEFINE s == From(f, o)
           t == Upto(f, o)
           m == IF end THEN t - 1 ELSE s
           back == IF f.kind \in Long THEN end ELSE ~end
           x == Ordinal(g, m, back)
<1>1. IsFreq(g) /\ g.n \in Nat \ {0}
  BY FrequenciesAssumption DEF IsFreq
<1>2. Fits(f, g)
  BY <1>1, NamesDivide, DividesFits
<1>3. o + f.n - 1 = o
  OBVIOUS
<1>4. Starts(period) = s /\ Stops(period) = t
  BY <1>3 DEF Starts, Stops, From, Upto
<1>5. to.freq = g /\ to.ordinal = x /\ to = [freq |-> g, ordinal |-> x]
  BY <1>4 DEF AsFreq
<1>6. s \in Int /\ t \in Int /\ s < t
  BY SpansFollow
<1>7. m \in Int /\ s <= m /\ m < t
  BY <1>6
<1>8. DateOf(m) \in CivilDates
  <2>1. From(f, o) - 1 <= m /\ m <= Upto(f, o + f.n - 1)
    BY <1>3, <1>6, <1>7
  <2> HIDE DEF m
  <2>2. QED
    BY <1>7, <2>1 DEF InYears
<1>9. g.kind = "B" => ~Weekend(m)
  BY <1>4
<1> HIDE DEF m, back
<1>10. x \in Int /\ From(g, x) <= s /\ t <= Upto(g, x)
  BY <1>1, <1>2, <1>7, <1>8, <1>9, SpanInside
<1> HIDE DEF x, s, t
<1> DEFINE i == BinAt(x, earlier, g.n)
<1>11. i \in Int /\ i <= x /\ x <= i + g.n - 1 /\ i + g.n - 1 \in Int
  <2>1. earlier \in Nat
    OBVIOUS
  <2>2. QED
    BY <1>1, <1>10, <2>1, BinsHold
<1>12. bin.freq = g /\ bin.ordinal = i
  BY <1>5 DEF BinLabel, BinAt
<1> HIDE DEF i
<1>13. Starts(bin) = From(g, i) /\ Stops(bin) = Upto(g, i + g.n - 1)
  BY <1>12 DEF Starts, Stops, From, Upto
<1>14. From(g, i) <= From(g, x) /\ Upto(g, x) <= Upto(g, i + g.n - 1)
  BY <1>1, <1>10, <1>11, SpansInOrder
<1>15. /\ From(g, i) \in Int /\ From(g, x) \in Int /\ Upto(g, x) \in Int /\ Upto(g, i + g.n - 1) \in Int
  BY <1>1, <1>10, <1>11, SpansFollow
<1>16. QED
  BY <1>4, <1>6, <1>10, <1>13, <1>14, <1>15

\* A row is spread inside itself.
LEMMA SpreadNests ==
  ASSUME NEW f, IsFreq(f), NEW o \in Int, InYears(f, o), period = [freq |-> f, ordinal |-> o],
         NEW g \in Targets, NEW end \in BOOLEAN,
         SameName(f, g) \/ SuperPeriod(f, g), g.n = 1,
         g.kind = "B" => ~Weekend(Starts(period)) /\ ~Weekend(Stops(period) - 1),
         NEW to, to = AsFreq(period, g, end),
         NEW last, last = AsFreq(period, g, TRUE)
  PROVE  /\ Starts(period) <= Starts(to) /\ Stops(last) <= Stops(period)
         /\ to.ordinal <= last.ordinal
<1> DEFINE j == o + f.n - 1
           s == From(f, o)
           t == Upto(f, j)
           back(b) == IF f.kind \in Long THEN b ELSE ~b
           x == Ordinal(g, s, back(FALSE))
           z == Ordinal(g, t - 1, back(TRUE))
<1>1. IsFreq(g) /\ f.n \in Nat \ {0}
  BY FrequenciesAssumption DEF IsFreq
<1>2. j \in Int /\ o <= j
  BY <1>1
<1>3. Fits(g, f)
  <2>1. SameName(f, g) => SameName(g, f)
    BY DEF SameName
  <2>2. Divides(g, f)
    BY <1>1, <2>1, NamesDivide DEF Divides
  <2>3. QED
    BY <1>1, <2>2, DividesFits
<1>4. Starts(period) = s /\ Stops(period) = t
  BY DEF Starts, Stops, From, Upto
<1>5. last.freq = g /\ last.ordinal = z
  BY <1>4 DEF AsFreq
<1>6. to.freq = g /\ to.ordinal = IF end THEN z ELSE x
  <2>1. CASE end = TRUE
    BY <1>4, <2>1 DEF AsFreq
  <2>2. CASE end = FALSE
    BY <1>4, <2>2 DEF AsFreq
  <2>3. QED
    BY <2>1, <2>2
<1>7. DateOf(s) \in CivilDates /\ DateOf(t - 1) \in CivilDates
  <2>1. s \in Int /\ t \in Int /\ From(f, j) \in Int /\ From(f, j) < t /\ s <= From(f, j)
    BY <1>2, SpansFollow, SpansInOrder
  <2>2. t - 1 \in Int /\ s - 1 <= s /\ s <= t /\ s - 1 <= t - 1 /\ t - 1 <= t
    BY <2>1
  <2>3. QED
    BY <2>1, <2>2 DEF InYears
<1>8. g.kind = "B" => ~Weekend(s) /\ ~Weekend(t - 1)
  BY <1>4
<1> HIDE DEF back, j
<1>9. /\ x \in Int /\ z \in Int /\ x <= z
      /\ s <= From(g, x) /\ Upto(g, z) <= t /\ s <= From(g, z)
  BY <1>1, <1>2, <1>3, <1>7, <1>8, SpansInside
<1> HIDE DEF x, z, s, t
<1>10. Starts(to) = From(g, to.ordinal) /\ to.ordinal \in {x, z}
  BY <1>6 DEF Starts, From
<1>11. Stops(last) = Upto(g, z)
  <2>1. last.ordinal + last.freq.n - 1 = z
    <3>1. last.freq.n = 1 /\ last.ordinal = z /\ z \in Int
      BY <1>5, <1>9
    <3>2. z + 1 - 1 = z
      BY <3>1
    <3>3. QED
      BY <3>1, <3>2
  <2>2. QED
    BY <1>5, <2>1 DEF Stops, Upto
<1>12. s <= Starts(to) /\ to.ordinal <= z
  <2>1. CASE to.ordinal = x
    BY <1>9, <1>10, <2>1
  <2>2. CASE to.ordinal = z
    BY <1>9, <1>10, <2>2
  <2>3. QED
    BY <1>10, <2>1, <2>2
<1>13. QED
  BY <1>4, <1>5, <1>9, <1>11, <1>12

\* The next period starts where one stops.
LEMMA StepNests ==
  ASSUME NEW f, IsFreq(f), NEW o \in Int, period = [freq |-> f, ordinal |-> o], f.kind # "B",
         NEW to, to = [period EXCEPT !.ordinal = period.ordinal + 1 * period.freq.n]
  PROVE  Starts(to) = Stops(period)
<1>1. f.n \in Nat \ {0}
  BY DEF IsFreq
<1> DEFINE j == o + f.n - 1
<1>2. j \in Int /\ j + 1 = o + 1 * f.n
  BY <1>1
<1>3. to.freq = f /\ to.ordinal = j + 1
  BY <1>2
<1>4. Starts(to) = From(f, j + 1)
  BY <1>3 DEF Starts, From
<1>5. Stops(period) = Upto(f, j)
  BY DEF Stops, Upto
<1> HIDE DEF j
<1>6. Upto(f, j) = From(f, j + 1)
  BY <1>2, SpansFollow
<1>7. QED
  BY <1>4, <1>5, <1>6

-----------------------------------------------------------------------------
(* The theorem. *)

PeriodsInv ==
  /\ \/ part = "periods" /\ IsPeriod(period)
     \/ part # "periods" /\ PeriodsRest
  /\ GatheredNest /\ SpreadNest /\ SteppedNest

\* The invariant holds at first.
LEMMA PeriodsStart == Init => PeriodsInv
<1>1. SUFFICES ASSUME Init PROVE PeriodsInv
  OBVIOUS
<1>2. moved.how = "unmoved"
  <2>1. PeriodsRest \/ PeriodInit
    BY <1>1 DEF Init
  <2>2. moved = [how |-> "unmoved"]
    BY <2>1 DEF PeriodsRest, PeriodInit, NotMoved
  <2>3. QED
    BY <2>2
<1>3. GatheredNest /\ SpreadNest /\ SteppedNest
  BY <1>2 DEF GatheredNest, SpreadNest, SteppedNest
<1>4. CASE part # "periods"
  BY <1>1, <1>3, <1>4 DEF Init, PeriodsInv
<1>5. CASE part = "periods"
  <2>1. PICK f \in Frequencies, m \in Moments : period = [freq |-> f, ordinal |-> Ordinal(f, m, FALSE)]
    BY <1>1, <1>5 DEF Init, PeriodInit
  <2>2. IsFreq(f) /\ m \in Int /\ DateOf(m) \in NewYear(FirstYear + 1) .. NewYear(LastYear - f.n) - 1
    BY FrequenciesAssumption, MomentsAssumption
  <2>3. Ordinal(f, m, FALSE) \in Int /\ InYears(f, Ordinal(f, m, FALSE))
    BY <2>2, OrdinalsInYears
  <2>4. IsPeriod(period)
    BY <2>1, <2>2, <2>3 DEF IsPeriod
  <2>5. QED
    BY <1>3, <1>5, <2>4 DEF PeriodsInv
<1>6. QED
  BY <1>4, <1>5

\* Each move keeps what PeriodsNest says of it.
LEMMA PeriodMoves ==
  ASSUME NEW f, IsFreq(f), NEW o \in Int, InYears(f, o), period = [freq |-> f, ordinal |-> o],
         PeriodNext
  PROVE  GatheredNest' /\ SpreadNest' /\ SteppedNest'
<1>1. period' = period /\ period.freq = f /\ f.n \in Nat \ {0}
  BY DEF PeriodNext, IsFreq
<1>2. /\ Starts(period)' = Starts(period) /\ Stops(period)' = Stops(period)
  BY <1>1
<1>3. CASE Convert
  <2>1. moved'.how \in {"start", "end"}
    <3>1. PICK freq \in Targets, end \in BOOLEAN :
            moved' = [how |-> IF end THEN "end" ELSE "start", to |-> AsFreq(period, freq, end)]
      BY <1>3 DEF Convert
    <3>2. moved'.how = IF end THEN "end" ELSE "start"
      BY <3>1
    <3>3. QED
      BY <3>2
  <2>2. QED
    BY <2>1 DEF GatheredNest, SpreadNest, SteppedNest
<1>4. CASE Gather
  <2>1. PICK g \in Targets, end \in BOOLEAN, earlier \in 0 .. 2 :
          /\ SubPeriod(f, g)
          /\ moved' = [how |-> "gathered",
                       to |-> BinLabel(AsFreq(period, g, end), AsFreq(period, g, end).ordinal - earlier)]
    BY <1>1, <1>4 DEF Gather
  <2> DEFINE to == AsFreq(period, g, end)
             bin == BinLabel(to, to.ordinal - earlier)
  <2>2. moved'.how = "gathered" /\ moved'.to = bin
    BY <2>1
  <2>3. bin.freq = g
    BY DEF AsFreq, BinLabel
  <2> HIDE DEF bin, to
  <2>4. ASSUME ~NoSingleBin(moved.to)'
        PROVE  Starts(bin) <= Starts(period) /\ Stops(period) <= Stops(bin)
    <3>1. ~(f.n > 1)
      BY <1>1, <2>2, <2>4 DEF NoSingleBin
    <3>2. f.n = 1
      BY <1>1, <3>1
    <3>3. g.kind = "B" => ~Weekend(Starts(period)) /\ ~Weekend(Stops(period) - 1)
      BY <1>1, <2>2, <2>3, <2>4 DEF NoSingleBin
    <3>4. QED
      BY <2>1, <3>2, <3>3, GatherNests DEF bin, to
  <2>5. Starts(moved.to)' = Starts(bin) /\ Stops(moved.to)' = Stops(bin)
    BY <2>2
  <2>6. GatheredNest'
    BY <1>1, <2>4, <2>5 DEF GatheredNest
  <2>7. QED
    BY <2>2, <2>6 DEF SpreadNest, SteppedNest
<1>5. CASE Spread
  <2>1. PICK g \in Targets, end \in BOOLEAN :
          /\ SameName(f, g) \/ SuperPeriod(f, g)
          /\ moved' = [how |-> "spread", to |-> AsFreq(period, g, end), last |-> AsFreq(period, g, TRUE)]
    BY <1>1, <1>5 DEF Spread
  <2> DEFINE to == AsFreq(period, g, end)
             last == AsFreq(period, g, TRUE)
  <2>2. moved'.how = "spread" /\ moved'.to = to /\ moved'.last = last
    BY <2>1
  <2>3. to.freq = g
    BY DEF AsFreq
  <2>4. IsFreq(g) /\ g.n \in Nat \ {0}
    BY FrequenciesAssumption DEF IsFreq
  <2> HIDE DEF to, last
  <2>5. ASSUME ~NoSingleBin(moved.to)'
        PROVE  /\ Starts(period) <= Starts(to) /\ Stops(last) <= Stops(period)
               /\ to.ordinal <= last.ordinal
    <3>1. ~(g.n > 1)
      BY <2>2, <2>3, <2>5 DEF NoSingleBin
    <3>2. g.n = 1
      BY <2>4, <3>1
    <3>3. g.kind = "B" => ~Weekend(Starts(period)) /\ ~Weekend(Stops(period) - 1)
      BY <1>1, <2>2, <2>3, <2>5 DEF NoSingleBin
    <3>4. QED
      BY <2>1, <3>2, <3>3, SpreadNests DEF to, last
  <2>6. Starts(moved.to)' = Starts(to) /\ Stops(moved.last)' = Stops(last)
    BY <2>2
  <2>7. SpreadNest'
    BY <1>1, <2>2, <2>5, <2>6 DEF SpreadNest
  <2>8. QED
    BY <2>2, <2>7 DEF GatheredNest, SteppedNest
<1>6. CASE StepPeriod
  <2>1. PICK count \in {-2, -1, 1, 3} :
          moved' = [how |-> "stepped", count |-> count,
                    to |-> [period EXCEPT !.ordinal = period.ordinal + count * period.freq.n]]
    BY <1>6 DEF StepPeriod
  <2>2. moved'.how = "stepped" /\ moved'.count = count
    BY <2>1
  <2>3. ASSUME count = 1, f.kind # "B"
        PROVE  Starts(moved.to)' = Stops(period)
    <3> DEFINE to == [period EXCEPT !.ordinal = period.ordinal + 1 * period.freq.n]
    <3>1. moved'.to = to
      BY <2>1, <2>3
    <3>2. Starts(to) = Stops(period)
      BY <2>3, StepNests
    <3>3. QED
      BY <3>1, <3>2
  <2>4. SteppedNest'
    BY <1>1, <2>2, <2>3 DEF SteppedNest
  <2>5. QED
    BY <2>2, <2>4 DEF GatheredNest, SpreadNest
<1>7. QED
  BY <1>3, <1>4, <1>5, <1>6 DEF PeriodNext

\* And every step keeps it.
LEMMA PeriodsStep == PeriodsInv /\ [Next]_vars => PeriodsInv'
<1>1. SUFFICES ASSUME PeriodsInv, [Next]_vars PROVE PeriodsInv'
  OBVIOUS
<1>2. CASE UNCHANGED <<part, periodVars>>
  <2>1. part' = part /\ period' = period /\ moved' = moved
    BY <1>2 DEF periodVars
  <2>2. PeriodsRest' = PeriodsRest /\ IsPeriod(period)' = IsPeriod(period)
    BY <2>1 DEF PeriodsRest, IsPeriod
  <2>3. GatheredNest' /\ SpreadNest' /\ SteppedNest'
    BY <1>1, <2>1 DEF PeriodsInv, GatheredNest, SpreadNest, SteppedNest, NoSingleBin
  <2>4. QED
    BY <1>1, <2>1, <2>2, <2>3 DEF PeriodsInv
<1>3. CASE part = "periods" /\ part' = part /\ PeriodNext
  <2>1. IsPeriod(period) /\ period' = period
    BY <1>1, <1>3 DEF PeriodsInv, PeriodNext
  <2>2. PICK f, o : IsFreq(f) /\ o \in Int /\ InYears(f, o) /\ period = [freq |-> f, ordinal |-> o]
    BY <2>1 DEF IsPeriod
  <2>3. GatheredNest' /\ SpreadNest' /\ SteppedNest'
    BY <1>3, <2>2, PeriodMoves
  <2>4. IsPeriod(period)'
    BY <2>1
  <2>5. QED
    BY <1>3, <2>3, <2>4 DEF PeriodsInv
<1>4. QED
  BY <1>1, <1>2, <1>3 DEF Next, vars

\* Periods nest in every reachable state, whatever the frequencies and the
\* moments: what a period spans is what reads back as it, a gathered row lies in
\* its bin, a spread one inside itself, and a step lands where the last ended
\* (_ordinal, _bounds and Period.asfreq of _period.py, and _period_resample.py).
THEOREM PeriodsAlwaysNest == Spec => []PeriodsNest
<1>1. PeriodsInv => PeriodsNest
  <2>1. SUFFICES ASSUME PeriodsInv PROVE PeriodsNest
    OBVIOUS
  <2>2. BoundsReadBack
    BY <2>1, PeriodsReadBack, RestReadsBack DEF PeriodsInv
  <2>3. QED
    BY <2>1, <2>2 DEF PeriodsInv, PeriodsNest, GatheredNest, SpreadNest, SteppedNest
<1>2. QED
  BY <1>1, PeriodsStart, PeriodsStep, PTL DEF Spec

===============================================================================
