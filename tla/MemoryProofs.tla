---------------------------- MODULE MemoryProofs ----------------------------
(***************************************************************************)
(* Type correctness of Memory and all of its safety properties, for every  *)
(* content of recall, every answer of the extractor, every floor, bound    *)
(* and starting day: the closed form of days_to_ymd is the calendar, day   *)
(* after day without end; write-back stores what was found, each fact at   *)
(* most once; a recap is of the past; and what the user is told of a save  *)
(* is true.                                                                *)
(***************************************************************************)
EXTENDS Memory, SequenceTheorems, FiniteSetTheorems, TLAPS

(* The first day of a month, counted from the first of March. *)
Starts(mp) == (153 * mp + 2) \div 5

(* A day of the year is in the month whose first day it has reached. *)
LEMMA MonthIs ==
  ASSUME NEW doy \in Nat, NEW mp \in Nat
  PROVE  (5 * doy + 2) \div 153 = mp <=> Starts(mp) <= doy /\ doy < Starts(mp + 1)
<1>1. (5 * doy + 2) \div 153 = mp
        <=> 153 * mp <= 5 * doy + 2 /\ 5 * doy + 2 < 153 * mp + 153
  OBVIOUS
<1>2. Starts(mp) <= doy <=> 153 * mp <= 5 * doy + 2
  BY DEF Starts
<1>3. doy < Starts(mp + 1) <=> 5 * doy + 2 < 153 * mp + 153
  BY DEF Starts
<1> QED BY <1>1, <1>2, <1>3

(* The first days of the months, written out. *)
LEMMA StartsAre ==
  /\ Starts(0) = 0 /\ Starts(1) = 31 /\ Starts(2) = 61 /\ Starts(3) = 92
  /\ Starts(4) = 122 /\ Starts(5) = 153 /\ Starts(6) = 184 /\ Starts(7) = 214
  /\ Starts(8) = 245 /\ Starts(9) = 275 /\ Starts(10) = 306 /\ Starts(11) = 337
  /\ Starts(12) = 367
BY DEF Starts

(* The date of the day doy of the year that begins in March of year. *)
Civil(year, doy) ==
  LET mp == (5 * doy + 2) \div 153
      month == IF mp < 10 THEN mp + 3 ELSE mp - 9
  IN  [year |-> IF month <= 2 THEN year + 1 ELSE year,
       month |-> month,
       day |-> doy - Starts(mp) + 1]

(* The date of a day of which the month is known. *)
LEMMA CivilIs ==
  ASSUME NEW year \in Nat, NEW doy \in Nat, NEW mp \in Nat,
         Starts(mp) <= doy, doy < Starts(mp + 1)
  PROVE  /\ mp < 10 => Civil(year, doy) =
              [year |-> year, month |-> mp + 3, day |-> doy - Starts(mp) + 1]
         /\ mp >= 10 /\ mp < 12 => Civil(year, doy) =
              [year |-> year + 1, month |-> mp - 9, day |-> doy - Starts(mp) + 1]
<1>1. (5 * doy + 2) \div 153 = mp
  BY MonthIs
<1>2. CASE mp < 10
  <2>1. ~(mp + 3 <= 2)
    OBVIOUS
  <2> QED BY <1>1, <1>2, <2>1 DEF Civil
<1>3. CASE mp >= 10 /\ mp < 12
  <2>1. ~(mp < 10) /\ mp - 9 <= 2
    BY <1>3
  <2> QED BY <1>1, <1>3, <2>1 DEF Civil
<1> QED BY <1>2, <1>3

(* A month ends where the next one starts, but for February. *)
LEMMA LengthIs ==
  ASSUME NEW year \in Nat
  PROVE  /\ \A mp \in 0 .. 9 : LengthOf(year, mp + 3) = Starts(mp + 1) - Starts(mp)
         /\ LengthOf(year, 1) = 31
         /\ LengthOf(year, 2) = (IF Leap(year) THEN 29 ELSE 28)
<1>1. \A mp \in 0 .. 9 : LengthOf(year, mp + 3) = Starts(mp + 1) - Starts(mp)
  <2> TAKE mp \in 0 .. 9
  <2>1. \/ mp = 0 \/ mp = 1 \/ mp = 2 \/ mp = 3 \/ mp = 4
        \/ mp = 5 \/ mp = 6 \/ mp = 7 \/ mp = 8 \/ mp = 9
    OBVIOUS
  <2> QED BY <2>1, StartsAre DEF LengthOf
<1> QED BY <1>1 DEF LengthOf

(* Every day of a year is in one of its months. *)
LEMMA MonthExists ==
  ASSUME NEW doy \in 0 .. 365
  PROVE  \E mp \in 0 .. 11 : Starts(mp) <= doy /\ doy < Starts(mp + 1)
<1> DEFINE mp == (5 * doy + 2) \div 153
<1>1. mp \in 0 .. 11
  OBVIOUS
<1> QED BY <1>1, MonthIs

(* The first of March, and the months that belong to the next year. *)
LEMMA MarchIs ==
  ASSUME NEW year \in Nat
  PROVE  Civil(year, 0) = [year |-> year, month |-> 3, day |-> 1]
<1>1. (5 * 0 + 2) \div 153 = 0 /\ 0 - Starts(0) + 1 = 1
  BY StartsAre
<1> QED BY <1>1 DEF Civil

(* January. *)
LEMMA JanuaryIs ==
  ASSUME NEW year \in Nat, NEW doy \in 306 .. 336
  PROVE  Civil(year, doy) = [year |-> year + 1, month |-> 1, day |-> doy - 305]
<1>1. (5 * doy + 2) \div 153 = 10 /\ doy - Starts(10) + 1 = doy - 305
  BY StartsAre
<1> QED BY <1>1 DEF Civil

(* February. *)
LEMMA FebruaryIs ==
  ASSUME NEW year \in Nat, NEW doy \in 337 .. 365
  PROVE  Civil(year, doy) = [year |-> year + 1, month |-> 2, day |-> doy - 336]
<1>1. (5 * doy + 2) \div 153 = 11 /\ doy - Starts(11) + 1 = doy - 336
  BY StartsAre
<1> QED BY <1>1 DEF Civil

(* DayAfter of a date given by its parts, without EXCEPT. *)
LEMMA DayAfterIs ==
  ASSUME NEW year, NEW month \in 1 .. 12, NEW day \in Nat
  PROVE  DayAfter([year |-> year, month |-> month, day |-> day]) =
           IF day < LengthOf(year, month)
           THEN [year |-> year, month |-> month, day |-> day + 1]
           ELSE IF month < 12 THEN [year |-> year, month |-> month + 1, day |-> 1]
           ELSE [year |-> year + 1, month |-> 1, day |-> 1]
<1> DEFINE d == [year |-> year, month |-> month, day |-> day]
<1>1. d.year = year /\ d.month = month /\ d.day = day
  OBVIOUS
<1>2. /\ [d EXCEPT !.day = @ + 1] = [year |-> year, month |-> month, day |-> day + 1]
      /\ [d EXCEPT !.month = @ + 1, !.day = 1]
           = [year |-> year, month |-> month + 1, day |-> 1]
  <2>1. [d EXCEPT !.day = @ + 1] = [year |-> year, month |-> month, day |-> day + 1]
    OBVIOUS
  <2>2. [d EXCEPT !.month = @ + 1] = [year |-> year, month |-> month + 1, day |-> day]
    OBVIOUS
  <2>3. [d EXCEPT !.month = @ + 1, !.day = 1]
          = [[d EXCEPT !.month = @ + 1] EXCEPT !.day = 1]
    OBVIOUS
  <2>4. [[year |-> year, month |-> month + 1, day |-> day] EXCEPT !.day = 1]
          = [year |-> year, month |-> month + 1, day |-> 1]
    OBVIOUS
  <2> HIDE DEF d
  <2> QED BY <2>1, <2>2, <2>3, <2>4, Zenon
<1>3. DayAfter(d) =
        IF d.day < LengthOf(d.year, d.month) THEN [d EXCEPT !.day = @ + 1]
        ELSE IF d.month < 12 THEN [d EXCEPT !.month = @ + 1, !.day = 1]
        ELSE [year |-> d.year + 1, month |-> 1, day |-> 1]
  BY DEF DayAfter
<1> HIDE DEF d
<1>4. DayAfter(d) =
           IF day < LengthOf(year, month)
           THEN [year |-> year, month |-> month, day |-> day + 1]
           ELSE IF month < 12 THEN [year |-> year, month |-> month + 1, day |-> 1]
           ELSE [year |-> year + 1, month |-> 1, day |-> 1]
  BY <1>1, <1>2, <1>3, Zenon
<1> QED BY <1>4 DEF d

(* Within a year that begins in March, the next day has the next date. *)
LEMMA CivilNext ==
  ASSUME NEW year \in Nat, NEW doy \in 0 .. 365, doy = 365 => Leap(year + 1)
  PROVE  /\ doy < 364 \/ (doy = 364 /\ Leap(year + 1)) =>
              Civil(year, doy + 1) = DayAfter(Civil(year, doy))
         /\ doy = 365 \/ (doy = 364 /\ ~Leap(year + 1)) =>
              Civil(year + 1, 0) = DayAfter(Civil(year, doy))
<1>1. PICK mp \in 0 .. 11 : Starts(mp) <= doy /\ doy < Starts(mp + 1)
  BY MonthExists
<1>s. Starts(mp) \in Nat /\ Starts(mp + 1) \in Nat
  BY DEF Starts
<1>2. CASE mp = 11
  <2> DEFINE feb == LengthOf(year + 1, 2)
  <2>1. doy \in 337 .. 365
    BY <1>1, <1>2, StartsAre
  <2>2. Civil(year, doy) = [year |-> year + 1, month |-> 2, day |-> doy - 336]
    BY <2>1, FebruaryIs, Zenon
  <2>3. feb = (IF Leap(year + 1) THEN 29 ELSE 28)
    BY LengthIs
  <2> HIDE DEF feb
  <2>4. DayAfter(Civil(year, doy)) =
          IF doy - 336 < feb
          THEN [year |-> year + 1, month |-> 2, day |-> (doy - 336) + 1]
          ELSE [year |-> year + 1, month |-> 3, day |-> 1]
    <3>1. doy - 336 \in Nat /\ 2 \in 1 .. 12 /\ 2 < 12 /\ 2 + 1 = 3
      BY <2>1
    <3>2. DayAfter([year |-> year + 1, month |-> 2, day |-> doy - 336]) =
            IF doy - 336 < LengthOf(year + 1, 2)
            THEN [year |-> year + 1, month |-> 2, day |-> (doy - 336) + 1]
            ELSE IF 2 < 12 THEN [year |-> year + 1, month |-> 2 + 1, day |-> 1]
            ELSE [year |-> (year + 1) + 1, month |-> 1, day |-> 1]
      BY <3>1, DayAfterIs, Zenon
    <3> QED BY <2>2, <3>1, <3>2, Zenon DEF feb
  <2>5. CASE doy < 364 \/ (doy = 364 /\ Leap(year + 1))
    <3>1. Civil(year, doy + 1) = [year |-> year + 1, month |-> 2, day |-> (doy + 1) - 336]
      <4>1. doy + 1 \in 337 .. 365
        BY <2>1, <2>5
      <4> QED BY <4>1, FebruaryIs, Zenon
    <3>2. (doy + 1) - 336 = (doy - 336) + 1 /\ doy - 336 < feb
      BY <2>1, <2>3, <2>5
    <3>3. ~(doy = 365 \/ (doy = 364 /\ ~Leap(year + 1)))
      BY <2>5
    <3> QED BY <2>4, <3>1, <3>2, <3>3
  <2>6. CASE doy = 365 \/ (doy = 364 /\ ~Leap(year + 1))
    <3>1. Civil(year + 1, 0) = [year |-> year + 1, month |-> 3, day |-> 1]
      <4>1. year + 1 \in Nat
        OBVIOUS
      <4> QED BY <4>1, MarchIs, Zenon
    <3>2. ~(doy - 336 < feb)
      BY <2>3, <2>6
    <3>3. ~(doy < 364 \/ (doy = 364 /\ Leap(year + 1)))
      BY <2>6
    <3> QED BY <2>4, <3>1, <3>2, <3>3
  <2> QED BY <2>1, <2>5, <2>6
<1>3. CASE mp = 10
  <2>1. doy \in 306 .. 336
    BY <1>1, <1>3, StartsAre
  <2>2. Civil(year, doy) = [year |-> year + 1, month |-> 1, day |-> doy - 305]
    BY <2>1, JanuaryIs, Zenon
  <2>3. DayAfter(Civil(year, doy)) =
          IF doy - 305 < 31
          THEN [year |-> year + 1, month |-> 1, day |-> (doy - 305) + 1]
          ELSE [year |-> year + 1, month |-> 2, day |-> 1]
    <3>1. /\ doy - 305 \in Nat /\ 1 \in 1 .. 12 /\ 1 < 12 /\ 1 + 1 = 2
          /\ LengthOf(year + 1, 1) = 31
      BY <2>1, LengthIs
    <3>2. DayAfter([year |-> year + 1, month |-> 1, day |-> doy - 305]) =
            IF doy - 305 < LengthOf(year + 1, 1)
            THEN [year |-> year + 1, month |-> 1, day |-> (doy - 305) + 1]
            ELSE IF 1 < 12 THEN [year |-> year + 1, month |-> 1 + 1, day |-> 1]
            ELSE [year |-> (year + 1) + 1, month |-> 1, day |-> 1]
      BY <3>1, DayAfterIs, Zenon
    <3> QED BY <2>2, <3>1, <3>2, Zenon
  <2>4. CASE doy < 336
    <3>1. Civil(year, doy + 1) = [year |-> year + 1, month |-> 1, day |-> (doy + 1) - 305]
      <4>1. doy + 1 \in 306 .. 336
        BY <2>1, <2>4
      <4> QED BY <4>1, JanuaryIs, Zenon
    <3>2. (doy + 1) - 305 = (doy - 305) + 1 /\ doy - 305 < 31
      BY <2>1, <2>4
    <3> QED BY <2>1, <2>3, <3>1, <3>2
  <2>5. CASE doy = 336
    <3>1. Civil(year, 336 + 1) = [year |-> year + 1, month |-> 2, day |-> (336 + 1) - 336]
      <4>1. 336 + 1 \in 337 .. 365
        OBVIOUS
      <4> QED BY <4>1, FebruaryIs, Zenon
    <3>2. (336 + 1) - 336 = 1 /\ ~(336 - 305 < 31)
      OBVIOUS
    <3> QED BY <2>3, <2>5, <3>1, <3>2
  <2> QED BY <2>1, <2>4, <2>5
<1>4. CASE mp \in 0 .. 9
  <2>1. Civil(year, doy) = [year |-> year, month |-> mp + 3, day |-> doy - Starts(mp) + 1]
    BY <1>1, <1>4, CivilIs
  <2>2. LengthOf(year, mp + 3) = Starts(mp + 1) - Starts(mp)
    BY <1>4, LengthIs
  <2>m. mp + 3 \in 1 .. 12 /\ doy - Starts(mp) + 1 \in Nat
    BY <1>s, <1>1, <1>4
  <2>3. doy < 306
    <3>1. \/ mp = 0 \/ mp = 1 \/ mp = 2 \/ mp = 3 \/ mp = 4
          \/ mp = 5 \/ mp = 6 \/ mp = 7 \/ mp = 8 \/ mp = 9
      BY <1>4
    <3> QED BY <1>1, <3>1, StartsAre
  <2>4. CASE doy + 1 < Starts(mp + 1)
    <3>1. Civil(year, doy + 1) =
            [year |-> year, month |-> mp + 3, day |-> (doy + 1) - Starts(mp) + 1]
      BY <1>1, <1>s, <1>4, <2>4, CivilIs
    <3>2. (doy + 1) - Starts(mp) + 1 = (doy - Starts(mp) + 1) + 1
      BY <1>s
    <3>3. doy - Starts(mp) + 1 < LengthOf(year, mp + 3)
      BY <1>s, <2>2, <2>4
    <3>4. DayAfter(Civil(year, doy)) =
            [year |-> year, month |-> mp + 3, day |-> (doy - Starts(mp) + 1) + 1]
      BY <2>1, <2>m, <3>3, DayAfterIs
    <3> QED BY <2>3, <3>1, <3>2, <3>4
  <2>5. CASE doy + 1 = Starts(mp + 1)
    <3>1. ~(doy - Starts(mp) + 1 < LengthOf(year, mp + 3))
      BY <1>s, <2>2, <2>5
    <3>2. Starts(mp + 1) < Starts((mp + 1) + 1)
      BY DEF Starts
    <3>3. CASE mp < 9
      <4>1. Civil(year, doy + 1) =
              [year |-> year, month |-> (mp + 1) + 3,
               day |-> (doy + 1) - Starts(mp + 1) + 1]
        BY <1>s, <2>5, <3>2, <3>3, CivilIs
      <4>2. (doy + 1) - Starts(mp + 1) + 1 = 1 /\ (mp + 1) + 3 = (mp + 3) + 1 /\ mp + 3 < 12
        BY <1>s, <2>5, <3>3
      <4>3. DayAfter(Civil(year, doy)) =
              [year |-> year, month |-> (mp + 3) + 1, day |-> 1]
        BY <2>1, <2>m, <3>1, <4>2, DayAfterIs
      <4> QED BY <2>3, <4>1, <4>2, <4>3
    <3>4. CASE mp = 9
      <4>1. doy = 305
        BY <2>5, <3>4, StartsAre
      <4>2. Civil(year, 305 + 1) = [year |-> year + 1, month |-> 1, day |-> (305 + 1) - 305]
        <5>1. 305 + 1 \in 306 .. 336
          OBVIOUS
        <5> QED BY <5>1, JanuaryIs, Zenon
      <4>3. (305 + 1) - 305 = 1 /\ ~(9 + 3 < 12)
        OBVIOUS
      <4>4. DayAfter(Civil(year, doy)) = [year |-> year + 1, month |-> 1, day |-> 1]
        <5> DEFINE day == doy - Starts(mp) + 1
                   month == mp + 3
        <5>1. month \in 1 .. 12 /\ day \in Nat /\ ~(day < LengthOf(year, month))
          BY <2>m, <3>1
        <5>2. ~(month < 12)
          BY <3>4
        <5>3. Civil(year, doy) = [year |-> year, month |-> month, day |-> day]
          BY <2>1
        <5> HIDE DEF day, month
        <5>4. DayAfter([year |-> year, month |-> month, day |-> day])
                = [year |-> year + 1, month |-> 1, day |-> 1]
          BY <5>1, <5>2, DayAfterIs
        <5> QED BY <5>3, <5>4
      <4> QED BY <2>3, <4>1, <4>2, <4>3, <4>4
    <3> QED BY <1>4, <3>3, <3>4
  <2> QED BY <1>1, <1>s, <2>4, <2>5
<1> QED BY <1>2, <1>3, <1>4

-----------------------------------------------------------------------------
(***************************************************************************)
(* A day of the eras of 400 years that begin on the first of March: the    *)
(* century, the leap cycle in it, the year in that, and the day in that.   *)
(***************************************************************************)
Parts == [era : Nat, century : 0 .. 3, cycle : 0 .. 24, year : 0 .. 3, day : 0 .. 365]

(* The February at the end of the year has a leap day. *)
EndsLeap(p) == p.year = 3 /\ (p.cycle # 24 \/ p.century = 3)

(* The day of the era, the year of it, and the day since 1970 that has parts p. *)
OfEra(p) == 36524 * p.century + 1461 * p.cycle + 365 * p.year + p.day

YearIn(p) == 100 * p.century + 4 * p.cycle + p.year

IsDay(n, p) ==
  /\ p \in Parts
  /\ p.day = 365 => EndsLeap(p)
  /\ n + 719468 = 146097 * p.era + OfEra(p)

(* A quotient and a remainder that fit are the quotient and the remainder. *)
LEMMA DivMod ==
  ASSUME NEW x \in Int, NEW k \in Nat \ {0}, NEW q \in Int, NEW o \in Int,
         0 <= o, o < k, x = k * q + o
  PROVE  x % k = o /\ x \div k = q
BY SMT

(* The parts of a day give a day of the era. *)
LEMMA OfEraIn ==
  ASSUME NEW p \in Parts, p.day = 365 => EndsLeap(p)
  PROVE  OfEra(p) \in Nat /\ OfEra(p) < 146097
<1> DEFINE a == p.century
           b == p.cycle
           r == p.year
           k == p.day
<1>1. /\ a \in 0 .. 3 /\ b \in 0 .. 24 /\ r \in 0 .. 3 /\ k \in 0 .. 365
      /\ k = 365 => r = 3 /\ (b # 24 \/ a = 3)
      /\ OfEra(p) = 36524 * a + 1461 * b + 365 * r + k
  BY SMT DEF Parts, EndsLeap, OfEra
<1> HIDE DEF a, b, r, k
<1>2. 36524 * a + 1461 * b + 365 * r + k \in Nat
  BY <1>1, SMT
<1>3. 36524 * a + 1461 * b + 365 * r + k < 146097
  BY <1>1, SMT
<1> QED BY <1>1, <1>2, <1>3, SMT

(* The corrections of the closed form: one day for every cycle, all but    *)
(* the last of a century, and the last of the era.                         *)
LEMMA YearOfEraIs ==
  ASSUME NEW p \in Parts, p.day = 365 => EndsLeap(p)
  PROVE  YearOfEra(OfEra(p)) = YearIn(p)
<1> DEFINE a == p.century
           b == p.cycle
           r == p.year
           k == p.day
           d == 36524 * a + 1461 * b + 365 * r + k
<1>1. /\ a \in 0 .. 3 /\ b \in 0 .. 24 /\ r \in 0 .. 3 /\ k \in 0 .. 365
      /\ k = 365 => r = 3 /\ (b # 24 \/ a = 3)
      /\ OfEra(p) = d /\ YearIn(p) = 100 * a + 4 * b + r
  BY SMT DEF Parts, EndsLeap, OfEra, YearIn
<1> HIDE DEF a, b, r, k
<1>2. d \div 36524 - d \div 146096 = a
  <2>1. CASE d = 146096
    <3>1. a = 3 /\ d \div 36524 = 4 /\ d \div 146096 = 1
      BY <1>1, <2>1, SMT
    <3> QED BY <3>1, SMT
  <2>2. CASE d < 146096
    <3>1. d \div 146096 = 0
      BY <1>1, <2>2, SMT
    <3>2. 36524 * a <= d /\ d < 36524 * a + 36524
      BY <1>1, <2>2, SMT
    <3>3. d \div 36524 = a
      BY <1>1, <3>2, SMT
    <3> QED BY <1>1, <3>1, <3>3, SMT
  <2>3. d <= 146096
    BY <1>1, SMT
  <2> QED BY <1>1, <2>1, <2>2, <2>3, SMT
<1>3. \/ d \div 1460 = 25 * a + b /\ k <= 364
      \/ d \div 1460 = 25 * a + b + 1 /\ k >= 1
  <2> DEFINE w == 24 * a + b + 365 * r + k
  <2>1. d = 1460 * (25 * a + b) + w /\ w \in 0 .. 1600
    BY <1>1, SMT
  <2>2. CASE w < 1460
    <3>1. k <= 364
      BY <1>1, <2>2, SMT
    <3>2. d \div 1460 = 25 * a + b
      BY <1>1, <2>1, <2>2, SMT
    <3> QED BY <3>1, <3>2, SMT
  <2>3. CASE w >= 1460
    <3>1. k >= 1
      BY <1>1, <2>3, SMT
    <3>2. d \div 1460 = 25 * a + b + 1
      BY <1>1, <2>1, <2>3, SMT
    <3> QED BY <3>1, <3>2, SMT
  <2> QED BY <2>1, <2>2, <2>3, SMT
<1>4. \E e \in {0, 1} : /\ d - d \div 1460 + d \div 36524 - d \div 146096
                             = 365 * (100 * a + 4 * b + r) + (k - e)
                         /\ k - e \in 0 .. 364
  BY <1>1, <1>2, <1>3, SMT
<1>5. (d - d \div 1460 + d \div 36524 - d \div 146096) \div 365 = 100 * a + 4 * b + r
  BY <1>1, <1>4, SMT
<1> QED BY <1>1, <1>5, SMT DEF YearOfEra

(* The closed form finds the parts of a day, and with them its date. *)
LEMMA DateOfDay ==
  ASSUME NEW n \in Nat, NEW p, IsDay(n, p)
  PROVE  DaysToYmd(n) = Civil(400 * p.era + YearIn(p), p.day)
<1> DEFINE z == n + 719468
           doe == z % 146097
           yoe == YearOfEra(doe)
           doy == doe - (365 * yoe + yoe \div 4 - yoe \div 100)
           e == p.era
           a == p.century
           b == p.cycle
           r == p.year
           k == p.day
<1>1. p \in Parts /\ (k = 365 => EndsLeap(p)) /\ z = 146097 * e + OfEra(p)
  BY SMT DEF IsDay
<1>2. OfEra(p) \in Nat /\ OfEra(p) < 146097
  BY <1>1, OfEraIn, SMT
<1>3. /\ e \in Nat /\ a \in 0 .. 3 /\ b \in 0 .. 24 /\ r \in 0 .. 3 /\ k \in 0 .. 365
      /\ OfEra(p) = 36524 * a + 1461 * b + 365 * r + k
      /\ YearIn(p) = 100 * a + 4 * b + r
  BY <1>1, SMT DEF Parts, OfEra, YearIn
<1>4. z \in Nat
  BY SMT
<1> HIDE DEF z, e, a, b, r, k
<1>5. doe = OfEra(p) /\ z \div 146097 = e
  BY <1>1, <1>2, <1>3, <1>4, DivMod, SMT
<1>6. YearOfEra(OfEra(p)) = YearIn(p)
  BY <1>1, YearOfEraIs, SMT DEF k
<1>7. yoe = 100 * a + 4 * b + r
  BY <1>3, <1>5, <1>6, SMT
<1> HIDE DEF yoe, doe
<1>8. yoe \div 4 = 25 * a + b /\ yoe \div 100 = a
  BY <1>3, <1>7, SMT
<1>9. doy = k
  BY <1>3, <1>5, <1>7, <1>8, SMT
<1>10. yoe + (z \div 146097) * 400 = 400 * e + YearIn(p)
  BY <1>3, <1>5, <1>7, SMT
<1>11. DaysToYmd(n) = Civil(yoe + (z \div 146097) * 400, doy)
  BY SMT DEF DaysToYmd, Civil, Starts, yoe, doe, z
<1> QED BY <1>9, <1>10, <1>11, SMT DEF e, k

(* Every day has its parts. *)
LEMMA DayHasParts ==
  ASSUME NEW n \in Nat
  PROVE  \E p : IsDay(n, p)
<1>1. PICK z \in Nat : z = n + 719468
  BY SMT
<1>2. PICK e \in Nat, d \in Nat : z = 146097 * e + d /\ d < 146097
  <2>1. z = 146097 * (z \div 146097) + (z % 146097)
    BY SMT
  <2>2. z \div 146097 \in Nat /\ z % 146097 \in Nat
    BY SMT
  <2>3. z % 146097 < 146097
    BY SMT
  <2> QED BY <2>1, <2>2, <2>3, SMT
<1>3. PICK a \in 0 .. 3, t \in Nat :
        d = 36524 * a + t /\ t <= 36524 /\ (t = 36524 => a = 3)
  <2>1. CASE d < 36524
    BY <2>1, SMT
  <2>2. CASE 36524 <= d /\ d < 73048
    <3>1. d = 36524 * 1 + (d - 36524) /\ d - 36524 \in Nat /\ d - 36524 < 36524
      BY <2>2, SMT
    <3> QED BY <3>1, SMT
  <2>3. CASE 73048 <= d /\ d < 109572
    <3>1. d = 36524 * 2 + (d - 73048) /\ d - 73048 \in Nat /\ d - 73048 < 36524
      BY <2>3, SMT
    <3> QED BY <3>1, SMT
  <2>4. CASE 109572 <= d
    <3>1. d = 36524 * 3 + (d - 109572) /\ d - 109572 \in Nat /\ d - 109572 <= 36524
      BY <1>2, <2>4, SMT
    <3> QED BY <3>1, SMT
  <2> QED BY <2>1, <2>2, <2>3, <2>4, SMT
<1>4. PICK b \in 0 .. 24, u \in 0 .. 1460 : t = 1461 * b + u
  <2> DEFINE q == t \div 1461
             o == t % 1461
  <2>1. q \in 0 .. 24 /\ o \in 0 .. 1460
    BY <1>3, SMT
  <2>2. t = 1461 * q + o
    BY SMT
  <2> HIDE DEF q, o
  <2> QED BY <2>1, <2>2, SMT
<1>5. PICK r \in 0 .. 3, k \in 0 .. 365 :
        u = 365 * r + k /\ (k = 365 => u = 1460 /\ r = 3)
  <2>1. CASE u = 1460
    <3>1. u = 365 * 3 + 365
      BY <2>1, SMT
    <3> QED BY <2>1, <3>1, SMT
  <2>2. CASE u # 1460
    <3>1. u \div 365 \in 0 .. 3 /\ u % 365 \in 0 .. 364
      BY <2>2, SMT
    <3>2. u = 365 * (u \div 365) + (u % 365)
      BY SMT
    <3> QED BY <3>1, <3>2, SMT
  <2> QED BY <2>1, <2>2, SMT
<1>6. k = 365 => r = 3 /\ (b # 24 \/ a = 3)
  BY <1>3, <1>4, <1>5, SMT
<1>7. z = 146097 * e + (36524 * a + 1461 * b + 365 * r + k)
  BY <1>2, <1>3, <1>4, <1>5, SMT
<1> DEFINE p == [era |-> e, century |-> a, cycle |-> b, year |-> r, day |-> k]
<1>8. [era |-> e, century |-> a, cycle |-> b, year |-> r, day |-> k] \in Parts
  BY SMT DEF Parts
<1>9. p \in Parts /\ p.era = e /\ p.century = a /\ p.cycle = b /\ p.year = r /\ p.day = k
  BY <1>8, SMT
<1> HIDE DEF p
<1>10. p.day = 365 => EndsLeap(p)
  BY <1>6, <1>9, SMT DEF EndsLeap
<1>11. n + 719468 = 146097 * p.era + OfEra(p)
  BY <1>1, <1>7, <1>9, SMT DEF OfEra
<1> QED BY <1>9, <1>10, <1>11, SMT DEF IsDay

(* The year by its era and its place in the cycles of 100 and 4 years. *)
YearOf(e, a, b, r) == 400 * e + (100 * a + 4 * b + r)

(* The cycles have their leap days where the calendar has them. *)
LEMMA LeapIs ==
  ASSUME NEW e \in Nat, NEW a \in 0 .. 3, NEW b \in 0 .. 24, NEW r \in 0 .. 3
  PROVE  Leap(YearOf(e, a, b, r) + 1) <=> r = 3 /\ (b # 24 \/ a = 3)
<1> DEFINE y == 400 * e + (100 * a + 4 * b + r) + 1
<1>1. y \in Nat /\ y = 400 * e + (100 * a + 4 * b + r) + 1
  BY SMT
<1> HIDE DEF y
<1>2. y % 4 = 0 <=> r = 3
  BY <1>1, SMT
<1>3. y % 100 = 0 <=> r = 3 /\ b = 24
  <2> DEFINE w == 4 * b + r + 1
             c == 4 * e + a
  <2>1. w \in 1 .. 100 /\ c \in Nat /\ y = 100 * c + w
    BY <1>1, SMT
  <2>2. w = 100 <=> r = 3 /\ b = 24
    BY <1>1, SMT
  <2> HIDE DEF w, c
  <2>3. CASE w = 100
    <3>1. y = 100 * (c + 1) + 0
      BY <2>1, <2>3, SMT
    <3>2. y % 100 = 0
      BY <2>1, <3>1, DivMod, SMT
    <3> QED BY <2>2, <2>3, <3>2
  <2>4. CASE w # 100
    <3>1. y % 100 = w
      BY <2>1, <2>4, DivMod, SMT
    <3> QED BY <2>1, <2>2, <2>4, <3>1
  <2> QED BY <2>3, <2>4
<1>4. y % 400 = 0 <=> r = 3 /\ b = 24 /\ a = 3
  <2> DEFINE w == 100 * a + 4 * b + r + 1
  <2>1. w \in 1 .. 400 /\ y = 400 * e + w
    BY <1>1, SMT
  <2>2. w = 400 <=> r = 3 /\ b = 24 /\ a = 3
    BY <1>1, SMT
  <2> HIDE DEF w
  <2>3. CASE w = 400
    <3>1. y = 400 * (e + 1) + 0
      BY <1>1, <2>1, <2>3, SMT
    <3>2. y % 400 = 0
      BY <1>1, <2>1, <3>1, DivMod, SMT
    <3> QED BY <2>2, <2>3, <3>2
  <2>4. CASE w # 400
    <3>1. y % 400 = w
      BY <1>1, <2>1, <2>4, DivMod, SMT
    <3> QED BY <2>1, <2>2, <2>4, <3>1
  <2> QED BY <2>3, <2>4
<1>5. Leap(y) <=> r = 3 /\ (b # 24 \/ a = 3)
  BY <1>2, <1>3, <1>4, SMT DEF Leap
<1> QED BY <1>5, SMT DEF y, YearOf

(* The first day of the year after that of p. *)
NewYear(p) ==
  IF p.year < 3
  THEN [era |-> p.era, century |-> p.century, cycle |-> p.cycle,
        year |-> p.year + 1, day |-> 0]
  ELSE IF p.cycle < 24
  THEN [era |-> p.era, century |-> p.century, cycle |-> p.cycle + 1, year |-> 0, day |-> 0]
  ELSE IF p.century < 3
  THEN [era |-> p.era, century |-> p.century + 1, cycle |-> 0, year |-> 0, day |-> 0]
  ELSE [era |-> p.era + 1, century |-> 0, cycle |-> 0, year |-> 0, day |-> 0]

(* It has parts of a day, and is one day on and in the year that follows. *)
LEMMA NewYearIs ==
  ASSUME NEW n \in Nat, NEW p, IsDay(n, p),
         p.day = 365 \/ (p.day = 364 /\ ~EndsLeap(p))
  PROVE  /\ IsDay(n + 1, NewYear(p)) /\ NewYear(p).day = 0
         /\ 400 * NewYear(p).era + YearIn(NewYear(p)) = 400 * p.era + YearIn(p) + 1
<1> DEFINE e == p.era
           a == p.century
           b == p.cycle
           r == p.year
           k == p.day
<1>1. /\ e \in Nat /\ a \in 0 .. 3 /\ b \in 0 .. 24 /\ r \in 0 .. 3
      /\ k \in 0 .. 365
      /\ n + 719468 = 146097 * e + 36524 * a + 1461 * b
                         + 365 * r + k
      /\ k = 365 => r = 3 /\ (b # 24 \/ a = 3)
      /\ k = 364 => ~(r = 3 /\ (b # 24 \/ a = 3))
      /\ k = 364 \/ k = 365
  BY SMT DEF IsDay, Parts, EndsLeap, OfEra
<1>2. PICK q : q = NewYear(p)
  BY SMT
<1>7. YearIn(p) = 100 * a + 4 * b + r
  BY SMT DEF YearIn
<1>8. /\ r < 3 => q = [era |-> e, century |-> a, cycle |-> b, year |-> r + 1, day |-> 0]
      /\ r = 3 /\ b < 24 =>
           q = [era |-> e, century |-> a, cycle |-> b + 1, year |-> 0, day |-> 0]
      /\ r = 3 /\ b = 24 /\ a < 3 =>
           q = [era |-> e, century |-> a + 1, cycle |-> 0, year |-> 0, day |-> 0]
      /\ r = 3 /\ b = 24 /\ a = 3 =>
           q = [era |-> e + 1, century |-> 0, cycle |-> 0, year |-> 0, day |-> 0]
  BY <1>2, SMT DEF NewYear
<1> HIDE DEF e, a, b, r, k
<1>3. CASE r < 3
  <2>1. /\ q \in Parts /\ q.era = e /\ q.century = a /\ q.cycle = b
        /\ q.year = r + 1 /\ q.day = 0
    BY <1>1, <1>8, <1>3, SMT DEF Parts
  <2>2. n + 1 + 719468 = 146097 * e + (36524 * a + 1461 * b + 365 * (r + 1) + 0)
    BY <1>1, <1>3, SMT
  <2>3. 400 * e + (100 * a + 4 * b + (r + 1)) = 400 * e + (100 * a + 4 * b + r) + 1
    BY <1>1, <1>3, SMT
  <2>4. n + 1 + 719468 = 146097 * q.era + OfEra(q)
    BY <2>1, <2>2, SMT DEF OfEra
  <2>5. 400 * q.era + YearIn(q) = 400 * e + (100 * a + 4 * b + r) + 1
    BY <2>1, <2>3, SMT DEF YearIn
  <2> QED BY <1>2, <1>7, <2>1, <2>4, <2>5, SMT DEF IsDay, e
<1>4. CASE r = 3 /\ b < 24
  <2>1. /\ q \in Parts /\ q.era = e /\ q.century = a /\ q.cycle = b + 1
        /\ q.year = 0 /\ q.day = 0
    BY <1>1, <1>8, <1>4, SMT DEF Parts
  <2>2. n + 1 + 719468 = 146097 * e + (36524 * a + 1461 * (b + 1) + 365 * 0 + 0)
    BY <1>1, <1>4, SMT
  <2>3. 400 * e + (100 * a + 4 * (b + 1) + 0) = 400 * e + (100 * a + 4 * b + r) + 1
    BY <1>1, <1>4, SMT
  <2>4. n + 1 + 719468 = 146097 * q.era + OfEra(q)
    BY <2>1, <2>2, SMT DEF OfEra
  <2>5. 400 * q.era + YearIn(q) = 400 * e + (100 * a + 4 * b + r) + 1
    BY <2>1, <2>3, SMT DEF YearIn
  <2> QED BY <1>2, <1>7, <2>1, <2>4, <2>5, SMT DEF IsDay, e
<1>5. CASE r = 3 /\ b = 24 /\ a < 3
  <2>1. /\ q \in Parts /\ q.era = e /\ q.century = a + 1 /\ q.cycle = 0
        /\ q.year = 0 /\ q.day = 0
    BY <1>1, <1>8, <1>5, SMT DEF Parts
  <2>2. n + 1 + 719468 = 146097 * e + (36524 * (a + 1) + 1461 * 0 + 365 * 0 + 0)
    BY <1>1, <1>5, SMT
  <2>3. 400 * e + (100 * (a + 1) + 4 * 0 + 0) = 400 * e + (100 * a + 4 * b + r) + 1
    BY <1>1, <1>5, SMT
  <2>4. n + 1 + 719468 = 146097 * q.era + OfEra(q)
    BY <2>1, <2>2, SMT DEF OfEra
  <2>5. 400 * q.era + YearIn(q) = 400 * e + (100 * a + 4 * b + r) + 1
    BY <2>1, <2>3, SMT DEF YearIn
  <2> QED BY <1>2, <1>7, <2>1, <2>4, <2>5, SMT DEF IsDay, e
<1>6. CASE r = 3 /\ b = 24 /\ a = 3
  <2>1. /\ q \in Parts /\ q.era = e + 1 /\ q.century = 0 /\ q.cycle = 0
        /\ q.year = 0 /\ q.day = 0
    BY <1>1, <1>8, <1>6, SMT DEF Parts
  <2>2. n + 1 + 719468 = 146097 * (e + 1) + (36524 * 0 + 1461 * 0 + 365 * 0 + 0)
    BY <1>1, <1>6, SMT
  <2>3. 400 * (e + 1) + (100 * 0 + 4 * 0 + 0) = 400 * e + (100 * a + 4 * b + r) + 1
    BY <1>1, <1>6, SMT
  <2>4. n + 1 + 719468 = 146097 * q.era + OfEra(q)
    BY <2>1, <2>2, SMT DEF OfEra
  <2>5. 400 * q.era + YearIn(q) = 400 * e + (100 * a + 4 * b + r) + 1
    BY <2>1, <2>3, SMT DEF YearIn
  <2> QED BY <1>2, <1>7, <2>1, <2>4, <2>5, SMT DEF IsDay, e
<1> QED BY <1>1, <1>3, <1>4, <1>5, <1>6, SMT

(* The day after a day has the parts of its next day, or of a new year. *)
LEMMA NextDayIs ==
  ASSUME NEW n \in Nat, NEW p, IsDay(n, p),
         p.day < 364 \/ (p.day = 364 /\ EndsLeap(p))
  PROVE  \E q : /\ IsDay(n + 1, q) /\ q.day = p.day + 1
                /\ q.era = p.era /\ YearIn(q) = YearIn(p)
<1> DEFINE q == [era |-> p.era, century |-> p.century, cycle |-> p.cycle, year |-> p.year,
                 day |-> p.day + 1]
<1>1. /\ p.era \in Nat /\ p.century \in 0 .. 3 /\ p.cycle \in 0 .. 24 /\ p.year \in 0 .. 3
      /\ p.day \in 0 .. 364
      /\ n + 719468 = 146097 * p.era + OfEra(p)
  BY SMT DEF IsDay, Parts
<1>2. /\ q \in Parts /\ q.era = p.era /\ q.century = p.century /\ q.cycle = p.cycle
      /\ q.year = p.year /\ q.day = p.day + 1
  BY <1>1, SMT DEF Parts
<1> HIDE DEF q
<1>3. YearIn(q) = YearIn(p) /\ (EndsLeap(q) <=> EndsLeap(p))
  BY <1>2, SMT DEF YearIn, EndsLeap
<1>4. n + 1 + 719468 = 146097 * q.era + OfEra(q)
  <2> DEFINE c == 36524 * p.century + 1461 * p.cycle + 365 * p.year
  <2>1. c \in Nat
    BY <1>1, SMT
  <2>2. OfEra(p) = c + p.day /\ OfEra(q) = c + (p.day + 1)
    BY <1>2, SMT DEF OfEra
  <2> DEFINE m == 146097 * p.era
             k == p.day
  <2>3. m \in Nat /\ k \in Nat
    BY <1>1, SMT
  <2>4. n + 719468 = m + (c + k)
    BY <1>1, <2>2, SMT
  <2> HIDE DEF c, m, k
  <2>5. n + 1 + 719468 = m + (c + (k + 1))
    BY <2>1, <2>3, <2>4, SMT
  <2> QED BY <1>2, <2>2, <2>5, SMT DEF m, k
<1>5. q.day = 365 => EndsLeap(q)
  BY <1>1, <1>2, <1>3, SMT
<1> QED BY <1>2, <1>3, <1>4, <1>5, SMT DEF IsDay

(* The closed form goes from day to day as the calendar does. *)
THEOREM DatesFollow ==
  ASSUME NEW n \in Nat
  PROVE  DaysToYmd(n + 1) = DayAfter(DaysToYmd(n))
<1>1. PICK p : IsDay(n, p)
  BY DayHasParts
<1> DEFINE y == 400 * p.era + YearIn(p)
<1>2. /\ p \in Parts /\ p.day \in 0 .. 365 /\ y \in Nat /\ y + 1 \in Nat
      /\ n + 1 \in Nat
  BY <1>1 DEF IsDay, Parts, YearIn
<1>3. (Leap(y + 1) <=> EndsLeap(p)) /\ (p.day = 365 => EndsLeap(p))
  <2>1. /\ p.era \in Nat /\ p.century \in 0 .. 3 /\ p.cycle \in 0 .. 24
        /\ p.year \in 0 .. 3
    BY <1>2 DEF Parts
  <2>2. Leap(y + 1) <=> EndsLeap(p)
    <3>1. Leap(YearOf(p.era, p.century, p.cycle, p.year) + 1)
            <=> p.year = 3 /\ (p.cycle # 24 \/ p.century = 3)
      BY <2>1, LeapIs
    <3>2. y + 1 = YearOf(p.era, p.century, p.cycle, p.year) + 1
      BY SMT DEF YearIn, YearOf
    <3> QED BY <3>1, <3>2, Zenon DEF EndsLeap
  <2> QED BY <1>1, <2>2 DEF IsDay
<1>4. DaysToYmd(n) = Civil(y, p.day)
  BY <1>1, DateOfDay
<1>5. CASE p.day < 364 \/ (p.day = 364 /\ EndsLeap(p))
  <2>1. PICK q : /\ IsDay(n + 1, q) /\ q.day = p.day + 1
                 /\ q.era = p.era /\ YearIn(q) = YearIn(p)
    BY <1>1, <1>5, NextDayIs
  <2>2. DaysToYmd(n + 1) = Civil(y, p.day + 1)
    BY <1>2, <2>1, DateOfDay
  <2> HIDE DEF y
  <2>3. Civil(y, p.day + 1) = DayAfter(Civil(y, p.day))
    BY <1>2, <1>3, <1>5, CivilNext
  <2> QED BY <1>4, <2>2, <2>3
<1>6. CASE p.day = 365 \/ (p.day = 364 /\ ~EndsLeap(p))
  <2>1. PICK q : q = NewYear(p)
    OBVIOUS
  <2>2. IsDay(n + 1, q) /\ q.day = 0 /\ 400 * q.era + YearIn(q) = y + 1
    BY <1>1, <1>6, <2>1, NewYearIs
  <2>3. DaysToYmd(n + 1) = Civil(y + 1, 0)
    BY <1>2, <2>2, DateOfDay
  <2> HIDE DEF y
  <2>4. Civil(y + 1, 0) = DayAfter(Civil(y, p.day))
    BY <1>2, <1>3, <1>6, CivilNext
  <2> QED BY <1>4, <2>3, <2>4
<1> QED BY <1>2, <1>3, <1>5, <1>6

(* What days_to_ymd returns is a month of 1 to 12 and a day of 1 to 31. *)
THEOREM DatesAreDates ==
  ASSUME NEW n \in Nat
  PROVE  DaysToYmd(n) \in Date
<1>1. PICK p : IsDay(n, p)
  BY DayHasParts
<1> DEFINE y == 400 * p.era + YearIn(p)
<1>2. y \in Nat /\ p.day \in 0 .. 365
  BY <1>1 DEF IsDay, Parts, YearIn
<1>3. DaysToYmd(n) = Civil(y, p.day)
  BY <1>1, DateOfDay
<1> HIDE DEF y
<1>4. PICK mp \in 0 .. 11 : Starts(mp) <= p.day /\ p.day < Starts(mp + 1)
  BY <1>2, MonthExists
<1>5. p.day - Starts(mp) + 1 \in 1 .. 31
  <2>1. /\ Starts(mp) \in Nat /\ Starts(mp + 1) \in Nat
        /\ Starts(mp + 1) <= Starts(mp) + 31
    BY DEF Starts
  <2> DEFINE k == p.day
             s == Starts(mp)
             t == Starts(mp + 1)
  <2>2. k \in Nat /\ s \in Nat /\ t \in Nat /\ s <= k /\ k < t /\ t <= s + 31
    BY <1>2, <1>4, <2>1
  <2> HIDE DEF k, s, t
  <2>3. k - s + 1 \in 1 .. 31
    BY <2>2
  <2> QED BY <2>3 DEF k, s
<1>6. CASE mp < 10
  <2>1. Civil(y, p.day) = [year |-> y, month |-> mp + 3, day |-> p.day - Starts(mp) + 1]
    <3>1. p.day \in Nat /\ mp \in Nat
      BY <1>2
    <3> QED BY <1>2, <1>4, <1>6, <3>1, CivilIs
  <2>2. mp + 3 \in 1 .. 12
    BY <1>6
  <2> QED BY <1>2, <1>3, <1>5, <2>1, <2>2 DEF Date
<1>7. CASE mp >= 10
  <2>1. Civil(y, p.day) = [year |-> y + 1, month |-> mp - 9, day |-> p.day - Starts(mp) + 1]
    <3>1. p.day \in Nat /\ mp \in Nat /\ mp < 12
      BY <1>2
    <3> QED BY <1>2, <1>4, <1>7, <3>1, CivilIs
  <2>2. mp - 9 \in 1 .. 12 /\ y + 1 \in Nat
    BY <1>2, <1>7
  <2> QED BY <1>3, <1>5, <2>1, <2>2 DEF Date
<1> QED BY <1>4, <1>6, <1>7

-----------------------------------------------------------------------------
(* A set of naturals that has 0 and what follows its members is all of     *)
(* them: of those it lacks there would be a least, and sets of what is     *)
(* below shrink.                                                           *)
LEMMA Induction ==
  ASSUME NEW S \in SUBSET Nat, 0 \in S, \A n \in S : n + 1 \in S
  PROVE  S = Nat
<1> DEFINE R == StrictSubsetOrdering(Nat)
           Lacks == Nat \ S
           Below == {0..n : n \in Lacks}
<1> SUFFICES ASSUME Lacks # {} PROVE FALSE
  OBVIOUS
<1>1. IsWellFoundedOn(R, FiniteSubsetsOf(Nat))
  BY FS_StrictSubsetOrderingWellFounded
<1>2. Below \subseteq FiniteSubsetsOf(Nat) /\ Below # {}
  <2>1. \A n \in Nat : IsFiniteSet(0..n) /\ 0..n \subseteq Nat
    BY FS_Interval
  <2> QED BY <2>1 DEF FiniteSubsetsOf
<1> HIDE DEF R
<1>3. PICK X \in Below : \A Y \in Below : ~(<<Y, X>> \in R)
  BY <1>1, <1>2, WFMin
<1>4. PICK n \in Lacks : X = 0..n
  BY <1>3
<1>5. n - 1 \in Lacks
  <2>1. n \in Nat /\ n # 0
    BY <1>4
  <2>2. n - 1 \in Nat /\ (n - 1) + 1 = n
    BY <2>1
  <2> QED BY <1>4, <2>2
<1>6. /\ 0..(n - 1) \subseteq 0..n /\ n \in 0..n
      /\ n \notin 0..(n - 1) /\ 0..(n - 1) \in SUBSET Nat
  BY <1>4
<1>7. <<0..(n - 1), 0..n>> \in R
  BY <1>4, <1>6 DEF R, StrictSubsetOrdering
<1> QED BY <1>3, <1>4, <1>5, <1>7

(* What Filtered goes through on its way. *)
Steps(f, s, keep, m) ==
  f = [n \in 0..m |-> IF n = 0 THEN <<>>
                      ELSE IF n \in keep THEN Append(f[n - 1], s[n]) ELSE f[n - 1]]

(* There is such a function: it is built a position at a time. *)
LEMMA StepsExist ==
  ASSUME NEW s, NEW keep, NEW m \in Nat
  PROVE  \E f : Steps(f, s, keep, m)
<1> DEFINE Good == {n \in Nat : \E f : Steps(f, s, keep, n)}
<1>1. 0 \in Good
  <2>1. Steps([n \in 0..0 |-> <<>>], s, keep, 0)
    BY DEF Steps
  <2> QED BY <2>1
<1>2. ASSUME NEW k \in Good PROVE k + 1 \in Good
  <2>1. PICK f : Steps(f, s, keep, k)
    OBVIOUS
  <2> DEFINE g == [n \in 0..(k + 1) |->
                     IF n = k + 1
                     THEN IF n \in keep THEN Append(f[k], s[n]) ELSE f[k]
                     ELSE f[n]]
  <2>2. /\ \A n \in 0..k : g[n] = f[n]
        /\ g[k + 1] = IF k + 1 \in keep THEN Append(f[k], s[k + 1]) ELSE f[k]
    OBVIOUS
  <2>3. \A n \in 0..k : n # 0 => n - 1 \in 0..k
    OBVIOUS
  <2>4. \A n \in 0..k : f[n] = IF n = 0 THEN <<>>
                               ELSE IF n \in keep THEN Append(f[n - 1], s[n]) ELSE f[n - 1]
    BY <2>1 DEF Steps
  <2>5. \A n \in 0..k + 1 : g[n] = IF n = 0 THEN <<>>
                               ELSE IF n \in keep THEN Append(g[n - 1], s[n]) ELSE g[n - 1]
    <3> TAKE n \in 0..k + 1
    <3>1. CASE n = k + 1
      <4>1. n - 1 = k /\ k \in 0..k /\ n # 0
        BY <3>1
      <4> HIDE DEF g
      <4> QED BY <2>2, <3>1, <4>1
    <3>2. CASE n # k + 1
      <4>1. n \in 0..k
        BY <3>2
      <4> HIDE DEF g
      <4> QED BY <2>2, <2>3, <2>4, <4>1
    <3> QED BY <3>1, <3>2
  <2>6. g = [n \in 0..k + 1 |-> g[n]]
    OBVIOUS
  <2> HIDE DEF g
  <2>7. Steps(g, s, keep, k + 1)
    BY <2>5, <2>6 DEF Steps
  <2> QED BY <2>7
<1> HIDE DEF Good
<1>3. Good = Nat
  <2>1. Good \in SUBSET Nat
    BY DEF Good
  <2> QED BY <1>1, <1>2, <2>1, Induction
<1> QED BY <1>3 DEF Good

(* What is filtered is a sequence of what stood at the positions kept. *)
LEMMA FilteredIs ==
  ASSUME NEW S, NEW s \in Seq(S), NEW keep
  PROVE  Filtered(s, keep) \in Seq({s[i] : i \in keep \cap (1..Len(s))})
<1> DEFINE T == {s[i] : i \in keep \cap (1..Len(s))}
           first == CHOOSE f : f = [n \in 0..Len(s) |->
                      IF n = 0 THEN <<>>
                      ELSE IF n \in keep THEN Append(f[n - 1], s[n]) ELSE f[n - 1]]
           Good == {n \in Nat : n <= Len(s) => first[n] \in Seq(T)}
<1>1. Steps(first, s, keep, Len(s))
  <2>1. \E f : f = [n \in 0..Len(s) |->
                      IF n = 0 THEN <<>>
                      ELSE IF n \in keep THEN Append(f[n - 1], s[n]) ELSE f[n - 1]]
    <3>1. Len(s) \in Nat
      OBVIOUS
    <3>2. PICK f : Steps(f, s, keep, Len(s))
      BY <3>1, StepsExist
    <3> QED BY <3>2, Zenon DEF Steps
  <2>2. first = [n \in 0..Len(s) |->
                      IF n = 0 THEN <<>>
                      ELSE IF n \in keep THEN Append(first[n - 1], s[n]) ELSE first[n - 1]]
    BY <2>1, Zenon
  <2> HIDE DEF first
  <2> QED BY <2>2, Zenon DEF Steps
<1>2. Filtered(s, keep) = first[Len(s)]
  BY Zenon DEF Filtered
<1> HIDE DEF first
<1>3. \A n \in 0..Len(s) :
        first[n] = IF n = 0 THEN <<>>
                   ELSE IF n \in keep THEN Append(first[n - 1], s[n]) ELSE first[n - 1]
  BY <1>1 DEF Steps
<1>4. 0 \in Good
  <2>1. first[0] = <<>>
    BY <1>3
  <2>2. <<>> \in Seq(T)
    <3> HIDE DEF T
    <3> QED OBVIOUS
  <2> QED BY <2>1, <2>2, Zenon
<1>5. ASSUME NEW k \in Good PROVE k + 1 \in Good
  <2> SUFFICES ASSUME k + 1 <= Len(s) PROVE first[k + 1] \in Seq(T)
    OBVIOUS
  <2>1. k \in Nat /\ first[k] \in Seq(T) /\ k + 1 \in 1..Len(s) /\ (k + 1) - 1 = k
    OBVIOUS
  <2>2. first[k + 1] = IF k + 1 \in keep THEN Append(first[k], s[k + 1]) ELSE first[k]
    BY <1>3, <2>1
  <2>3. k + 1 \in keep => s[k + 1] \in T
    BY <2>1
  <2> HIDE DEF T
  <2>4. k + 1 \in keep => Append(first[k], s[k + 1]) \in Seq(T)
    BY <2>1, <2>3
  <2> QED BY <2>1, <2>2, <2>4
<1> HIDE DEF T, Good
<1>6. Good = Nat
  <2>1. Good \in SUBSET Nat
    BY DEF Good
  <2> QED BY <1>4, <1>5, <2>1, Induction
<1>7. first[Len(s)] \in Seq(T)
  BY <1>6 DEF Good
<1> QED BY <1>2, <1>7 DEF T

(* The facts of an answer are lines of it, all of them kept. *)
LEMMA FactsAre ==
  ASSUME NEW answer \in Extractions
  PROVE  /\ Facts(answer) \in Seq(Line)
         /\ \A i \in DOMAIN Facts(answer) : Kept(Facts(answer)[i])
<1> DEFINE keep == {i \in DOMAIN answer : Kept(answer[i])}
           T == {answer[i] : i \in keep \cap (1..Len(answer))}
<1>1. answer \in Seq(Line)
  BY MemoryAssumption
<1>2. Facts(answer) \in Seq(T)
  BY <1>1, FilteredIs DEF Facts
<1>3. \A x \in T : x \in Line /\ Kept(x)
  BY <1>1
<1> HIDE DEF T
<1>4. \A i \in DOMAIN Facts(answer) : Facts(answer)[i] \in T
  BY <1>2
<1> QED BY <1>2, <1>3, <1>4

(* The recap of a query: memories of threads, RecapMax at most. *)
Chosen(ids) == SubSeq(OfThreads(ids), 1, Least(RecapMax, Len(OfThreads(ids))))

(* They are of recall, few, and of threads. *)
LEMMA ChosenAre ==
  ASSUME store \in Seq(Memory), NEW ids \in Ranked(RecapMax + 1)
  PROVE  /\ Chosen(ids) \in Seq(DOMAIN store)
         /\ Len(Chosen(ids)) <= RecapMax
         /\ \A i \in DOMAIN Chosen(ids) : store[Chosen(ids)[i]].subject.thread
<1> DEFINE keep == {i \in DOMAIN ids : store[ids[i]].subject.thread}
           T == {ids[i] : i \in keep \cap (1..Len(ids))}
           threads == OfThreads(ids)
           most == Least(RecapMax, Len(threads))
<1>1. RecapMax \in Nat
  BY MemoryAssumption
<1>2. PICK n \in 0..(RecapMax + 1) : ids \in [1..n -> DOMAIN store]
  BY DEF Ranked
<1>3. ids \in Seq(DOMAIN store)
  <2>1. n \in Nat
    BY <1>1, <1>2
  <2> QED BY <1>2, <2>1
<1>4. threads \in Seq(T)
  BY <1>3, FilteredIs DEF OfThreads
<1>5. \A x \in T : x \in DOMAIN store /\ store[x].subject.thread
  BY <1>3
<1> HIDE DEF T, threads
<1>6. most \in Nat /\ most <= RecapMax /\ most <= Len(threads)
  BY <1>1, <1>4 DEF Least
<1> HIDE DEF most
<1>7. SubSeq(threads, 1, most) \in Seq(T) /\ Len(SubSeq(threads, 1, most)) = most
  BY <1>4, <1>6
<1>8. Chosen(ids) = SubSeq(threads, 1, most)
  BY DEF Chosen, threads, most
<1>9. \A i \in DOMAIN SubSeq(threads, 1, most) : SubSeq(threads, 1, most)[i] \in T
  BY <1>7
<1> QED BY <1>5, <1>6, <1>7, <1>8, <1>9

-----------------------------------------------------------------------------

(* The event loop has a turn in hand and has not handed over its batch. *)
Awaiting == phase \in {"starting", "reopening", "expired", "current"}

(* Types, with what makes them inductive: a turn in hand is one of the run, *)
(* a session is open once it is begun, and a task that saves has a fact next. *)
TypeInv ==
  /\ TypeOK
  /\ phase # "idle" => turn > 0
  /\ phase \in {"expired", "thinking"} => session # <<>>
  /\ \A k \in DOMAIN tasks :
       /\ tasks[k].phase = "saving" => tasks[k].next \in DOMAIN tasks[k].facts
       /\ tasks[k].phase = "extracting" => tasks[k].next = 1

(* DatesAreRight, with the day of the last turn no later than today. *)
DatesInv ==
  /\ DateIsRight
  /\ session # <<>> => session.last <= days
  /\ FiledNoEarlierThanSaid

(* Tasks come of turns, each of a later one than the task before it. *)
TurnsInv ==
  /\ \A k \in DOMAIN tasks :
       /\ tasks[k].turn \in 1..turn
       /\ Awaiting => tasks[k].turn < turn
  /\ \A j, k \in DOMAIN tasks : j < k => tasks[j].turn < tasks[k].turn

(* What is stored of a turn is of its task and before the fact it is at. *)
StoreInv ==
  /\ \A m \in DOMAIN store : store[m].turn # 0 =>
       \E k \in DOMAIN tasks :
         tasks[k].turn = store[m].turn /\ store[m].fact < tasks[k].next
  /\ \A i, j \in DOMAIN store :
       i < j /\ store[i].turn = store[j].turn /\ store[i].turn # 0
         => store[i].fact < store[j].fact

(* The fact at i of a task is stored under its subject. *)
StoredAs(t, i) ==
  \E m \in DOMAIN store :
    /\ store[m].turn = t.turn /\ store[m].fact = i
    /\ store[m].subject = SubjectFor(t.facts[i].hint, t.date)

(* Every fact a task has passed is stored or was refused. *)
SavedSoFar ==
  \A k \in DOMAIN tasks :
       /\ tasks[k].phase = "extracting" => tasks[k].facts = <<>>
       /\ tasks[k].phase = "done" => \A i \in DOMAIN tasks[k].facts : i < tasks[k].next
       /\ \A i \in DOMAIN tasks[k].facts :
             /\ Kept(tasks[k].facts[i])
             /\ i < tasks[k].next /\ i \notin tasks[k].refused => StoredAs(tasks[k], i)

(* Turns that have been had: not the one in hand. *)
Told(s) ==
  \A i \in DOMAIN s : s[i] <= turn /\ (phase # "idle" => s[i] < turn)

(* No turn is in two batches, nor in a batch and in the session. *)
BatchInv ==
  /\ \A k \in DOMAIN tasks : Told(tasks[k].batch)
  /\ session # <<>> =>
       /\ Told(session.turns)
       /\ \A k \in DOMAIN tasks :
            \A a \in DOMAIN tasks[k].batch, b \in DOMAIN session.turns :
              tasks[k].batch[a] # session.turns[b]
  /\ \A j, k \in DOMAIN tasks : j # k =>
       \A a \in DOMAIN tasks[j].batch, b \in DOMAIN tasks[k].batch :
         tasks[j].batch[a] # tasks[k].batch[b]

(* RecapIsOfThePast, with the session opened by the turn in hand. *)
RecapInv ==
  /\ Starting => since = turn
  /\ RecapIsOfThePast

-----------------------------------------------------------------------------

(* The types hold at first. *)
LEMMA TypesStart ==
  ASSUME Init PROVE TypeInv
<1>1. Origin.days \in Nat /\ Origin.date \in Date
  BY MemoryAssumption
<1>2. store \in Seq(Memory)
  BY StoresAssumption DEF Init
<1>3. MaxTurns \in Nat /\ MaxRestarts \in Nat
  BY MemoryAssumption
<1>4. /\ recap = <<>> /\ tasks = <<>> /\ results = <<>> /\ session = <<>>
      /\ phase = "idle" /\ turn = 0 /\ since = 0 /\ restarts = 0 /\ recalled = FALSE
      /\ days = Origin.days /\ date = Origin.date
  BY DEF Init
<1>5. <<>> \in Seq(DOMAIN store) /\ <<>> \in Seq(Task) /\ <<>> \in Seq(Result)
  OBVIOUS
<1>6. TypeOK
  <2>1. days \in Nat /\ date \in Date /\ turn \in 0..MaxTurns /\ since \in 0..turn
    BY <1>1, <1>3, <1>4
  <2>2. restarts \in 0..MaxRestarts
    BY <1>3, <1>4
  <2> QED BY <1>2, <1>4, <1>5, <2>1, <2>2 DEF TypeOK
<1> QED BY <1>4, <1>6 DEF TypeInv

(* What an answer makes of a task, and the outcome of a write. *)
LEMMA ExtractedIs ==
  ASSUME TypeInv, NEW k \in DOMAIN tasks, NEW ok \in BOOLEAN, NEW answer \in Extractions,
         Extract(k, ok, answer)
  PROVE  /\ tasks \in Seq(Task) /\ tasks' \in Seq(Task) /\ DOMAIN tasks' = DOMAIN tasks
         /\ \A j \in DOMAIN tasks : j # k => tasks'[j] = tasks[j]
         /\ \A f \in {"turn", "last", "date", "batch", "next", "refused"} :
              tasks'[k][f] = tasks[k][f]
         /\ tasks[k].phase = "extracting"
         /\ \/ tasks'[k].phase = "done" /\ tasks'[k].facts = tasks[k].facts
            \/ /\ tasks'[k].phase = "saving" /\ tasks'[k].facts = Facts(answer)
               /\ Facts(answer) # <<>>
<1> DEFINE t == tasks[k]
           new == IF ok /\ Facts(answer) # <<>> /\ t.batch # <<>>
                  THEN [t EXCEPT !.phase = "saving", !.facts = Facts(answer)]
                  ELSE [t EXCEPT !.phase = "done"]
<1>1. tasks \in Seq(Task) /\ t \in Task
  BY DEF TypeInv, TypeOK
<1>2. Facts(answer) \in Seq(Line)
  BY FactsAre
<1>3. tasks' = [tasks EXCEPT ![k] = new] /\ t.phase = "extracting"
  BY DEF Extract
<1>4. new \in Task
  BY <1>1, <1>2 DEF Task, TaskPhases
<1>5. \A f \in {"turn", "last", "date", "batch", "next", "refused"} : new[f] = t[f]
  BY <1>1 DEF Task
<1>6. \/ new.phase = "done" /\ new.facts = t.facts
      \/ new.phase = "saving" /\ new.facts = Facts(answer) /\ Facts(answer) # <<>>
  BY <1>1 DEF Task
<1> HIDE DEF new
<1>7. /\ tasks' \in Seq(Task) /\ DOMAIN tasks' = DOMAIN tasks /\ tasks'[k] = new
      /\ \A j \in DOMAIN tasks : j # k => tasks'[j] = tasks[j]
  BY <1>1, <1>3, <1>4
<1> QED BY <1>1, <1>3, <1>5, <1>6, <1>7

(* What a task is to save is a memory. *)
LEMMA FactIsMemory ==
  ASSUME TypeInv, NEW k \in DOMAIN tasks, tasks[k].phase = "saving"
  PROVE  FactOf(k) \in Memory
<1> DEFINE t == tasks[k]
           fact == t.facts[t.next]
<1>1. t \in Task /\ t.next \in DOMAIN t.facts
  BY DEF TypeInv, TypeOK
<1>2. t.facts \in Seq(Line) /\ t.turn \in Nat /\ t.next \in Nat /\ t.date \in Date
  BY <1>1 DEF Task
<1>3. fact \in Line
  BY <1>1, <1>2
<1>4. fact.hint \in Hints
  BY <1>3 DEF Line
<1>5. SubjectFor(fact.hint, t.date) \in Subject
  BY <1>2, <1>4 DEF SubjectFor, Subject, Undated
<1> QED BY <1>2, <1>5 DEF FactOf, Memory

(* What a write makes of its task and of recall. *)
LEMMA SavedIs ==
  ASSUME TypeInv, NEW k \in DOMAIN tasks, NEW outcome \in Outcomes, Save(k, outcome)
  PROVE  /\ tasks \in Seq(Task) /\ tasks' \in Seq(Task) /\ DOMAIN tasks' = DOMAIN tasks
         /\ \A j \in DOMAIN tasks : j # k => tasks'[j] = tasks[j]
         /\ \A f \in {"turn", "last", "date", "batch", "facts"} :
              tasks'[k][f] = tasks[k][f]
         /\ tasks[k].phase = "saving" /\ tasks[k].next \in DOMAIN tasks[k].facts
         /\ store' = IF outcome \in {"saved", "unnamed"} THEN Append(store, FactOf(k))
                     ELSE store
         /\ outcome = "torn" => /\ tasks'[k].phase = "dead"
                                /\ tasks'[k].next = tasks[k].next
                                /\ tasks'[k].refused = tasks[k].refused
         /\ outcome # "torn" =>
              /\ tasks'[k].next = tasks[k].next + 1
              /\ tasks'[k].refused =
                   tasks[k].refused \cup (IF outcome = "saved" THEN {} ELSE {tasks[k].next})
              /\ tasks'[k].phase = IF tasks[k].next = Len(tasks[k].facts) THEN "done"
                                   ELSE "saving"
<1> DEFINE t == tasks[k]
           new == IF outcome = "torn" THEN [t EXCEPT !.phase = "dead"]
                  ELSE [t EXCEPT !.next = @ + 1,
                      !.refused = IF outcome = "saved" THEN @ ELSE @ \cup {t.next},
                      !.phase = IF t.next = Len(t.facts) THEN "done" ELSE @]
<1>1. tasks \in Seq(Task) /\ t \in Task
  BY DEF TypeInv, TypeOK
<1>2. tasks' = [tasks EXCEPT ![k] = new] /\ t.phase = "saving"
  <2>1. t.phase = "saving"
    BY DEF Save
  <2>2. CASE outcome = "torn"
    BY <2>2 DEF Save
  <2>3. CASE outcome # "torn"
    BY <2>3 DEF Save
  <2> QED BY <2>1, <2>2, <2>3
<1>3. t.next \in DOMAIN t.facts /\ t.next \in Nat \ {0} /\ t.refused \in SUBSET Nat
  BY <1>1, <1>2 DEF TypeInv, Task
<1>4. \A f \in {"turn", "last", "date", "batch", "facts"} : new[f] = t[f]
  BY <1>1 DEF Task
<1>5. outcome = "torn" => /\ new.phase = "dead" /\ new.next = t.next
                          /\ new.refused = t.refused
  BY <1>1 DEF Task
<1>6. outcome # "torn" =>
        /\ new.next = t.next + 1
        /\ new.refused = t.refused \cup (IF outcome = "saved" THEN {} ELSE {t.next})
        /\ new.phase = IF t.next = Len(t.facts) THEN "done" ELSE "saving"
  BY <1>1, <1>2 DEF Task
<1>7. new \in Task
  <2>1. new.next \in Nat \ {0} /\ new.refused \in SUBSET Nat /\ new.phase \in TaskPhases
    BY <1>3, <1>5, <1>6 DEF TaskPhases
  <2>2. new = [turn |-> t.turn, last |-> t.last, date |-> t.date, batch |-> t.batch,
               phase |-> new.phase, facts |-> t.facts, next |-> new.next,
               refused |-> new.refused]
    BY <1>1 DEF Task
  <2> HIDE DEF new
  <2> QED BY <1>1, <2>1, <2>2 DEF Task
<1>8. store' = IF outcome \in {"saved", "unnamed"} THEN Append(store, FactOf(k)) ELSE store
  BY DEF Save, Saved
<1> HIDE DEF new
<1>9. /\ tasks' \in Seq(Task) /\ DOMAIN tasks' = DOMAIN tasks /\ tasks'[k] = new
      /\ \A j \in DOMAIN tasks : j # k => tasks'[j] = tasks[j]
  BY <1>1, <1>2, <1>7
<1> QED BY <1>1, <1>2, <1>3, <1>4, <1>5, <1>6, <1>8, <1>9

(* The steps that leave recall, the tasks and the results alone. *)
Quiet ==
  \/ Midnight
  \/ \E gap \in {"below", "at", "above"}, goodbye \in BOOLEAN : Begin(gap, goodbye)
  \/ RecapFails
  \/ \E ids \in Ranked(RecapMax + 1) : Recap(ids)
  \/ Extend
  \/ \E published \in BOOLEAN : Reply(published)
  \/ UNCHANGED vars

(* They do. *)
LEMMA QuietIs ==
  ASSUME Quiet
  PROVE  store' = store /\ tasks' = tasks /\ results' = results
BY DEF Quiet, Midnight, Begin, RecapFails, Recap, Extend, Reply, vars, loop, clock

(* Every step by what it does. *)
LEMMA StepIs ==
  ASSUME [Next]_vars
  PROVE  \/ Quiet
         \/ Expire
         \/ \E k \in DOMAIN tasks, ok \in BOOLEAN, answer \in Extractions :
              Extract(k, ok, answer)
         \/ \E k \in DOMAIN tasks, outcome \in Outcomes : Save(k, outcome)
         \/ \E call \in Calls : ToolRefuses(call)
         \/ \E call \in Calls, ok \in BOOLEAN : ToolSearches(call, ok)
         \/ \E call \in Calls, outcome \in Outcomes : ToolSaves(call, outcome)
         \/ Restart
<1>1. CASE Turn
  BY <1>1 DEF Turn, Quiet
<1>2. CASE \E k \in 1..(MaxTurns - 1) : TaskRuns(k)
  BY <1>2 DEF TaskRuns
<1>3. CASE ToolCall
  BY <1>3 DEF ToolCall
<1>4. CASE Midnight \/ (\E gap \in {"below", "at", "above"}, goodbye \in BOOLEAN : Begin(gap, goodbye)) \/ UNCHANGED vars
  BY <1>4 DEF Quiet
<1>5. CASE Restart
  BY <1>5
<1> QED BY <1>1, <1>2, <1>3, <1>4, <1>5 DEF Next

(* The memory a tool call leaves, and the result it publishes. *)
LEMMA NotedIs ==
  ASSUME TypeInv, NEW call \in Calls, NEW outcome \in Outcomes, ToolSaves(call, outcome)
  PROVE  /\ Noted(call) \in Memory
         /\ Noted(call).subject.hint =
              IF call.subject \in Hints THEN call.subject ELSE "profile"
         /\ Noted(call).turn = 0 /\ Noted(call).call = Len(results) + 1
         /\ store' = IF outcome \in {"saved", "unnamed"} THEN Append(store, Noted(call))
                     ELSE store
         /\ results' = Append(results, [call |-> call,
                         kind |-> IF outcome = "saved" THEN "ok" ELSE "recall_error",
                         id |-> IF outcome = "saved" THEN Len(store) + 1 ELSE 0])
         /\ UNCHANGED <<loop, clock, tasks, restarts>>
<1> DEFINE hint == IF call.subject \in {"absent", "null"} THEN "profile" ELSE call.subject
<1>1. call \in SaveArgs \cup SearchArgs /\ call.tool = "save_fact" /\ ~BadArgs(call)
  BY MemoryAssumption DEF ToolSaves
<1>2. call \in SaveArgs
  BY <1>1 DEF SearchArgs
<1>3. call.subject \notin {"blank", "other", ""}
  BY <1>1 DEF BadArgs
<1>4. call.subject \in {"absent", "null", "blank", "other"} \cup Hints
  BY <1>2 DEF SaveArgs
<1>5. hint \in Hints /\ hint = IF call.subject \in Hints THEN call.subject ELSE "profile"
  BY <1>3, <1>4 DEF Hints
<1> HIDE DEF hint
<1>6. SubjectFor(hint, Undated) \in Subject /\ SubjectFor(hint, Undated).hint = hint
  BY <1>5 DEF SubjectFor, Subject, Undated
<1>7. Noted(call) = [subject |-> SubjectFor(hint, Undated), turn |-> 0, fact |-> 0,
                     call |-> Len(results) + 1]
  BY DEF Noted, hint
<1>8. Len(results) \in Nat
  BY DEF TypeInv, TypeOK
<1>9. Noted(call) \in Memory
  BY <1>6, <1>7, <1>8 DEF Memory
<1>10. UNCHANGED <<loop, clock, tasks, restarts>>
  BY DEF ToolSaves
<1>11. store' = IF outcome \in {"saved", "unnamed"} THEN Append(store, Noted(call))
                ELSE store
  BY DEF ToolSaves, Saved
<1>12. results' = Append(results, [call |-> call,
                         kind |-> IF outcome = "saved" THEN "ok" ELSE "recall_error",
                         id |-> IF outcome = "saved" THEN Len(store) + 1 ELSE 0])
  BY DEF ToolSaves, Answered
<1> QED BY <1>5, <1>6, <1>7, <1>9, <1>10, <1>11, <1>12

(* A result published is the last of the results. *)
LEMMA AnsweredIs ==
  ASSUME TypeInv, NEW call \in Calls, NEW kind \in {"ok", "bad_args", "recall_error"},
         NEW id \in Nat, Answered(call, kind, id)
  PROVE  /\ results' \in Seq(Result) /\ Len(results') = Len(results) + 1
         /\ \A n \in DOMAIN results : results'[n] = results[n]
         /\ results'[Len(results) + 1] = [call |-> call, kind |-> kind, id |-> id]
<1>1. [call |-> call, kind |-> kind, id |-> id] \in Result
  BY MemoryAssumption DEF Result
<1>2. results \in Seq(Result)
  BY DEF TypeInv, TypeOK
<1> QED BY <1>1, <1>2 DEF Answered

(* A restart ends the tasks under way and nothing else of them. *)
LEMMA KilledIs ==
  ASSUME TypeInv, Restart
  PROVE  /\ tasks' \in Seq(Task) /\ DOMAIN tasks' = DOMAIN tasks
         /\ \A k \in DOMAIN tasks :
              /\ \A f \in {"turn", "last", "date", "batch", "facts", "next", "refused"} :
                   tasks'[k][f] = tasks[k][f]
              /\ \/ tasks'[k].phase = "dead"
                 \/ /\ tasks'[k].phase = tasks[k].phase
                    /\ tasks[k].phase \notin {"extracting", "saving"}
<1>1. tasks \in Seq(Task)
  BY DEF TypeInv, TypeOK
<1>2. tasks' = Killed /\ DOMAIN Killed = DOMAIN tasks
  BY DEF Restart, Killed
<1>3. ASSUME NEW k \in DOMAIN tasks
      PROVE  /\ Killed[k] \in Task
             /\ \A f \in {"turn", "last", "date", "batch", "facts", "next", "refused"} :
                  Killed[k][f] = tasks[k][f]
             /\ \/ Killed[k].phase = "dead"
                \/ /\ Killed[k].phase = tasks[k].phase
                   /\ tasks[k].phase \notin {"extracting", "saving"}
  <2> DEFINE t == tasks[k]
             dead == [t EXCEPT !.phase = "dead"]
  <2>1. t \in Task
    BY <1>1
  <2>2. /\ dead \in Task /\ dead.phase = "dead"
        /\ \A f \in {"turn", "last", "date", "batch", "facts", "next", "refused"} :
             dead[f] = t[f]
    BY <2>1 DEF Task, TaskPhases
  <2>3. Killed[k] = IF t.phase \in {"extracting", "saving"} THEN dead ELSE t
    BY DEF Killed
  <2> HIDE DEF dead
  <2> QED BY <2>1, <2>2, <2>3
<1>4. Killed \in Seq(Task)
  <2>1. DOMAIN Killed = 1..Len(tasks) /\ Len(tasks) \in Nat
    BY <1>1, <1>2
  <2>2. Killed = [k \in 1..Len(tasks) |-> Killed[k]]
    BY <2>1 DEF Killed
  <2>3. \A k \in 1..Len(tasks) : Killed[k] \in Task
    BY <1>1, <1>3
  <2> QED BY <2>1, <2>2, <2>3
<1> QED BY <1>2, <1>3, <1>4

(* A sequence of some is a sequence of more. *)
LEMMA MoreOf ==
  ASSUME NEW S, NEW T, S \subseteq T, NEW s \in Seq(S)
  PROVE  s \in Seq(T)
OBVIOUS

(* A session is not the empty sequence, which stands for none. *)
LEMMA NotEmpty ==
  ASSUME NEW turns, NEW last
  PROVE  [turns |-> turns, last |-> last] # <<>>
<1> DEFINE r == [turns |-> turns, last |-> last]
<1>1. DOMAIN r = {"turns", "last"}
  OBVIOUS
<1>2. DOMAIN <<>> = {}
  OBVIOUS
<1> HIDE DEF r
<1>3. r # <<>>
  BY <1>1, <1>2
<1> QED BY <1>3 DEF r

(* What follows a date is one. *)
LEMMA DayAfterIsDate ==
  ASSUME NEW d \in Date PROVE DayAfter(d) \in Date
<1>1. PICK year \in Nat, month \in 1..12, day \in 1..31 :
             d = [year |-> year, month |-> month, day |-> day]
  BY DEF Date
<1> DEFINE after == IF day < LengthOf(year, month)
           THEN [year |-> year, month |-> month, day |-> day + 1]
           ELSE IF month < 12 THEN [year |-> year, month |-> month + 1, day |-> 1]
           ELSE [year |-> year + 1, month |-> 1, day |-> 1]
<1>2. DayAfter(d) = after
  <2>1. year \in Nat /\ day \in Nat
    OBVIOUS
  <2>2. DayAfter([year |-> year, month |-> month, day |-> day]) = after
    BY <2>1, DayAfterIs, Zenon
  <2> QED BY <1>1, <2>2, Zenon
<1>3. LengthOf(year, month) \in {28, 29, 30, 31}
  BY <1>1 DEF LengthOf
<1>4. after \in Date
  BY <1>1, <1>3 DEF Date
<1> QED BY <1>2, <1>4

(* Quiet steps keep the types. *)
LEMMA QuietKeepsTypes ==
  ASSUME TypeInv, Quiet PROVE TypeInv'
<1> USE DEF TypeInv, TypeOK
<1>0. MaxTurns \in Nat /\ MaxRestarts \in Nat
  BY MemoryAssumption
<1>1. store' = store /\ tasks' = tasks /\ results' = results
  BY QuietIs
<1>2. /\ store' \in Seq(Memory) /\ tasks' \in Seq(Task) /\ results' \in Seq(Result)
      /\ \A k \in DOMAIN tasks' :
           /\ tasks'[k].phase = "saving" => tasks'[k].next \in DOMAIN tasks'[k].facts
           /\ tasks'[k].phase = "extracting" => tasks'[k].next = 1
  BY <1>1
<1> DEFINE Rest ==
        /\ days \in Nat /\ date \in Date
        /\ phase \in {"idle", "starting", "reopening", "expired", "current", "thinking"}
        /\ turn \in 0..MaxTurns /\ since \in 0..turn
        /\ session = <<>> \/ session \in [turns : Seq(1..turn), last : Nat]
        /\ recap \in Seq(DOMAIN store) /\ recalled \in BOOLEAN
        /\ restarts \in 0..MaxRestarts
        /\ phase # "idle" => turn > 0
        /\ phase \in {"expired", "thinking"} => session # <<>>
<1>3. Rest
  OBVIOUS
<1>4. CASE Midnight
  <2>1. days' \in Nat /\ date' \in Date
    <3>1. days' = days + 1 /\ date' = DayAfter(date)
      BY <1>4 DEF Midnight
    <3> QED BY <3>1, DayAfterIsDate
  <2>2. UNCHANGED <<phase, turn, since, session, recap, recalled, restarts>>
    BY <1>4 DEF Midnight, loop
  <2>3. Rest'
    BY <1>1, <1>3, <2>1, <2>2
  <2> QED BY <1>2, <2>3
<1>5. CASE \E gap \in {"below", "at", "above"}, goodbye \in BOOLEAN : Begin(gap, goodbye)
  <2>1. /\ turn < MaxTurns /\ turn' = turn + 1 /\ since' \in {since, turn + 1}
        /\ phase' \in {"starting", "reopening", "expired", "current"}
        /\ phase' = "expired" => session # <<>>
        /\ UNCHANGED <<session, recap, recalled, days, date, restarts>>
    BY <1>5 DEF Begin, clock
  <2>2. turn' \in 0..MaxTurns /\ since' \in 0..turn' /\ 1..turn \subseteq 1..turn'
    BY <1>0, <1>3, <2>1
  <2>3. session = <<>> \/ session \in [turns : Seq(1..turn'), last : Nat]
    BY <1>3, <2>2, MoreOf
  <2>4. Rest'
    BY <1>1, <1>3, <2>1, <2>2, <2>3
  <2> QED BY <1>2, <2>4
<1>6. CASE RecapFails
  <2>1. /\ recap' = <<>> /\ recalled' = FALSE /\ phase' \in {"current", "expired"}
        /\ phase' = "expired" => session # <<>>
        /\ UNCHANGED <<turn, since, session, days, date, restarts>>
    BY <1>6 DEF RecapFails, SessionStarted, clock
  <2>2. <<>> \in Seq(DOMAIN store)
    OBVIOUS
  <2>3. phase \in {"starting", "reopening"}
    BY <1>6 DEF RecapFails, Starting
  <2>4. Rest'
    BY <1>1, <1>3, <2>1, <2>2, <2>3
  <2> QED BY <1>2, <2>4
<1>7. CASE \E ids \in Ranked(RecapMax + 1) : Recap(ids)
  <2>1. PICK ids \in Ranked(RecapMax + 1) : Recap(ids)
    BY <1>7
  <2>2. /\ phase \in {"starting", "reopening"}
        /\ recap' = Chosen(ids) /\ recalled' = TRUE /\ phase' \in {"current", "expired"}
        /\ phase' = "expired" => session # <<>>
        /\ UNCHANGED <<turn, since, session, days, date, restarts>>
    BY <2>1 DEF Recap, Starting, SessionStarted, clock, Chosen
  <2>3. Chosen(ids) \in Seq(DOMAIN store)
    BY ChosenAre
  <2>4. Rest'
    BY <1>1, <1>3, <2>2, <2>3
  <2> QED BY <1>2, <2>4
<1>8. CASE Extend
  <2>1. /\ session' = [turns |-> IF session = <<>> THEN <<>> ELSE session.turns,
                       last |-> days]
        /\ phase = "current" /\ phase' = "thinking"
        /\ UNCHANGED <<turn, since, recap, recalled, days, date, restarts>>
    BY <1>8 DEF Extend, clock
  <2>2. (IF session = <<>> THEN <<>> ELSE session.turns) \in Seq(1..turn)
    <3>1. CASE session = <<>>
      <4>1. <<>> \in Seq(1..turn)
        OBVIOUS
      <4> QED BY <3>1, <4>1
    <3>2. CASE session # <<>>
      <4>1. session \in [turns : Seq(1..turn), last : Nat]
        BY <1>3, <3>2
      <4> QED BY <3>2, <4>1
    <3> QED BY <3>1, <3>2
  <2>3. session' \in [turns : Seq(1..turn), last : Nat] /\ session' # <<>>
    BY <1>3, <2>1, <2>2, NotEmpty
  <2>4. Rest'
    BY <1>1, <1>3, <2>1, <2>3
  <2> QED BY <1>2, <2>4
<1>9. CASE \E published \in BOOLEAN : Reply(published)
  <2>1. /\ phase = "thinking" /\ phase' = "idle"
        /\ \/ session' = session
           \/ session' = [session EXCEPT !.turns = Append(@, turn)]
        /\ UNCHANGED <<turn, since, recap, recalled, days, date, restarts>>
    BY <1>9 DEF Reply, clock
  <2>2. session \in [turns : Seq(1..turn), last : Nat]
    BY <1>3, <2>1
  <2>3. turn \in 1..turn
    BY <1>3, <2>1
  <2>4. Append(session.turns, turn) \in Seq(1..turn)
    BY <2>2, <2>3
  <2>5. session' = <<>> \/ session' \in [turns : Seq(1..turn), last : Nat]
    BY <1>3, <2>1, <2>2, <2>4
  <2>6. Rest'
    BY <1>1, <1>3, <2>1, <2>5
  <2> QED BY <1>2, <2>6
<1>10. CASE UNCHANGED vars
  BY <1>10 DEF vars, loop, clock
<1> QED BY <1>4, <1>5, <1>6, <1>7, <1>8, <1>9, <1>10 DEF Quiet

(* What Append does to a sequence. *)
LEMMA Longer ==
  ASSUME NEW S, NEW s \in Seq(S), NEW x \in S
  PROVE  /\ Append(s, x) \in Seq(S) /\ Len(Append(s, x)) = Len(s) + 1
         /\ DOMAIN s \subseteq DOMAIN Append(s, x)
         /\ DOMAIN Append(s, x) = DOMAIN s \cup {Len(s) + 1}
         /\ \A i \in DOMAIN s : Append(s, x)[i] = s[i]
         /\ Append(s, x)[Len(s) + 1] = x
         /\ \A i \in DOMAIN s : i <= Len(s) /\ i \in Nat
OBVIOUS

(* Every step keeps the types. *)
LEMMA TypesKept ==
  ASSUME TypeInv, [Next]_vars PROVE TypeInv'
<1>0. MaxTurns \in Nat /\ MaxRestarts \in Nat
  BY MemoryAssumption
<1>1. /\ store \in Seq(Memory) /\ tasks \in Seq(Task) /\ results \in Seq(Result)
      /\ days \in Nat
  BY DEF TypeInv, TypeOK
<1>2. CASE Quiet
  BY <1>2, QuietKeepsTypes
<1>3. CASE Expire
  <2>1. /\ phase = "expired" /\ phase' = "thinking"
        /\ tasks' = Append(tasks, Spawned)
        /\ session' = [turns |-> <<>>, last |-> days]
        /\ UNCHANGED <<turn, since, recap, recalled, days, date, store, results, restarts>>
    BY <1>3 DEF Expire, clock
  <2>2. session \in [turns : Seq(1..turn), last : Nat] /\ turn \in Nat
    BY <2>1, <1>0 DEF TypeInv, TypeOK
  <2>3. Spawned \in Task /\ Spawned.phase = "extracting"
    <3>1. DaysToYmd(days) \in Date
      BY <1>1, DatesAreDates
    <3>2. session.turns \in Seq(Nat)
      <4>1. session.turns \in Seq(1..turn) /\ 1..turn \subseteq Nat
        BY <2>2
      <4> QED BY <4>1, MoreOf
    <3>3. <<>> \in Seq(Line)
      OBVIOUS
    <3> QED BY <2>2, <3>1, <3>2, <3>3 DEF Spawned, Task, TaskPhases
  <2>4. /\ tasks' \in Seq(Task)
        /\ \A k \in DOMAIN tasks' : k \in DOMAIN tasks \/ tasks'[k] = Spawned
        /\ \A k \in DOMAIN tasks : tasks'[k] = tasks[k]
    BY <1>1, <2>1, <2>3
  <2>5. \A k \in DOMAIN tasks' :
          /\ tasks'[k].phase = "saving" => tasks'[k].next \in DOMAIN tasks'[k].facts
          /\ tasks'[k].phase = "extracting" => tasks'[k].next = 1
    BY <2>3, <2>4 DEF TypeInv, Spawned
  <2>6. session' # <<>> /\ session' \in [turns : Seq(1..turn), last : Nat]
    <3>1. <<>> \in Seq(1..turn)
      OBVIOUS
    <3> QED BY <2>1, <1>1, <3>1, NotEmpty
  <2>7. TypeOK'
    BY <2>1, <2>4, <2>6 DEF TypeInv, TypeOK
  <2> QED BY <2>1, <2>5, <2>6, <2>7 DEF TypeInv
<1>4. CASE \E k \in DOMAIN tasks, ok \in BOOLEAN, answer \in Extractions :
             Extract(k, ok, answer)
  <2>1. PICK k \in DOMAIN tasks, ok \in BOOLEAN, answer \in Extractions :
               Extract(k, ok, answer)
    BY <1>4
  <2>2. UNCHANGED <<phase, turn, since, session, recap, recalled, days, date, store,
                    results, restarts>>
    BY <2>1 DEF Extract, loop, clock
  <2>3. /\ tasks' \in Seq(Task) /\ DOMAIN tasks' = DOMAIN tasks
        /\ \A j \in DOMAIN tasks : j # k => tasks'[j] = tasks[j]
    BY <2>1, ExtractedIs
  <2>4. tasks'[k].phase = "saving" => tasks'[k].next \in DOMAIN tasks'[k].facts
    <3>1. SUFFICES ASSUME tasks'[k].phase = "saving"
                   PROVE  tasks'[k].next \in DOMAIN tasks'[k].facts
      OBVIOUS
    <3>2. /\ tasks'[k].facts = Facts(answer) /\ Facts(answer) # <<>>
          /\ tasks'[k].next = tasks[k].next /\ tasks[k].phase = "extracting"
      BY <2>1, <3>1, ExtractedIs
    <3>3. tasks[k].next = 1
      BY <3>2 DEF TypeInv
    <3>4. Facts(answer) \in Seq(Line)
      BY FactsAre
    <3> QED BY <3>2, <3>3, <3>4
  <2>5. \A j \in DOMAIN tasks' :
          /\ tasks'[j].phase = "saving" => tasks'[j].next \in DOMAIN tasks'[j].facts
          /\ tasks'[j].phase = "extracting" => tasks'[j].next = 1
    <3>1. tasks'[k].phase # "extracting"
      BY <2>1, ExtractedIs
    <3> QED BY <2>3, <2>4, <3>1 DEF TypeInv
  <2>6. TypeOK'
    BY <2>2, <2>3 DEF TypeInv, TypeOK
  <2> QED BY <2>2, <2>5, <2>6 DEF TypeInv
<1>5. CASE \E k \in DOMAIN tasks, outcome \in Outcomes : Save(k, outcome)
  <2>1. PICK k \in DOMAIN tasks, outcome \in Outcomes : Save(k, outcome)
    BY <1>5
  <2>2. UNCHANGED <<phase, turn, since, session, recap, recalled, days, date, results,
                    restarts>>
    BY <2>1 DEF Save, loop, clock
  <2>3. /\ tasks' \in Seq(Task) /\ DOMAIN tasks' = DOMAIN tasks
        /\ \A j \in DOMAIN tasks : j # k => tasks'[j] = tasks[j]
        /\ store' = store \/ store' = Append(store, FactOf(k))
        /\ tasks[k].phase = "saving"
    BY <2>1, SavedIs
  <2>4. store' \in Seq(Memory) /\ DOMAIN store \subseteq DOMAIN store'
    <3>1. FactOf(k) \in Memory
      BY <2>3, FactIsMemory
    <3>2. /\ Append(store, FactOf(k)) \in Seq(Memory)
          /\ DOMAIN store \subseteq DOMAIN Append(store, FactOf(k))
      BY <1>1, <3>1, Longer
    <3> QED BY <1>1, <2>3, <3>2, Zenon
  <2>5. /\ tasks'[k].phase # "extracting"
        /\ tasks'[k].phase = "saving" => tasks'[k].next \in DOMAIN tasks'[k].facts
    <3>1. /\ tasks'[k].facts = tasks[k].facts /\ tasks[k].next \in DOMAIN tasks[k].facts
          /\ outcome = "torn" => tasks'[k].phase = "dead"
          /\ outcome # "torn" => /\ tasks'[k].next = tasks[k].next + 1
                                 /\ tasks'[k].phase = IF tasks[k].next = Len(tasks[k].facts)
                                                      THEN "done" ELSE "saving"
      BY <2>1, SavedIs
    <3>2. tasks[k].facts \in Seq(Line)
      <4>1. tasks[k] \in Task
        BY <1>1
      <4> QED BY <4>1 DEF Task
    <3> QED BY <3>1, <3>2
  <2>6. recap \in Seq(DOMAIN store')
    BY <2>4, MoreOf DEF TypeInv, TypeOK
  <2>7. TypeOK'
    BY <2>2, <2>3, <2>4, <2>6 DEF TypeInv, TypeOK
  <2> QED BY <2>2, <2>3, <2>5, <2>7 DEF TypeInv
<1>6. CASE \E call \in Calls : ToolRefuses(call)
  <2>1. PICK call \in Calls : ToolRefuses(call)
    BY <1>6
  <2>2. Answered(call, "bad_args", 0) /\ UNCHANGED <<loop, clock, store, tasks, restarts>>
    BY <2>1 DEF ToolRefuses
  <2>3. results' \in Seq(Result)
    BY <2>2, AnsweredIs
  <2> QED BY <2>2, <2>3 DEF TypeInv, TypeOK, loop, clock
<1>7. CASE \E call \in Calls, ok \in BOOLEAN : ToolSearches(call, ok)
  <2>1. PICK call \in Calls, ok \in BOOLEAN : ToolSearches(call, ok)
    BY <1>7
  <2>2. /\ Answered(call, IF ok THEN "ok" ELSE "recall_error", 0)
        /\ UNCHANGED <<loop, clock, store, tasks, restarts>>
    BY <2>1 DEF ToolSearches
  <2>3. results' \in Seq(Result)
    BY <2>2, AnsweredIs
  <2> QED BY <2>2, <2>3 DEF TypeInv, TypeOK, loop, clock
<1>8. CASE \E call \in Calls, outcome \in Outcomes : ToolSaves(call, outcome)
  <2>1. PICK call \in Calls, outcome \in Outcomes : ToolSaves(call, outcome)
    BY <1>8
  <2>2. UNCHANGED <<phase, turn, since, session, recap, recalled, days, date, tasks,
                    restarts>>
    BY <2>1, NotedIs DEF loop, clock
  <2>3. store' \in Seq(Memory) /\ DOMAIN store \subseteq DOMAIN store'
    <3>1. Noted(call) \in Memory /\ (store' = store \/ store' = Append(store, Noted(call)))
      BY <2>1, NotedIs
    <3>2. /\ Append(store, Noted(call)) \in Seq(Memory)
          /\ DOMAIN store \subseteq DOMAIN Append(store, Noted(call))
      BY <1>1, <3>1, Longer
    <3> QED BY <1>1, <3>1, <3>2, Zenon
  <2>4. results' \in Seq(Result)
    <3> DEFINE kind == IF outcome = "saved" THEN "ok" ELSE "recall_error"
               id == IF outcome = "saved" THEN Len(store) + 1 ELSE 0
    <3>1. kind \in {"ok", "bad_args", "recall_error"} /\ id \in Nat
      BY <1>1
    <3>2. Answered(call, kind, id)
      BY <2>1, NotedIs DEF Answered
    <3> HIDE DEF kind, id
    <3> QED BY <3>1, <3>2, AnsweredIs
  <2>5. recap \in Seq(DOMAIN store')
    BY <2>3, MoreOf DEF TypeInv, TypeOK
  <2>6. TypeOK'
    BY <2>2, <2>3, <2>4, <2>5 DEF TypeInv, TypeOK
  <2> QED BY <2>2, <2>6 DEF TypeInv
<1>9. CASE Restart
  <2>1. /\ phase' = "idle" /\ session' = <<>> /\ recap' = <<>> /\ recalled' = FALSE
        /\ restarts < MaxRestarts /\ restarts' = restarts + 1
        /\ UNCHANGED <<turn, since, days, date, store, results>>
    BY <1>9 DEF Restart, clock
  <2>2. /\ tasks' \in Seq(Task)
        /\ \A k \in DOMAIN tasks' : tasks'[k].phase \notin {"extracting", "saving"}
    BY <1>9, KilledIs
  <2>3. <<>> \in Seq(DOMAIN store) /\ restarts' \in 0..MaxRestarts
    BY <1>0, <2>1 DEF TypeInv, TypeOK
  <2>4. TypeOK'
    BY <2>1, <2>2, <2>3 DEF TypeInv, TypeOK
  <2> QED BY <2>1, <2>2, <2>4 DEF TypeInv
<1> QED BY <1>2, <1>3, <1>4, <1>5, <1>6, <1>7, <1>8, <1>9, StepIs

(* Every variable stays of its type: ids of the recap are ids of recall, a *)
(* date is a date, and what a task saves is a memory.                      *)
THEOREM MemoryTypeCorrect == Spec => []TypeOK
<1>1. TypeInv => TypeOK
  BY DEF TypeInv
<1> QED BY <1>1, TypesStart, TypesKept, PTL DEF Spec

-----------------------------------------------------------------------------
(* What a task was spawned with it keeps, and only Expire spawns. *)
LEMMA TasksKeep ==
  ASSUME TypeInv, [Next]_vars
  PROVE  /\ tasks \in Seq(Task)
         /\ \A k \in DOMAIN tasks :
              /\ k \in DOMAIN tasks' /\ k \in Nat /\ k < Len(tasks) + 1
              /\ \A f \in {"turn", "last", "date", "batch"} : tasks'[k][f] = tasks[k][f]
         /\ \A k \in DOMAIN tasks' : k \notin DOMAIN tasks =>
              Expire /\ k = Len(tasks) + 1 /\ tasks'[k] = Spawned
<1>1. tasks \in Seq(Task)
  BY DEF TypeInv, TypeOK
<1>2. \A k \in DOMAIN tasks : k \in Nat /\ k < Len(tasks) + 1
  BY <1>1
<1>3. CASE tasks' = tasks
  BY <1>1, <1>2, <1>3
<1>4. CASE Expire
  <2>1. tasks' = Append(tasks, Spawned)
    BY <1>4 DEF Expire
  <2>2. /\ \A k \in DOMAIN tasks : k \in DOMAIN tasks' /\ tasks'[k] = tasks[k]
        /\ \A k \in DOMAIN tasks' : k \in DOMAIN tasks \/ k = Len(tasks) + 1
        /\ tasks'[Len(tasks) + 1] = Spawned
    BY <1>1, <2>1
  <2> QED BY <1>1, <1>2, <1>4, <2>2
<1>5. CASE \E k \in DOMAIN tasks, ok \in BOOLEAN, answer \in Extractions :
             Extract(k, ok, answer)
  <2>1. PICK k \in DOMAIN tasks, ok \in BOOLEAN, answer \in Extractions :
               Extract(k, ok, answer)
    BY <1>5
  <2>2. /\ DOMAIN tasks' = DOMAIN tasks
        /\ \A j \in DOMAIN tasks : j # k => tasks'[j] = tasks[j]
        /\ \A f \in {"turn", "last", "date", "batch"} : tasks'[k][f] = tasks[k][f]
    BY <2>1, ExtractedIs
  <2> QED BY <1>1, <1>2, <2>2
<1>6. CASE \E k \in DOMAIN tasks, outcome \in Outcomes : Save(k, outcome)
  <2>1. PICK k \in DOMAIN tasks, outcome \in Outcomes : Save(k, outcome)
    BY <1>6
  <2>2. /\ DOMAIN tasks' = DOMAIN tasks
        /\ \A j \in DOMAIN tasks : j # k => tasks'[j] = tasks[j]
        /\ \A f \in {"turn", "last", "date", "batch"} : tasks'[k][f] = tasks[k][f]
    BY <2>1, SavedIs
  <2> QED BY <1>1, <1>2, <2>2
<1>7. CASE Restart
  <2>1. /\ DOMAIN tasks' = DOMAIN tasks
        /\ \A k \in DOMAIN tasks : \A f \in {"turn", "last", "date", "batch"} :
             tasks'[k][f] = tasks[k][f]
    BY <1>7, KilledIs
  <2> QED BY <1>1, <1>2, <2>1
<1>8. CASE \/ \E call \in Calls : ToolRefuses(call)
           \/ \E call \in Calls, ok \in BOOLEAN : ToolSearches(call, ok)
           \/ \E call \in Calls, outcome \in Outcomes : ToolSaves(call, outcome)
  BY <1>3, <1>8 DEF ToolRefuses, ToolSearches, ToolSaves
<1> QED BY <1>3, <1>4, <1>5, <1>6, <1>7, <1>8, StepIs, QuietIs

(* The clock goes on from day to day, and a session is used on the day it is. *)
LEMMA ClockIs ==
  ASSUME TypeInv, [Next]_vars
  PROVE  /\ \/ days' = days /\ date' = date
            \/ days' = days + 1 /\ date' = DayAfter(date)
         /\ \/ session' = session
            \/ session' # <<>> => days' = days /\ session'.last = days
            \/ /\ session # <<>> /\ days' = days /\ session' # <<>>
               /\ session'.last = session.last
<1>1. CASE Midnight
  BY <1>1 DEF Midnight, loop
<1>2. CASE (\E gap \in {"below", "at", "above"}, goodbye \in BOOLEAN : Begin(gap, goodbye)) \/ RecapFails
  BY <1>2 DEF Begin, RecapFails, clock
<1>3. CASE \E ids \in Ranked(RecapMax + 1) : Recap(ids)
  BY <1>3 DEF Recap, clock
<1>4. CASE Extend
  <2>1. /\ session' = [turns |-> IF session = <<>> THEN <<>> ELSE session.turns,
                       last |-> days]
        /\ days' = days /\ date' = date
    BY <1>4 DEF Extend, clock
  <2> QED BY <2>1
<1>5. CASE \E published \in BOOLEAN : Reply(published)
  <2>1. /\ phase = "thinking" /\ days' = days /\ date' = date
        /\ session' = session \/ session' = [session EXCEPT !.turns = Append(@, turn)]
    BY <1>5 DEF Reply, clock
  <2>2. session # <<>> /\ session \in [turns : Seq(1..turn), last : Nat]
    BY <2>1 DEF TypeInv, TypeOK
  <2>3. CASE session' = [session EXCEPT !.turns = Append(@, turn)]
    <3>1. session' = [turns |-> Append(session.turns, turn), last |-> session.last]
      BY <2>2, <2>3
    <3> QED BY <2>1, <2>2, <3>1, NotEmpty
  <2> QED BY <2>1, <2>3
<1>6. CASE UNCHANGED vars
  BY <1>6 DEF vars, loop, clock
<1>7. CASE Expire
  <2>1. session' = [turns |-> <<>>, last |-> days] /\ days' = days /\ date' = date
    BY <1>7 DEF Expire, clock
  <2> QED BY <2>1
<1>8. CASE Restart
  BY <1>8 DEF Restart, clock
<1>9. CASE \/ \E k \in DOMAIN tasks, ok \in BOOLEAN, answer \in Extractions :
                Extract(k, ok, answer)
           \/ \E k \in DOMAIN tasks, outcome \in Outcomes : Save(k, outcome)
  BY <1>9 DEF Extract, Save, loop, clock
<1>10. CASE \/ \E call \in Calls : ToolRefuses(call)
            \/ \E call \in Calls, ok \in BOOLEAN : ToolSearches(call, ok)
            \/ \E call \in Calls, outcome \in Outcomes : ToolSaves(call, outcome)
  BY <1>10 DEF ToolRefuses, ToolSearches, ToolSaves, loop, clock
<1> QED BY <1>1, <1>2, <1>3, <1>4, <1>5, <1>6, <1>7, <1>8, <1>9, <1>10, StepIs DEF Quiet

(* The clock starts on its date. *)
LEMMA DatesStart ==
  ASSUME Init PROVE DatesInv
<1>1. tasks = <<>> /\ session = <<>>
  BY DEF Init
<1>2. DaysToYmd(days) = date
  BY MemoryAssumption DEF Init
<1> QED BY <1>1, <1>2 DEF DatesInv, DateIsRight, FiledNoEarlierThanSaid

(* Every step keeps the dates. *)
LEMMA DatesKept ==
  ASSUME TypeInv, DatesInv, [Next]_vars PROVE DatesInv'
<1>1. days \in Nat /\ (session # <<>> => session.last \in Nat /\ session.last <= days)
  BY DEF TypeInv, TypeOK, DatesInv
<1>2. days' \in Nat /\ days <= days'
  BY <1>1, ClockIs
<1>3. DateIsRight'
  <2>1. DaysToYmd(days) = date
    BY DEF DatesInv, DateIsRight
  <2>2. DaysToYmd(days + 1) = DayAfter(date)
    BY <1>1, <2>1, DatesFollow
  <2>3. CASE days' = days /\ date' = date
    BY <2>1, <2>3 DEF DateIsRight
  <2>4. CASE days' = days + 1 /\ date' = DayAfter(date)
    BY <2>2, <2>4 DEF DateIsRight
  <2> QED BY <2>3, <2>4, ClockIs
<1>4. (session # <<>> => session.last <= days)'
  BY <1>1, <1>2, ClockIs
<1>5. FiledNoEarlierThanSaid'
  <2> SUFFICES ASSUME NEW k \in DOMAIN tasks'
               PROVE  \E d \in tasks'[k].last..days' : tasks'[k].date = DaysToYmd(d)
    BY DEF FiledNoEarlierThanSaid
  <2>1. CASE k \in DOMAIN tasks
    <3>1. tasks'[k].last = tasks[k].last /\ tasks'[k].date = tasks[k].date
      BY <2>1, TasksKeep
    <3>2. PICK d \in tasks[k].last..days : tasks[k].date = DaysToYmd(d)
      BY <2>1 DEF DatesInv, FiledNoEarlierThanSaid
    <3>3. tasks[k].last \in Nat
      <4>1. tasks[k] \in Task
        BY <2>1, TasksKeep
      <4> QED BY <4>1 DEF Task
    <3>4. d \in tasks[k].last..days'
      BY <1>1, <1>2, <3>2, <3>3
    <3> QED BY <3>1, <3>2, <3>4
  <2>2. CASE k \notin DOMAIN tasks
    <3>1. Expire /\ tasks'[k] = Spawned
      BY <2>2, TasksKeep
    <3>2. session # <<>> /\ days' = days
      BY <3>1 DEF Expire, TypeInv, clock
    <3>3. tasks'[k].last = session.last /\ tasks'[k].date = DaysToYmd(days)
      BY <3>1 DEF Spawned
    <3>4. days \in session.last..days'
      BY <1>1, <3>2
    <3> QED BY <3>3, <3>4
  <2> QED BY <2>1, <2>2
<1> QED BY <1>3, <1>4, <1>5 DEF DatesInv

(* DatesAreRight: the date of every day is that of the calendar, and no    *)
(* conversation is filed under a day before its last turn.                 *)
THEOREM DatesHold == Spec => []DatesAreRight
<1>1. TypeInv /\ DatesInv => DatesAreRight
  BY DEF DatesInv, DatesAreRight
<1>2. Init => TypeInv /\ DatesInv
  BY TypesStart, DatesStart
<1>3. TypeInv /\ DatesInv /\ [Next]_vars => TypeInv' /\ DatesInv'
  BY TypesKept, DatesKept
<1> QED BY <1>1, <1>2, <1>3, PTL DEF Spec

-----------------------------------------------------------------------------
(* A turn begins in the idle loop; every other step stays with it. *)
LEMMA PhaseIs ==
  ASSUME TypeInv, [Next]_vars
  PROVE  /\ \/ phase = "idle" /\ turn' = turn + 1 /\ session' = session /\ tasks' = tasks
            \/ /\ turn' = turn /\ (Awaiting' => Awaiting)
               /\ (phase' # "idle" => phase # "idle")
         /\ \/ session' = <<>>
            \/ session' # <<>> /\ session'.turns = <<>>
            \/ session # <<>> /\ session' # <<>> /\ session'.turns = session.turns
            \/ /\ phase = "thinking" /\ phase' = "idle" /\ session # <<>> /\ session' # <<>>
               /\ turn' = turn /\ session'.turns = Append(session.turns, turn)
         /\ Expire => session' # <<>> /\ session'.turns = <<>> /\ phase' = "thinking"
                      /\ turn' = turn
<1>1. CASE Midnight
  BY <1>1 DEF Midnight, loop, Awaiting, Expire
<1>2. CASE \E gap \in {"below", "at", "above"}, goodbye \in BOOLEAN : Begin(gap, goodbye)
  BY <1>2 DEF Begin, Expire
<1>3. CASE RecapFails \/ \E ids \in Ranked(RecapMax + 1) : Recap(ids)
  <2>1. /\ phase \in {"starting", "reopening"} /\ phase' \in {"current", "expired"}
        /\ UNCHANGED <<turn, session>>
    BY <1>3 DEF RecapFails, Recap, Starting, SessionStarted
  <2> QED BY <2>1 DEF Awaiting, Expire
<1>4. CASE Extend
  <2>1. /\ session' = [turns |-> IF session = <<>> THEN <<>> ELSE session.turns,
                       last |-> days]
        /\ phase = "current" /\ phase' = "thinking" /\ turn' = turn
    BY <1>4 DEF Extend
  <2>2. session' # <<>> /\ session'.turns = IF session = <<>> THEN <<>> ELSE session.turns
    BY <2>1, NotEmpty
  <2> QED BY <2>1, <2>2 DEF Awaiting, Expire
<1>5. CASE \E published \in BOOLEAN : Reply(published)
  <2>1. /\ phase = "thinking" /\ phase' = "idle" /\ turn' = turn
        /\ session' = session \/ session' = [session EXCEPT !.turns = Append(@, turn)]
    BY <1>5 DEF Reply
  <2>2. session # <<>> /\ session \in [turns : Seq(1..turn), last : Nat]
    BY <2>1 DEF TypeInv, TypeOK
  <2>3. CASE session' = [session EXCEPT !.turns = Append(@, turn)]
    <3>1. session' = [turns |-> Append(session.turns, turn), last |-> session.last]
      BY <2>2, <2>3
    <3>2. session' # <<>> /\ session'.turns = Append(session.turns, turn)
      BY <3>1, NotEmpty
    <3> QED BY <2>1, <2>2, <3>2 DEF Awaiting, Expire
  <2> QED BY <2>1, <2>2, <2>3 DEF Awaiting, Expire
<1>6. CASE UNCHANGED vars
  BY <1>6 DEF vars, loop, Awaiting, Expire
<1>7. CASE Expire
  <2>1. session' = [turns |-> <<>>, last |-> days] /\ turn' = turn
        /\ phase = "expired" /\ phase' = "thinking"
    BY <1>7 DEF Expire
  <2>2. session' # <<>> /\ session'.turns = <<>>
    BY <2>1, NotEmpty
  <2> QED BY <2>1, <2>2 DEF Awaiting
<1>8. CASE Restart
  BY <1>8 DEF Restart, Awaiting, Expire
<1>9. CASE \/ \E k \in DOMAIN tasks, ok \in BOOLEAN, answer \in Extractions :
                Extract(k, ok, answer)
           \/ \E k \in DOMAIN tasks, outcome \in Outcomes : Save(k, outcome)
  <2>1. UNCHANGED <<phase, turn, session>>
    BY <1>9 DEF Extract, Save, loop
  <2> QED BY <2>1 DEF Awaiting, Expire
<1>10. CASE \/ \E call \in Calls : ToolRefuses(call)
            \/ \E call \in Calls, ok \in BOOLEAN : ToolSearches(call, ok)
            \/ \E call \in Calls, outcome \in Outcomes : ToolSaves(call, outcome)
  <2>1. UNCHANGED <<phase, turn, session>>
    BY <1>10 DEF ToolRefuses, ToolSearches, ToolSaves, loop
  <2> QED BY <2>1 DEF Awaiting, Expire
<1> QED BY <1>1, <1>2, <1>3, <1>4, <1>5, <1>6, <1>7, <1>8, <1>9, <1>10, StepIs DEF Quiet

(* Every step keeps the order of the tasks. *)
LEMMA TurnsKept ==
  ASSUME TypeInv, TurnsInv, [Next]_vars PROVE TurnsInv'
<1>1. turn \in Nat /\ turn' \in Nat
  BY TypesKept DEF TypeInv, TypeOK
<1>2. ASSUME NEW k \in DOMAIN tasks
      PROVE  /\ k \in DOMAIN tasks' /\ tasks'[k].turn = tasks[k].turn
             /\ tasks'[k].turn \in 1..turn' /\ (Awaiting' => tasks'[k].turn < turn')
  <2>1. k \in DOMAIN tasks' /\ tasks'[k].turn = tasks[k].turn
    BY TasksKeep
  <2>2. tasks[k].turn \in 1..turn /\ (Awaiting => tasks[k].turn < turn)
    BY DEF TurnsInv
  <2> QED BY <1>1, <2>1, <2>2, PhaseIs
<1>3. ASSUME NEW k \in DOMAIN tasks', k \notin DOMAIN tasks
      PROVE  /\ k = Len(tasks) + 1 /\ tasks'[k].turn = turn /\ turn \in 1..turn'
             /\ ~Awaiting'
             /\ \A j \in DOMAIN tasks : tasks[j].turn < turn
  <2>1. Expire /\ k = Len(tasks) + 1 /\ tasks'[k] = Spawned
    BY <1>3, TasksKeep
  <2>2. phase = "expired" /\ phase' = "thinking" /\ turn' = turn
    BY <2>1, PhaseIs DEF Expire
  <2>3. turn > 0 /\ \A j \in DOMAIN tasks : tasks[j].turn < turn
    BY <2>2 DEF TypeInv, TurnsInv, Awaiting
  <2> QED BY <1>1, <2>1, <2>2, <2>3 DEF Spawned, Awaiting
<1>4. ASSUME NEW j \in DOMAIN tasks', NEW k \in DOMAIN tasks', j < k
      PROVE  tasks'[j].turn < tasks'[k].turn
  <2>1. CASE k \in DOMAIN tasks
    <3>1. j \in DOMAIN tasks
      BY <1>3, <1>4, <2>1, TasksKeep
    <3> QED BY <1>2, <1>4, <2>1, <3>1 DEF TurnsInv
  <2>2. CASE k \notin DOMAIN tasks
    <3>1. j \in DOMAIN tasks
      <4>1. j = Len(tasks) + 1 => j = k
        BY <1>3, <2>2
      <4>2. Len(tasks) \in Nat
        BY DEF TypeInv, TypeOK
      <4> QED BY <1>3, <1>4, <4>1, <4>2
    <3> QED BY <1>2, <1>3, <2>2, <3>1
  <2> QED BY <2>1, <2>2
<1>5. \A k \in DOMAIN tasks' :
        tasks'[k].turn \in 1..turn' /\ (Awaiting' => tasks'[k].turn < turn')
  <2>1. ASSUME NEW k \in DOMAIN tasks', k \notin DOMAIN tasks
        PROVE  tasks'[k].turn \in 1..turn' /\ ~Awaiting'
    BY <1>3, <2>1
  <2> QED BY <1>2, <2>1
<1> QED BY <1>4, <1>5 DEF TurnsInv

(* Every step keeps the batches apart. *)
LEMMA BatchesKept ==
  ASSUME TypeInv, BatchInv, [Next]_vars PROVE BatchInv'
<1>1. turn \in Nat
  BY DEF TypeInv, TypeOK
<1>2. ASSUME NEW s \in Seq(Nat), Told(s)
      PROVE  Told(s)'
  <2>1. \A i \in DOMAIN s : s[i] \in Nat
    OBVIOUS
  <2>2. \A i \in DOMAIN s : s[i] <= turn /\ (phase # "idle" => s[i] < turn)
    BY <1>2 DEF Told
  <2>3. \/ phase = "idle" /\ turn' = turn + 1
        \/ turn' = turn /\ (phase' # "idle" => phase # "idle")
    BY PhaseIs
  <2>4. \A i \in DOMAIN s : s[i] <= turn' /\ (phase' # "idle" => s[i] < turn')
    BY <1>1, <2>1, <2>2, <2>3
  <2> QED BY <2>4 DEF Told
<1>3. session # <<>> => session.turns \in Seq(Nat) /\ Told(session.turns)
  <2>1. session # <<>> => session.turns \in Seq(1..turn)
    BY DEF TypeInv, TypeOK
  <2>2. 1..turn \subseteq Nat
    BY <1>1
  <2> QED BY <2>1, <2>2, MoreOf DEF BatchInv
<1>4. \A k \in DOMAIN tasks : tasks[k].batch \in Seq(Nat) /\ Told(tasks[k].batch)
  <2>1. \A k \in DOMAIN tasks : tasks[k] \in Task
    BY TasksKeep
  <2> QED BY <2>1 DEF Task, BatchInv
(* What is in a batch that was there, and in the one that is new. *)
<1>5. \A k \in DOMAIN tasks : k \in DOMAIN tasks' /\ tasks'[k].batch = tasks[k].batch
  BY TasksKeep
<1>6. ASSUME NEW k \in DOMAIN tasks', k \notin DOMAIN tasks
      PROVE  /\ k = Len(tasks) + 1 /\ session # <<>> /\ tasks'[k].batch = session.turns
             /\ session' # <<>> /\ session'.turns = <<>>
  <2>1. Expire /\ k = Len(tasks) + 1 /\ tasks'[k] = Spawned
    BY <1>6, TasksKeep
  <2>2. session # <<>>
    BY <2>1 DEF Expire, TypeInv
  <2>3. session' # <<>> /\ session'.turns = <<>>
    BY <2>1, PhaseIs
  <2> QED BY <2>1, <2>2, <2>3 DEF Spawned
<1>7. \A k \in DOMAIN tasks' : Told(tasks[k].batch)'
  <2> TAKE k \in DOMAIN tasks'
  <2>1. PICK s \in Seq(Nat) : s = tasks'[k].batch /\ Told(s)
    BY <1>3, <1>4, <1>5, <1>6
  <2>2. Told(s)'
    BY <1>2, <2>1
  <2> QED BY <2>1, <2>2 DEF Told
<1>8. \A j, k \in DOMAIN tasks' : j # k =>
        \A a \in DOMAIN tasks'[j].batch, b \in DOMAIN tasks'[k].batch :
          tasks'[j].batch[a] # tasks'[k].batch[b]
  <2> SUFFICES ASSUME NEW j \in DOMAIN tasks', NEW k \in DOMAIN tasks', j # k,
                      NEW a \in DOMAIN tasks'[j].batch, NEW b \in DOMAIN tasks'[k].batch
               PROVE  tasks'[j].batch[a] # tasks'[k].batch[b]
    OBVIOUS
  <2>1. CASE j \in DOMAIN tasks /\ k \in DOMAIN tasks
    BY <1>5, <2>1 DEF BatchInv
  <2>2. CASE j \in DOMAIN tasks /\ k \notin DOMAIN tasks
    BY <1>5, <1>6, <2>2 DEF BatchInv
  <2>3. CASE j \notin DOMAIN tasks /\ k \in DOMAIN tasks
    BY <1>5, <1>6, <2>3 DEF BatchInv
  <2>4. CASE j \notin DOMAIN tasks /\ k \notin DOMAIN tasks
    BY <1>6, <2>4
  <2> QED BY <2>1, <2>2, <2>3, <2>4
<1>9. session' # <<>> =>
        /\ Told(session.turns)'
        /\ \A k \in DOMAIN tasks' :
             \A a \in DOMAIN tasks'[k].batch, b \in DOMAIN session'.turns :
               tasks'[k].batch[a] # session'.turns[b]
  <2> SUFFICES ASSUME session' # <<>>
               PROVE  /\ Told(session.turns)'
                      /\ \A k \in DOMAIN tasks' :
                           \A a \in DOMAIN tasks'[k].batch, b \in DOMAIN session'.turns :
                             tasks'[k].batch[a] # session'.turns[b]
    OBVIOUS
  <2>1. CASE session'.turns = <<>>
    BY <2>1 DEF Told
  <2>2. CASE session # <<>> /\ session'.turns = session.turns /\ session'.turns # <<>>
    <3>1. PICK s \in Seq(Nat) : s = session.turns /\ Told(s)
      BY <1>3, <2>2
    <3>2. Told(s)'
      BY <1>2, <3>1
    <3>3. \A k \in DOMAIN tasks' : k \in DOMAIN tasks
      BY <1>6, <2>2
    <3> QED BY <1>5, <2>2, <3>1, <3>2, <3>3 DEF Told, BatchInv
  <2>3. CASE /\ phase = "thinking" /\ phase' = "idle" /\ session # <<>> /\ turn' = turn
             /\ session'.turns = Append(session.turns, turn)
    <3>1. \A k \in DOMAIN tasks' : k \in DOMAIN tasks
      <4>1. ~Expire
        BY <2>3 DEF Expire
      <4> QED BY <4>1, TasksKeep
    <3>2. PICK s \in Seq(Nat) : s = session.turns /\ Told(s)
      BY <1>3, <2>3
    <3>3. /\ \A i \in DOMAIN Append(s, turn) : i \in DOMAIN s \/ i = Len(s) + 1
          /\ \A i \in DOMAIN s : Append(s, turn)[i] = s[i]
          /\ Append(s, turn)[Len(s) + 1] = turn
      BY <1>1
    <3>4. \A i \in DOMAIN Append(s, turn) : Append(s, turn)[i] <= turn
      BY <1>1, <3>2, <3>3 DEF Told
    <3>5. \A k \in DOMAIN tasks : \A a \in DOMAIN tasks[k].batch : tasks[k].batch[a] # turn
      <4>1. \A k \in DOMAIN tasks : \A a \in DOMAIN tasks[k].batch :
              tasks[k].batch[a] \in Nat /\ tasks[k].batch[a] < turn
        BY <1>4, <2>3 DEF Told
      <4> QED BY <1>1, <4>1
    <3>6. Told(session.turns)'
      BY <2>3, <3>2, <3>4 DEF Told
    <3>7. \A k \in DOMAIN tasks : \A a \in DOMAIN tasks[k].batch, b \in DOMAIN s :
            tasks[k].batch[a] # s[b]
      BY <2>3, <3>2 DEF BatchInv
    <3>8. \A k \in DOMAIN tasks' :
            \A a \in DOMAIN tasks'[k].batch, b \in DOMAIN Append(s, turn) :
               tasks'[k].batch[a] # Append(s, turn)[b]
      BY <1>5, <3>1, <3>3, <3>5, <3>7
    <3> QED BY <2>3, <3>2, <3>6, <3>8
  <2> QED BY <2>1, <2>2, <2>3, PhaseIs
<1> QED BY <1>7, <1>8, <1>9 DEF BatchInv

(* A task goes forward, whatever became of it. *)
LEMMA TasksGoOn ==
  ASSUME TypeInv, [Next]_vars
  PROVE  \A k \in DOMAIN tasks : tasks[k].next \in Nat /\ tasks[k].next <= tasks'[k].next
<1>1. \A k \in DOMAIN tasks : tasks[k].next \in Nat
  <2>1. \A k \in DOMAIN tasks : tasks[k] \in Task
    BY TasksKeep
  <2> QED BY <2>1 DEF Task
<1>2. CASE \A k \in DOMAIN tasks : tasks'[k] = tasks[k]
  BY <1>1, <1>2
<1>3. CASE Expire
  <2>1. tasks' = Append(tasks, Spawned) /\ tasks \in Seq(Task)
    BY <1>3 DEF Expire, TypeInv, TypeOK
  <2>2. \A k \in DOMAIN tasks : tasks'[k] = tasks[k]
    BY <2>1
  <2> QED BY <1>2, <2>2
<1>4. CASE \E k \in DOMAIN tasks, ok \in BOOLEAN, answer \in Extractions :
             Extract(k, ok, answer)
  <2>1. PICK k \in DOMAIN tasks, ok \in BOOLEAN, answer \in Extractions :
               Extract(k, ok, answer)
    BY <1>4
  <2>2. /\ \A j \in DOMAIN tasks : j # k => tasks'[j] = tasks[j]
        /\ tasks'[k].next = tasks[k].next
    BY <2>1, ExtractedIs
  <2> QED BY <1>1, <2>2
<1>5. CASE \E k \in DOMAIN tasks, outcome \in Outcomes : Save(k, outcome)
  <2>1. PICK k \in DOMAIN tasks, outcome \in Outcomes : Save(k, outcome)
    BY <1>5
  <2>2. /\ \A j \in DOMAIN tasks : j # k => tasks'[j] = tasks[j]
        /\ tasks'[k].next \in {tasks[k].next, tasks[k].next + 1}
    BY <2>1, SavedIs
  <2> QED BY <1>1, <2>2
<1>6. CASE Restart
  <2>1. \A k \in DOMAIN tasks : tasks'[k].next = tasks[k].next
    BY <1>6, KilledIs
  <2> QED BY <1>1, <2>1
<1>7. CASE \/ \E call \in Calls : ToolRefuses(call)
           \/ \E call \in Calls, ok \in BOOLEAN : ToolSearches(call, ok)
           \/ \E call \in Calls, outcome \in Outcomes : ToolSaves(call, outcome)
  BY <1>2, <1>7 DEF ToolRefuses, ToolSearches, ToolSaves
<1> QED BY <1>2, <1>3, <1>4, <1>5, <1>6, <1>7, StepIs, QuietIs

(* What recall has it keeps, and what it gets is a fact of a task or of a call. *)
LEMMA StoreIs ==
  ASSUME TypeInv, [Next]_vars
  PROVE  /\ \A m \in DOMAIN store :
              m \in DOMAIN store' /\ store'[m] = store[m] /\ m < Len(store) + 1 /\ m \in Nat
         /\ \A m \in DOMAIN store' : m \notin DOMAIN store =>
              /\ m = Len(store) + 1
              /\ \/ /\ results' = results
                    /\ \E k \in DOMAIN tasks : /\ store'[m] = FactOf(k)
                                               /\ tasks'[k].next = tasks[k].next + 1
                 \/ /\ store'[m].turn = 0 /\ store'[m].call = Len(results) + 1
                    /\ \E call \in Calls, outcome \in Outcomes :
                         ToolSaves(call, outcome) /\ store'[m] = Noted(call)
<1>1. store \in Seq(Memory)
  BY DEF TypeInv, TypeOK
<1>2. \A m \in DOMAIN store : m < Len(store) + 1 /\ m \in Nat
  BY <1>1
<1>3. CASE store' = store
  BY <1>2, <1>3
<1>4. ASSUME NEW x \in Memory, store' = Append(store, x)
      PROVE  /\ \A m \in DOMAIN store : m \in DOMAIN store' /\ store'[m] = store[m]
             /\ \A m \in DOMAIN store' : m \notin DOMAIN store =>
                  m = Len(store) + 1 /\ store'[m] = x
  BY <1>1, <1>4
<1>5. CASE \E k \in DOMAIN tasks, outcome \in Outcomes : Save(k, outcome)
  <2>1. PICK k \in DOMAIN tasks, outcome \in Outcomes : Save(k, outcome)
    BY <1>5
  <2>2. /\ tasks[k].phase = "saving"
        /\ store' = store \/ (store' = Append(store, FactOf(k)) /\ outcome # "torn")
        /\ outcome # "torn" => tasks'[k].next = tasks[k].next + 1
    BY <2>1, SavedIs
  <2>3. results' = results
    BY <2>1 DEF Save
  <2>4. FactOf(k) \in Memory
    BY <2>2, FactIsMemory
  <2>5. CASE store' = Append(store, FactOf(k)) /\ outcome # "torn"
    <3>1. PICK x \in Memory : x = FactOf(k)
      BY <2>4
    <3>2. /\ \A m \in DOMAIN store : m \in DOMAIN store' /\ store'[m] = store[m]
          /\ \A m \in DOMAIN store' : m \notin DOMAIN store =>
                  m = Len(store) + 1 /\ store'[m] = x
      BY <1>4, <2>5, <3>1
    <3> QED BY <1>2, <2>2, <2>3, <2>5, <3>1, <3>2
  <2> QED BY <1>3, <2>2, <2>5
<1>6. CASE \E call \in Calls, outcome \in Outcomes : ToolSaves(call, outcome)
  <2>1. PICK call \in Calls, outcome \in Outcomes : ToolSaves(call, outcome)
    BY <1>6
  <2>2. /\ Noted(call) \in Memory /\ Noted(call).turn = 0
        /\ Noted(call).call = Len(results) + 1
        /\ store' = store \/ store' = Append(store, Noted(call))
    BY <2>1, NotedIs
  <2>3. CASE store' = Append(store, Noted(call))
    <3>1. PICK x \in Memory : x = Noted(call)
      BY <2>2
    <3>2. /\ \A m \in DOMAIN store : m \in DOMAIN store' /\ store'[m] = store[m]
          /\ \A m \in DOMAIN store' : m \notin DOMAIN store =>
                  m = Len(store) + 1 /\ store'[m] = x
      BY <1>4, <2>3, <3>1
    <3> QED BY <1>2, <2>1, <2>2, <3>1, <3>2
  <2> QED BY <1>3, <2>2, <2>3
<1>7. CASE \/ Expire
           \/ \E k \in DOMAIN tasks, ok \in BOOLEAN, answer \in Extractions :
                Extract(k, ok, answer)
           \/ \E call \in Calls : ToolRefuses(call)
           \/ \E call \in Calls, ok \in BOOLEAN : ToolSearches(call, ok)
           \/ Restart
  BY <1>3, <1>7 DEF Expire, Extract, ToolRefuses, ToolSearches, Restart
<1> QED BY <1>3, <1>5, <1>6, <1>7, StepIs, QuietIs

(* Nothing is of a turn at first. *)
LEMMA StoreStart ==
  ASSUME Init PROVE StoreInv /\ TurnsInv /\ BatchInv /\ SavedSoFar
<1>1. tasks = <<>> /\ session = <<>>
  BY DEF Init
<1>2. \A m \in DOMAIN store : store[m].turn = 0
  BY StoresAssumption DEF Init
<1>3. StoreInv
  BY <1>2 DEF StoreInv
<1>4. TurnsInv /\ BatchInv /\ SavedSoFar
  BY <1>1 DEF TurnsInv, BatchInv, SavedSoFar
<1> QED BY <1>3, <1>4

(* Every step keeps what is stored in order. *)
LEMMA StoreKept ==
  ASSUME TypeInv, TurnsInv, StoreInv, [Next]_vars PROVE StoreInv'
<1>1. \A m \in DOMAIN store : store[m].turn \in Nat /\ store[m].fact \in Nat
  <2>1. \A m \in DOMAIN store : store[m] \in Memory
    BY DEF TypeInv, TypeOK
  <2> QED BY <2>1 DEF Memory
<1>2. ASSUME NEW m \in DOMAIN store', m \in DOMAIN store, store'[m].turn # 0
      PROVE  \E k \in DOMAIN tasks' :
               tasks'[k].turn = store'[m].turn /\ store'[m].fact < tasks'[k].next
  <2>1. store'[m] = store[m]
    BY <1>2, StoreIs
  <2>2. PICK k \in DOMAIN tasks :
               tasks[k].turn = store[m].turn /\ store[m].fact < tasks[k].next
    BY <1>2, <2>1 DEF StoreInv
  <2>3. k \in DOMAIN tasks' /\ tasks'[k].turn = tasks[k].turn
    BY TasksKeep
  <2>4. /\ tasks[k].next \in Nat /\ tasks[k].next <= tasks'[k].next
        /\ tasks'[k].next \in Nat /\ store[m].fact \in Nat
    <3>1. tasks'[k] \in Task
      BY <2>3, TypesKept DEF TypeInv, TypeOK
    <3>2. tasks'[k].next \in Nat
      BY <3>1 DEF Task
    <3> QED BY <1>1, <1>2, <3>2, TasksGoOn
  <2>5. store[m].fact < tasks'[k].next
    BY <2>2, <2>4
  <2> QED BY <2>1, <2>2, <2>3, <2>5
(* A fact of a task comes after those of it that are stored. *)
<1>3. ASSUME NEW m \in DOMAIN store', m \notin DOMAIN store, store'[m].turn # 0
      PROVE  /\ m = Len(store) + 1
             /\ \E k \in DOMAIN tasks' :
                  tasks'[k].turn = store'[m].turn /\ store'[m].fact < tasks'[k].next
             /\ \A i \in DOMAIN store : store[i].turn = store'[m].turn =>
                  store[i].fact < store'[m].fact
  <2>1. PICK k \in DOMAIN tasks :
               store'[m] = FactOf(k) /\ tasks'[k].next = tasks[k].next + 1
    BY <1>3, StoreIs
  <2>2. store'[m].turn = tasks[k].turn /\ store'[m].fact = tasks[k].next
    BY <2>1 DEF FactOf
  <2>3. k \in DOMAIN tasks' /\ tasks'[k].turn = tasks[k].turn
    BY TasksKeep
  <2>4. tasks[k].next \in Nat
    BY TasksGoOn
  <2>5. ASSUME NEW i \in DOMAIN store, store[i].turn = store'[m].turn
        PROVE  store[i].fact < store'[m].fact
    <3>1. PICK j \in DOMAIN tasks :
                 tasks[j].turn = store[i].turn /\ store[i].fact < tasks[j].next
      BY <1>3, <2>5 DEF StoreInv
    <3>2. tasks[j].turn = tasks[k].turn
      BY <2>2, <2>5, <3>1
    <3>3. j = k
      <4>1. j \in Nat /\ k \in Nat
        BY TasksKeep
      <4>2. tasks[j].turn \in Nat
        BY DEF TurnsInv
      <4> QED BY <3>2, <4>1, <4>2 DEF TurnsInv
    <3> QED BY <2>2, <3>1, <3>3
  <2>6. m = Len(store) + 1
    BY <1>3, StoreIs
  <2>7. store'[m].fact < tasks'[k].next
    BY <2>1, <2>2, <2>4
  <2> QED BY <2>2, <2>3, <2>5, <2>6, <2>7
<1>4. ASSUME NEW i \in DOMAIN store', NEW j \in DOMAIN store',
             i < j, store'[i].turn = store'[j].turn, store'[i].turn # 0
      PROVE  store'[i].fact < store'[j].fact
  <2>1. CASE j \in DOMAIN store
    <3>1. i \in DOMAIN store
      <4>1. j < Len(store) + 1 /\ j \in Nat
        BY <2>1, StoreIs
      <4>2. i \notin DOMAIN store => i = Len(store) + 1
        BY StoreIs
      <4>3. Len(store) \in Nat
        BY DEF TypeInv, TypeOK
      <4> QED BY <1>4, <4>1, <4>2, <4>3
    <3>2. store'[i] = store[i] /\ store'[j] = store[j]
      BY <2>1, <3>1, StoreIs
    <3> QED BY <1>4, <2>1, <3>1, <3>2 DEF StoreInv
  <2>2. CASE j \notin DOMAIN store
    <3>1. j = Len(store) + 1
      BY <2>2, StoreIs
    <3>2. i \in DOMAIN store
      <4>1. i \notin DOMAIN store => i = Len(store) + 1
        BY StoreIs
      <4>2. Len(store) \in Nat
        BY DEF TypeInv, TypeOK
      <4> QED BY <1>4, <3>1, <4>1, <4>2
    <3>3. store'[i] = store[i]
      BY <3>2, StoreIs
    <3> QED BY <1>3, <1>4, <2>2, <3>2, <3>3
  <2> QED BY <2>1, <2>2
<1> QED BY <1>2, <1>3, <1>4 DEF StoreInv

(* A fact stays stored. *)
LEMMA StaysStored ==
  ASSUME TypeInv, [Next]_vars, NEW k \in DOMAIN tasks, NEW i \in DOMAIN tasks[k].facts,
         tasks'[k].facts = tasks[k].facts, StoredAs(tasks[k], i)
  PROVE  StoredAs(tasks[k], i)'
<1>1. tasks'[k].turn = tasks[k].turn /\ tasks'[k].date = tasks[k].date
  BY TasksKeep
<1>2. PICK m \in DOMAIN store :
        /\ store[m].turn = tasks[k].turn /\ store[m].fact = i
        /\ store[m].subject = SubjectFor(tasks[k].facts[i].hint, tasks[k].date)
  BY DEF StoredAs
<1>3. m \in DOMAIN store' /\ store'[m] = store[m]
  BY StoreIs
<1> QED BY <1>1, <1>2, <1>3 DEF StoredAs

(* What is known of one task. *)
SavedOf(k) ==
  /\ tasks[k].phase = "extracting" => tasks[k].facts = <<>>
  /\ tasks[k].phase = "done" => \A i \in DOMAIN tasks[k].facts : i < tasks[k].next
  /\ \A i \in DOMAIN tasks[k].facts :
       /\ Kept(tasks[k].facts[i])
       /\ i < tasks[k].next /\ i \notin tasks[k].refused => StoredAs(tasks[k], i)

(* A task that stands still, or is killed, has saved what it had. *)
LEMMA SavedSame ==
  ASSUME TypeInv, [Next]_vars, NEW k \in DOMAIN tasks, SavedOf(k),
         \A f \in {"facts", "next", "refused"} : tasks'[k][f] = tasks[k][f],
         tasks'[k].phase \in {tasks[k].phase, "dead"}
  PROVE  SavedOf(k)'
<1>1. \A i \in DOMAIN tasks[k].facts : StoredAs(tasks[k], i) => StoredAs(tasks[k], i)'
  BY StaysStored
<1>2. /\ tasks'[k].facts = tasks[k].facts /\ tasks'[k].next = tasks[k].next
      /\ tasks'[k].refused = tasks[k].refused
  OBVIOUS
<1>3. /\ tasks'[k].phase = "extracting" => tasks'[k].facts = <<>>
      /\ tasks'[k].phase = "done" => \A i \in DOMAIN tasks'[k].facts : i < tasks'[k].next
  BY <1>2 DEF SavedOf
<1>4. \A i \in DOMAIN tasks'[k].facts :
       /\ Kept(tasks'[k].facts[i])
       /\ i < tasks'[k].next /\ i \notin tasks'[k].refused => StoredAs(tasks[k], i)'
  BY <1>1, <1>2 DEF SavedOf
<1> QED BY <1>3, <1>4 DEF SavedOf

(* Every step keeps what is known of every task. *)
LEMMA SavedKept ==
  ASSUME TypeInv, SavedSoFar, [Next]_vars PROVE SavedSoFar'
<1>1. \A k \in DOMAIN tasks : SavedOf(k)
  BY DEF SavedSoFar, SavedOf
<1>2. ASSUME NEW k \in DOMAIN tasks, tasks'[k] = tasks[k]
      PROVE  SavedOf(k)'
  BY <1>1, <1>2, SavedSame
<1>3. ASSUME NEW k \in DOMAIN tasks', k \notin DOMAIN tasks
      PROVE  SavedOf(k)'
  <2>1. tasks'[k] = Spawned
    BY <1>3, TasksKeep
  <2>2. tasks'[k].phase = "extracting" /\ tasks'[k].facts = <<>>
    BY <2>1 DEF Spawned
  <2> QED BY <2>2 DEF SavedOf
<1>4. ASSUME NEW k \in DOMAIN tasks, NEW ok \in BOOLEAN, NEW answer \in Extractions,
             Extract(k, ok, answer)
      PROVE  SavedOf(k)'
  <2>1. /\ tasks[k].phase = "extracting" /\ tasks'[k].next = tasks[k].next
        /\ \/ tasks'[k].phase = "done" /\ tasks'[k].facts = tasks[k].facts
           \/ tasks'[k].phase = "saving" /\ tasks'[k].facts = Facts(answer)
    BY <1>4, ExtractedIs
  <2>2. CASE tasks'[k].phase = "done" /\ tasks'[k].facts = tasks[k].facts
    <3>1. tasks[k].facts = <<>>
      BY <1>1, <2>1 DEF SavedOf
    <3> QED BY <2>2, <3>1 DEF SavedOf
  <2>3. CASE tasks'[k].phase = "saving" /\ tasks'[k].facts = Facts(answer)
    <3>1. tasks'[k].next = 1
      BY <2>1 DEF TypeInv
    <3>2. /\ Facts(answer) \in Seq(Line)
          /\ \A i \in DOMAIN Facts(answer) : Kept(Facts(answer)[i])
      BY FactsAre
    <3>3. \A i \in DOMAIN Facts(answer) : ~(i < 1)
      BY <3>2
    <3>4. \A i \in DOMAIN tasks'[k].facts :
            Kept(tasks'[k].facts[i]) /\ ~(i < tasks'[k].next)
      BY <2>3, <3>1, <3>2, <3>3
    <3> QED BY <2>3, <3>4 DEF SavedOf
  <2> QED BY <2>1, <2>2, <2>3
<1>5. ASSUME NEW k \in DOMAIN tasks, NEW outcome \in Outcomes, Save(k, outcome)
      PROVE  SavedOf(k)'
  <2>1. /\ tasks'[k].facts = tasks[k].facts /\ tasks[k].next \in DOMAIN tasks[k].facts
        /\ tasks'[k].turn = tasks[k].turn /\ tasks'[k].date = tasks[k].date
        /\ tasks[k].phase = "saving"
        /\ store' = IF outcome \in {"saved", "unnamed"} THEN Append(store, FactOf(k))
                    ELSE store
    BY <1>5, SavedIs
  <2>2. CASE outcome = "torn"
    <3>1. /\ tasks'[k].next = tasks[k].next /\ tasks'[k].refused = tasks[k].refused
          /\ tasks'[k].phase = "dead"
      BY <1>5, <2>2, SavedIs
    <3> QED BY <1>1, <2>1, <3>1, SavedSame
  <2>3. CASE outcome # "torn"
    <3>1. /\ tasks'[k].next = tasks[k].next + 1
          /\ tasks'[k].refused = tasks[k].refused
                                 \cup (IF outcome = "saved" THEN {} ELSE {tasks[k].next})
          /\ tasks'[k].phase = IF tasks[k].next = Len(tasks[k].facts) THEN "done"
                               ELSE "saving"
      BY <1>5, <2>3, SavedIs
    <3>2. tasks[k].facts \in Seq(Line)
      <4>1. tasks[k] \in Task
        BY TasksKeep
      <4> QED BY <4>1 DEF Task
    <3>3. /\ tasks[k].next \in Nat
          /\ \A i \in DOMAIN tasks[k].facts : i \in 1..Len(tasks[k].facts)
      BY <2>1, <3>2
    <3>4. ASSUME NEW i \in DOMAIN tasks[k].facts,
                 i < tasks'[k].next, i \notin tasks'[k].refused
          PROVE  StoredAs(tasks[k], i)'
      <4>1. CASE i < tasks[k].next
        <5>1. i \notin tasks[k].refused
          BY <3>1, <3>4
        <5>2. StoredAs(tasks[k], i)
          BY <1>1, <4>1, <5>1 DEF SavedOf
        <5> QED BY <2>1, <5>2, StaysStored
      <4>2. CASE i = tasks[k].next
        <5>1. outcome = "saved"
          BY <3>1, <3>4, <4>2
        <5>2. store' = Append(store, FactOf(k)) /\ store \in Seq(Memory)
          BY <2>1, <5>1 DEF TypeInv, TypeOK
        <5>3. Len(store) + 1 \in DOMAIN store' /\ store'[Len(store) + 1] = FactOf(k)
          BY <5>2
        <5>4. /\ FactOf(k).turn = tasks[k].turn /\ FactOf(k).fact = i
              /\ FactOf(k).subject = SubjectFor(tasks[k].facts[i].hint, tasks[k].date)
          BY <4>2 DEF FactOf
        <5>5. \E m \in DOMAIN store' :
                /\ store'[m].turn = tasks'[k].turn /\ store'[m].fact = i
                /\ store'[m].subject = SubjectFor(tasks'[k].facts[i].hint, tasks'[k].date)
          BY <2>1, <5>3, <5>4
        <5> QED BY <5>5 DEF StoredAs
      <4> QED BY <3>1, <3>3, <3>4, <4>1, <4>2
    <3>5. tasks'[k].phase = "done" => \A i \in DOMAIN tasks'[k].facts : i < tasks'[k].next
      BY <2>1, <3>1, <3>3
    <3>6. tasks'[k].phase # "extracting"
      BY <3>1
    <3>7. \A i \in DOMAIN tasks'[k].facts : Kept(tasks'[k].facts[i])
      BY <1>1, <2>1 DEF SavedOf
    <3> QED BY <2>1, <3>4, <3>5, <3>6, <3>7 DEF SavedOf
  <2> QED BY <2>2, <2>3
<1>6. ASSUME NEW k \in DOMAIN tasks PROVE SavedOf(k)'
  <2>1. CASE tasks' = tasks
    BY <1>2, <2>1
  <2>2. CASE Expire
    <3>1. tasks' = Append(tasks, Spawned) /\ tasks \in Seq(Task)
      BY <2>2 DEF Expire, TypeInv, TypeOK
    <3>2. tasks'[k] = tasks[k]
      BY <3>1
    <3> QED BY <1>2, <3>2
  <2>3. CASE \E j \in DOMAIN tasks, ok \in BOOLEAN, answer \in Extractions :
               Extract(j, ok, answer)
    <3>1. PICK j \in DOMAIN tasks, ok \in BOOLEAN, answer \in Extractions :
                 Extract(j, ok, answer)
      BY <2>3
    <3>2. k # j => tasks'[k] = tasks[k]
      BY <3>1, ExtractedIs
    <3> QED BY <1>2, <1>4, <3>1, <3>2
  <2>4. CASE \E j \in DOMAIN tasks, outcome \in Outcomes : Save(j, outcome)
    <3>1. PICK j \in DOMAIN tasks, outcome \in Outcomes : Save(j, outcome)
      BY <2>4
    <3>2. k # j => tasks'[k] = tasks[k]
      BY <3>1, SavedIs
    <3> QED BY <1>2, <1>5, <3>1, <3>2
  <2>5. CASE Restart
    <3>1. /\ \A f \in {"facts", "next", "refused"} : tasks'[k][f] = tasks[k][f]
          /\ tasks'[k].phase \in {tasks[k].phase, "dead"}
      BY <2>5, KilledIs
    <3> QED BY <1>1, <3>1, SavedSame
  <2>6. CASE \/ \E call \in Calls : ToolRefuses(call)
             \/ \E call \in Calls, ok \in BOOLEAN : ToolSearches(call, ok)
             \/ \E call \in Calls, outcome \in Outcomes : ToolSaves(call, outcome)
    BY <2>1, <2>6 DEF ToolRefuses, ToolSearches, ToolSaves
  <2> QED BY <2>1, <2>2, <2>3, <2>4, <2>5, <2>6, StepIs, QuietIs
<1>7. \A k \in DOMAIN tasks' : SavedOf(k)'
  BY <1>3, <1>6
<1> QED BY <1>7 DEF SavedSoFar, SavedOf

(* The inductive invariant behind WritebackIsExact. *)
WritebackInv == TypeInv /\ TurnsInv /\ StoreInv /\ SavedSoFar /\ BatchInv

(* It holds at first. *)
LEMMA WritebackStart ==
  ASSUME Init PROVE WritebackInv
BY TypesStart, StoreStart DEF WritebackInv

(* Every step keeps it. *)
LEMMA WritebackKept ==
  ASSUME WritebackInv, [Next]_vars PROVE WritebackInv'
BY TypesKept, TurnsKept, StoreKept, SavedKept, BatchesKept DEF WritebackInv

(* A line that is kept is one the floor lets through. *)
LEMMA KeptReachesFloor ==
  ASSUME NEW line \in Line, Kept(line)
  PROVE  /\ line.tag = "FACT" /\ line.hint # "" /\ ~line.blank
         /\ \/ line.confidence.kind = "nan"
            \/ /\ line.confidence.kind = "number"
               /\ line.confidence.value >= ConfidenceFloor \/ ConfidenceFloor = 0
<1> DEFINE kind == line.confidence.kind
           value == line.confidence.value
<1>1. kind \in {"number", "nan", "text"} /\ value \in Int
  BY DEF Line
<1>2. /\ line.tag = "FACT" /\ line.hint # "" /\ ~line.blank /\ kind # "text"
      /\ kind = "number" => Clamped(value) >= ConfidenceFloor
  BY DEF Kept
<1> HIDE DEF kind, value
<1>3. ConfidenceFloor \in Nat
  BY MemoryAssumption
<1>4. Clamped(value) >= ConfidenceFloor => value >= ConfidenceFloor \/ ConfidenceFloor = 0
  BY <1>1, <1>3 DEF Clamped
<1> QED BY <1>1, <1>2, <1>4 DEF kind, value

(* It implies the property. *)
LEMMA WritebackIs ==
  ASSUME WritebackInv PROVE WritebackIsExact
<1> USE DEF WritebackInv
<1>1. \A k \in DOMAIN tasks : tasks[k].facts \in Seq(Line)
  <2>1. \A k \in DOMAIN tasks : tasks[k] \in Task
    BY DEF TypeInv, TypeOK
  <2> QED BY <2>1 DEF Task
<1>2. FactsWrittenOnce
  BY DEF FactsWrittenOnce, StoreInv, BatchInv
<1>3. RefusalsCostOneFact
  <2> SUFFICES ASSUME NEW k \in DOMAIN tasks, tasks[k].phase = "done",
                      NEW i \in DOMAIN tasks[k].facts, i \notin tasks[k].refused
               PROVE  StoredAs(tasks[k], i)
    BY DEF RefusalsCostOneFact, StoredAs
  <2> QED BY DEF SavedSoFar
<1>4. OnlyFactsAreSaved
  <2> SUFFICES ASSUME NEW k \in DOMAIN tasks, NEW i \in DOMAIN tasks[k].facts
               PROVE  LET fact == tasks[k].facts[i]
                      IN  /\ fact.tag = "FACT" /\ fact.hint # "" /\ ~fact.blank
                          /\ \/ fact.confidence.kind = "nan"
                             \/ /\ fact.confidence.kind = "number"
                                /\ \/ fact.confidence.value >= ConfidenceFloor
                                   \/ ConfidenceFloor = 0
    BY DEF OnlyFactsAreSaved
  <2>1. tasks[k].facts[i] \in Line
    BY <1>1
  <2>2. Kept(tasks[k].facts[i])
    BY DEF SavedSoFar
  <2> QED BY <2>1, <2>2, KeptReachesFloor
<1> QED BY <1>2, <1>3, <1>4 DEF WritebackIsExact

(* WritebackIsExact: each fact found is stored once, whatever was refused, *)
(* lost or cut off beside it.                                              *)
THEOREM WritebackHolds == Spec => []WritebackIsExact
BY WritebackStart, WritebackKept, WritebackIs, PTL DEF Spec

-----------------------------------------------------------------------------

(* Every step keeps the recap one of the past. *)
LEMMA RecapKept ==
  ASSUME TypeInv, TurnsInv, StoreInv, RecapInv, [Next]_vars PROVE RecapInv'
<1>1. /\ turn \in Nat /\ since \in 0..turn /\ recap \in Seq(DOMAIN store)
      /\ RecapMax \in Nat
  BY MemoryAssumption DEF TypeInv, TypeOK
<1>2. \A i \in DOMAIN recap : recap[i] \in DOMAIN store /\ store[recap[i]].turn \in Nat
  <2>1. \A m \in DOMAIN store : store[m] \in Memory
    BY DEF TypeInv, TypeOK
  <2> QED BY <1>1, <2>1 DEF Memory
<1>3. \A m \in DOMAIN store : m \in DOMAIN store' /\ store'[m] = store[m]
  BY StoreIs
(* The recap as it was is of the past still. *)
<1>4. ASSUME recap' = recap, recalled' = recalled, since' \in Nat, since <= since'
      PROVE  RecapIsOfThePast'
  <2>1. \A i \in DOMAIN recap : store'[recap[i]] = store[recap[i]]
    BY <1>2, <1>3
  <2>2. RecapLagsBehind'
    <3>1. \A i \in DOMAIN recap : store[recap[i]].turn < since
      BY DEF RecapInv, RecapIsOfThePast, RecapLagsBehind
    <3>2. \A i \in DOMAIN recap : store[recap[i]].turn < since'
      BY <1>1, <1>2, <1>4, <3>1
    <3> QED BY <1>4, <2>1, <3>2 DEF RecapLagsBehind
  <2>3. RecapIsOfThreads'
    BY <1>4, <2>1 DEF RecapInv, RecapIsOfThePast, RecapIsOfThreads
  <2> QED BY <2>2, <2>3 DEF RecapIsOfThePast
<1>5. CASE \E gap \in {"below", "at", "above"}, goodbye \in BOOLEAN : Begin(gap, goodbye)
  <2>1. /\ recap' = recap /\ recalled' = recalled /\ turn' = turn + 1
        /\ \/ ~Starting' /\ since' = since
           \/ since' = turn + 1
    BY <1>5 DEF Begin, Starting
  <2>2. since' \in Nat /\ since <= since'
    BY <1>1, <2>1
  <2> QED BY <1>4, <2>1, <2>2 DEF RecapInv
<1>6. CASE RecapFails \/ Restart
  <2>1. recap' = <<>> /\ recalled' = FALSE /\ ~Starting'
    BY <1>6 DEF RecapFails, Restart, Starting, SessionStarted
  <2> QED BY <1>1, <2>1 DEF RecapInv, RecapIsOfThePast, RecapLagsBehind, RecapIsOfThreads
(* What a query finds was stored by tasks of the turns before this one. *)
<1>7. CASE \E ids \in Ranked(RecapMax + 1) : Recap(ids)
  <2>1. PICK ids \in Ranked(RecapMax + 1) : Recap(ids)
    BY <1>7
  <2>2. /\ Starting /\ ~Starting' /\ recalled' = TRUE
        /\ recap' = Chosen(ids) /\ since' = since /\ store' = store
    BY <2>1 DEF Recap, Chosen, Starting, SessionStarted
  <2>3. /\ Chosen(ids) \in Seq(DOMAIN store) /\ Len(Chosen(ids)) <= RecapMax
        /\ \A i \in DOMAIN Chosen(ids) : store[Chosen(ids)[i]].subject.thread
    BY ChosenAre DEF TypeInv, TypeOK
  <2>4. since = turn /\ turn > 0
    BY <2>2 DEF RecapInv, TypeInv, Starting
  <2>5. ASSUME NEW m \in DOMAIN store PROVE store[m].turn < since
    <3>1. CASE store[m].turn = 0
      BY <1>1, <2>4, <3>1
    <3>2. CASE store[m].turn # 0
      <4>1. PICK k \in DOMAIN tasks : tasks[k].turn = store[m].turn
        BY <3>2 DEF StoreInv
      <4>2. tasks[k].turn < turn
        BY <2>2 DEF TurnsInv, Awaiting, Starting
      <4> QED BY <2>4, <4>1, <4>2
    <3> QED BY <3>1, <3>2
  <2>6. \A i \in DOMAIN Chosen(ids) : store[Chosen(ids)[i]].turn < since
    BY <2>3, <2>5
  <2> QED BY <2>2, <2>3, <2>6 DEF RecapInv, RecapIsOfThePast, RecapLagsBehind,
                                  RecapIsOfThreads
<1>8. CASE \/ Midnight
           \/ Extend
           \/ \E published \in BOOLEAN : Reply(published)
           \/ UNCHANGED vars
           \/ Expire
  <2>1. /\ UNCHANGED <<recap, recalled, since, turn>>
        /\ Starting' => Starting
    BY <1>8 DEF Midnight, Extend, Reply, vars, loop, Expire, Starting
  <2> QED BY <1>1, <1>4, <2>1 DEF RecapInv
<1>9. CASE \/ \E k \in DOMAIN tasks, ok \in BOOLEAN, answer \in Extractions :
                Extract(k, ok, answer)
           \/ \E k \in DOMAIN tasks, outcome \in Outcomes : Save(k, outcome)
           \/ \E call \in Calls : ToolRefuses(call)
           \/ \E call \in Calls, ok \in BOOLEAN : ToolSearches(call, ok)
           \/ \E call \in Calls, outcome \in Outcomes : ToolSaves(call, outcome)
  <2>1. UNCHANGED <<phase, recap, recalled, since, turn>>
    BY <1>9 DEF Extract, Save, ToolRefuses, ToolSearches, ToolSaves, loop
  <2> QED BY <1>1, <1>4, <2>1 DEF RecapInv, Starting
<1> QED BY <1>5, <1>6, <1>7, <1>8, <1>9, StepIs DEF Quiet

(* RecapIsOfThePast: a recap is of threads stored before the session it    *)
(* opens, whatever recall answers and whatever is under way beside it.     *)
THEOREM RecapHolds == Spec => []RecapIsOfThePast
<1> DEFINE Inv == TypeInv /\ TurnsInv /\ StoreInv /\ RecapInv
<1>1. Init => Inv
  <2>1. Init => RecapInv
    <3>1. Init => phase = "idle" /\ recap = <<>> /\ RecapMax \in Nat
      BY MemoryAssumption DEF Init
    <3> QED BY <3>1 DEF RecapInv, Starting, RecapIsOfThePast, RecapLagsBehind,
                        RecapIsOfThreads
  <2> QED BY <2>1, TypesStart, StoreStart
<1>2. Inv /\ [Next]_vars => Inv'
  BY TypesKept, TurnsKept, StoreKept, RecapKept
<1>3. Inv => RecapIsOfThePast
  BY DEF RecapInv
<1> QED BY <1>1, <1>2, <1>3, PTL DEF Spec

(* What the user is told of one call, and the memory of it. *)
AckIsTrue(n) ==
  /\ results[n].kind = "ok" /\ results[n].call.tool = "save_fact" =>
       /\ results[n].id \in DOMAIN store
       /\ store[results[n].id].call = n
       /\ store[results[n].id].subject.hint =
            IF results[n].call.subject \in Hints THEN results[n].call.subject ELSE "profile"
  /\ results[n].kind = "bad_args" => \A m \in DOMAIN store : store[m].call # n

(* AcksAreTrue, result by result, and no memory is of a call to come. *)
Acks ==
  /\ \A m \in DOMAIN store : store[m].call <= Len(results)
  /\ \A n \in DOMAIN results : AckIsTrue(n)

(* Every step keeps the results true. *)
LEMMA AcksKept ==
  ASSUME TypeInv, Acks, [Next]_vars PROVE Acks'
<1>1. store \in Seq(Memory) /\ results \in Seq(Result) /\ Len(results) \in Nat
  BY DEF TypeInv, TypeOK
<1>2. \A m \in DOMAIN store : store[m].call \in Nat /\ store[m].call <= Len(results)
  <2>1. \A m \in DOMAIN store : store[m] \in Memory
    BY <1>1
  <2> QED BY <2>1 DEF Memory, Acks
<1>3. \A n \in DOMAIN results : n \in Nat /\ 1 <= n /\ n <= Len(results)
  BY <1>1
<1>4. \A m \in DOMAIN store : m \in DOMAIN store' /\ store'[m] = store[m]
  BY StoreIs
(* A result stays true: what is stored later is of no call or of a later one. *)
<1>5. ASSUME NEW n \in DOMAIN results, results'[n] = results[n],
             \A m \in DOMAIN store' : m \notin DOMAIN store =>
               store'[m].call = 0 \/ store'[m].call = Len(results) + 1
      PROVE  AckIsTrue(n)'
  <2>1. AckIsTrue(n)
    BY DEF Acks
  <2>2. \A m \in DOMAIN store' : m \notin DOMAIN store => store'[m].call # n
    BY <1>1, <1>3, <1>5
  <2> QED BY <1>4, <1>5, <2>1, <2>2 DEF AckIsTrue
<1>6. CASE results' = results
  <2>1. \A m \in DOMAIN store' : m \notin DOMAIN store => store'[m].call = 0
    <3> SUFFICES ASSUME NEW m \in DOMAIN store', m \notin DOMAIN store
                 PROVE  store'[m].call = 0
      OBVIOUS
    <3>1. CASE \E k \in DOMAIN tasks : store'[m] = FactOf(k)
      BY <3>1 DEF FactOf
    <3>2. CASE \E call \in Calls, outcome \in Outcomes : ToolSaves(call, outcome)
      <4>1. PICK call \in Calls, outcome \in Outcomes : ToolSaves(call, outcome)
        BY <3>2
      <4>2. Len(results') = Len(results) + 1
        <5> DEFINE r == [call |-> call,
                         kind |-> IF outcome = "saved" THEN "ok" ELSE "recall_error",
                         id |-> IF outcome = "saved" THEN Len(store) + 1 ELSE 0]
        <5>1. results' = Append(results, r)
          BY <4>1, NotedIs
        <5> HIDE DEF r
        <5> QED BY <1>1, <5>1
      <4> QED BY <1>1, <1>6, <4>2
    <3> QED BY <3>1, <3>2, StoreIs
  <2>2. \A n \in DOMAIN results' : AckIsTrue(n)'
    BY <1>5, <1>6, <2>1
  <2>3. \A m \in DOMAIN store' : store'[m].call <= Len(results')
    BY <1>1, <1>2, <1>4, <1>6, <2>1
  <2> QED BY <2>2, <2>3 DEF Acks
<1>7. ASSUME NEW r \in Result, results' = Append(results, r),
             NEW last \in Nat, last = Len(results) + 1, AckIsTrue(last)',
             \A m \in DOMAIN store' : m \notin DOMAIN store =>
               store'[m].call = 0 \/ store'[m].call = last
      PROVE  Acks'
  <2>1. /\ Len(results') = last
        /\ \A n \in DOMAIN results' : n \in DOMAIN results \/ n = last
        /\ \A n \in DOMAIN results : results'[n] = results[n]
    BY <1>1, <1>7
  <2>2. \A m \in DOMAIN store' : store'[m].call <= Len(results')
    BY <1>1, <1>2, <1>4, <1>7, <2>1
  <2>3. \A n \in DOMAIN results' : AckIsTrue(n)'
    BY <1>5, <1>7, <2>1
  <2> QED BY <2>2, <2>3 DEF Acks
<1>8. PICK last \in Nat : last = Len(results) + 1
  BY <1>1
<1>9. CASE \E call \in Calls : ToolRefuses(call)
  <2>1. PICK call \in Calls : ToolRefuses(call)
    BY <1>9
  <2>2. PICK r \in Result : r = [call |-> call, kind |-> "bad_args", id |-> 0]
    BY MemoryAssumption DEF Result
  <2>3. results' = Append(results, r) /\ store' = store
    BY <2>1, <2>2 DEF ToolRefuses, Answered
  <2>4. results'[last] = r
    BY <1>1, <1>8, <2>3
  <2>5. \A m \in DOMAIN store' : store'[m].call # last
    BY <1>1, <1>2, <1>8, <2>3
  <2>6. r.kind = "bad_args"
    BY <2>2
  <2>7. AckIsTrue(last)'
    BY <2>4, <2>5, <2>6 DEF AckIsTrue
  <2> QED BY <1>7, <1>8, <2>3, <2>7
<1>10. CASE \E call \in Calls, ok \in BOOLEAN : ToolSearches(call, ok)
  <2>1. PICK call \in Calls, ok \in BOOLEAN : ToolSearches(call, ok)
    BY <1>10
  <2>2. PICK r \in Result :
          r = [call |-> call, kind |-> IF ok THEN "ok" ELSE "recall_error", id |-> 0]
    BY MemoryAssumption DEF Result
  <2>3. results' = Append(results, r) /\ store' = store /\ call.tool = "search"
    BY <2>1, <2>2 DEF ToolSearches, Answered
  <2>4. results'[last] = r
    BY <1>1, <1>8, <2>3
  <2>5. r.kind # "bad_args" /\ r.call.tool # "save_fact"
    BY <2>2, <2>3
  <2>6. AckIsTrue(last)'
    BY <2>4, <2>5 DEF AckIsTrue
  <2> QED BY <1>7, <1>8, <2>3, <2>6
<1>11. CASE \E call \in Calls, outcome \in Outcomes : ToolSaves(call, outcome)
  <2>1. PICK call \in Calls, outcome \in Outcomes : ToolSaves(call, outcome)
    BY <1>11
  <2>2. PICK memory \in Memory : memory = Noted(call)
    BY <2>1, NotedIs
  <2>3. /\ memory.call = last
        /\ memory.subject.hint = IF call.subject \in Hints THEN call.subject ELSE "profile"
        /\ store' = IF outcome \in {"saved", "unnamed"} THEN Append(store, memory)
                    ELSE store
    BY <1>8, <2>1, <2>2, NotedIs
  <2> DEFINE told == [call |-> call,
                      kind |-> IF outcome = "saved" THEN "ok" ELSE "recall_error",
                      id |-> IF outcome = "saved" THEN Len(store) + 1 ELSE 0]
  <2>4. PICK r \in Result : r = told
    <3> DEFINE kind == IF outcome = "saved" THEN "ok" ELSE "recall_error"
               id == IF outcome = "saved" THEN Len(store) + 1 ELSE 0
    <3>1. kind \in {"ok", "bad_args", "recall_error"} /\ id \in Nat
      BY <1>1
    <3>2. told = [call |-> call, kind |-> kind, id |-> id]
      OBVIOUS
    <3> HIDE DEF kind, id, told
    <3>3. told \in Result
      BY <3>1, <3>2, MemoryAssumption DEF Result
    <3> QED BY <3>3
  <2>5. results' = Append(results, r)
    BY <2>1, <2>4, NotedIs
  <2>6. results'[last] = r
    BY <1>1, <1>8, <2>5
  <2>7. /\ r.call = call /\ r.kind = (IF outcome = "saved" THEN "ok" ELSE "recall_error")
        /\ outcome = "saved" => r.id = Len(store) + 1
    BY <2>4
  <2> HIDE DEF told
  <2>8. outcome = "saved" =>
          Len(store) + 1 \in DOMAIN store' /\ store'[Len(store) + 1] = memory
    BY <1>1, <2>3
  <2>9. \A m \in DOMAIN store' : m \notin DOMAIN store => store'[m].call = last
    <3>1. \A m \in DOMAIN Append(store, memory) : m \notin DOMAIN store =>
            Append(store, memory)[m] = memory
      BY <1>1
    <3> QED BY <2>3, <3>1
  <2>10. AckIsTrue(last)'
    BY <2>3, <2>6, <2>7, <2>8 DEF AckIsTrue
  <2> QED BY <1>7, <1>8, <2>5, <2>9, <2>10
<1>12. CASE \/ Quiet
            \/ Expire
            \/ \E k \in DOMAIN tasks, ok \in BOOLEAN, answer \in Extractions :
                 Extract(k, ok, answer)
            \/ \E k \in DOMAIN tasks, outcome \in Outcomes : Save(k, outcome)
            \/ Restart
  BY <1>6, <1>12, QuietIs DEF Expire, Extract, Save, Restart
<1> QED BY <1>9, <1>10, <1>11, <1>12, StepIs

(* AcksAreTrue: a save that was acknowledged is stored as the user was told, *)
(* and a refused call stored nothing.                                      *)
THEOREM AcksHold == Spec => []AcksAreTrue
<1>1. Init => Acks
  <2>1. Init => results = <<>> /\ \A m \in DOMAIN store : store[m].call = 0
    BY StoresAssumption DEF Init
  <2> QED BY <2>1 DEF Acks
<1>2. TypeInv /\ Acks => AcksAreTrue
  BY DEF Acks, AckIsTrue, AcksAreTrue, TypeInv
<1>3. TypeInv /\ Acks /\ [Next]_vars => TypeInv' /\ Acks'
  BY TypesKept, AcksKept
<1> QED BY <1>1, <1>2, <1>3, TypesStart, PTL DEF Spec

=============================================================================
