------------------------------ MODULE Calendar ------------------------------
(***************************************************************************)
(* The dates of the brain (daemon.rs, chrono_local_date and days_to_ymd):  *)
(* the civil date of a day counted from 1 January 1970, in UTC, computed   *)
(* in closed form, and the calendar it is to agree with, day by day.       *)
(***************************************************************************)
EXTENDS Integers

(* Variant: every fourth year is a leap year. *)
YearOfEraJulian(doe) == (doe - doe \div 1460) \div 365

YearOfEra(doe) ==
  (doe - doe \div 1460 + doe \div 36524 - doe \div 146096) \div 365

DaysToYmd(days) ==
  LET z == days + 719468
      doe == z % 146097
      yoe == YearOfEra(doe)
      doy == doe - (365 * yoe + yoe \div 4 - yoe \div 100)
      mp == (5 * doy + 2) \div 153
      month == IF mp < 10 THEN mp + 3 ELSE mp - 9
      marchYear == yoe + (z \div 146097) * 400
  IN  [year |-> IF month <= 2 THEN marchYear + 1 ELSE marchYear,
       month |-> month,
       day |-> doy - (153 * mp + 2) \div 5 + 1]

-----------------------------------------------------------------------------
Date == [year : Nat, month : 1..12, day : 1..31]

Leap(year) == year % 4 = 0 /\ (year % 100 # 0 \/ year % 400 = 0)

LengthOf(year, month) ==
  CASE month = 2 -> IF Leap(year) THEN 29 ELSE 28
    [] month \in {4, 6, 9, 11} -> 30
    [] OTHER -> 31

DayAfter(d) ==
  IF d.day < LengthOf(d.year, d.month) THEN [d EXCEPT !.day = @ + 1]
  ELSE IF d.month < 12 THEN [d EXCEPT !.month = @ + 1, !.day = 1]
  ELSE [year |-> d.year + 1, month |-> 1, day |-> 1]
=============================================================================
