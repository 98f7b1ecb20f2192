------------------------------ MODULE Calendar ------------------------------
(***************************************************************************)
(* index.rs: the dates of blobs_dates.txt (parse_date) and the stamps that   *)
(* name the by-date links (format_stamp), over the proleptic Gregorian       *)
(* calendar computed by civil_from_days and days_from_civil.                 *)
(*                                                                          *)
(* A date string is its fields, and a time is the pair of its days and its   *)
(* seconds of the day (TLC's integers end at 2^31).  The machine walks the days one by one and   *)
(* keeps the civil date beside the day number by the calendar's own rule.    *)
(***************************************************************************)
EXTENDS Integers, Sequences

CONSTANTS
  LastDay,    \* how far the walk goes, in days from 1970-01-01
  Seconds     \* seconds of the day to try

VARIABLES
  day,        \* days since 1970-01-01
  civil       \* the same day as <<year, month, day of month>>

\* Division of integers in Rust rounds towards 0.
Quot(a, b) == IF a >= 0 THEN a \div b ELSE -((-a) \div b)

civil_from_days(days) ==
  LET z == days + 719468
      era == Quot(IF z >= 0 THEN z ELSE z - 146096, 146097)
      doe == z - era * 146097
      yoe == (doe - doe \div 1460 + doe \div 36524 - doe \div 146096) \div 365
      doy == doe - (365 * yoe + yoe \div 4 - yoe \div 100)
      mp == (5 * doy + 2) \div 153
      d == doy - (153 * mp + 2) \div 5 + 1
      m == IF mp < 10 THEN mp + 3 ELSE mp - 9
  IN  <<yoe + era * 400 + (IF m <= 2 THEN 1 ELSE 0), m, d>>

\* Mutant of days_from_civil: the year is not shifted for January and February.
days_from_civil_unshifted(y0, m, d) ==
  LET era == Quot(IF y0 >= 0 THEN y0 ELSE y0 - 399, 400)
      yoe == y0 - era * 400
      doy == (153 * ((m + 9) % 12) + 2) \div 5 + d - 1
  IN  era * 146097 + yoe * 365 + yoe \div 4 - yoe \div 100 + doy - 719468

days_from_civil(y0, m, d) ==
  LET y == IF m <= 2 THEN y0 - 1 ELSE y0
      era == Quot(IF y >= 0 THEN y ELSE y - 399, 400)
      yoe == y - era * 400
      doy == (153 * ((m + 9) % 12) + 2) \div 5 + d - 1
  IN  era * 146097 + yoe * 365 + yoe \div 4 - yoe \div 100 + doy - 719468

\* The fields <<year, month, day, hours, minutes, seconds>> of a time.
format_stamp(t) ==
  civil_from_days(t[1]) \o <<t[2] \div 3600, (t[2] \div 60) % 60, t[2] % 60>>

\* The time of a date's fields.  A day before 1970 has none: <<>>.
parse_date(f) ==
  LET days == days_from_civil(f[1], f[2], f[3])
  IN  IF days < 0 THEN <<>> ELSE <<days, f[4] * 3600 + f[5] * 60 + f[6]>>

(***************************************************************************)
(* The walk.                                                                *)
(***************************************************************************)
Leap(y) == y % 4 = 0 /\ (y % 100 # 0 \/ y % 400 = 0)

MonthLength(y, m) ==
  CASE m = 2 -> IF Leap(y) THEN 29 ELSE 28
    [] m \in {4, 6, 9, 11} -> 30
    [] OTHER -> 31

DayAfter(c) ==
  CASE c[3] < MonthLength(c[1], c[2]) -> <<c[1], c[2], c[3] + 1>>
    [] c[3] = MonthLength(c[1], c[2]) /\ c[2] < 12 -> <<c[1], c[2] + 1, 1>>
    [] OTHER -> <<c[1] + 1, 1, 1>>

CalendarInit == day = 0 /\ civil = <<1970, 1, 1>>

NextDay ==
  /\ day < LastDay
  /\ day' = day + 1
  /\ civil' = DayAfter(civil)

\* Stamps are compared as the strings they are printed to: every field is padded
\* to its width, so the first field that differs decides.
StampBefore(s, t) ==
  \E i \in DOMAIN s : s[i] < t[i] /\ \A j \in 1..(i - 1) : s[j] = t[j]

-----------------------------------------------------------------------------
\* On every day of a 400-year cycle the two conversions agree with the calendar
\* and with each other: format_stamp prints the civil date, parse_date reads it
\* back to the same second, the day before 1970 has no time, and the stamps that
\* name the by-date links sort as strings in the order of their times.
DatesRoundTrip ==
  /\ civil_from_days(day) = civil
  /\ days_from_civil(civil[1], civil[2], civil[3]) = day
  /\ \A s \in Seconds : parse_date(format_stamp(<<day, s>>)) = <<day, s>>
  /\ parse_date(<<1969, 12, 31, 23, 59, 59>>) = <<>>
  /\ \A s, t \in Seconds :
       /\ s < t => StampBefore(format_stamp(<<day, s>>), format_stamp(<<day, t>>))
       /\ StampBefore(format_stamp(<<day, s>>), format_stamp(<<day + 1, t>>))
=============================================================================
