-------------------------------- MODULE Dates --------------------------------
(***************************************************************************)
(* Calendar arithmetic (src/src/timeutil.rs): dates to days since          *)
(* 1970-01-01 and back, timestamps with an offset, the bounds of the       *)
(* filters --after and --before, and the age shown with a hit.             *)
(*                                                                         *)
(* Abstractions.  A date is a triple; zero-padded, it is compared as text  *)
(* the way triples are compared part by part, and a text that goes on      *)
(* after the date is greater than the date alone.                          *)
(***************************************************************************)
EXTENDS Integers, Sequences

Date(y, m, d) == <<y, m, d>>
NotADate == <<>>

(* Howard Hinnant's algorithms; the year begins in March.                  *)
civil_to_days(y, mo, d) ==
  LET yy  == IF mo <= 2 THEN y - 1 ELSE y
      m   == IF mo <= 2 THEN mo + 9 ELSE mo - 3
      era == yy \div 400
      yoe == yy % 400
      doy == (153 * m + 2) \div 5 + d - 1
      doe == yoe * 365 + yoe \div 4 - yoe \div 100 + doy
  IN  era * 146097 + doe - 719468

civil_from_days(days) ==
  LET z   == days + 719468
      era == z \div 146097
      doe == z % 146097
      yoe == (doe - doe \div 1460 + doe \div 36524 - doe \div 146096) \div 365
      doy == doe - (365 * yoe + yoe \div 4 - yoe \div 100)
      mp  == (5 * doy + 2) \div 153
      d   == doy - (153 * mp + 2) \div 5 + 1
      m   == IF mp < 10 THEN mp + 3 ELSE mp - 9
      y   == yoe + era * 400
  IN  Date(IF m <= 2 THEN y + 1 ELSE y, m, d)

(* What is accepted as a date: the 31st of any month.                      *)
Accepted(date) == date[2] \in 1 .. 12 /\ date[3] \in 1 .. 31
parse_ymd(date) == IF Accepted(date) THEN date ELSE NotADate

next_day(date) == civil_from_days(civil_to_days(date[1], date[2], date[3]) + 1)

(* Mutant: the sign is that of the hours only.                             *)
parse_offset_hours(sign, hh, mm) == sign * hh * 3600 + mm * 60

(* A timestamp: its date, seconds of the day and offset from UTC.          *)
parse_hhmm_offset(sign, hh, mm) == sign * (hh * 3600 + mm * 60)
parse_ts(date, secs, offset) ==
  civil_to_days(date[1], date[2], date[3]) * 86400 + secs - offset

-----------------------------------------------------------------------------
(* The filters: text >= after and text < before, where the text is the     *)
(* date and more.                                                          *)
Less(a, b) == \/ a[1] < b[1]
              \/ a[1] = b[1] /\ a[2] < b[2]
              \/ a[1] = b[1] /\ a[2] = b[2] /\ a[3] < b[3]
date_bounds(after, before) ==
  IF NotADate \in {parse_ymd(after), parse_ymd(before)} THEN NotADate
  ELSE [after |-> after, before |-> next_day(before)]
Within(date, bounds) == ~Less(date, bounds.after) /\ Less(date, bounds.before)

-----------------------------------------------------------------------------
(* The age of a hit: how many of which unit, in days.                      *)
fmt_age(secs) ==
  LET days == (IF secs < 0 THEN 0 ELSE secs) \div 86400
  IN  CASE days = 0   -> [n |-> 0, unit |-> 1]
        [] days \in 1 .. 6 -> [n |-> days, unit |-> 1]
        [] days \in 7 .. 29 -> [n |-> days \div 7, unit |-> 7]
        [] days \in 30 .. 364 -> [n |-> days \div 30, unit |-> 30]
        [] OTHER -> [n |-> days \div 365, unit |-> 365]

-----------------------------------------------------------------------------
(* The calendar, counted day by day.                                       *)
Leap(y) == y % 4 = 0 /\ (y % 100 # 0 \/ y % 400 = 0)
DaysIn(y, m) == CASE m = 2 -> IF Leap(y) THEN 29 ELSE 28
                  [] m \in {4, 6, 9, 11} -> 30
                  [] OTHER -> 31
DayAfter(date) ==
  CASE date[3] < DaysIn(date[1], date[2]) -> Date(date[1], date[2], date[3] + 1)
    [] date[3] = DaysIn(date[1], date[2]) /\ date[2] < 12 -> Date(date[1], date[2] + 1, 1)
    [] OTHER -> Date(date[1] + 1, 1, 1)

(* Day numbers and dates are each other's inverse, day 0 is 1970-01-01 and *)
(* the number after is the calendar's next day, so that every number is    *)
(* the right date (timeutil.rs:140, the "inverse of civil_to_days").       *)
CalendarIsRight(n) ==
  LET date == civil_from_days(n)
  IN  /\ civil_to_days(date[1], date[2], date[3]) = n
      /\ civil_from_days(n + 1) = DayAfter(date)
      /\ civil_from_days(0) = Date(1970, 1, 1)

(* For real dates, --after and --before keep exactly the days from the one *)
(* to the other, both whole (timeutil.rs:110).                             *)
BoundsAreWhole(from, to, n) ==
  Within(civil_from_days(n), date_bounds(civil_from_days(from), civil_from_days(to)))
    <=> n \in from .. to

(* One instant written with two offsets is one time.                       *)
OneInstant(n, secs, hh, mm, sign) ==
  LET there == secs + 60 * (sign * (60 * hh + mm))
  IN  parse_ts(civil_from_days(n + there \div 86400), there % 86400,
               parse_hhmm_offset(sign, hh, mm))
        = parse_ts(civil_from_days(n), secs, 0)

(* An age is never shown as zero of a unit, never overstated, never        *)
(* understated by a unit or more, and never less than a younger hit's.     *)
AgeIsHonest(days) ==
  LET age == fmt_age(days * 86400)
      shown(a) == a.n * a.unit
  IN  /\ days > 0 => age.n > 0
      /\ shown(age) <= days /\ days < shown(age) + age.unit
      /\ shown(fmt_age((days - 1) * 86400)) <= shown(age)
=============================================================================
