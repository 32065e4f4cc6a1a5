------------------------------- MODULE Series -------------------------------
(***************************************************************************)
(* The activity line of the dashboard (src/src/stats.rs): turns per day,   *)
(* idle days filled in, put into as many buckets as there is room for and  *)
(* drawn as bars.                                                          *)
(*                                                                         *)
(* Abstractions.  The input is the days that have turns, in order, as      *)
(* pairs of a day number and a count (Dates converts them); a bar is its   *)
(* height, 0 for none to Top, rounded exactly.                             *)
(***************************************************************************)
EXTENDS Dates, SequencesExt

CONSTANTS
  MaxDays,   \* how far back the line goes (3650)
  Top,       \* the highest bar (7)
  MaxBins,   \* how many buckets there is room for, at most
  NoDay

ASSUME SeriesAssumption == MaxDays \in Nat /\ Top \in Nat \ {0} /\ MaxBins \in Nat

VARIABLES
  today,     \* a day, or none
  daily      \* the days with turns

(* An ancient day does not stretch the line.                               *)
Start(days) ==
  LET first == days[1][1]
      last  == days[Len(days)][1]
  IN  IF last - first > MaxDays THEN last - MaxDays ELSE first

CountOn(days, day) ==
  IF \E i \in DOMAIN days : days[i][1] = day
  THEN days[CHOOSE i \in DOMAIN days : days[i][1] = day][2] ELSE 0

daily_series(days) ==
  IF days = <<>> THEN <<>>
  ELSE [k \in 1 .. days[Len(days)][1] - Start(days) + 1 |->
          CountOn(days, Start(days) + k - 1)]

Sum(s) ==
  LET sum[i \in 0 .. Len(s)] == IF i = 0 THEN 0 ELSE sum[i - 1] + s[i]
  IN  sum[Len(s)]

bucketize(vals, nbins) ==
  IF Len(vals) <= nbins THEN vals
  ELSE [i \in 1 .. nbins |->
          Sum(SubSeq(vals, ((i - 1) * Len(vals)) \div nbins + 1, (i * Len(vals)) \div nbins))]

(* The bar of a count: rounded to the nearest, a half upwards.             *)
bar(v, hi) ==
  LET rounded == (2 * v * (Top - 1) + hi) \div (2 * hi)
  IN  IF v <= 0 \/ hi <= 0 THEN 0
      ELSE IF 1 + rounded < Top THEN 1 + rounded ELSE Top

Highest(s) == Max({0} \cup ToSet(s))
sparkline(s) == [i \in DOMAIN s |-> bar(s[i], Highest(s))]

(* The age beside a time: seconds are not shown.                           *)
ago_secs(secs) ==
  LET s == IF secs < 0 THEN 0 ELSE secs
  IN  CASE s < 60    -> [n |-> 0, unit |-> 60]
        [] 60 <= s /\ s < 3600 -> [n |-> s \div 60, unit |-> 60]
        [] 3600 <= s /\ s < 86400 -> [n |-> s \div 3600, unit |-> 3600]
        [] OTHER -> [n |-> s \div 86400, unit |-> 86400]

-----------------------------------------------------------------------------
(* No turn of the days shown is lost or counted twice on its way into the  *)
(* buckets, a bucket with a turn never looks empty, the busiest bucket has *)
(* the highest bar and a busier one never the lower.                       *)
NoTurnLost(days, nbins) ==
  LET line    == daily_series(days)
      buckets == bucketize(line, nbins)
      bars    == sparkline(buckets)
  IN  days # <<>> =>
        /\ Sum(buckets) = Sum([i \in DOMAIN days |->
                                 IF days[i][1] >= Start(days) THEN days[i][2] ELSE 0])
        /\ Len(buckets) <= nbins
        /\ \A i \in DOMAIN bars : bars[i] = 0 <=> buckets[i] = 0
        /\ \A i, j \in DOMAIN bars : buckets[i] > buckets[j] => bars[i] >= bars[j]
        /\ \E i \in DOMAIN bars : bars[i] = Top

(* The age of a session is never overstated, nor understated by a unit.    *)
AgoIsHonest(secs) ==
  LET age == ago_secs(secs)
  IN  age.n * age.unit <= secs /\ secs < (age.n + 1) * age.unit

(* Dates, filters, times with an offset and ages are right (Dates), and no *)
(* turn is lost on its way into the activity line.                         *)
TimesAreRight ==
  /\ today # NoDay =>
       /\ CalendarIsRight(today)
       /\ \A from, to \in today - 1 .. today + 1 : BoundsAreWhole(from, to, today)
       /\ today \in 0 .. 20000 =>
            /\ \A secs \in {0, 1, 43200, 86399}, hh \in {0, 5, 14}, mm \in {0, 30, 59},
                  sign \in {-1, 1} : OneInstant(today, secs, hh, mm, sign)
            /\ AgeIsHonest(today) /\ AgoIsHonest(97 * today)
  /\ \A nbins \in 1 .. MaxBins : NoTurnLost(daily, nbins)
=============================================================================
