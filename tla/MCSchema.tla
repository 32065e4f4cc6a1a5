------------------------------ MODULE MCSchema ------------------------------
(* One instance of the database for TLC, with the calendar and the series  *)
(* of days the statistics read from it.  A behaviour is about processes    *)
(* that open an old database, about one day after another, or about one    *)
(* series, which grows day by day.                                         *)
EXTENDS Schema, Series

CONSTANTS s1, s2, s3, s4, p1, p2

VARIABLE about

SomeSessions == {s1, s2, s3, s4}
OldQueue      == <<s1, s2, s3>>
TwoProcs      == {p1, p2}
AllVersions   == {0, 4, 5, 6, 7, 8}

cvars == <<mvars, about, today, daily>>

(* From a year before to a year after each of 1900, 1970, 2000 and 2100.   *)
Days  == 732
Turns == {-25933, -366, 10592, 47116}

CInit ==
  \/ about = "schema" /\ MInit /\ today = NoDay /\ daily = <<>>
  \/ /\ about \in {"dates", "series"} /\ daily = <<>>
     /\ db = [version |-> Fresh] /\ legacy = <<>> /\ proc = <<>> /\ gone = {} /\ cut = FALSE
     /\ crossed = FALSE
     /\ kills = 0 /\ opens = 0 /\ work = 0
     /\ today \in IF about = "dates" THEN Turns ELSE {NoDay}

NextDay == today - Days \notin Turns /\ today' = today + 1 /\ UNCHANGED daily

MoreDays ==
  /\ Len(daily) < 4
  /\ \E gap \in {1, 2, 4}, count \in {1, 2, 5} :
       daily' = Append(daily, <<gap + (IF daily = <<>> THEN 0 ELSE daily[Len(daily)][1]), count>>)
  /\ UNCHANGED today

OfSchema(act) == about = "schema" /\ act /\ UNCHANGED <<about, today, daily>>

CNext ==
  \/ OfSchema(MNext)
  \/ about = "dates" /\ NextDay /\ UNCHANGED <<mvars, about>>
  \/ about = "series" /\ MoreDays /\ UNCHANGED <<mvars, about>>

SchemaSpec ==
  /\ CInit /\ [][CNext]_cvars
  /\ \A p \in Procs : WF_cvars(OfSchema(Open(p) \/ Look(p) \/ Migrate(p) \/ Close(p)))

(* An old database is brought up to date in the end (Schema).              *)
UpgradeDone == about = "schema" => Upgraded
=============================================================================
