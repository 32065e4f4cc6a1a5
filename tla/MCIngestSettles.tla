-------------------------- MODULE MCIngestSettles --------------------------
(* Instances of IngestRewrite for TLC.  A behaviour is about a transcript  *)
(* that grows while hooks overlap, with a bounded number of kills (a       *)
(* machine on which every pass is killed archives nothing), or about one   *)
(* that is rewritten and seen by strict passes only.                       *)
EXTENDS IngestRewrite

CONSTANTS t1, t2, p1, p2,
  MaxKills   \* bound: passes that are killed

VARIABLES about, kills

OneText  == {t1}
TwoTexts == {t1, t2}
TwoProcs == {p1, p2}
AnyPass  == BOOLEAN

SInit == Init /\ kills = 0 /\ about \in {"grows", "rewritten"}

Ordinary == \A p \in Procs : ~strict'[p]

(* Hooks that overlap, the slower one saving last, while whole lines are   *)
(* written.  A line that is not JSON is to the liveness of a pass what any *)
(* line without a turn is.                                                 *)
Grows ==
  /\ about = "grows"
  /\ \/ /\ Unkilled /\ Ordinary
        /\ ~tail'
        /\ \A i \in DOMAIN file' : file'[i] \in {t1, Filtered}
        /\ UNCHANGED kills
     \/ /\ kills < MaxKills
        /\ \E p \in Procs : Crash(p)
        /\ kills' = kills + 1

(* The first content has one text; what takes its place has both.          *)
Rewritten ==
  /\ about = "rewritten"
  /\ CheckedNext /\ pc'[p2] = "idle"
  /\ past' = <<>> => \A i \in DOMAIN file' : file'[i] # t2
  /\ UNCHANGED kills

SNext == (Grows \/ Rewritten) /\ UNCHANGED about

HooksRun(p) == about = "grows" /\ (Begin(p, FALSE) /\ UNCHANGED <<about, kills>>)
PassRuns(p) == about = "grows" /\ (Pass(p) /\ UNCHANGED <<about, kills>>)

SettlingSpec ==
  /\ SInit /\ [][SNext]_<<vars, about, kills>>
  /\ \A p \in Procs : /\ WF_<<vars, about, kills>>(HooksRun(p))
                      /\ WF_<<vars, about, kills>>(PassRuns(p))

(* While hooks keep running after a transcript has stopped growing, it is  *)
(* archived whole, for good.                                               *)
GrownSettles == about = "grows" => Settles
=============================================================================
