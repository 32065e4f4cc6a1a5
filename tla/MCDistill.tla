----------------------------- MODULE MCDistill -----------------------------
(* Instances of Distill for TLC, with a bounded number of kills: on a      *)
(* machine on which every run is killed no queue drains.                   *)
EXTENDS Distill

CONSTANTS s1, i1, f1, w1, w2,
  MaxKills   \* bound: runs that are killed

VARIABLE kills

AllSessions   == {s1, i1, f1}
OneIncomplete == {i1}
OneFailing    == {f1}
TwoWorkers    == {w1, w2}

FInit == Init /\ kills = 0

FNext ==
  \/ /\ Around \/ \E w \in Workers : Fated(w)
     /\ UNCHANGED kills
  \/ /\ kills < MaxKills
     /\ \E w \in Workers : Kill(w)
     /\ kills' = kills + 1

FatedSpec == FInit /\ [][FNext]_<<vars, kills>> /\ Fairness
=============================================================================
