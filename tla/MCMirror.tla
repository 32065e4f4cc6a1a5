------------------------------ MODULE MCMirror ------------------------------
(* One instance of Mirror and Restore for TLC.  A behaviour is about the   *)
(* snapshots, with the mirror off, about the mirror, or about one restore; *)
(* the first two have their own events around the processes, and a bound   *)
(* on them.                                                                *)
EXTENDS Mirror, Restore

CONSTANTS p1, p2, d1,
  MaxLocal,   \* bound: events in a run about the snapshots
  MaxMirror   \* bound: events in a run about the mirror

VARIABLES about, events

TwoProcs   == {p1, p2}
OneHook    == {p1}
OneFolder  == {d1}
AnyOrOff   == {Unset, Off}
OneOrTwo   == {1, 2}

(* A mirror below a cloud folder, one in the home folder, and others.      *)
SomeDirs == {<<"h">>, <<"h", "subrosa">>, <<"h", "od">>, <<"h", "od", "subrosa">>,
             <<"h", "od", "x">>, <<"h", "out">>}
HomeDir  == <<"h">>

NoRestore == /\ ask = [blob |-> "damaged", explicit |-> TRUE] /\ target = "absent"
             /\ step = "refused" /\ foreign = FALSE

EInit ==
  /\ Init
  /\ events = 0
  /\ about \in {"snapshots", "mirror", "restore"}
  /\ about # "mirror" => named = Off /\ pass = "none"
  /\ IF about = "restore" THEN RestoreInit ELSE NoRestore

Event ==
  \/ /\ about = "snapshots" /\ events < MaxLocal
     /\ \/ Tick \/ Day
        \/ \E p \in Procs : Backup(p) \/ Kill(p)
  \/ /\ about = "mirror" /\ events < MaxMirror
     /\ \/ SetupNoMirror \/ Edit \/ DeleteSealed \/ Evict \/ Reappear \/ Hour
        \/ \E p \in Procs : Backup(p) \/ Setup(p) \/ Kill(p)

Snapshots ==
  /\ about # "restore"
  /\ \/ (\E p \in Procs : Process(p)) /\ UNCHANGED events
     \/ Event /\ events' = events + 1
  /\ UNCHANGED rvars

(* A restore ends.                                                         *)
Over == step \in {"done", "refused", "killed"} /\ UNCHANGED rvars

ENext ==
  /\ \/ Snapshots
     \/ about = "restore" /\ (RestoreNext \/ Over) /\ UNCHANGED <<vars, events>>
  /\ UNCHANGED about

EventSpec == EInit /\ [][ENext]_<<vars, rvars, events, about>> /\ Fairness
=============================================================================
