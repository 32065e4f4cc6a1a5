------------------------------ MODULE Embedding ------------------------------
(***************************************************************************)
(* The index of meanings: one vector per archived turn, written by         *)
(* background runs that hooks start and by runs the user types             *)
(* (src/src/search.rs, src/src/embed.rs), and ranked by searches.          *)
(*                                                                         *)
(* At most one run works, under a lock its death releases.  A background   *)
(* run records its attempt in a state file before it works, its failure    *)
(* after, and nothing when it is killed; while the last record is inside   *)
(* its retry window the hooks start no other.                              *)
(*                                                                         *)
(* Abstractions.  A vector is its width, or `Stale` when an older model    *)
(* made it; the width of a model never changes unless the user replaces    *)
(* the files in its folder.  Failures are counted up to a cap, as the wait *)
(* is.  How the model is downloaded is module ModelDownload.               *)
(***************************************************************************)
EXTENDS Integers, FiniteSets

CONSTANTS
  Runs,        \* processes that index
  Nobody,
  None, Stale, \* no vector; one of an older model
  Widths,
  Pinned,      \* the width of the pinned model
  Slab,        \* turns embedded at a time
  MaxTurns,    \* bound: turns archived
  MaxFailures, \* where the count of failures stops mattering
  MaxEvents    \* bound: kills, failures, rebuilds, replaced files

ASSUME EmbeddingAssumption ==
  /\ Nobody \notin Runs /\ Pinned \in Widths
  /\ None # Stale /\ {None, Stale} \cap Widths = {}
  /\ {Slab, MaxFailures} \subseteq Nat \ {0}
  /\ {MaxTurns, MaxEvents} \subseteq Nat

VARIABLES
  turns,  \* how many turns are archived; the newest has the greatest number
  vec,    \* what is stored for each
  folder, \* the width of the model on disk, None before the download
  off,    \* semantic=off
  file,   \* the state file
  window, \* its retry window has not passed
  lock,   \* the run lock
  run,    \* what each process is doing
  query,  \* one search
  cause,  \* history: a background run did not finish after the last that did
  events

evars == <<turns, vec, folder, off, file, window, lock, run, query, cause, events>>

Turns == 1 .. MaxTurns
Cells == Widths \cup {None, Stale}
Healthy == [state |-> "none", failures |-> 0]

IdleRun == [at |-> "idle", auto |-> FALSE, rebuild |-> FALSE, failures |-> 0,
            dim |-> None, slab |-> {}, last |-> FALSE]
NoQuery == [at |-> "idle", dim |-> None, seen |-> 0, view |-> {},
            ranked |-> {}, missing |-> {}]

Holds == {"clean", "rebuild", "count", "load", "look", "store", "done"}

RunRecord == [at : {"idle", "start", "attempt", "mark", "fail"} \cup Holds,
              auto : BOOLEAN, rebuild : BOOLEAN, failures : 0 .. MaxFailures,
              dim : Widths \cup {None}, slab : SUBSET Turns, last : BOOLEAN]
Query     == [at : {"idle", "load", "scan", "count", "told"}, dim : Widths \cup {None},
              seen : 0 .. MaxTurns, view : SUBSET (Turns \X Cells),
              ranked : SUBSET Turns, missing : SUBSET Turns]

(* The types; only the holder of the lock touches the vectors, only a      *)
(* background run records an attempt, and only archived turns have vectors.*)
ETypeOK ==
  /\ turns \in 0 .. MaxTurns
  /\ vec \in [Turns -> Cells] /\ \A t \in Turns : t > turns => vec[t] = None
  /\ folder \in Widths \cup {None}
  /\ off \in BOOLEAN /\ window \in BOOLEAN /\ cause \in BOOLEAN
  /\ file \in [state : {"none", "running", "failed"}, failures : 0 .. MaxFailures]
  /\ lock \in Runs \cup {Nobody}
  /\ run \in [Runs -> RunRecord]
  /\ \A p \in Runs : /\ run[p].at \in Holds => lock = p
                     /\ run[p].at \in {"attempt", "mark"} => run[p].auto
                     /\ run[p].slab \subseteq 1 .. turns
  /\ query \in Query /\ query.seen <= turns
  /\ events \in 0 .. MaxEvents

EInit ==
  /\ turns = 0 /\ vec = [t \in Turns |-> None]
  /\ folder = None /\ off \in BOOLEAN
  /\ file = Healthy /\ window = FALSE /\ lock = Nobody
  /\ run = [p \in Runs |-> IdleRun] /\ query = NoQuery
  /\ cause = FALSE /\ events = 0

-----------------------------------------------------------------------------
(* Which rows count.                                                       *)

ModelDims == LET dims == {vec[t] : t \in Turns} \cap Widths
             IN  IF dims = {} THEN {None} ELSE dims

SameWidth(cell, dim) == IF dim = None THEN cell \in Widths ELSE cell = dim
Pending(dim) == {t \in 1 .. turns : ~SameWidth(vec[t], dim)}
Newest(S) == {t \in S : Cardinality({u \in S : u > t}) < Slab}

WidthMoved(queued, seen) == None \notin {queued, seen} /\ queued # seen

(* Mutant: the wait has no end.                                            *)
RetryPendingForGood == file.state # "none"

RetryPending == file.state # "none" /\ window
Event == events < MaxEvents /\ events' = events + 1
Count1(n) == IF n < MaxFailures THEN n + 1 ELSE n

Is(p, at) == run[p].at = at
Sets(p, r) == run' = [run EXCEPT ![p] = r]
Goes(p, at) == Sets(p, [run[p] EXCEPT !.at = at])
Leaves(p) == /\ Sets(p, IdleRun)
             /\ lock' = IF lock = p THEN Nobody ELSE lock

world == <<turns, folder, off, query>>
note  == <<file, window, cause>>

-----------------------------------------------------------------------------
(* How a run starts.                                                       *)

SpawnIfDue(p) ==
  /\ Is(p, "idle") /\ ~off /\ ~RetryPending
  /\ Sets(p, [IdleRun EXCEPT !.at = "start", !.auto = TRUE])
  /\ UNCHANGED <<world, vec, note, lock, events>>

Typed(p) ==
  /\ Is(p, "idle")
  /\ \/ Sets(p, [IdleRun EXCEPT !.at = "start"]) /\ UNCHANGED events
     \/ Sets(p, [IdleRun EXCEPT !.at = "start", !.rebuild = TRUE]) /\ Event
  /\ UNCHANGED <<world, vec, note, lock>>

RunLock(p) ==
  /\ Is(p, "start")
  /\ IF lock = Nobody
     THEN lock' = p /\ Goes(p, IF run[p].auto THEN "attempt" ELSE "clean")
     ELSE Sets(p, IdleRun) /\ UNCHANGED lock
  /\ UNCHANGED <<world, vec, note, events>>

(* The lock file cannot be opened: a background run still records it.      *)
LockUnusable(p) ==
  /\ Is(p, "start") /\ Event
  /\ IF run[p].auto THEN Goes(p, "attempt") ELSE Sets(p, IdleRun)
  /\ UNCHANGED <<world, vec, note, lock>>

RecordAttempt(p) ==
  /\ Is(p, "attempt")
  /\ Sets(p, [run[p] EXCEPT !.at = "mark", !.failures = Count1(file.failures)])
  /\ UNCHANGED <<world, vec, note, lock, events>>

WriteState(state, failures) ==
  \/ /\ file' = [state |-> state, failures |-> failures] /\ window' = TRUE
     /\ UNCHANGED events
  \/ Event /\ UNCHANGED <<file, window>>

MarkRunning(p) ==
  /\ Is(p, "mark")
  /\ WriteState("running", run[p].failures)
  /\ Goes(p, IF lock = p THEN "clean" ELSE "fail")
  /\ UNCHANGED <<world, vec, cause, lock>>

-----------------------------------------------------------------------------
(* The backfill.                                                           *)

DropOlder(p) ==
  /\ Is(p, "clean")
  /\ vec' = [t \in Turns |-> IF vec[t] = Stale THEN None ELSE vec[t]]
  /\ Goes(p, IF run[p].rebuild THEN "rebuild" ELSE "count")
  /\ UNCHANGED <<world, note, lock, events>>

Rebuild(p) ==
  /\ Is(p, "rebuild")
  /\ vec' = [t \in Turns |-> IF vec[t] \in Widths THEN None ELSE vec[t]]
  /\ Goes(p, "count")
  /\ UNCHANGED <<world, note, lock, events>>

CountPending(p) ==
  /\ Is(p, "count")
  /\ \E dim \in ModelDims :
       Sets(p, [run[p] EXCEPT !.dim = dim,
                              !.at = IF Pending(dim) = {} THEN "done" ELSE "load"])
  /\ UNCHANGED <<world, vec, note, lock, events>>

LoadModel(p) ==
  /\ Is(p, "load")
  /\ IF folder = None /\ off THEN Goes(p, "fail") /\ UNCHANGED folder
     ELSE /\ folder' = IF folder = None THEN Pinned ELSE folder
          /\ Goes(p, "look")
  /\ UNCHANGED <<turns, off, query, vec, note, lock, events>>

(* An empty queue is looked at twice before the run ends.                  *)
NextSlab(p) ==
  /\ Is(p, "look")
  /\ LET slab == Newest(Pending(run[p].dim))
     IN  IF slab # {}
         THEN Sets(p, [run[p] EXCEPT !.at = "store", !.slab = slab, !.last = FALSE])
         ELSE IF run[p].last THEN Goes(p, "done")
         ELSE Sets(p, [run[p] EXCEPT !.last = TRUE])
  /\ UNCHANGED <<world, vec, note, lock, events>>

(* Mutant: only the width read at the start is compared.                   *)
MixesNever(seen, width) == FALSE

(* Whether the width this model returns may be stored beside `seen`.       *)
Mixes(seen, width) == seen # None /\ width # seen

Store(p) ==
  /\ Is(p, "store")
  /\ \E seen \in ModelDims :
       IF WidthMoved(run[p].dim, seen) \/ Mixes(seen, folder)
       THEN Goes(p, "fail") /\ UNCHANGED vec
       ELSE /\ vec' = [t \in Turns |-> IF t \in run[p].slab THEN folder ELSE vec[t]]
            /\ Sets(p, [run[p] EXCEPT !.at = "look", !.slab = {}])
  /\ UNCHANGED <<world, note, lock, events>>

(* The download, the model or the database fails.                          *)
BackfillFails(p) ==
  /\ run[p].at \in {"clean", "rebuild", "count", "load", "look", "store"} /\ Event
  /\ Goes(p, "fail")
  /\ UNCHANGED <<world, vec, note, lock>>

(* Mutant: only a background run clears the record.                        *)
FinishedSilently(p) ==
  /\ Is(p, "done")
  /\ \/ file' = (IF run[p].auto THEN Healthy ELSE file)
        /\ window' = (IF run[p].auto THEN FALSE ELSE window)
        /\ cause' = FALSE /\ UNCHANGED events
     \/ Event /\ cause' = TRUE /\ UNCHANGED <<file, window>>
  /\ Leaves(p)
  /\ UNCHANGED <<world, vec>>

Finished(p) ==
  /\ Is(p, "done")
  /\ \/ file' = Healthy /\ window' = FALSE /\ cause' = FALSE /\ UNCHANGED events
     \/ Event /\ cause' = TRUE /\ UNCHANGED <<file, window>>
  /\ Leaves(p)
  /\ UNCHANGED <<world, vec>>

RecordFailure(p) ==
  /\ Is(p, "fail")
  /\ IF run[p].auto THEN WriteState("failed", run[p].failures) /\ cause' = TRUE
     ELSE UNCHANGED <<note, events>>
  /\ Leaves(p)
  /\ UNCHANGED <<world, vec>>

Killed(p) ==
  /\ ~Is(p, "idle") /\ Event
  /\ cause' = (cause \/ run[p].auto)
  /\ Leaves(p)
  /\ UNCHANGED <<world, vec, file, window>>

-----------------------------------------------------------------------------
(* A search: the width is read first, then rows and pending turns in one   *)
(* read transaction, whose view of the archive is `view`.                  *)

Asks(q) == query' = q
idx == <<turns, vec, off, note, lock, run, events>>

SearchOpens ==
  /\ query.at = "idle"
  /\ \E dim \in ModelDims \ {None} : Asks([NoQuery EXCEPT !.at = "load", !.dim = dim])
  /\ UNCHANGED <<idx, folder>>

SearchLoads ==
  /\ query.at = "load"
  /\ folder' = IF folder = None /\ ~off THEN Pinned ELSE folder
  /\ Asks(IF folder' = query.dim THEN [query EXCEPT !.at = "scan"] ELSE NoQuery)
  /\ UNCHANGED idx

Rows == {<<t, vec[t]>> : t \in 1 .. turns}

SearchScans ==
  /\ query.at = "scan"
  /\ Asks([query EXCEPT !.at = "count", !.seen = turns, !.view = Rows,
                        !.ranked = {t \in 1 .. turns : vec[t] = query.dim}])
  /\ UNCHANGED <<idx, folder>>

(* Mutant: the second query sees what is stored by now.                    *)
ViewNow == Rows

View == query.view

SearchCounts ==
  /\ query.at = "count"
  /\ Asks([query EXCEPT !.at = "told", !.view = {},
             !.missing = {row[1] : row \in {r \in View : ~SameWidth(r[2], query.dim)}}])
  /\ UNCHANGED <<idx, folder>>

SearchEnds ==
  /\ query.at = "told"
  /\ Asks(NoQuery)
  /\ UNCHANGED <<idx, folder>>

-----------------------------------------------------------------------------
(* The world.                                                              *)

Archive ==
  /\ turns < MaxTurns
  /\ turns' = turns + 1
  /\ UNCHANGED <<vec, folder, off, note, lock, run, query, events>>

(* An upgrade leaves the vectors of the model before it.                   *)
Upgrade ==
  /\ Event
  /\ lock = Nobody
  /\ vec' = [t \in Turns |-> IF vec[t] = None THEN None ELSE Stale]
  /\ folder' = None
  /\ UNCHANGED <<turns, off, note, lock, run, query>>

ReplaceFiles ==
  /\ folder # None /\ Event
  /\ lock = Nobody
  /\ folder' \in Widths
  /\ UNCHANGED <<turns, vec, off, note, lock, run, query>>

WindowPasses ==
  /\ window /\ window' = FALSE
  /\ UNCHANGED <<world, vec, file, cause, lock, run, events>>

Switch ==
  /\ off' = ~off
  /\ UNCHANGED <<turns, folder, query, vec, note, lock, run, events>>

Works(p) ==
  \/ RunLock(p) \/ RecordAttempt(p) \/ MarkRunning(p) \/ DropOlder(p)
  \/ Rebuild(p) \/ CountPending(p) \/ LoadModel(p) \/ NextSlab(p) \/ Store(p)
  \/ Finished(p) \/ RecordFailure(p)

ENext ==
  \/ \E p \in Runs : \/ SpawnIfDue(p) \/ Typed(p) \/ Works(p)
                     \/ LockUnusable(p) \/ BackfillFails(p) \/ Killed(p)
  \/ SearchOpens \/ SearchLoads \/ SearchScans \/ SearchCounts \/ SearchEnds
  \/ Archive \/ Upgrade \/ ReplaceFiles \/ WindowPasses \/ Switch

(* Sessions keep starting and ending, time passes, a run goes on.  Nothing *)
(* typed, no search and no change of the settings is owed.                 *)
EFairness ==
  /\ \A p \in Runs : WF_evars(SpawnIfDue(p)) /\ WF_evars(Works(p))
  /\ WF_evars(WindowPasses)

ESpec == EInit /\ [][ENext]_evars
FairESpec == ESpec /\ EFairness

-----------------------------------------------------------------------------
(* Vectors that are ranked together have one width, whatever the runs, the *)
(* rebuilds and the replaced files before: "refusing to mix dimensions"    *)
(* (search.rs:871).                                                        *)
OneWidth == Cardinality({vec[t] : t \in Turns} \cap Widths) <= 1

(* A search that ends accounts for every turn archived when it scanned:    *)
(* ranked, or told missing, never neither and never both, though a run may *)
(* store vectors between its two queries.                                  *)
SearchTold == query.at = "told" =>
  /\ query.ranked \cup query.missing = 1 .. query.seen
  /\ query.ranked \cap query.missing = {}

(* The state file makes the hooks wait only after a background run that    *)
(* did not finish: any finished run, typed or not, clears what was before. *)
BackoffHasCause ==
  file.state # "none" =>
    cause \/ \E p \in Runs : run[p].auto /\ run[p].at \notin {"idle", "start"}

(* While sessions go on, indexing stays on and the files in the folder are *)
(* those the stored vectors came from, every archived turn is indexed in   *)
(* the end: a run that fails or is killed only delays it.                  *)
Usable  == \A t \in Turns : vec[t] \in Widths => folder \in {None, vec[t]}
Indexed == \A t \in 1 .. turns : vec[t] \in Widths
EveryTurnIndexed == <>[](~off /\ Usable) => <>[]Indexed
=============================================================================
