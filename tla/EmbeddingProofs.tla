--------------------------- MODULE EmbeddingProofs ---------------------------
(***************************************************************************)
(* Proofs about the index of meanings: its types and the lock, that all    *)
(* vectors have one width, what a search tells of every turn, and that the *)
(* state file makes the hooks wait only for a cause; about the download of *)
(* the model it is made with: only the holder of the lock has work in      *)
(* hand, and what is loaded has been checked; and about the batches of one *)
(* slab: every turn gets the vector of its own text.                       *)
(***************************************************************************)
EXTENDS Embedding, ModelDownload, Slabs, FiniteSetTheorems, SequenceTheorems,
        WellFoundedInduction, TLAPS

(* The widths a run or a search may start from are widths, or none.        *)
LEMMA DimsAreWidths == ASSUME NEW d \in ModelDims PROVE d \in Widths \cup {None}
  BY Zenon DEF ModelDims

(* What each step below says of one process' record.                       *)
LEMMA RunUpdate ==
  ASSUME run \in [Runs -> RunRecord], NEW p \in Runs, NEW r \in RunRecord, Sets(p, r)
  PROVE  run' \in [Runs -> RunRecord] /\ run'[p] = r /\ \A q \in Runs \ {p} : run'[q] = run[q]
  BY DEF Sets

(* The initial state has the types.                                        *)
LEMMA InitTypes == EInit => ETypeOK
<1> SUFFICES ASSUME EInit PROVE ETypeOK
  OBVIOUS
<1> USE EmbeddingAssumption DEF EInit
<1>1. file \in [state : {"none", "running", "failed"}, failures : 0 .. MaxFailures]
  BY SMT DEF Healthy
<1>2. IdleRun \in RunRecord
  BY SMT DEF IdleRun, RunRecord
<1>3. query \in Query
  BY SMT DEF NoQuery, Query
<1>4. run \in [Runs -> RunRecord] /\ \A p \in Runs : run[p] = IdleRun
  BY <1>2, Zenon
<1>5. off \in BOOLEAN /\ window \in BOOLEAN /\ cause \in BOOLEAN
  BY Zenon
<1>6. vec \in [Turns -> Cells] /\ \A t \in Turns : vec[t] = None
  BY DEF Cells
<1>7. query.seen = 0
  BY DEF NoQuery
<1>8. \A p \in Runs : run[p].at = "idle" /\ run[p].slab = {}
  BY <1>4 DEF IdleRun
<1>9. turns \in 0 .. MaxTurns /\ events \in 0 .. MaxEvents /\ query.seen <= turns
  BY <1>7, SMT
<1> QED BY <1>1, <1>3, <1>4, <1>5, <1>6, <1>7, <1>8, <1>9, Zenon DEF ETypeOK, Holds

-----------------------------------------------------------------------------
(* The parts of the types, and what keeps each.                            *)

RunsOK ==
  /\ run \in [Runs -> RunRecord]
  /\ \A p \in Runs : /\ run[p].at \in Holds => lock = p
                     /\ run[p].at \in {"attempt", "mark"} => run[p].auto
                     /\ run[p].slab \subseteq 1 .. turns
VecOK   == vec \in [Turns -> Cells] /\ \A t \in Turns : t > turns => vec[t] = None
QueryOK == query \in Query /\ query.seen <= turns
FileOK  == file \in [state : {"none", "running", "failed"}, failures : 0 .. MaxFailures]
FlagsOK == off \in BOOLEAN /\ window \in BOOLEAN /\ cause \in BOOLEAN
WorldOK == /\ turns \in 0 .. MaxTurns /\ events \in 0 .. MaxEvents
           /\ folder \in Widths \cup {None} /\ lock \in Runs \cup {Nobody}

(* The types are their parts.                                              *)
LEMMA Parts == ETypeOK <=> RunsOK /\ VecOK /\ QueryOK /\ FileOK /\ FlagsOK /\ WorldOK
  BY Zenon DEF ETypeOK, RunsOK, VecOK, QueryOK, FileOK, FlagsOK, WorldOK

(* The parts of the next state's types.                                    *)
LEMMA PartsNext ==
  ETypeOK' <=> RunsOK' /\ VecOK' /\ QueryOK' /\ FileOK' /\ FlagsOK' /\ WorldOK'
  BY Zenon DEF ETypeOK, RunsOK, VecOK, QueryOK, FileOK, FlagsOK, WorldOK

(* A step that gives one process a record of the right shape, and the lock *)
(* to nobody who works without it, keeps the processes' part.              *)
LEMMA RunsKept ==
  ASSUME RunsOK, NEW p \in Runs, NEW r \in RunRecord, Sets(p, r), turns' = turns,
         r.at \in Holds => lock' = p,
         r.at \in {"attempt", "mark"} => r.auto,
         r.slab \subseteq 1 .. turns,
         \A q \in Runs \ {p} : run[q].at \in Holds => lock' = q
  PROVE  RunsOK'
<1>1. /\ run' \in [Runs -> RunRecord] /\ run'[p] = r
      /\ \A q \in Runs \ {p} : run'[q] = run[q]
  BY RunUpdate DEF RunsOK
<1>2. ASSUME NEW q \in Runs
      PROVE  /\ run'[q].at \in Holds => lock' = q
             /\ run'[q].at \in {"attempt", "mark"} => run'[q].auto
             /\ run'[q].slab \subseteq 1 .. turns'
  <2>1. CASE q = p
    BY <1>1, <2>1, Zenon
  <2>2. CASE q # p
    BY <1>1, <2>2, Zenon DEF RunsOK
  <2> QED BY <2>1, <2>2
<1> QED BY <1>1, <1>2, Zenon DEF RunsOK

(* The record a process has, and the idle one.                             *)
LEMMA RunRecords ==
  ASSUME EmbeddingAssumption, RunsOK, NEW p \in Runs
  PROVE  IdleRun \in RunRecord /\ run[p] \in RunRecord
<1>1. IdleRun \in RunRecord
  BY EmbeddingAssumption, SMT DEF IdleRun, RunRecord
<1>2. run[p] \in RunRecord
  BY DEF RunsOK
<1> QED BY <1>1, <1>2

(* A process that moves on keeps the rest of its record.                   *)
LEMMA MovesOn ==
  ASSUME RunsOK, NEW p \in Runs, NEW at \in {"idle", "start", "attempt", "mark", "fail"} \cup Holds
  PROVE  LET r == [run[p] EXCEPT !.at = at]
         IN  /\ r \in RunRecord /\ r.at = at /\ r.auto = run[p].auto
             /\ r.slab = run[p].slab /\ r.failures = run[p].failures
<1>1. run[p] \in RunRecord
  BY DEF RunsOK
<1> QED BY <1>1, SMT DEF RunRecord

(* Of the other processes none works beside the holder of the lock, nor    *)
(* when it is free.                                                        *)
LEMMA OthersWait ==
  ASSUME EmbeddingAssumption, RunsOK, NEW p \in Runs, NEW q \in Runs \ {p},
         lock \in {p, Nobody}
  PROVE  run[q].at \notin Holds
  BY Zenon DEF RunsOK, EmbeddingAssumption

(* A process that moves on, the lock as it was, keeps the processes' part. *)
LEMMA GoesKeeps ==
  ASSUME RunsOK, NEW p \in Runs, NEW at \in {"idle", "start", "attempt", "mark", "fail"} \cup Holds,
         Goes(p, at), turns' = turns, lock' = lock,
         at \in Holds => lock = p,
         at \in {"attempt", "mark"} => run[p].auto
  PROVE  RunsOK'
<1> DEFINE r == [run[p] EXCEPT !.at = at]
<1>1. /\ r \in RunRecord /\ r.at = at /\ r.auto = run[p].auto
      /\ r.slab = run[p].slab
  BY MovesOn
<1>2. Sets(p, r)
  BY DEF Goes
<1>3. r.slab \subseteq 1 .. turns
  BY <1>1 DEF RunsOK
<1>4. \A q \in Runs \ {p} : run[q].at \in Holds => lock' = q
  BY DEF RunsOK
<1> HIDE DEF r
<1> QED BY <1>1, <1>2, <1>3, <1>4, RunsKept, Zenon

(* A process that leaves gives the lock back and keeps the processes' part.*)
LEMMA LeavesKeeps ==
  ASSUME EmbeddingAssumption, RunsOK, WorldOK, NEW p \in Runs, Leaves(p), turns' = turns
  PROVE  RunsOK' /\ lock' \in Runs \cup {Nobody}
<1>1. IdleRun \in RunRecord /\ IdleRun.at = "idle" /\ IdleRun.slab = {}
  BY RunRecords DEF IdleRun
<1>2. \A q \in Runs \ {p} : run[q].at \in Holds => lock' = q
  BY Zenon DEF Leaves, RunsOK
<1>3. IdleRun.at \notin Holds /\ IdleRun.at \notin {"attempt", "mark"}
  BY <1>1 DEF Holds
<1>4. Sets(p, IdleRun) /\ lock' \in Runs \cup {Nobody}
  BY DEF Leaves, WorldOK
<1>5. IdleRun.slab \subseteq 1 .. turns
  BY <1>1
<1> QED BY <1>1, <1>2, <1>3, <1>4, <1>5, RunsKept, Zenon

-----------------------------------------------------------------------------
(* The processes' part, step by step.                                      *)

(* A run that starts, up to its lock and its record of the attempt.        *)
LEMMA StartKeepsRuns ==
  ASSUME EmbeddingAssumption, ETypeOK, NEW p \in Runs,
         SpawnIfDue(p) \/ Typed(p) \/ RunLock(p) \/ LockUnusable(p)
         \/ RecordAttempt(p) \/ MarkRunning(p)
  PROVE  RunsOK' /\ lock' \in Runs \cup {Nobody}
<1>1. RunsOK /\ WorldOK /\ FileOK
  BY Parts
<1>2. /\ IdleRun \in RunRecord /\ run[p] \in RunRecord
      /\ IdleRun.slab = {} /\ IdleRun.at = "idle"
  BY <1>1, RunRecords DEF IdleRun
<1>3. \A q \in Runs \ {p} : run[q].at \in Holds => lock = q
  BY <1>1 DEF RunsOK
<1>4. lock \in Runs \cup {Nobody}
  BY <1>1 DEF WorldOK
<1>5. ASSUME NEW r \in RunRecord, Sets(p, r), turns' = turns, lock' = lock,
             r.at \notin Holds, r.at \in {"attempt", "mark"} => r.auto,
             r.slab \subseteq 1 .. turns
      PROVE  RunsOK'
  BY <1>1, <1>3, <1>5, RunsKept, Zenon
<1>6. CASE SpawnIfDue(p)
  <2> DEFINE r == [IdleRun EXCEPT !.at = "start", !.auto = TRUE]
  <2>0. r \in RunRecord
    BY <1>2, Zenon DEF RunRecord
  <2>1. r.at = "start" /\ r.slab = {}
    BY SMT DEF IdleRun
  <2>2. Sets(p, r) /\ turns' = turns /\ lock' = lock
    BY <1>6 DEF SpawnIfDue, world
  <2>3. "start" \notin Holds
    BY DEF Holds
  <2> HIDE DEF r
  <2> QED BY <1>4, <1>5, <2>0, <2>1, <2>2, <2>3
<1>7. CASE Typed(p)
  <2> DEFINE r == [IdleRun EXCEPT !.at = "start"]
             b == [IdleRun EXCEPT !.at = "start", !.rebuild = TRUE]
  <2>0. r \in RunRecord /\ b \in RunRecord
    BY <1>2, Zenon DEF RunRecord
  <2>1. r.at = "start" /\ r.slab = {} /\ b.at = "start" /\ b.slab = {}
    BY SMT DEF IdleRun
  <2>2. (Sets(p, r) \/ Sets(p, b)) /\ turns' = turns /\ lock' = lock
    BY <1>7 DEF Typed, world
  <2>3. "start" \notin Holds
    BY DEF Holds
  <2> HIDE DEF r, b
  <2> QED BY <1>4, <1>5, <2>0, <2>1, <2>2, <2>3
<1>8. CASE RunLock(p)
  <2>1. run[p].at = "start" /\ turns' = turns
    BY <1>8 DEF RunLock, Is, world
  <2>2. CASE lock = Nobody
    <3> DEFINE r == [run[p] EXCEPT !.at = IF run[p].auto THEN "attempt" ELSE "clean"]
    <3>1. lock' = p /\ Sets(p, r)
      BY <1>8, <2>2 DEF RunLock, Goes
    <3>2. /\ r \in RunRecord /\ r.slab = run[p].slab /\ r.auto = run[p].auto
          /\ r.at = IF run[p].auto THEN "attempt" ELSE "clean"
      <4> DEFINE at == IF run[p].auto THEN "attempt" ELSE "clean"
      <4>1. at \in {"idle", "start", "attempt", "mark", "fail"} \cup Holds
        BY DEF Holds
      <4> QED BY <1>1, <4>1, MovesOn, Zenon
    <3>3. \A q \in Runs \ {p} : run[q].at \notin Holds
      BY <1>1, <2>2, OthersWait
    <3>4. r.slab \subseteq 1 .. turns
      BY <1>1, <3>2 DEF RunsOK
    <3>5. r.at \in {"attempt", "mark"} => r.auto
      BY <3>2
    <3> HIDE DEF r
    <3> QED BY <1>1, <2>1, <3>1, <3>2, <3>3, <3>4, <3>5, RunsKept, Zenon
  <2>3. CASE lock # Nobody
    <3>1. Sets(p, IdleRun) /\ lock' = lock
      BY <1>8, <2>3 DEF RunLock
    <3>2. "idle" \notin Holds
      BY DEF Holds
    <3> QED BY <1>2, <1>4, <1>5, <2>1, <3>1, <3>2
  <2> QED BY <2>2, <2>3
<1>9. CASE LockUnusable(p)
  <2>1. turns' = turns /\ lock' = lock
    BY <1>9 DEF LockUnusable, world
  <2>2. CASE run[p].auto
    BY <1>1, <1>4, <1>9, <2>1, <2>2, GoesKeeps, Zenon DEF LockUnusable, Holds
  <2>3. CASE ~run[p].auto
    <3>1. Sets(p, IdleRun)
      BY <1>9, <2>3 DEF LockUnusable
    <3>2. "idle" \notin Holds
      BY DEF Holds
    <3> QED BY <1>2, <1>4, <1>5, <2>1, <3>1, <3>2
  <2> QED BY <2>2, <2>3
<1>10. CASE RecordAttempt(p)
  <2> DEFINE r == [run[p] EXCEPT !.at = "mark", !.failures = Count1(file.failures)]
  <2>1. Count1(file.failures) \in 0 .. MaxFailures
    BY <1>1, EmbeddingAssumption, SMT DEF FileOK, Count1
  <2>0. r \in RunRecord
    BY <1>2, <2>1, Zenon DEF RunRecord
  <2>2. r.at = "mark" /\ r.slab = run[p].slab /\ r.auto = run[p].auto
    BY <1>2, SMT DEF RunRecord
  <2>3. run[p].at = "attempt" /\ Sets(p, r) /\ turns' = turns /\ lock' = lock
    BY <1>10 DEF RecordAttempt, Is, world
  <2>4. r.auto /\ r.slab \subseteq 1 .. turns
    BY <1>1, <2>2, <2>3 DEF RunsOK
  <2>5. "mark" \notin Holds
    BY DEF Holds
  <2> HIDE DEF r
  <2> QED BY <1>4, <1>5, <2>0, <2>2, <2>3, <2>4, <2>5
<1>11. CASE MarkRunning(p)
  <2>1. turns' = turns /\ lock' = lock
    BY <1>11 DEF MarkRunning, world
  <2>2. Goes(p, IF lock = p THEN "clean" ELSE "fail")
    BY <1>11 DEF MarkRunning
  <2>3. CASE lock = p
    BY <1>1, <1>4, <2>1, <2>2, <2>3, GoesKeeps, Zenon DEF Holds
  <2>4. CASE lock # p
    <3>1. "fail" \notin Holds
      BY DEF Holds
    <3> QED BY <1>1, <1>4, <2>1, <2>2, <2>4, <3>1, GoesKeeps, Zenon
  <2> QED BY <2>3, <2>4
<1> QED BY <1>6, <1>7, <1>8, <1>9, <1>10, <1>11

(* The backfill, to its end.                                               *)
LEMMA WorkKeepsRuns ==
  ASSUME EmbeddingAssumption, ETypeOK, NEW p \in Runs,
         DropOlder(p) \/ Rebuild(p) \/ CountPending(p) \/ LoadModel(p) \/ NextSlab(p)
         \/ Store(p) \/ Finished(p) \/ RecordFailure(p) \/ BackfillFails(p) \/ Killed(p)
  PROVE  RunsOK' /\ lock' \in Runs \cup {Nobody}
<1>1. RunsOK /\ WorldOK
  BY Parts
<1>2. run[p] \in RunRecord /\ run[p].slab \subseteq 1 .. turns /\ turns' = turns
  BY <1>1 DEF RunsOK, DropOlder, Rebuild, CountPending, LoadModel, NextSlab, Store,
              Finished, RecordFailure, BackfillFails, Killed, world
<1>3. \A q \in Runs \ {p} : run[q].at \in Holds => lock = q
  BY <1>1 DEF RunsOK
<1>4. lock \in Runs \cup {Nobody}
  BY <1>1 DEF WorldOK
<1>5. ASSUME NEW r \in RunRecord, Sets(p, r), lock' = lock, run[p].at \in Holds,
             r.at \notin {"attempt", "mark"}, r.slab \subseteq 1 .. turns
      PROVE  RunsOK' /\ lock' \in Runs \cup {Nobody}
  <2>1. lock = p
    BY <1>1, <1>5 DEF RunsOK
  <2> QED BY <1>1, <1>2, <1>3, <1>4, <1>5, <2>1, RunsKept, Zenon
<1>6. ASSUME NEW at \in Holds \cup {"fail"}, Goes(p, at), lock' = lock, run[p].at \in Holds
      PROVE  RunsOK' /\ lock' \in Runs \cup {Nobody}
  <2>1. lock = p /\ at \notin {"attempt", "mark"}
    BY <1>1, <1>6 DEF RunsOK, Holds
  <2> QED BY <1>1, <1>2, <1>4, <1>6, <2>1, GoesKeeps, Zenon
<1>7. CASE DropOlder(p)
  <2>1. /\ Goes(p, IF run[p].rebuild THEN "rebuild" ELSE "count")
        /\ lock' = lock /\ run[p].at \in Holds
    BY <1>7 DEF DropOlder, Is, Holds
  <2>2. (IF run[p].rebuild THEN "rebuild" ELSE "count") \in Holds
    BY DEF Holds
  <2> QED BY <1>6, <2>1, <2>2
<1>8. CASE Rebuild(p)
  BY <1>6, <1>8 DEF Rebuild, Is, Holds
<1>9. CASE CountPending(p)
  <2>1. PICK dim \in ModelDims :
          Sets(p, [run[p] EXCEPT !.dim = dim,
                                 !.at = IF Pending(dim) = {} THEN "done" ELSE "load"])
    BY <1>9 DEF CountPending
  <2> DEFINE at == IF Pending(dim) = {} THEN "done" ELSE "load"
             r  == [run[p] EXCEPT !.dim = dim, !.at = at]
  <2>2. dim \in Widths \cup {None} /\ at \in Holds
    BY DimsAreWidths DEF Holds
  <2>3. r \in RunRecord
    BY <1>2, <2>2, Zenon DEF RunRecord
  <2>4. r.at = at /\ r.slab = run[p].slab
    BY <1>2, SMT DEF RunRecord
  <2>5. lock' = lock /\ run[p].at \in Holds /\ at \notin {"attempt", "mark"}
    BY <1>9 DEF CountPending, Is, Holds
  <2>6. Sets(p, r)
    BY <2>1
  <2> HIDE DEF r
  <2> QED BY <1>2, <1>5, <2>3, <2>4, <2>5, <2>6
<1>10. CASE LoadModel(p)
  <2>1. lock' = lock /\ run[p].at \in Holds /\ (Goes(p, "fail") \/ Goes(p, "look"))
    BY <1>10 DEF LoadModel, Is, Holds
  <2> QED BY <1>6, <2>1 DEF Holds
<1>11. CASE NextSlab(p)
  <2>1. lock' = lock /\ run[p].at \in Holds
    BY <1>11 DEF NextSlab, Is, Holds
  <2> DEFINE c == Newest(Pending(run[p].dim))
             s == [run[p] EXCEPT !.at = "store", !.slab = c, !.last = FALSE]
             l == [run[p] EXCEPT !.last = TRUE]
  <2>2. c \subseteq 1 .. turns /\ c \subseteq Turns
    BY <1>1, EmbeddingAssumption, SMT DEF Newest, Pending, Turns, WorldOK
  <2>3. s \in RunRecord /\ l \in RunRecord
    BY <1>2, <2>2, Zenon DEF RunRecord, Holds
  <2>4. s.at = "store" /\ s.slab = c /\ l.at = run[p].at /\ l.slab = run[p].slab
    BY <1>2, SMT DEF RunRecord
  <2>5. Sets(p, s) \/ Goes(p, "done") \/ Sets(p, l)
    BY <1>11 DEF NextSlab
  <2>6. run[p].at \notin {"attempt", "mark"} /\ "done" \in Holds
    BY <1>11 DEF NextSlab, Is, Holds
  <2> HIDE DEF s, l, c
  <2> QED BY <1>2, <1>5, <1>6, <2>1, <2>2, <2>3, <2>4, <2>5, <2>6
<1>12. CASE Store(p)
  <2>1. lock' = lock /\ run[p].at \in Holds
    BY <1>12 DEF Store, Is, Holds, world
  <2> DEFINE r == [run[p] EXCEPT !.at = "look", !.slab = {}]
  <2>2. r \in RunRecord
    BY <1>2, Zenon DEF RunRecord, Holds
  <2>3. r.at = "look" /\ r.slab = {}
    BY <1>2, SMT DEF RunRecord
  <2>4. Goes(p, "fail") \/ Sets(p, r)
    BY <1>12 DEF Store
  <2> HIDE DEF r
  <2> QED BY <1>5, <1>6, <2>1, <2>2, <2>3, <2>4
<1>13. CASE Finished(p) \/ RecordFailure(p) \/ Killed(p)
  BY <1>1, <1>2, <1>13, LeavesKeeps DEF Finished, RecordFailure, Killed
<1>14. CASE BackfillFails(p)
  <2>1. lock' = lock /\ run[p].at \in Holds /\ Goes(p, "fail")
    BY <1>14 DEF BackfillFails, Holds
  <2> QED BY <1>6, <2>1
<1> QED BY <1>7, <1>8, <1>9, <1>10, <1>11, <1>12, <1>13, <1>14

-----------------------------------------------------------------------------
(* The other parts.                                                        *)

(* What a step may do to the vectors: drop some, age them all, or store    *)
(* those of one slab.                                                      *)
VecSame    == vec' = vec
VecDropped == \A t \in Turns : vec'[t] \in {vec[t], None}
VecAged    == \A t \in Turns : vec'[t] = IF vec[t] = None THEN None ELSE Stale
VecStored  == \E p \in Runs, seen \in ModelDims :
  /\ ~WidthMoved(run[p].dim, seen) /\ ~Mixes(seen, folder)
  /\ \A t \in Turns : vec'[t] = IF t \in run[p].slab THEN folder ELSE vec[t]
VecMoves   == /\ vec' \in [Turns -> Cells]
              /\ VecSame \/ ((VecDropped \/ VecAged \/ VecStored) /\ turns' = turns)
              /\ turns' \in {turns, turns + 1}

(* Each step is one of these.                                              *)
LEMMA VecStep == ASSUME EmbeddingAssumption, ETypeOK, [ENext]_evars PROVE VecMoves
<1>0. VecOK /\ WorldOK
  BY Parts
<1> USE DEF VecMoves, VecSame
<1>1. CASE turns' \in {turns, turns + 1} /\ vec' = vec
  BY <1>0, <1>1 DEF VecOK
<1>2. ASSUME NEW p \in Runs, DropOlder(p) PROVE VecMoves
  BY <1>0, <1>2, SMT DEF DropOlder, world, VecDropped, VecOK, Cells
<1>3. ASSUME NEW p \in Runs, Rebuild(p) PROVE VecMoves
  BY <1>0, <1>3, SMT DEF Rebuild, world, VecDropped, VecOK, Cells
<1>4. ASSUME NEW p \in Runs, Store(p) PROVE VecMoves
  <2>1. PICK seen \in ModelDims :
          IF WidthMoved(run[p].dim, seen) \/ Mixes(seen, folder)
          THEN vec' = vec
          ELSE vec' = [t \in Turns |-> IF t \in run[p].slab THEN folder ELSE vec[t]]
    BY <1>4 DEF Store
  <2>2. turns' = turns
    BY <1>4 DEF Store, world
  <2>3. CASE WidthMoved(run[p].dim, seen) \/ Mixes(seen, folder)
    BY <1>0, <2>1, <2>2, <2>3 DEF VecOK
  <2>4. CASE ~(WidthMoved(run[p].dim, seen) \/ Mixes(seen, folder))
    <3>1. vec' = [t \in Turns |-> IF t \in run[p].slab THEN folder ELSE vec[t]]
      BY <2>1, <2>4
    <3>2. vec' \in [Turns -> Cells]
      BY <1>0, <3>1 DEF VecOK, WorldOK, Cells
    <3>3. VecStored
      BY <2>4, <3>1 DEF VecStored
    <3> QED BY <2>2, <3>2, <3>3
  <2> QED BY <2>3, <2>4
<1>5. CASE Upgrade
  BY <1>0, <1>5, SMT DEF Upgrade, VecAged, VecOK, Cells
<1>6. CASE Archive
  BY <1>1, <1>6 DEF Archive
<1>7. ASSUME NEW p \in Runs,
             SpawnIfDue(p) \/ Typed(p) \/ RunLock(p) \/ RecordAttempt(p) \/ MarkRunning(p)
             \/ CountPending(p) \/ LoadModel(p) \/ NextSlab(p) \/ Finished(p)
             \/ RecordFailure(p) \/ LockUnusable(p) \/ BackfillFails(p) \/ Killed(p)
      PROVE  VecMoves
  BY <1>1, <1>7 DEF SpawnIfDue, Typed, RunLock, RecordAttempt, MarkRunning, CountPending,
       LoadModel, NextSlab, Finished, RecordFailure, LockUnusable, BackfillFails, Killed, world
<1>8. CASE SearchOpens \/ SearchLoads \/ SearchScans \/ SearchCounts \/ SearchEnds
           \/ ReplaceFiles \/ WindowPasses \/ Switch
  BY <1>1, <1>8 DEF SearchOpens, SearchLoads, SearchScans, SearchCounts, SearchEnds,
       ReplaceFiles, WindowPasses, Switch, idx, world
<1>9. CASE UNCHANGED evars
  BY <1>1, <1>9 DEF evars
<1> QED BY <1>2, <1>3, <1>4, <1>5, <1>6, <1>7, <1>8, <1>9 DEF ENext, Works

(* Only archived turns have vectors.                                       *)
LEMMA VecKept == ASSUME EmbeddingAssumption, ETypeOK, VecMoves PROVE VecOK'
<1>1. VecOK /\ RunsOK /\ WorldOK
  BY Parts
<1>2. vec' \in [Turns -> Cells]
  BY DEF VecMoves
<1>3. ASSUME NEW t \in Turns, t > turns' PROVE vec'[t] = None
  <2>1. t > turns /\ vec[t] = None
    BY <1>1, <1>3, SMT DEF VecMoves, VecOK, WorldOK, Turns
  <2>2. \A p \in Runs : t \notin run[p].slab
    BY <1>1, <2>1, SMT DEF RunsOK, WorldOK, Turns
  <2> QED BY <2>1, <2>2 DEF VecMoves, VecSame, VecDropped, VecAged, VecStored
<1> QED BY <1>2, <1>3 DEF VecOK

(* Only the user, the archive and the passing of time change the counts.   *)
LEMMA WorldStep == ASSUME EmbeddingAssumption, ETypeOK, [ENext]_evars
                   PROVE  /\ turns' \in 0 .. MaxTurns /\ turns' >= turns
                          /\ events' \in 0 .. MaxEvents
<1>0. WorldOK
  BY Parts
<1> USE EmbeddingAssumption DEF WorldOK, EmbeddingAssumption
<1>1. ASSUME events' \in {events} \/ Event, turns' = turns
      PROVE  /\ turns' \in 0 .. MaxTurns /\ turns' >= turns
             /\ events' \in 0 .. MaxEvents
  BY <1>0, <1>1, SMT DEF Event
<1>2. ASSUME NEW p \in Runs,
             SpawnIfDue(p) \/ Typed(p) \/ Works(p) \/ LockUnusable(p)
             \/ BackfillFails(p) \/ Killed(p)
      PROVE  turns' = turns /\ (events' = events \/ Event)
  BY <1>2, Zenon DEF SpawnIfDue, Typed, Works, RunLock, RecordAttempt, MarkRunning, WriteState,
       DropOlder, Rebuild, Store, CountPending, LoadModel, NextSlab, Finished,
       RecordFailure, LockUnusable, BackfillFails, Killed, world, note
<1>3. CASE SearchOpens \/ SearchLoads \/ SearchScans \/ SearchCounts \/ SearchEnds
           \/ Upgrade \/ ReplaceFiles \/ WindowPasses \/ Switch \/ UNCHANGED evars
  <2>1. turns' = turns /\ (events' = events \/ Event)
    BY <1>3, Zenon DEF SearchOpens, SearchLoads, SearchScans, SearchCounts, SearchEnds,
         Upgrade, ReplaceFiles, WindowPasses, Switch, evars, idx, world
  <2> QED BY <1>1, <2>1
<1>4. CASE Archive
  BY <1>0, <1>4, SMT DEF Archive
<1> QED BY <1>1, <1>2, <1>3, <1>4 DEF ENext

(* The model's folder and the lock hold what they may hold.                *)
LEMMA FolderStep == ASSUME EmbeddingAssumption, ETypeOK, [ENext]_evars
                    PROVE  folder' \in Widths \cup {None}
<1>0. folder \in Widths \cup {None} /\ Pinned \in Widths
  BY Parts DEF WorldOK, EmbeddingAssumption
<1>1. ASSUME NEW p \in Runs,
             SpawnIfDue(p) \/ Typed(p) \/ Works(p) \/ LockUnusable(p)
             \/ BackfillFails(p) \/ Killed(p)
      PROVE  folder' \in {folder, Pinned}
  BY <1>1, Zenon DEF SpawnIfDue, Typed, Works, RunLock, RecordAttempt, MarkRunning,
       DropOlder, Rebuild, Store, CountPending, LoadModel, NextSlab, Finished,
       RecordFailure, LockUnusable, BackfillFails, Killed, world
<1>2. CASE SearchOpens \/ SearchLoads \/ SearchScans \/ SearchCounts \/ SearchEnds
           \/ Archive \/ WindowPasses \/ Switch \/ UNCHANGED evars
  BY <1>0, <1>2, Zenon DEF SearchOpens, SearchLoads, SearchScans, SearchCounts, SearchEnds,
         Archive, WindowPasses, Switch, evars, world
<1>3. CASE Upgrade \/ ReplaceFiles
  BY <1>3 DEF Upgrade, ReplaceFiles
<1> QED BY <1>0, <1>1, <1>2, <1>3 DEF ENext

(* The processes' part and the lock, over every step.                      *)
LEMMA RunsStep == ASSUME EmbeddingAssumption, ETypeOK, [ENext]_evars
                  PROVE  RunsOK' /\ lock' \in Runs \cup {Nobody}
<1>0. RunsOK /\ WorldOK
  BY Parts
<1>1. ASSUME NEW p \in Runs,
             SpawnIfDue(p) \/ Typed(p) \/ Works(p) \/ LockUnusable(p)
             \/ BackfillFails(p) \/ Killed(p)
      PROVE  RunsOK' /\ lock' \in Runs \cup {Nobody}
  BY <1>1, StartKeepsRuns, WorkKeepsRuns, Zenon DEF Works
<1>2. CASE SearchOpens \/ SearchLoads \/ SearchScans \/ SearchCounts \/ SearchEnds
           \/ Archive \/ Upgrade \/ ReplaceFiles \/ WindowPasses \/ Switch
           \/ UNCHANGED evars
  <2>1. run' = run /\ lock' = lock
    BY <1>2, Zenon DEF SearchOpens, SearchLoads, SearchScans, SearchCounts, SearchEnds,
         Archive, Upgrade, ReplaceFiles, WindowPasses, Switch, evars, idx
  <2>2. 1 .. turns \subseteq 1 .. turns'
    BY <1>0, WorldStep, SMT DEF WorldOK
  <2> QED BY <1>0, <2>1, <2>2, Zenon DEF RunsOK, WorldOK
<1> QED BY <1>1, <1>2 DEF ENext

(* The state file and the flags.                                           *)
LEMMA FileStep == ASSUME EmbeddingAssumption, ETypeOK, [ENext]_evars PROVE FileOK' /\ FlagsOK'
<1>0. RunsOK /\ FileOK /\ FlagsOK
  BY Parts
<1>1. ASSUME NEW p \in Runs PROVE run[p].failures \in 0 .. MaxFailures /\ run[p].auto \in BOOLEAN
  BY <1>0, SMT DEF RunsOK, RunRecord
<1>2. ASSUME NEW p \in Runs,
             SpawnIfDue(p) \/ Typed(p) \/ RunLock(p) \/ LockUnusable(p) \/ RecordAttempt(p)
             \/ DropOlder(p) \/ Rebuild(p) \/ CountPending(p) \/ LoadModel(p) \/ NextSlab(p)
             \/ Store(p) \/ BackfillFails(p)
      PROVE  FileOK' /\ FlagsOK'
  BY <1>0, <1>2, Zenon DEF FileOK, FlagsOK, SpawnIfDue, Typed, RunLock, LockUnusable,
       RecordAttempt, DropOlder, Rebuild, CountPending, LoadModel, NextSlab, Store,
       BackfillFails, world, note
<1>3. ASSUME NEW state \in {"running", "failed"}, NEW n \in 0 .. MaxFailures,
             WriteState(state, n)
      PROVE  FileOK' /\ window' \in BOOLEAN
  <2>1. [state |-> state, failures |-> n]
           \in [state : {"none", "running", "failed"}, failures : 0 .. MaxFailures]
    BY SMT
  <2> QED BY <1>0, <1>3, <2>1, Zenon DEF WriteState, FileOK, FlagsOK
<1>4. ASSUME NEW p \in Runs, MarkRunning(p) PROVE FileOK' /\ FlagsOK'
  BY <1>0, <1>1, <1>3, <1>4, Zenon DEF MarkRunning, world, FlagsOK
<1>5. ASSUME NEW p \in Runs, RecordFailure(p) PROVE FileOK' /\ FlagsOK'
  <2>1. CASE run[p].auto
    BY <1>0, <1>1, <1>3, <1>5, <2>1, Zenon DEF RecordFailure, world, FlagsOK
  <2>2. CASE ~run[p].auto
    BY <1>0, <1>5, <2>2, Zenon DEF RecordFailure, world, note, FlagsOK, FileOK
  <2> QED BY <2>1, <2>2
<1>6. Healthy \in [state : {"none", "running", "failed"}, failures : 0 .. MaxFailures]
  BY EmbeddingAssumption, SMT DEF Healthy, EmbeddingAssumption
<1>7. ASSUME NEW p \in Runs, Finished(p) \/ Killed(p) PROVE FileOK' /\ FlagsOK'
  <2>1. off' = off /\ cause' \in BOOLEAN /\ window' \in BOOLEAN
    BY <1>0, <1>1, <1>7, Zenon DEF Finished, Killed, world, FlagsOK
  <2>2. file' \in {file, Healthy}
    BY <1>7, Zenon DEF Finished, Killed
  <2> QED BY <1>0, <1>6, <2>1, <2>2 DEF FileOK, FlagsOK
<1>8. CASE SearchOpens \/ SearchLoads \/ SearchScans \/ SearchCounts \/ SearchEnds
           \/ Archive \/ Upgrade \/ ReplaceFiles \/ WindowPasses \/ Switch
           \/ UNCHANGED evars
  <2>1. file' = file /\ cause' = cause /\ window' \in {window, FALSE} /\ off' \in {off, ~off}
    BY <1>8, Zenon DEF SearchOpens, SearchLoads, SearchScans, SearchCounts, SearchEnds,
         Archive, Upgrade, ReplaceFiles, WindowPasses, Switch, evars, idx, world, note
  <2> QED BY <1>0, <2>1, Zenon DEF FileOK, FlagsOK
<1> QED BY <1>2, <1>4, <1>5, <1>7, <1>8 DEF ENext, Works

-----------------------------------------------------------------------------
(* The search.  Between its two queries it holds one row of every turn it  *)
(* saw, and has ranked those of its width.                                 *)

Viewed == query.at = "count" =>
  /\ query.dim \in Widths
  /\ query.ranked \subseteq 1 .. query.seen
  /\ \A r \in query.view : r[1] \in 1 .. query.seen
  /\ \A t \in 1 .. query.seen : \E c \in Cells :
       /\ <<t, c>> \in query.view
       /\ \A r \in query.view : r[1] = t => r[2] = c
       /\ t \in query.ranked <=> c = query.dim

QueryInv == QueryOK /\ Viewed /\ SearchTold /\ (query.at \in {"load", "scan"} => query.dim \in Widths)

(* Each step of a search, and no other, moves it; while it does, nothing   *)
(* is archived.                                                            *)
LEMMA QuerySame ==
  ASSUME ENext \/ UNCHANGED evars
  PROVE  query' = query \/ (turns' = turns /\ (SearchOpens \/ SearchLoads \/ SearchScans
                                               \/ SearchCounts \/ SearchEnds))
<1>1. ASSUME NEW p \in Runs,
             SpawnIfDue(p) \/ Typed(p) \/ Works(p) \/ LockUnusable(p)
             \/ BackfillFails(p) \/ Killed(p)
      PROVE  query' = query
  BY <1>1, Zenon DEF SpawnIfDue, Typed, Works, RunLock, RecordAttempt, MarkRunning,
       DropOlder, Rebuild, Store, CountPending, LoadModel, NextSlab, Finished,
       RecordFailure, LockUnusable, BackfillFails, Killed, world
<1>2. CASE Archive \/ Upgrade \/ ReplaceFiles \/ WindowPasses \/ Switch \/ UNCHANGED evars
  BY <1>2, Zenon DEF Archive, Upgrade, ReplaceFiles, WindowPasses, Switch, evars, world
<1>3. CASE SearchOpens \/ SearchLoads \/ SearchScans \/ SearchCounts \/ SearchEnds
  BY <1>3, Zenon DEF SearchOpens, SearchLoads, SearchScans, SearchCounts, SearchEnds, idx
<1> QED BY <1>1, <1>2, <1>3 DEF ENext

(* The scan: one row per turn, and the ranked ones are those of its width. *)
LEMMA ScanViews ==
  ASSUME EmbeddingAssumption, ETypeOK, SearchScans, query.dim \in Widths
  PROVE  query' \in Query /\ query'.seen = turns /\ query'.at = "count" /\ Viewed'
<1>0. QueryOK /\ VecOK /\ WorldOK
  BY Parts
<1> DEFINE ranked == {t \in 1 .. turns : vec[t] = query.dim}
<1>1. /\ query' = [query EXCEPT !.at = "count", !.seen = turns, !.view = Rows, !.ranked = ranked]
      /\ query \in Query
  BY <1>0, Zenon DEF SearchScans, Asks, QueryOK
<1>2. Rows \in SUBSET (Turns \X Cells) /\ ranked \in SUBSET Turns /\ turns \in 0 .. MaxTurns
  BY <1>0, SMT DEF Rows, VecOK, WorldOK, Turns, Cells, EmbeddingAssumption
<1> HIDE DEF ranked
<1>3. query' \in Query
  BY <1>1, <1>2, Zenon DEF Query
<1>4. /\ query'.at = "count" /\ query'.seen = turns /\ query'.view = Rows
      /\ query'.ranked = ranked /\ query'.dim = query.dim
  BY <1>1, SMT DEF Query
<1>5. ASSUME NEW t \in 1 .. turns
      PROVE  /\ vec[t] \in Cells /\ <<t, vec[t]>> \in Rows
             /\ \A r \in Rows : r[1] = t => r[2] = vec[t]
             /\ t \in ranked <=> vec[t] = query.dim
  <2>1. vec[t] \in Cells
    BY <1>0, SMT DEF VecOK, WorldOK, Turns, EmbeddingAssumption
  <2>2. <<t, vec[t]>> \in Rows
    BY Zenon DEF Rows
  <2>3. \A r \in Rows : r[1] = t => r[2] = vec[t]
    BY SMT DEF Rows
  <2> QED BY <2>1, <2>2, <2>3 DEF ranked
<1>6. ranked \subseteq 1 .. turns /\ \A r \in Rows : r[1] \in 1 .. turns
  BY SMT DEF ranked, Rows
<1>7. Viewed'
  BY <1>4, <1>5, <1>6, Zenon DEF Viewed
<1> QED BY <1>3, <1>4, <1>7

(* The count: what is missing is what was not ranked.                      *)
LEMMA CountTells ==
  ASSUME EmbeddingAssumption, ETypeOK, Viewed, SearchCounts
  PROVE  query' \in Query /\ query'.seen = query.seen /\ query'.at = "told" /\ SearchTold'
<1>0. query \in Query
  BY Parts DEF QueryOK
<1> DEFINE missing == {row[1] : row \in {r \in View : ~SameWidth(r[2], query.dim)}}
<1>1. /\ query' = [query EXCEPT !.at = "told", !.view = {}, !.missing = missing]
      /\ query.at = "count"
  BY Zenon DEF SearchCounts, Asks
<1>2. query.dim \in Widths /\ query.dim # None
  BY <1>1, Zenon DEF Viewed, EmbeddingAssumption
<1>3. query.view \in SUBSET (Turns \X Cells)
  BY <1>0, SMT DEF Query
<1>4. missing \in SUBSET Turns
  BY <1>3, SMT DEF View
<1>5. ASSUME NEW t PROVE t \in missing <=> \E r \in query.view : r[1] = t /\ r[2] # query.dim
  BY <1>2, SMT DEF View, SameWidth
<1> HIDE DEF missing
<1>6. query' \in Query
  BY <1>0, <1>1, <1>4, Zenon DEF Query
<1>7. /\ query'.at = "told" /\ query'.missing = missing /\ query'.ranked = query.ranked
      /\ query'.seen = query.seen
  BY <1>0, <1>1, SMT DEF Query
<1>8. \A t \in 1 .. query.seen : t \in query.ranked <=> t \notin missing
  <2> TAKE t \in 1 .. query.seen
  <2>1. PICK c \in Cells : /\ <<t, c>> \in query.view
                           /\ \A r \in query.view : r[1] = t => r[2] = c
                           /\ t \in query.ranked <=> c = query.dim
    BY <1>1, Zenon DEF Viewed
  <2>2. t \in missing <=> c # query.dim
    <3>1. <<t, c>>[1] = t /\ <<t, c>>[2] = c
      OBVIOUS
    <3> QED BY <1>5, <2>1, <3>1
  <2> QED BY <2>1, <2>2
<1>9. query.ranked \subseteq 1 .. query.seen /\ missing \subseteq 1 .. query.seen
  <2>1. query.ranked \subseteq 1 .. query.seen /\ \A r \in query.view : r[1] \in 1 .. query.seen
    BY <1>1, Zenon DEF Viewed
  <2>2. ASSUME NEW t \in missing PROVE t \in 1 .. query.seen
    <3>1. PICK r \in query.view : r[1] = t
      BY <1>5
    <3> QED BY <2>1, <3>1
  <2> QED BY <2>1, <2>2
<1> QED BY <1>6, <1>7, <1>8, <1>9 DEF SearchTold

(* A search keeps its shape and tells of every turn it saw.                *)
LEMMA QueryStep ==
  ASSUME EmbeddingAssumption, ETypeOK, QueryInv, [ENext]_evars
  PROVE  QueryInv'
<1>0. WorldOK /\ turns \in Nat /\ turns' \in Nat /\ turns' >= turns /\ query \in Query
      /\ query.seen \in Nat /\ query.seen <= turns
  BY Parts, WorldStep, SMT DEF WorldOK, EmbeddingAssumption, QueryInv, QueryOK, Query
<1>1. CASE query' = query
  BY <1>0, <1>1, SMT DEF QueryInv, QueryOK, Viewed, SearchTold
<1>2. ASSUME query' \in Query, query'.seen <= turns, turns' = turns,
             query'.at \notin {"count", "told"},
             query'.at \in {"load", "scan"} => query'.dim \in Widths
      PROVE  QueryInv'
  BY <1>2, Zenon DEF QueryInv, QueryOK, Viewed, SearchTold
<1>3. NoQuery \in Query /\ NoQuery.at = "idle" /\ NoQuery.seen = 0
  BY EmbeddingAssumption, SMT DEF NoQuery, Query, EmbeddingAssumption
<1>4. CASE turns' = turns /\ SearchOpens
  <2>1. PICK dim \in ModelDims \ {None} : query' = [NoQuery EXCEPT !.at = "load", !.dim = dim]
    BY <1>4 DEF SearchOpens, Asks
  <2>2. dim \in Widths
    BY DimsAreWidths
  <2>3. query' \in Query
    BY <1>3, <2>1, <2>2, Zenon DEF Query
  <2>4. query'.at = "load" /\ query'.dim = dim /\ query'.seen = 0
    BY <2>1, SMT DEF NoQuery
  <2>5. query'.seen <= turns
    BY <1>0, <2>4
  <2> QED BY <1>2, <1>4, <2>2, <2>3, <2>4, <2>5
<1>5. CASE turns' = turns /\ SearchLoads
  <2>1. query' \in {[query EXCEPT !.at = "scan"], NoQuery} /\ query.at = "load"
    BY <1>5, Zenon DEF SearchLoads, Asks
  <2>2. CASE query' = NoQuery
    BY <1>0, <1>2, <1>3, <1>5, <2>2
  <2>3. CASE query' = [query EXCEPT !.at = "scan"]
    <3>1. query' \in Query
      BY <1>0, <2>3, Zenon DEF Query
    <3>2. query'.at = "scan" /\ query'.dim = query.dim /\ query'.seen = query.seen
      BY <1>0, <2>3, SMT DEF Query
    <3> QED BY <1>0, <1>2, <1>5, <2>1, <3>1, <3>2 DEF QueryInv
  <2> QED BY <2>1, <2>2, <2>3
<1>6. CASE turns' = turns /\ SearchScans
  <2>1. query.dim \in Widths
    BY <1>6 DEF SearchScans, QueryInv
  <2>2. query' \in Query /\ query'.seen = turns /\ query'.at = "count" /\ Viewed'
    BY <1>6, <2>1, ScanViews
  <2>3. query'.seen <= turns'
    BY <1>0, <1>6, <2>2
  <2> QED BY <2>2, <2>3, Zenon DEF QueryInv, QueryOK, SearchTold
<1>7. CASE turns' = turns /\ SearchCounts
  <2>1. query' \in Query /\ query'.seen = query.seen /\ query'.at = "told" /\ SearchTold'
    BY <1>7, CountTells DEF QueryInv
  <2>2. query'.seen <= turns'
    BY <1>0, <1>7, <2>1
  <2> QED BY <2>1, <2>2, Zenon DEF QueryInv, QueryOK, Viewed
<1>8. CASE turns' = turns /\ SearchEnds
  BY <1>0, <1>2, <1>3, <1>8 DEF SearchEnds, Asks
<1>9. ENext \/ UNCHANGED evars
  OBVIOUS
<1> QED BY <1>1, <1>4, <1>5, <1>6, <1>7, <1>8, <1>9, QuerySame

-----------------------------------------------------------------------------
(* The types, for every number of turns and of processes.                  *)
LEMMA TypesStep == ASSUME EmbeddingAssumption, ETypeOK, QueryInv, [ENext]_evars PROVE ETypeOK'
<1>1. RunsOK' /\ lock' \in Runs \cup {Nobody} /\ VecOK' /\ FileOK' /\ FlagsOK' /\ QueryOK'
  BY RunsStep, VecStep, VecKept, FileStep, QueryStep DEF QueryInv
<1>2. WorldOK'
  BY <1>1, WorldStep, FolderStep DEF WorldOK
<1> QED BY <1>1, <1>2, PartsNext

(* A search has not begun.                                                 *)
LEMMA InitQuery == EInit => QueryInv
<1> SUFFICES ASSUME EInit PROVE QueryInv
  OBVIOUS
<1>1. QueryOK
  BY InitTypes, Parts
<1>2. query.at = "idle"
  BY DEF EInit, NoQuery
<1> QED BY <1>1, <1>2 DEF QueryInv, Viewed, SearchTold

(* What the proofs below step from.                                        *)
LEMMA TypesAndQuery == ESpec => [](ETypeOK /\ QueryInv)
<1>1. EInit => ETypeOK /\ QueryInv
  BY InitTypes, InitQuery
<1>2. ETypeOK /\ QueryInv /\ [ENext]_evars => ETypeOK' /\ QueryInv'
  BY EmbeddingAssumption, TypesStep, QueryStep
<1> QED BY <1>1, <1>2, PTL DEF ESpec

(* The types, and the lock: only its holder touches the vectors.           *)
THEOREM EmbeddingTypes == ESpec => []ETypeOK
  BY TypesAndQuery, PTL

(* A search accounts for every turn that was archived when it scanned      *)
(* (search.rs): the two queries read one view of the archive.              *)
THEOREM SearchTellsAll == ESpec => []SearchTold
  BY TypesAndQuery, PTL DEF QueryInv

-----------------------------------------------------------------------------
(* Any two vectors that are ranked have the same width: inductive, as a    *)
(* run compares the width its model returned with those stored by then.    *)
SameWidths == \A t, u \in Turns : vec[t] \in Widths /\ vec[u] \in Widths => vec[t] = vec[u]

(* Dropping, ageing and storing keep it.                                   *)
LEMMA WidthStep ==
  ASSUME EmbeddingAssumption, ETypeOK, SameWidths, VecMoves
  PROVE  SameWidths'
<1>0. VecOK /\ None \notin Widths /\ Stale \notin Widths
  BY Parts DEF EmbeddingAssumption
<1>1. CASE VecSame
  BY <1>1 DEF VecSame, SameWidths
<1>2. CASE VecDropped
  BY <1>0, <1>2, Zenon DEF VecDropped, SameWidths
<1>3. CASE VecAged
  BY <1>0, <1>3, Zenon DEF VecAged, SameWidths
<1>4. CASE VecStored
  <2>1. PICK p \in Runs, seen \in ModelDims :
          /\ ~Mixes(seen, folder)
          /\ \A t \in Turns : vec'[t] = IF t \in run[p].slab THEN folder ELSE vec[t]
    BY <1>4, Zenon DEF VecStored
  <2>2. ASSUME NEW t \in Turns, vec[t] \in Widths PROVE vec[t] = folder
    <3>1. seen \in Widths /\ \E u \in Turns : vec[u] = seen
      BY <2>2, Zenon DEF ModelDims
    <3>2. seen = folder
      BY <1>0, <2>1, <3>1, Zenon DEF Mixes
    <3> QED BY <2>2, <3>1, <3>2 DEF SameWidths
  <2> QED BY <2>1, <2>2, Zenon DEF SameWidths
<1> QED BY <1>1, <1>2, <1>3, <1>4 DEF VecMoves

(* One width at most.                                                      *)
LEMMA SameIsOne == ASSUME SameWidths PROVE OneWidth
<1> DEFINE W == {vec[t] : t \in Turns} \cap Widths
<1>1. CASE W = {}
  BY <1>1, FS_EmptySet, SMT DEF OneWidth
<1>2. ASSUME NEW w \in W PROVE OneWidth
  <2>1. W = {w}
    BY <1>2 DEF SameWidths
  <2>2. Cardinality({w}) = 1
    BY FS_Singleton
  <2> QED BY <2>1, <2>2, SMT DEF OneWidth
<1> QED BY <1>1, <1>2

(* Vectors that are ranked together have one width (search.rs:871).        *)
THEOREM WidthsNeverMix == ESpec => []OneWidth
<1>1. EInit => SameWidths
  BY EmbeddingAssumption, Zenon DEF EInit, SameWidths, EmbeddingAssumption
<1>2. ETypeOK /\ SameWidths /\ [ENext]_evars => SameWidths'
  BY EmbeddingAssumption, VecStep, WidthStep
<1>3. SameWidths => OneWidth
  BY SameIsOne
<1> QED BY <1>1, <1>2, <1>3, EmbeddingTypes, PTL DEF ESpec

-----------------------------------------------------------------------------
(* The state file, step by step: what a process that is not a background   *)
(* one at work does leaves it alone or clears it.                          *)
LEMMA BackoffStep ==
  ASSUME EmbeddingAssumption, ETypeOK, BackoffHasCause, [ENext]_evars
  PROVE  BackoffHasCause'
<1>0. RunsOK
  BY Parts
<1>1. CASE file' = file /\ cause' = cause /\ run' = run
  BY <1>1, Zenon DEF BackoffHasCause
<1>2. ASSUME NEW p \in Runs, NEW r, Sets(p, r), run[p].at \in {"idle", "start"} \/ ~run[p].auto,
             file' = file, cause => cause'
      PROVE  BackoffHasCause'
  <2>1. \A q \in Runs \ {p} : run'[q] = run[q]
    BY <1>0, <1>2, Zenon DEF RunsOK, Sets
  <2> QED BY <1>2, <2>1, Zenon DEF BackoffHasCause
<1>3. ASSUME NEW p \in Runs, NEW r, Sets(p, r), r.auto = run[p].auto,
             r.at \notin {"idle", "start"}, file' = file, cause' = cause
      PROVE  BackoffHasCause'
  <2>1. run'[p] = r /\ \A q \in Runs \ {p} : run'[q] = run[q]
    BY <1>0, <1>3, Zenon DEF RunsOK, Sets
  <2> QED BY <1>3, <2>1, Zenon DEF BackoffHasCause
<1>4. ASSUME NEW p \in Runs, NEW at \in {"mark", "fail"} \cup Holds, Goes(p, at),
             file' = file, cause' = cause
      PROVE  BackoffHasCause'
  <2> DEFINE r == [run[p] EXCEPT !.at = at]
  <2>1. r.at = at /\ r.auto = run[p].auto
    BY <1>0, MovesOn, Zenon
  <2>2. Sets(p, r) /\ r.at \notin {"idle", "start"}
    BY <1>4, <2>1 DEF Goes, Holds
  <2> HIDE DEF r
  <2> QED BY <1>3, <1>4, <2>1, <2>2
<1>5. ASSUME NEW p \in Runs, SpawnIfDue(p) \/ Typed(p) \/ RunLock(p) \/ LockUnusable(p)
      PROVE  BackoffHasCause'
  <2>1. \E r : Sets(p, r)
    BY <1>5, Zenon DEF SpawnIfDue, Typed, RunLock, LockUnusable, Goes
  <2>2. run[p].at \in {"idle", "start"} /\ file' = file /\ cause' = cause
    BY <1>5, Zenon DEF SpawnIfDue, Typed, RunLock, LockUnusable, Is, note
  <2> QED BY <1>2, <2>1, <2>2
<1>6. ASSUME NEW p \in Runs, RecordAttempt(p) PROVE BackoffHasCause'
  <2> DEFINE r == [run[p] EXCEPT !.at = "mark", !.failures = Count1(file.failures)]
  <2>1. r.at = "mark" /\ r.auto = run[p].auto
    BY <1>0, SMT DEF RunsOK, RunRecord
  <2>2. Sets(p, r) /\ file' = file /\ cause' = cause
    BY <1>6 DEF RecordAttempt, note
  <2> HIDE DEF r
  <2> QED BY <1>3, <2>1, <2>2
<1>7. ASSUME NEW p \in Runs, MarkRunning(p) PROVE BackoffHasCause'
  <2> DEFINE at == IF lock = p THEN "clean" ELSE "fail"
             r  == [run[p] EXCEPT !.at = at]
  <2>1. at \in {"idle", "start", "attempt", "mark", "fail"} \cup Holds /\ at \notin {"idle", "start"}
    BY DEF Holds
  <2>2. r.at = at /\ r.auto = run[p].auto
    BY <1>0, <2>1, MovesOn, Zenon
  <2>3. run[p].auto /\ Sets(p, r)
    BY <1>0, <1>7 DEF MarkRunning, Is, RunsOK, Goes
  <2>4. run'[p] = r
    BY <1>0, <2>3, Zenon DEF RunsOK, Sets
  <2> HIDE DEF r, at
  <2> QED BY <2>1, <2>2, <2>3, <2>4, Zenon DEF BackoffHasCause
<1>8. ASSUME NEW p \in Runs, DropOlder(p) \/ Rebuild(p) \/ LoadModel(p) \/ BackfillFails(p)
      PROVE  BackoffHasCause'
  <2>1. \E at \in {"mark", "fail"} \cup Holds : Goes(p, at)
    BY <1>8, Zenon DEF DropOlder, Rebuild, LoadModel, BackfillFails, Holds
  <2>2. file' = file /\ cause' = cause
    BY <1>8, Zenon DEF DropOlder, Rebuild, LoadModel, BackfillFails, note
  <2> QED BY <1>4, <2>1, <2>2
<1>9. ASSUME NEW p \in Runs, CountPending(p) PROVE BackoffHasCause'
  <2>1. PICK dim \in ModelDims :
          Sets(p, [run[p] EXCEPT !.dim = dim,
                                 !.at = IF Pending(dim) = {} THEN "done" ELSE "load"])
    BY <1>9 DEF CountPending
  <2> DEFINE r == [run[p] EXCEPT !.dim = dim,
                                 !.at = IF Pending(dim) = {} THEN "done" ELSE "load"]
  <2>2. r.auto = run[p].auto /\ r.at \in {"done", "load"}
    BY <1>0, SMT DEF RunsOK, RunRecord
  <2>3. Sets(p, r) /\ file' = file /\ cause' = cause
    BY <1>9, <2>1 DEF CountPending, note
  <2> HIDE DEF r
  <2> QED BY <1>3, <2>2, <2>3
<1>10. ASSUME NEW p \in Runs, NextSlab(p) PROVE BackoffHasCause'
  <2> DEFINE s == [run[p] EXCEPT !.at = "store", !.slab = Newest(Pending(run[p].dim)),
                                 !.last = FALSE]
             l == [run[p] EXCEPT !.last = TRUE]
  <2>1. s.at = "store" /\ s.auto = run[p].auto /\ l.at = run[p].at /\ l.auto = run[p].auto
    BY <1>0, SMT DEF RunsOK, RunRecord
  <2>2. /\ Sets(p, s) \/ Sets(p, l) \/ Goes(p, "done")
        /\ run[p].at = "look" /\ file' = file /\ cause' = cause
    BY <1>10 DEF NextSlab, note, Is
  <2> HIDE DEF s, l
  <2> QED BY <1>3, <1>4, <2>1, <2>2 DEF Holds
<1>11. ASSUME NEW p \in Runs, Store(p) PROVE BackoffHasCause'
  <2> DEFINE r == [run[p] EXCEPT !.at = "look", !.slab = {}]
  <2>1. r.at = "look" /\ r.auto = run[p].auto
    BY <1>0, SMT DEF RunsOK, RunRecord
  <2>2. (Sets(p, r) \/ Goes(p, "fail")) /\ file' = file /\ cause' = cause
    BY <1>11 DEF Store, note
  <2> HIDE DEF r
  <2> QED BY <1>3, <1>4, <2>1, <2>2
<1>12. ASSUME NEW p \in Runs, Finished(p) PROVE BackoffHasCause'
  <2>1. Healthy.state = "none"
    BY DEF Healthy
  <2> QED BY <1>12, <2>1, Zenon DEF Finished, BackoffHasCause
<1>13. ASSUME NEW p \in Runs, RecordFailure(p) \/ Killed(p) PROVE BackoffHasCause'
  <2>1. CASE run[p].auto
    BY <1>13, <2>1, Zenon DEF RecordFailure, Killed, BackoffHasCause
  <2>2. CASE ~run[p].auto
    <3>1. file' = file /\ \E r : Sets(p, r)
      BY <1>13, <2>2, Zenon DEF RecordFailure, Killed, note, Leaves
    <3>2. cause => cause'
      BY <1>13, <2>2, Zenon DEF RecordFailure, Killed, note
    <3> QED BY <1>2, <2>2, <3>1, <3>2
  <2> QED BY <2>1, <2>2
<1>14. CASE SearchOpens \/ SearchLoads \/ SearchScans \/ SearchCounts \/ SearchEnds
            \/ Archive \/ Upgrade \/ ReplaceFiles \/ WindowPasses \/ Switch
            \/ UNCHANGED evars
  BY <1>1, <1>14, Zenon DEF SearchOpens, SearchLoads, SearchScans, SearchCounts, SearchEnds,
       Archive, Upgrade, ReplaceFiles, WindowPasses, Switch, evars, idx, note
<1> QED BY <1>5, <1>6, <1>7, <1>8, <1>9, <1>10, <1>11, <1>12, <1>13, <1>14 DEF ENext, Works

(* The hooks wait only for a background run that did not finish            *)
(* (search.rs: the state file of the worker).                              *)
THEOREM WaitsForCause == ESpec => []BackoffHasCause
<1>1. EInit => BackoffHasCause
  BY DEF EInit, Healthy, BackoffHasCause
<1>2. ETypeOK /\ BackoffHasCause /\ [ENext]_evars => BackoffHasCause'
  BY EmbeddingAssumption, BackoffStep
<1> QED BY <1>1, <1>2, EmbeddingTypes, PTL DEF ESpec

-----------------------------------------------------------------------------
(* The download.                                                           *)

(* The first of the files a process has still to do.                       *)
Least(todo) == CHOOSE f \in todo : \A g \in todo : f <= g

Working == {"stage", "check", "open", "curl", "verify", "promote"}
Holding == Working \cup {"list"}

(* What a process has in hand: a file, in the process's own staging file   *)
(* from the transfer on.                                                   *)
InHand(p, r) == /\ r.at \in Working => r.todo # {}
                /\ r.at \in {"open", "curl", "verify"} => r.part = p

DiskOK == /\ final \in [Files -> Text]
          /\ parts \in [Files -> [Names -> Text]]
          /\ saving \in [file : Files, at : Names \cup {"gone", "final"},
                         off : 0 .. Size]
ProcOK == /\ dlock \in Procs \cup {Free}
          /\ proc \in [Procs -> Proc]
          /\ \A p \in Procs : (proc[p].at \in {"idle", "wait"}) <=> dlock # p
          /\ \A p \in Procs : InHand(p, proc[p])
CountOK == /\ disabled \in BOOLEAN
           /\ kills \in 0 .. MaxKills /\ faults \in 0 .. MaxFaults
           /\ hands \in 0 .. MaxHand /\ resaved \subseteq Files

(* What is about to be renamed is the right file, or the user has saved    *)
(* another over it; a browser writes to a final name only once the file    *)
(* is there.                                                               *)
CheckedOK(r) == r.at = "promote" =>
                  Least(r.todo) \in resaved \/ parts[Least(r.todo)][r.part] = Right
Checked == \A p \in Procs : CheckedOK(proc[p])
Arrived == saving.at = "final" => saving.file \in resaved \/ final[saving.file] # <<>>

DInv == DiskOK /\ ProcOK /\ CountOK /\ Checked /\ Arrived /\ LoadedIsRight

-----------------------------------------------------------------------------
(* Texts.                                                                  *)

(* A text is a function on an initial segment, whose length it has.        *)
LEMMA TextLen ==
  ASSUME NEW t \in Text
  PROVE  /\ t \in Seq(BOOLEAN) /\ Len(t) \in 0 .. Size + 1
         /\ t \in [1 .. Len(t) -> BOOLEAN]
  BY DownloadAssumption, SMT DEF DownloadAssumption, Text

(* Every short enough sequence of pieces is a text.                        *)
LEMMA TextIn ==
  ASSUME NEW n \in 0 .. Size + 1, NEW t \in [1 .. n -> BOOLEAN]
  PROVE  t \in Text
  BY DEF Text

(* Nothing, and the right file, are texts, and they differ.                *)
LEMMA RightIsText == <<>> \in Text /\ Right \in Text /\ Right # <<>> /\ Len(Right) = Size
<1>1. Size \in Nat \ {0}
  BY DownloadAssumption DEF DownloadAssumption
<1>2. Right \in [1 .. Size -> BOOLEAN] /\ Size \in 0 .. Size + 1
  BY <1>1, SMT DEF Right
<1>3. Right \in Text
  BY <1>2, TextIn
<1>4. <<>> \in [1 .. 0 -> BOOLEAN] /\ 0 \in 0 .. Size + 1
  BY <1>1, SMT
<1>5. <<>> \in Text
  BY <1>4, TextIn
<1>6. Len(Right) = Size
  BY <1>1, <1>2, SMT
<1> QED BY <1>1, <1>3, <1>5, <1>6, SMT

(* A piece received or written keeps a text a text.                        *)
LEMMA PieceKept ==
  ASSUME NEW t \in Text, NEW b \in BOOLEAN, Len(t) <= Size
  PROVE  Append(t, b) \in Text
<1>1. Size \in Nat /\ t \in Seq(BOOLEAN) /\ Len(t) \in Nat
  BY TextLen, DownloadAssumption, SMT DEF DownloadAssumption
<1>2. Append(t, b) \in [1 .. Len(t) + 1 -> BOOLEAN]
  BY <1>1, AppendProperties, LenProperties
<1>3. Len(t) + 1 \in 0 .. Size + 1
  BY <1>1, SMT
<1> QED BY <1>2, <1>3, TextIn

(* The browser keeps a text a text, and the right file the right file.     *)
LEMMA PutKept ==
  ASSUME NEW t \in Text, NEW k \in 1 .. Size
  PROVE  PutPiece(t, k) \in Text /\ PutPiece(Right, k) = Right
<1>1. Size \in Nat /\ Len(t) \in 0 .. Size + 1 /\ t \in [1 .. Len(t) -> BOOLEAN]
  BY TextLen, DownloadAssumption, SMT DEF DownloadAssumption
<1>2. ASSUME k <= Len(t) PROVE PutPiece(t, k) \in Text
  <2>1. PutPiece(t, k) = [t EXCEPT ![k] = TRUE]
    BY <1>2 DEF PutPiece
  <2>2. [t EXCEPT ![k] = TRUE] \in [1 .. Len(t) -> BOOLEAN]
    BY <1>1, Zenon
  <2> QED BY <1>1, <2>1, <2>2, TextIn
<1>3. ASSUME ~(k <= Len(t)) PROVE PutPiece(t, k) \in Text
  <2>1. PutPiece(t, k) = Append(t, TRUE)
    BY <1>3 DEF PutPiece
  <2>2. Len(t) <= Size
    BY <1>1, <1>3, SMT
  <2> QED BY <2>1, <2>2, PieceKept
<1>4. PutPiece(Right, k) = [Right EXCEPT ![k] = TRUE]
  BY <1>1, RightIsText, SMT DEF PutPiece
<1>5. [Right EXCEPT ![k] = TRUE] = Right
  BY Zenon DEF Right
<1> QED BY <1>2, <1>3, <1>4, <1>5

(* A set of naturals has a least element.                                  *)
LEMMA LeastOf ==
  ASSUME NEW S, S \subseteq Nat, S # {}
  PROVE  \E x \in S : \A y \in S : x <= y
<1> DEFINE R == OpToRel(<, Nat)
<1>1. \E x \in S : \A y \in S : ~(<<y, x>> \in R)
  <2>1. IsWellFoundedOn(R, Nat)
    BY NatLessThanWellFounded
  <2> HIDE DEF R
  <2> QED BY <2>1, WFMin
<1>2. PICK x \in S : \A y \in S : ~(<<y, x>> \in R)
  BY <1>1
<1>3. \A y \in S : x <= y
  <2> TAKE y \in S
  <2>1. ~(y < x)
    BY <1>2 DEF OpToRel
  <2> QED BY <2>1, SMT
<1> QED BY <1>3

(* The first file to do is one of them.                                    *)
LEMMA LeastIn ==
  ASSUME NEW todo \in SUBSET Files, todo # {}
  PROVE  Least(todo) \in todo /\ Least(todo) \in Files
<1>1. todo \subseteq Nat
  BY DownloadAssumption, SMT DEF DownloadAssumption, Files
<1>2. \E x \in todo : \A y \in todo : x <= y
  BY <1>1, LeastOf
<1> QED BY <1>2 DEF Least

-----------------------------------------------------------------------------
(* A process moves on.                                                     *)

(* The record of a process is typed field by field.                        *)
LEMMA ProcFields ==
  ASSUME NEW r \in Proc
  PROVE  /\ r.at \in Holding \cup {"idle", "wait"} /\ r.todo \in SUBSET Files
         /\ r.part \in Names /\ r.pos \in 0 .. Size
  BY DEF Proc, Holding, Working

(* Whoever holds the lock is the only one with work in hand.               *)
LEMMA Alone ==
  ASSUME ProcOK, NEW p \in Procs, proc[p].at \in Holding
  PROVE  /\ dlock = p
         /\ \A q \in Procs \ {p} : proc[q].at \in {"idle", "wait"}
  BY DEF ProcOK, Holding, Working

(* The holder goes on with its work.                                       *)
LEMMA Keeps ==
  ASSUME ProcOK, NEW p \in Procs, proc[p].at \in Holding,
         NEW r \in Proc, r.at \in Holding, InHand(p, r), Step(p, r),
         dlock' = dlock
  PROVE  /\ ProcOK' /\ proc'[p] = r
         /\ \A q \in Procs \ {p} : proc'[q].at # "promote"
<1>1. proc' \in [Procs -> Proc] /\ proc'[p] = r
  BY Zenon DEF ProcOK, Step
<1>2. \A q \in Procs \ {p} : proc'[q] = proc[q]
  BY Zenon DEF ProcOK, Step
<1>3. \A q \in Procs \ {p} : proc[q].at \in {"idle", "wait"}
  BY Alone
<1>4. r.at \notin {"idle", "wait"} /\ dlock = p
  BY Alone DEF Holding, Working
<1> QED BY <1>1, <1>2, <1>3, <1>4 DEF ProcOK, InHand

(* The holder returns.                                                     *)
LEMMA Returns ==
  ASSUME ProcOK, NEW p \in Procs, proc[p].at \in Holding, Return(p)
  PROVE  ProcOK' /\ \A q \in Procs : proc'[q].at # "promote"
<1>1. Idle \in Proc /\ Idle.at = "idle"
  BY DownloadAssumption, SMT DEF DownloadAssumption, Idle, Proc, Names
<1>2. proc' \in [Procs -> Proc] /\ proc'[p] = Idle
  BY <1>1, Zenon DEF ProcOK, Return, Step
<1>3. \A q \in Procs \ {p} : proc'[q] = proc[q]
  BY Zenon DEF ProcOK, Return, Step
<1>4. \A q \in Procs \ {p} : proc[q].at \in {"idle", "wait"}
  BY Alone
<1>5. dlock' = Free /\ Free \notin Procs
  BY DownloadAssumption DEF DownloadAssumption, Return
<1> QED BY <1>1, <1>2, <1>3, <1>4, <1>5 DEF ProcOK, InHand, Working

(* The file a process works on is one of the files.                        *)
LEMMA CurrentIn ==
  ASSUME ProcOK, NEW p \in Procs, proc[p].at \in Working
  PROVE  /\ Current(p) = Least(proc[p].todo)
         /\ Current(p) \in proc[p].todo /\ Current(p) \in Files
<1>1. proc[p].todo \in SUBSET Files /\ proc[p].todo # {}
  BY ProcFields DEF ProcOK, InHand
<1>2. Current(p) = Least(proc[p].todo)
  BY DEF Current, Least
<1> QED BY <1>1, <1>2, LeastIn

(* The holder goes to its next file, or returns.                           *)
LEMMA NextKeeps ==
  ASSUME ProcOK, NEW p \in Procs, proc[p].at \in Working, NextFile(p)
  PROVE  ProcOK' /\ \A q \in Procs : proc'[q].at # "promote"
<1> DEFINE rest == proc[p].todo \ {Current(p)}
           r == [proc[p] EXCEPT !.at = "stage", !.todo = rest]
<1>0. proc[p] \in Proc /\ proc[p].at \in Holding
  BY DEF ProcOK, Holding
<1>1. CASE rest = {}
  <2>1. Return(p)
    BY <1>1 DEF NextFile
  <2> QED BY <1>0, <2>1, Returns
<1>2. CASE rest # {}
  <2>1. rest \in SUBSET Files
    BY <1>0, ProcFields
  <2>2. r \in Proc
    BY <1>0, <2>1, Zenon DEF Proc
  <2>3. r.at = "stage" /\ r.todo = rest
    BY <1>0 DEF Proc
  <2>4. Step(p, r) /\ dlock' = dlock
    BY <1>2 DEF NextFile
  <2>5. InHand(p, r) /\ r.at \in Holding
    BY <1>2, <2>3 DEF InHand, Holding, Working
  <2> HIDE DEF r, rest
  <2>6. ProcOK' /\ proc'[p] = r /\ \A q \in Procs \ {p} : proc'[q].at # "promote"
    BY <1>0, <2>2, <2>4, <2>5, Keeps
  <2> QED BY <2>3, <2>6
<1> QED BY <1>1, <1>2

(* A process goes on to another step of the same file.                     *)
LEMMA GotoKeeps ==
  ASSUME ProcOK, NEW p \in Procs, proc[p].at \in Working,
         NEW at \in Working, Goto(p, at), dlock' = dlock,
         at \in {"open", "curl", "verify"} => proc[p].part = p
  PROVE  /\ ProcOK' /\ \A q \in Procs \ {p} : proc'[q].at # "promote"
         /\ proc'[p].at = at /\ proc'[p].todo = proc[p].todo
         /\ proc'[p].part = proc[p].part
<1> DEFINE r == [proc[p] EXCEPT !.at = at]
<1>0. proc[p] \in Proc /\ proc[p].at \in Holding /\ InHand(p, proc[p])
  BY DEF ProcOK, Holding
<1>1. at \in {"idle", "wait", "list", "stage", "check", "open", "curl", "verify", "promote"}
  BY DEF Working
<1>2. r \in Proc
  BY <1>0, <1>1, Zenon DEF Proc
<1>3. r.at = at /\ r.todo = proc[p].todo /\ r.part = proc[p].part
  BY <1>0 DEF Proc
<1>4. InHand(p, r) /\ r.at \in Holding
  BY <1>0, <1>3 DEF InHand, Holding
<1>5. Step(p, r)
  BY DEF Goto
<1> HIDE DEF r
<1>6. ProcOK' /\ proc'[p] = r /\ \A q \in Procs \ {p} : proc'[q].at # "promote"
  BY <1>0, <1>2, <1>4, <1>5, Keeps
<1> QED BY <1>3, <1>6

(* A process takes up one name of its file.                                *)
LEMMA PartKeeps ==
  ASSUME ProcOK, NEW p \in Procs, proc[p].at \in Working,
         NEW at \in {"check", "open"}, NEW n \in Names, at = "open" => n = p,
         Step(p, [proc[p] EXCEPT !.at = at, !.part = n]), dlock' = dlock
  PROVE  ProcOK' /\ \A q \in Procs : proc'[q].at # "promote"
<1> DEFINE r == [proc[p] EXCEPT !.at = at, !.part = n]
<1>0. proc[p] \in Proc /\ proc[p].at \in Holding /\ InHand(p, proc[p])
  BY DEF ProcOK, Holding
<1>2. r \in Proc
  BY <1>0, Zenon DEF Proc
<1>3. r.at = at /\ r.todo = proc[p].todo /\ r.part = n
  BY <1>0 DEF Proc
<1>4. InHand(p, r) /\ r.at \in Holding
  BY <1>0, <1>3 DEF InHand, Holding, Working
<1> HIDE DEF r
<1>6. ProcOK' /\ proc'[p] = r /\ \A q \in Procs \ {p} : proc'[q].at # "promote"
  BY <1>0, <1>2, <1>4, Keeps DEF r
<1> QED BY <1>3, <1>6

-----------------------------------------------------------------------------
(* A file changes under one of its names.                                  *)

(* The staging files after a write.                                        *)
LEMMA WriteKeeps ==
  ASSUME DiskOK, NEW f \in Files, NEW n \in Names, NEW txt \in Text,
         Write(f, n, txt)
  PROVE  /\ parts' \in [Files -> [Names -> Text]]
         /\ parts'[f][n] = txt
         /\ \A g \in Files, m \in Names :
              g # f \/ m # n => parts'[g][m] = parts[g][m]
<1>1. parts \in [Files -> [Names -> Text]] /\ parts[f] \in [Names -> Text]
  BY DEF DiskOK
<1> DEFINE names == [parts[f] EXCEPT ![n] = txt]
<1>2. names \in [Names -> Text] /\ names[n] = txt
  BY <1>1, Zenon
<1>3. \A m \in Names : m # n => names[m] = parts[f][m]
  BY <1>1, Zenon
<1>4. parts' = [parts EXCEPT ![f] = names]
  BY DEF Write, SetParts
<1> HIDE DEF names
<1>5. parts' \in [Files -> [Names -> Text]] /\ parts'[f] = names
  BY <1>1, <1>2, <1>4, Zenon
<1>6. \A g \in Files : g # f => parts'[g] = parts[g]
  BY <1>1, <1>4, Zenon
<1> QED BY <1>2, <1>3, <1>5, <1>6

(* The staging files when one of them is left.                             *)
LEMMA OnlyKeeps ==
  ASSUME DiskOK, NEW f \in Files, NEW n \in Names, NEW txt \in Text,
         OnlyPart(f, n, txt)
  PROVE  parts' \in [Files -> [Names -> Text]]
<1>1. [m \in Names |-> IF m = n THEN txt ELSE <<>>] \in [Names -> Text]
  BY RightIsText, SMT
<1> QED BY <1>1, Zenon DEF DiskOK, OnlyPart, SetParts

(* The browser's file moves along.                                         *)
LEMMA MovesKeeps ==
  ASSUME DiskOK, NEW f, NEW from, NEW to \in Names \cup {"gone", "final"},
         Moves(f, from, to)
  PROVE  /\ saving' \in [file : Files, at : Names \cup {"gone", "final"},
                         off : 0 .. Size]
         /\ saving'.file = saving.file
         /\ saving'.at = "final" => \/ saving.at = "final"
                                    \/ to = "final" /\ saving.file = f
<1>1. CASE saving.file = f /\ saving.at \in from
  <2>1. saving' = [saving EXCEPT !.at = to]
    BY <1>1 DEF Moves
  <2>2. saving' \in [file : Files, at : Names \cup {"gone", "final"}, off : 0 .. Size]
    BY <2>1, Zenon DEF DiskOK
  <2>3. saving'.at = to /\ saving'.file = saving.file
    BY <2>1 DEF DiskOK
  <2> QED BY <1>1, <2>2, <2>3
<1>2. CASE ~(saving.file = f /\ saving.at \in from)
  <2>1. saving' = saving
    BY <1>2, Zenon DEF Moves
  <2> QED BY <2>1 DEF DiskOK
<1> QED BY <1>1, <1>2

-----------------------------------------------------------------------------
(* What the steps have in common.                                          *)

(* The counters stay, or one failure is counted.                           *)
LEMMA CountsKept ==
  ASSUME CountOK, disabled' = disabled, UNCHANGED counts \/ Fault
  PROVE  CountOK' /\ resaved' = resaved
  BY DownloadAssumption, SMT DEF DownloadAssumption, CountOK, counts, Fault

(* Where nobody is about to rename, nothing is to be shown.                *)
LEMMA NothingToRename ==
  ASSUME \A q \in Procs : proc'[q].at # "promote"
  PROVE  Checked'
  BY DEF Checked, CheckedOK

(* Nobody starts to rename, and the staging files stay.                    *)
LEMMA CheckedStays ==
  ASSUME Checked, parts' = parts, resaved' = resaved,
         \A q \in Procs : proc'[q].at = "promote" => proc'[q] = proc[q]
  PROVE  Checked'
<1> SUFFICES ASSUME NEW q \in Procs, proc'[q].at = "promote"
             PROVE  \/ Least(proc'[q].todo) \in resaved'
                    \/ parts'[Least(proc'[q].todo)][proc'[q].part] = Right
  BY DEF Checked, CheckedOK
<1> QED BY DEF Checked, CheckedOK

(* The final names stay, and no browser comes to one of them.              *)
LEMMA FinalStays ==
  ASSUME LoadedIsRight, Arrived, final' = final, resaved \subseteq resaved',
         saving'.at = "final" => saving.at = "final" /\ saving'.file = saving.file
  PROVE  LoadedIsRight' /\ Arrived'
<1>1. LoadedIsRight'
  BY DEF LoadedIsRight
<1>2. Arrived'
  BY DEF Arrived
<1> QED BY <1>1, <1>2

(* The disk stays as it is.                                                *)
LEMMA DiskStays ==
  ASSUME DInv, UNCHANGED disk, resaved' = resaved
  PROVE  DiskOK' /\ LoadedIsRight' /\ Arrived'
<1>1. final' = final /\ parts' = parts /\ saving' = saving
  BY DEF disk
<1>2. DiskOK'
  BY <1>1 DEF DInv, DiskOK
<1> QED BY <1>1, <1>2, FinalStays DEF DInv

-----------------------------------------------------------------------------
(* The lock.                                                               *)

(* A process that has no work in hand goes to another such state, or takes *)
(* the lock that is free.                                                  *)
LEMMA IdleMoves ==
  ASSUME ProcOK, NEW p \in Procs, NEW r \in Proc, Step(p, r),
         proc[p].at \in {"idle", "wait"},
         \/ r.at \in {"idle", "wait"} /\ dlock' = dlock
         \/ r.at = "list" /\ dlock = Free /\ dlock' = p
  PROVE  ProcOK' /\ \A q \in Procs : proc'[q].at = "promote" => proc'[q] = proc[q]
<1>1. proc' \in [Procs -> Proc] /\ proc'[p] = r
  BY Zenon DEF ProcOK, Step
<1>2. \A q \in Procs \ {p} : proc'[q] = proc[q]
  BY Zenon DEF ProcOK, Step
<1>3. Free \notin Procs
  BY DownloadAssumption DEF DownloadAssumption
<1>4. InHand(p, r) /\ r.at # "promote"
  BY DEF InHand, Working
<1> QED BY <1>1, <1>2, <1>3, <1>4 DEF ProcOK

(* Asking for the model, and for the lock, keep the invariant.             *)
LEMMA LockSteps ==
  ASSUME DInv, NEW p \in Procs,
         EnsureModel(p) \/ DownloadLock(p) \/ LockTimesOut(p)
  PROVE  DInv'
<1>0. proc[p] \in Proc /\ proc[p].at \in {"idle", "wait"} /\ ProcOK /\ Checked /\ CountOK
  BY DEF DInv, ProcOK, EnsureModel, DownloadLock, LockTimesOut, At
<1>1. UNCHANGED disk /\ disabled' = disabled /\ UNCHANGED counts
  BY DEF EnsureModel, DownloadLock, LockTimesOut
<1>2. Idle \in Proc /\ Idle.at = "idle"
  BY DownloadAssumption, SMT DEF DownloadAssumption, Idle, Proc, Names
<1>3. \A at \in {"wait", "list"} : /\ [proc[p] EXCEPT !.at = at] \in Proc
                                   /\ [proc[p] EXCEPT !.at = at].at = at
  <2> TAKE at \in {"wait", "list"}
  <2>1. [proc[p] EXCEPT !.at = at] \in Proc
    BY <1>0, Zenon DEF Proc
  <2>2. [proc[p] EXCEPT !.at = at].at = at
    BY <1>0 DEF Proc
  <2> QED BY <2>1, <2>2
<1>4. \E r \in Proc : /\ Step(p, r)
                      /\ \/ r.at \in {"idle", "wait"} /\ dlock' = dlock
                         \/ r.at = "list" /\ dlock = Free /\ dlock' = p
  <2>1. CASE EnsureModel(p)
    BY <1>3, <2>1 DEF EnsureModel, Goto
  <2>2. CASE DownloadLock(p)
    BY <1>3, <2>2 DEF DownloadLock, Goto
  <2>3. CASE LockTimesOut(p)
    BY <1>2, <2>3 DEF LockTimesOut
  <2> QED BY <2>1, <2>2, <2>3
<1>5. ProcOK' /\ \A q \in Procs : proc'[q].at = "promote" => proc'[q] = proc[q]
  BY <1>0, <1>4, IdleMoves
<1>6. CountOK' /\ resaved' = resaved
  BY <1>0, <1>1, CountsKept
<1>7. parts' = parts
  BY <1>1 DEF disk
<1> QED BY <1>0, <1>1, <1>5, <1>6, <1>7, CheckedStays, DiskStays DEF DInv

(* So does the death of a process, which frees the lock it held.           *)
LEMMA DeathStep ==
  ASSUME DInv, NEW p \in Procs, Dies(p)
  PROVE  DInv'
<1>0. ProcOK /\ Checked /\ CountOK /\ Step(p, Idle) /\ UNCHANGED disk
  BY DEF DInv, Dies
<1>1. Idle \in Proc /\ Idle.at = "idle" /\ Free \notin Procs
  BY DownloadAssumption, SMT DEF DownloadAssumption, Idle, Proc, Names
<1>2. proc' \in [Procs -> Proc] /\ proc'[p] = Idle
  BY <1>0, <1>1, Zenon DEF ProcOK, Step
<1>3. \A q \in Procs \ {p} : proc'[q] = proc[q]
  BY <1>0, Zenon DEF ProcOK, Step
<1>4. ProcOK'
  <2>1. dlock' = IF dlock = p THEN Free ELSE dlock
    BY DEF Dies
  <2>2. \A q \in Procs : (proc'[q].at \in {"idle", "wait"}) <=> dlock' # q
    BY <1>0, <1>1, <1>2, <1>3, <2>1 DEF ProcOK
  <2>3. \A q \in Procs : InHand(q, proc'[q])
    BY <1>0, <1>1, <1>2, <1>3 DEF ProcOK, InHand, Working
  <2> QED BY <1>0, <1>2, <2>1, <2>2, <2>3 DEF ProcOK
<1>5. CountOK' /\ resaved' = resaved
  BY <1>0, DownloadAssumption, SMT DEF DownloadAssumption, CountOK, Dies
<1>6. \A q \in Procs : proc'[q].at = "promote" => proc'[q] = proc[q]
  BY <1>1, <1>2, <1>3
<1>7. parts' = parts
  BY <1>0 DEF disk
<1> QED BY <1>0, <1>4, <1>5, <1>6, <1>7, CheckedStays, DiskStays DEF DInv

(* What is missing is listed once the lock is held.                        *)
LEMMA ListStep ==
  ASSUME DInv, NEW p \in Procs, List(p)
  PROVE  DInv'
<1>0. /\ ProcOK /\ Checked /\ CountOK /\ UNCHANGED disk /\ UNCHANGED counts
      /\ disabled' = disabled /\ proc[p] \in Proc /\ proc[p].at \in Holding
  BY DEF DInv, ProcOK, List, At, Holding
<1>1. ProcOK' /\ \A q \in Procs : proc'[q].at # "promote"
  <2>1. CASE Missing = {}
    <3>1. Return(p)
      BY <2>1 DEF List
    <3> QED BY <1>0, <3>1, Returns
  <2>2. CASE Missing # {}
    <3> DEFINE r == [proc[p] EXCEPT !.at = "stage", !.todo = Missing]
    <3>1. Missing \in SUBSET Files
      BY DEF Missing
    <3>2. r \in Proc
      BY <1>0, <3>1, Zenon DEF Proc
    <3>3. r.at = "stage" /\ r.todo = Missing
      BY <1>0 DEF Proc
    <3>4. InHand(p, r) /\ r.at \in Holding
      BY <2>2, <3>3 DEF InHand, Holding, Working
    <3>5. Step(p, r) /\ dlock' = dlock
      BY <2>2 DEF List
    <3> HIDE DEF r
    <3>6. ProcOK' /\ proc'[p] = r /\ \A q \in Procs \ {p} : proc'[q].at # "promote"
      BY <1>0, <3>2, <3>4, <3>5, Keeps
    <3> QED BY <3>3, <3>6
  <2> QED BY <2>1, <2>2
<1>2. CountOK' /\ resaved' = resaved
  BY <1>0, CountsKept
<1> QED BY <1>0, <1>1, <1>2, NothingToRename, DiskStays DEF DInv

-----------------------------------------------------------------------------
(* One file.                                                               *)

(* The process has a file in hand; the final names and the switch stay.    *)
LEMMA FinalUntouched ==
  ASSUME DInv, final' = final, disabled' = disabled,
         UNCHANGED counts \/ Fault,
         parts' \in [Files -> [Names -> Text]],
         saving' \in [file : Files, at : Names \cup {"gone", "final"},
                      off : 0 .. Size],
         saving'.at = "final" => saving.at = "final" /\ saving'.file = saving.file
  PROVE  /\ DiskOK' /\ CountOK' /\ LoadedIsRight' /\ Arrived'
         /\ resaved' = resaved
<1>1. CountOK' /\ resaved' = resaved
  BY CountsKept DEF DInv
<1>2. LoadedIsRight' /\ Arrived'
  BY <1>1, FinalStays DEF DInv
<1>3. DiskOK'
  BY DEF DInv, DiskOK
<1> QED BY <1>1, <1>2, <1>3

(* The browser's file stays.                                               *)
LEMMA SavingStays ==
  ASSUME DInv, saving' = saving
  PROVE  /\ saving' \in [file : Files, at : Names \cup {"gone", "final"},
                         off : 0 .. Size]
         /\ saving'.at = "final" => saving.at = "final" /\ saving'.file = saving.file
  BY DEF DInv, DiskOK

(* The browser's file loses its name.                                      *)
LEMMA SavingGoes ==
  ASSUME DInv, NEW f, NEW from, Moves(f, from, "gone")
  PROVE  /\ saving' \in [file : Files, at : Names \cup {"gone", "final"},
                         off : 0 .. Size]
         /\ saving'.at = "final" => saving.at = "final" /\ saving'.file = saving.file
  BY MovesKeeps DEF DInv

(* What a process that holds the lock may assume.                          *)
LEMMA AtWork ==
  ASSUME DInv, NEW p \in Procs, proc[p].at \in Working
  PROVE  /\ ProcOK /\ DiskOK /\ CountOK /\ Checked /\ LoadedIsRight /\ Arrived
         /\ proc[p] \in Proc /\ proc[p].at \in Holding
         /\ Current(p) \in Files /\ Current(p) = Least(proc[p].todo)
         /\ p \in Names /\ proc[p].part \in Names
         /\ parts[Current(p)] \in [Names -> Text]
         /\ Own(p) \in Text /\ Own(p) = parts[Current(p)][p]
<1>1. /\ ProcOK /\ DiskOK /\ CountOK /\ Checked /\ LoadedIsRight /\ Arrived
      /\ proc[p] \in Proc /\ proc[p].at \in Holding
  BY DEF DInv, ProcOK, Holding
<1>2. Current(p) \in Files /\ Current(p) = Least(proc[p].todo)
  BY <1>1, CurrentIn
<1>3. p \in Names /\ proc[p].part \in Names
  BY <1>1, ProcFields DEF Names
<1>4. parts[Current(p)] \in [Names -> Text]
  BY <1>1, <1>2 DEF DiskOK
<1> QED BY <1>1, <1>2, <1>3, <1>4 DEF Own

(* The leftovers of earlier runs are sorted out.                           *)
LEMMA StageStep ==
  ASSUME DInv, NEW p \in Procs, Stage(p)
  PROVE  DInv'
<1> DEFINE f == Current(p)
<1>0. proc[p].at \in Working
  BY DEF Stage, At, Working
<1>1. /\ ProcOK /\ DiskOK /\ f \in Files /\ p \in Names
      /\ parts[f] \in [Names -> Text] /\ <<>> \in Text
  BY <1>0, AtWork, RightIsText
<1>2. final' = final /\ disabled' = disabled
  BY DEF Stage
<1>3. /\ ProcOK' /\ \A q \in Procs : proc'[q].at # "promote"
      /\ UNCHANGED counts \/ Fault
      /\ parts' \in [Files -> [Names -> Text]]
      /\ saving' \in [file : Files, at : Names \cup {"gone", "final"}, off : 0 .. Size]
      /\ saving'.at = "final" => saving.at = "final" /\ saving'.file = saving.file
  <2>1. CASE Sized(f) /\ NextFile(p) /\ UNCHANGED <<parts, saving, counts>>
    <3>1. ProcOK' /\ \A q \in Procs : proc'[q].at # "promote"
      BY <1>0, <1>1, <2>1, NextKeeps
    <3> QED BY <1>1, <2>1, <3>1, SavingStays DEF DiskOK
  <2>2. CASE /\ OnlyPart(f, p, <<>>) /\ Moves(f, Names, "gone")
             /\ Step(p, [proc[p] EXCEPT !.at = "open", !.part = p])
             /\ UNCHANGED <<dlock, counts>>
    <3>1. ProcOK' /\ \A q \in Procs : proc'[q].at # "promote"
      BY <1>0, <1>1, <2>2, PartKeeps
    <3>2. parts' \in [Files -> [Names -> Text]]
      BY <1>1, <2>2, OnlyKeeps
    <3> QED BY <2>2, <3>1, <3>2, SavingGoes
  <2>3. CASE StageLeftover(p, f) /\ UNCHANGED dlock
    <3> PICK n \in Biggest(f) :
          LET txt == parts[f][n]
          IN  IF Len(txt) = Size
              THEN /\ OnlyPart(f, n, txt) /\ Moves(f, Names \ {n}, "gone")
                   /\ Step(p, [proc[p] EXCEPT !.at = "check", !.part = n])
                   /\ UNCHANGED counts
              ELSE /\ \/ /\ OnlyPart(f, p, txt)
                         /\ saving' = CASE saving.file # f \/ saving.at \notin Names -> saving
                                        [] saving.at = n -> [saving EXCEPT !.at = p]
                                        [] OTHER -> [saving EXCEPT !.at = "gone"]
                         /\ UNCHANGED counts
                      \/ /\ n # p /\ Fault
                         /\ OnlyPart(f, p, <<>>) /\ Moves(f, Names, "gone")
                   /\ Step(p, [proc[p] EXCEPT !.at = "open", !.part = p])
      BY <2>3 DEF StageLeftover
    <3> DEFINE txt == parts[f][n]
    <3>1. n \in Names
      BY DEF Biggest, Resumable, Leftovers
    <3>2. txt \in Text
      BY <1>1, <3>1
    <3>3. CASE Len(txt) = Size
      <4>1. ProcOK' /\ \A q \in Procs : proc'[q].at # "promote"
        BY <1>0, <1>1, <2>3, <3>1, <3>3, PartKeeps
      <4>2. parts' \in [Files -> [Names -> Text]]
        BY <1>1, <3>1, <3>2, <3>3, OnlyKeeps
      <4>3. Moves(f, Names \ {n}, "gone") /\ UNCHANGED counts
        BY <3>3
      <4> QED BY <4>1, <4>2, <4>3, SavingGoes
    <3>4. CASE Len(txt) # Size
      <4>1. ProcOK' /\ \A q \in Procs : proc'[q].at # "promote"
        BY <1>0, <1>1, <2>3, <3>4, PartKeeps
      <4>2. CASE n # p /\ Fault /\ OnlyPart(f, p, <<>>) /\ Moves(f, Names, "gone")
        <5>1. parts' \in [Files -> [Names -> Text]]
          BY <1>1, <4>2, OnlyKeeps
        <5> QED BY <4>1, <4>2, <5>1, SavingGoes
      <4>3. CASE /\ OnlyPart(f, p, txt)
                 /\ saving' = CASE saving.file # f \/ saving.at \notin Names -> saving
                                [] saving.at = n -> [saving EXCEPT !.at = p]
                                [] OTHER -> [saving EXCEPT !.at = "gone"]
                 /\ UNCHANGED counts
        <5>1. parts' \in [Files -> [Names -> Text]]
          BY <1>1, <3>2, <4>3, OnlyKeeps
        <5>2. p # "final" /\ p \in Names \cup {"gone", "final"}
          BY <1>1, DownloadAssumption DEF DownloadAssumption, Names
        <5>3. \/ saving' = saving
              \/ saving' = [saving EXCEPT !.at = p]
              \/ saving' = [saving EXCEPT !.at = "gone"]
          BY <4>3
        <5>4. \A at \in {p, "gone"} :
                /\ [saving EXCEPT !.at = at] \in
                     [file : Files, at : Names \cup {"gone", "final"}, off : 0 .. Size]
                /\ [saving EXCEPT !.at = at].at # "final"
          <6> TAKE at \in {p, "gone"}
          <6>1. [saving EXCEPT !.at = at] \in
                  [file : Files, at : Names \cup {"gone", "final"}, off : 0 .. Size]
            BY <1>1, <5>2, Zenon DEF DiskOK
          <6>2. [saving EXCEPT !.at = at].at = at
            BY <1>1 DEF DiskOK
          <6> QED BY <5>2, <6>1, <6>2
        <5>5. /\ saving' \in [file : Files, at : Names \cup {"gone", "final"}, off : 0 .. Size]
              /\ saving'.at = "final" => saving.at = "final" /\ saving'.file = saving.file
          BY <1>1, <5>3, <5>4 DEF DiskOK
        <5> QED BY <4>1, <4>3, <5>1, <5>5
      <4> QED BY <3>4, <4>2, <4>3
    <3> QED BY <3>3, <3>4
  <2> QED BY <2>1, <2>2, <2>3 DEF Stage
<1>4. DiskOK' /\ CountOK' /\ LoadedIsRight' /\ Arrived'
  BY <1>2, <1>3, FinalUntouched
<1> QED BY <1>3, <1>4, NothingToRename DEF DInv

(* A step of the holder that leaves the disk, or removes a staging file,   *)
(* and renames nothing next.                                               *)
LEMMA QuietStep ==
  ASSUME DInv, ProcOK', \A q \in Procs : proc'[q].at # "promote",
         final' = final, disabled' = disabled, UNCHANGED counts \/ Fault,
         \/ parts' = parts /\ saving' = saving
         \/ \E f \in Files, n \in Names : Unlink(f, n)
  PROVE  DInv'
<1>1. /\ parts' \in [Files -> [Names -> Text]]
      /\ saving' \in [file : Files, at : Names \cup {"gone", "final"}, off : 0 .. Size]
      /\ saving'.at = "final" => saving.at = "final" /\ saving'.file = saving.file
  <2>1. CASE parts' = parts /\ saving' = saving
    BY <2>1 DEF DInv, DiskOK
  <2>2. CASE \E f \in Files, n \in Names : Unlink(f, n)
    <3>1. PICK f \in Files, n \in Names : Unlink(f, n)
      BY <2>2
    <3>2. Write(f, n, <<>>) /\ Moves(f, {n}, "gone") /\ <<>> \in Text /\ DiskOK
      BY <3>1, RightIsText DEF Unlink, DInv
    <3>3. parts' \in [Files -> [Names -> Text]]
      BY <3>2, WriteKeeps
    <3> QED BY <3>2, <3>3, SavingGoes
  <2> QED BY <2>1, <2>2
<1>2. DiskOK' /\ CountOK' /\ LoadedIsRight' /\ Arrived'
  BY <1>1, FinalUntouched
<1> QED BY <1>2, NothingToRename DEF DInv

(* A file that has just been checked is renamed next.                      *)
LEMMA CheckedNext ==
  ASSUME DInv, NEW p \in Procs, proc[p].at \in Working, Goto(p, "promote"),
         UNCHANGED <<final, parts, saving, dlock, disabled>>, UNCHANGED counts,
         parts[Current(p)][proc[p].part] = Right
  PROVE  DInv'
<1>1. /\ ProcOK /\ DiskOK /\ Current(p) = Least(proc[p].todo)
  BY AtWork
<1>2. /\ ProcOK' /\ \A q \in Procs \ {p} : proc'[q].at # "promote"
      /\ proc'[p].todo = proc[p].todo /\ proc'[p].part = proc[p].part
  <2>1. "promote" \in Working /\ dlock' = dlock
    BY DEF Working
  <2> QED BY <1>1, <2>1, GotoKeeps
<1>3. parts'[Least(proc'[p].todo)][proc'[p].part] = Right
  BY <1>1, <1>2
<1>4. Checked'
  BY <1>2, <1>3 DEF Checked, CheckedOK
<1>5. DiskOK' /\ LoadedIsRight' /\ Arrived' /\ CountOK'
  <2>1. CountOK' /\ resaved' = resaved
    BY CountsKept DEF DInv
  <2> QED BY <2>1, DiskStays DEF disk
<1> QED BY <1>2, <1>4, <1>5 DEF DInv

(* The steps that check what is there.                                     *)
LEMMA CheckSteps ==
  ASSUME DInv, NEW p \in Procs, CheckLeftover(p) \/ Verify(p)
  PROVE  DInv'
<1>0. proc[p].at \in Working
  BY DEF CheckLeftover, Verify, At, Working
<1>1. /\ ProcOK /\ Current(p) \in Files /\ p \in Names /\ proc[p].part \in Names
      /\ proc[p] \in Proc /\ proc[p].at \in Holding /\ Own(p) = parts[Current(p)][p]
  BY <1>0, AtWork
<1>2. CASE CheckLeftover(p)
  <2>1. CASE Verified(parts[Current(p)][proc[p].part])
    <3>1. /\ Goto(p, "promote") /\ UNCHANGED <<final, parts, saving, dlock, disabled>>
          /\ UNCHANGED counts /\ parts[Current(p)][proc[p].part] = Right
      BY <1>2, <2>1 DEF CheckLeftover, Verified
    <3> QED BY <1>0, <3>1, CheckedNext
  <2>2. CASE ~Verified(parts[Current(p)][proc[p].part])
    <3>1. /\ Unlink(Current(p), proc[p].part) /\ dlock' = dlock
          /\ Step(p, [proc[p] EXCEPT !.at = "open", !.part = p])
          /\ final' = final /\ disabled' = disabled /\ UNCHANGED counts
      BY <1>2, <2>2 DEF CheckLeftover
    <3>2. ProcOK' /\ \A q \in Procs : proc'[q].at # "promote"
      BY <1>0, <1>1, <3>1, PartKeeps
    <3> QED BY <1>1, <3>1, <3>2, QuietStep
  <2> QED BY <2>1, <2>2
<1>3. CASE Verify(p)
  <2>0. proc[p].part = p
    BY <1>1, <1>3 DEF ProcOK, InHand, Verify, At
  <2>1. CASE Verified(Own(p))
    <3>1. /\ Goto(p, "promote") /\ UNCHANGED <<final, parts, saving, dlock, disabled>>
          /\ UNCHANGED counts /\ parts[Current(p)][proc[p].part] = Right
      BY <1>1, <1>3, <2>0, <2>1 DEF Verify, Verified
    <3> QED BY <1>0, <3>1, CheckedNext
  <2>2. CASE ~Verified(Own(p))
    <3>1. /\ Unlink(Current(p), p) /\ Return(p)
          /\ final' = final /\ disabled' = disabled /\ UNCHANGED counts
      BY <1>3, <2>2 DEF Verify
    <3>2. ProcOK' /\ \A q \in Procs : proc'[q].at # "promote"
      BY <1>1, <3>1, Returns
    <3> QED BY <1>1, <3>1, <3>2, QuietStep
  <2> QED BY <2>1, <2>2
<1> QED BY <1>2, <1>3

(* The steps that connect, end or break off.                               *)
LEMMA CurlSteps ==
  ASSUME DInv, NEW p \in Procs,
         Connect(p) \/ CurlEnds(p) \/ Overrun(p) \/ Breaks(p)
  PROVE  DInv'
<1>0. proc[p].at \in Working
  BY DEF Connect, CurlEnds, Overrun, Breaks, At, Working
<1>1. /\ ProcOK /\ Current(p) \in Files /\ p \in Names /\ Own(p) \in Text
      /\ proc[p] \in Proc /\ proc[p].at \in Holding /\ InHand(p, proc[p])
  BY <1>0, AtWork DEF ProcOK
<1>2. CASE Connect(p)
  <2>0. /\ final' = final /\ parts' = parts /\ saving' = saving
        /\ disabled' = disabled /\ UNCHANGED counts
    BY <1>2 DEF Connect, disk
  <2>1. CASE Len(Own(p)) < Size
    <3> DEFINE r == [proc[p] EXCEPT !.at = "curl", !.pos = Len(Own(p))]
    <3>1. Len(Own(p)) \in 0 .. Size
      BY <1>1, <2>1, TextLen, DownloadAssumption, SMT DEF DownloadAssumption
    <3>2. r \in Proc
      BY <1>1, <3>1, Zenon DEF Proc
    <3>3. r.at = "curl" /\ r.todo = proc[p].todo /\ r.part = proc[p].part
      BY <1>1 DEF Proc
    <3>4. InHand(p, r) /\ r.at \in Holding
      BY <1>0, <1>1, <1>2, <3>3 DEF InHand, Holding, Working, Connect, At
    <3>5. Step(p, r) /\ dlock' = dlock
      BY <1>2, <2>1 DEF Connect
    <3> HIDE DEF r
    <3>6. ProcOK' /\ proc'[p] = r /\ \A q \in Procs \ {p} : proc'[q].at # "promote"
      BY <1>1, <3>2, <3>4, <3>5, Keeps
    <3>7. \A q \in Procs : proc'[q].at # "promote"
      BY <3>3, <3>6
    <3> QED BY <2>0, <3>6, <3>7, QuietStep
  <2>2. CASE ~(Len(Own(p)) < Size)
    <3>1. Return(p)
      BY <1>2, <2>2 DEF Connect
    <3>2. ProcOK' /\ \A q \in Procs : proc'[q].at # "promote"
      BY <1>1, <3>1, Returns
    <3> QED BY <2>0, <3>2, QuietStep
  <2> QED BY <2>1, <2>2
<1>3. CASE CurlEnds(p)
  <2>1. /\ Goto(p, "verify") /\ dlock' = dlock /\ final' = final /\ parts' = parts
        /\ saving' = saving /\ disabled' = disabled /\ (UNCHANGED counts \/ Fault)
    BY <1>3 DEF CurlEnds, disk
  <2>2. proc[p].part = p /\ "verify" \in Working
    BY <1>1, <1>3 DEF InHand, CurlEnds, At, Working
  <2>3. /\ ProcOK' /\ \A q \in Procs \ {p} : proc'[q].at # "promote"
        /\ proc'[p].at = "verify"
    BY <1>0, <1>1, <2>1, <2>2, GotoKeeps
  <2>4. \A q \in Procs : proc'[q].at # "promote"
    BY <2>3
  <2> QED BY <2>1, <2>3, <2>4, QuietStep
<1>4. CASE Overrun(p)
  <2>1. /\ Unlink(Current(p), p) /\ Return(p) /\ Fault
        /\ final' = final /\ disabled' = disabled
    BY <1>4 DEF Overrun
  <2>2. ProcOK' /\ \A q \in Procs : proc'[q].at # "promote"
    BY <1>1, <2>1, Returns
  <2> QED BY <1>1, <2>1, <2>2, QuietStep
<1>5. CASE Breaks(p)
  <2>1. /\ Return(p) /\ Fault /\ final' = final /\ parts' = parts
        /\ saving' = saving /\ disabled' = disabled
    BY <1>5 DEF Breaks, disk
  <2>2. ProcOK' /\ \A q \in Procs : proc'[q].at # "promote"
    BY <1>1, <2>1, Returns
  <2> QED BY <2>1, <2>2, QuietStep
<1> QED BY <1>2, <1>3, <1>4, <1>5

(* A piece arrives.                                                        *)
LEMMA ReceiveStep ==
  ASSUME DInv, NEW p \in Procs, Receive(p)
  PROVE  DInv'
<1>0. proc[p].at \in Working /\ proc[p].at = "curl"
  BY DEF Receive, At, Working
<1>1. /\ ProcOK /\ DiskOK /\ Current(p) \in Files /\ p \in Names /\ Own(p) \in Text
      /\ Own(p) = parts[Current(p)][p]
      /\ proc[p] \in Proc /\ proc[p].at \in Holding /\ InHand(p, proc[p])
  BY <1>0, AtWork DEF ProcOK
<1>2. /\ final' = final /\ saving' = saving /\ disabled' = disabled /\ dlock' = dlock
      /\ Len(Own(p)) + 1 <= Size + 1 /\ proc[p].pos < Size
      /\ Step(p, [proc[p] EXCEPT !.pos = @ + 1])
      /\ UNCHANGED counts \/ Fault
      /\ \E ok \in BOOLEAN : Append1(Current(p), p, ok)
  BY DEF Receive
<1>3. parts' \in [Files -> [Names -> Text]]
  <2>1. PICK ok \in BOOLEAN : Append1(Current(p), p, ok)
    BY <1>2
  <2>2. Len(Own(p)) <= Size
    BY <1>1, <1>2, TextLen, DownloadAssumption, SMT DEF DownloadAssumption
  <2>3. Append(Own(p), ok) \in Text /\ Write(Current(p), p, Append(Own(p), ok))
    BY <1>1, <2>1, <2>2, PieceKept DEF Append1
  <2> QED BY <1>1, <2>3, WriteKeeps
<1>4. ProcOK' /\ \A q \in Procs : proc'[q].at # "promote"
  <2> DEFINE r == [proc[p] EXCEPT !.pos = @ + 1]
  <2>1. proc[p].pos + 1 \in 0 .. Size
    BY <1>1, <1>2, ProcFields, DownloadAssumption, SMT DEF DownloadAssumption
  <2>2. r \in Proc
    BY <1>1, <2>1, Zenon DEF Proc
  <2>3. r.at = "curl" /\ r.todo = proc[p].todo /\ r.part = proc[p].part
    BY <1>0, <1>1 DEF Proc
  <2>4. InHand(p, r) /\ r.at \in Holding
    BY <1>0, <1>1, <2>3 DEF InHand
  <2>5. Step(p, r)
    BY <1>2
  <2> HIDE DEF r
  <2>6. ProcOK' /\ proc'[p] = r /\ \A q \in Procs \ {p} : proc'[q].at # "promote"
    BY <1>1, <1>2, <2>2, <2>4, <2>5, Keeps
  <2> QED BY <2>3, <2>6
<1>5. DiskOK' /\ CountOK' /\ LoadedIsRight' /\ Arrived'
  BY <1>2, <1>3, SavingStays, FinalUntouched
<1> QED BY <1>4, <1>5, NothingToRename DEF DInv

(* The file that has been checked is renamed to its final name.            *)
LEMMA PromoteStep ==
  ASSUME DInv, NEW p \in Procs, Promote(p)
  PROVE  DInv'
<1> DEFINE f == Current(p)
           n == proc[p].part
<1>0. proc[p].at = "promote" /\ proc[p].at \in Working
  BY DEF Promote, At, Working
<1>1. /\ ProcOK /\ DiskOK /\ CountOK /\ Checked /\ LoadedIsRight /\ Arrived
      /\ f \in Files /\ n \in Names /\ parts[f] \in [Names -> Text] /\ <<>> \in Text
      /\ f = Least(proc[p].todo)
  BY <1>0, AtWork, RightIsText
<1>2. /\ final' = [final EXCEPT ![f] = parts[f][n]]
      /\ Write(f, n, <<>>) /\ Moves(f, {n}, "final") /\ NextFile(p)
      /\ disabled' = disabled /\ UNCHANGED counts
  BY DEF Promote
<1>3. ProcOK' /\ \A q \in Procs : proc'[q].at # "promote"
  BY <1>0, <1>1, <1>2, NextKeeps
<1>4. f \in resaved \/ parts[f][n] = Right
  BY <1>0, <1>1 DEF Checked, CheckedOK
<1>5. /\ final' \in [Files -> Text] /\ final'[f] = parts[f][n]
      /\ \A g \in Files : g # f => final'[g] = final[g]
  <2>1. final \in [Files -> Text] /\ parts[f][n] \in Text
    BY <1>1 DEF DiskOK
  <2> QED BY <1>1, <1>2, <2>1, Zenon
<1>6. parts' \in [Files -> [Names -> Text]]
  BY <1>1, <1>2, WriteKeeps
<1>7. /\ saving' \in [file : Files, at : Names \cup {"gone", "final"}, off : 0 .. Size]
      /\ saving'.file = saving.file
      /\ saving'.at = "final" => saving.at = "final" \/ saving.file = f
  BY <1>1, <1>2, MovesKeeps
<1>8. CountOK' /\ resaved' = resaved
  BY <1>1, <1>2, CountsKept
<1>9. DiskOK'
  BY <1>5, <1>6, <1>7 DEF DiskOK
<1>10. LoadedIsRight'
  <2> SUFFICES ASSUME NEW g \in Files \ resaved', final'[g] # <<>>
               PROVE  final'[g] = Right
    BY DEF LoadedIsRight
  <2> QED BY <1>1, <1>4, <1>5, <1>8 DEF LoadedIsRight
<1>11. Arrived'
  <2> SUFFICES ASSUME saving'.at = "final", saving'.file \notin resaved'
               PROVE  final'[saving'.file] # <<>>
    BY DEF Arrived
  <2>1. saving.file \in Files
    BY <1>1 DEF DiskOK
  <2>2. CASE saving.file = f
    BY <1>4, <1>5, <1>7, <1>8, <2>2, RightIsText
  <2>3. CASE saving.file # f
    BY <1>1, <1>5, <1>7, <1>8, <2>1, <2>3 DEF Arrived
  <2> QED BY <2>2, <2>3
<1> QED BY <1>3, <1>8, <1>9, <1>10, <1>11, NothingToRename DEF DInv

-----------------------------------------------------------------------------
(* The user.                                                               *)

(* A file saved over one that is renamed next is noted; any other leaves   *)
(* what has been checked.                                                  *)
LEMMA SavedByHand ==
  ASSUME DInv, NEW f \in Files, NEW txt \in Text, Used(f), Write(f, Hand, txt),
         final' = final, dlock' = dlock, disabled' = disabled, proc' = proc,
         saving' \in [file : Files, at : Names \cup {"gone", "final"},
                      off : 0 .. Size],
         saving'.at = "final" => saving.at = "final" /\ saving'.file = saving.file
  PROVE  DInv'
<1>1. /\ ProcOK /\ DiskOK /\ CountOK /\ Checked /\ LoadedIsRight /\ Arrived
      /\ Hand \in Names
  BY DEF DInv, Names
<1>2. /\ parts' \in [Files -> [Names -> Text]]
      /\ \A g \in Files, m \in Names :
           g # f \/ m # Hand => parts'[g][m] = parts[g][m]
  BY <1>1, WriteKeeps
<1>3. /\ CountOK' /\ resaved \subseteq resaved'
      /\ JustChecked(f) => f \in resaved'
  BY <1>1, DownloadAssumption, SMT DEF DownloadAssumption, CountOK, Used
<1>4. ProcOK'
  BY <1>1 DEF ProcOK, InHand
<1>5. Checked'
  <2> SUFFICES ASSUME NEW q \in Procs, proc[q].at = "promote"
               PROVE  \/ Least(proc[q].todo) \in resaved'
                      \/ parts'[Least(proc[q].todo)][proc[q].part] = Right
    BY DEF Checked, CheckedOK
  <2>1. proc[q].at \in Working
    BY DEF Working
  <2>2. /\ Current(q) = Least(proc[q].todo) /\ Current(q) \in Files
        /\ proc[q].part \in Names
    BY <2>1, AtWork
  <2>3. Current(q) \in resaved \/ parts[Current(q)][proc[q].part] = Right
    BY <1>1, <2>2 DEF Checked, CheckedOK
  <2>4. CASE Current(q) = f /\ proc[q].part = Hand
    <3>1. JustChecked(f)
      BY <2>4 DEF JustChecked, At
    <3> QED BY <1>3, <2>2, <2>4, <3>1
  <2>5. CASE ~(Current(q) = f /\ proc[q].part = Hand)
    BY <1>2, <1>3, <2>2, <2>3, <2>5
  <2> QED BY <2>4, <2>5
<1>6. LoadedIsRight' /\ Arrived'
  BY <1>1, <1>3, FinalStays
<1>7. DiskOK'
  BY <1>1, <1>2 DEF DiskOK
<1> QED BY <1>3, <1>4, <1>5, <1>6, <1>7 DEF DInv

(* The user saves a file, at once or piece by piece.                       *)
LEMMA UserSteps ==
  ASSUME DInv, NEW f \in Files, DropPart(f) \/ StartSaving(f)
  PROVE  DInv'
<1>1. CASE DropPart(f)
  <2>1. PICK txt \in Text : Write(f, Hand, txt)
    BY <1>1 DEF DropPart
  <2>2. /\ Used(f) /\ Moves(f, {Hand}, "gone")
        /\ final' = final /\ dlock' = dlock /\ disabled' = disabled /\ proc' = proc
    BY <1>1 DEF DropPart
  <2>3. /\ saving' \in [file : Files, at : Names \cup {"gone", "final"}, off : 0 .. Size]
        /\ saving'.at = "final" => saving.at = "final" /\ saving'.file = saving.file
    BY <2>2, SavingGoes
  <2> QED BY <2>1, <2>2, <2>3, SavedByHand
<1>2. CASE StartSaving(f)
  <2>1. /\ Used(f) /\ Write(f, Hand, <<>>) /\ <<>> \in Text
        /\ saving' = [file |-> f, at |-> Hand, off |-> 0]
        /\ final' = final /\ dlock' = dlock /\ disabled' = disabled /\ proc' = proc
    BY <1>2, RightIsText DEF StartSaving
  <2>2. 0 \in 0 .. Size /\ Hand \in Names /\ Hand # "final"
    BY DownloadAssumption, SMT DEF DownloadAssumption, Names
  <2>3. /\ saving' \in [file : Files, at : Names \cup {"gone", "final"}, off : 0 .. Size]
        /\ saving'.at # "final"
    BY <2>1, <2>2, SMT
  <2> QED BY <2>1, <2>3, SavedByHand
<1> QED BY <1>1, <1>2

(* The browser writes on into the file it opened; a file that is right     *)
(* stays right.                                                            *)
LEMMA BrowserStep ==
  ASSUME DInv, KeepSaving
  PROVE  DInv'
<1> DEFINE f == saving.file
           k == saving.off + 1
<1>1. /\ ProcOK /\ DiskOK /\ CountOK /\ Checked /\ LoadedIsRight /\ Arrived
      /\ f \in Files /\ saving.off \in 0 .. Size /\ final \in [Files -> Text]
      /\ parts \in [Files -> [Names -> Text]] /\ parts[f] \in [Names -> Text]
  BY DEF DInv, DiskOK
<1>2. k \in 1 .. Size
  BY <1>1, DownloadAssumption, SMT DEF DownloadAssumption, KeepSaving
<1>3. /\ saving' = [saving EXCEPT !.off = k]
      /\ dlock' = dlock /\ disabled' = disabled /\ proc' = proc /\ UNCHANGED counts
  BY DEF KeepSaving
<1>4. CountOK' /\ resaved' = resaved /\ ProcOK'
  <2>1. ProcOK'
    BY <1>1, <1>3 DEF ProcOK, InHand
  <2> QED BY <1>1, <1>3, <2>1, CountsKept
<1>5. /\ saving' \in [file : Files, at : Names \cup {"gone", "final"}, off : 0 .. Size]
      /\ saving'.at = saving.at /\ saving'.file = f
  <2>1. k \in 0 .. Size
    BY <1>2, SMT
  <2>2. saving' \in [file : Files, at : Names \cup {"gone", "final"}, off : 0 .. Size]
    BY <1>1, <1>3, <2>1, Zenon DEF DiskOK
  <2>3. saving'.at = saving.at /\ saving'.file = f
    BY <1>1, <1>3 DEF DiskOK
  <2> QED BY <2>2, <2>3
<1>6. /\ parts' \in [Files -> [Names -> Text]]
      /\ \A g \in Files, m \in Names : parts[g][m] = Right => parts'[g][m] = Right
  <2>1. CASE saving.at \in Names
    <3> DEFINE txt == PutPiece(parts[f][saving.at], k)
    <3>1. txt \in Text
      BY <1>1, <1>2, <2>1, PutKept
    <3>2. parts' = [parts EXCEPT ![f][saving.at] = txt]
      BY <2>1 DEF KeepSaving
    <3>3. parts[f][saving.at] = Right => txt = Right
      BY <1>2, RightIsText, PutKept
    <3> HIDE DEF txt
    <3>4. parts' = [parts EXCEPT ![f] = [parts[f] EXCEPT ![saving.at] = txt]]
      BY <3>2
    <3>5. Write(f, saving.at, txt)
      BY <3>4 DEF Write, SetParts
    <3>6. /\ parts' \in [Files -> [Names -> Text]]
          /\ parts'[f][saving.at] = txt
          /\ \A g \in Files, m \in Names :
               g # f \/ m # saving.at => parts'[g][m] = parts[g][m]
      BY <1>1, <2>1, <3>1, <3>5, WriteKeeps
    <3> QED BY <3>3, <3>6
  <2>2. CASE saving.at \notin Names
    <3>1. parts' = parts
      BY <2>2 DEF KeepSaving
    <3> QED BY <1>1, <3>1
  <2> QED BY <2>1, <2>2
<1>7. /\ final' \in [Files -> Text]
      /\ \A g \in Files : final[g] = Right => final'[g] = Right
      /\ \A g \in Files : g # f \/ saving.at # "final" => final'[g] = final[g]
  <2>1. CASE saving.at = "final"
    <3> DEFINE txt == PutPiece(final[f], k)
    <3>1. txt \in Text
      BY <1>1, <1>2, PutKept
    <3>2. final' = [final EXCEPT ![f] = txt]
      BY <2>1 DEF KeepSaving
    <3>3. final[f] = Right => txt = Right
      BY <1>2, RightIsText, PutKept
    <3> HIDE DEF txt
    <3>4. final' \in [Files -> Text] /\ final'[f] = txt
      BY <1>1, <3>1, <3>2, Zenon
    <3>5. \A g \in Files : g # f => final'[g] = final[g]
      BY <1>1, <3>2, Zenon
    <3> QED BY <2>1, <3>3, <3>4, <3>5
  <2>2. CASE saving.at # "final"
    <3>1. final' = final
      BY <2>2 DEF KeepSaving
    <3> QED BY <1>1, <2>2, <3>1
  <2> QED BY <2>1, <2>2
<1>8. DiskOK'
  BY <1>5, <1>6, <1>7 DEF DiskOK
<1>9. Checked'
  <2> SUFFICES ASSUME NEW q \in Procs, proc[q].at = "promote"
               PROVE  \/ Least(proc[q].todo) \in resaved
                      \/ parts'[Least(proc[q].todo)][proc[q].part] = Right
    BY <1>3, <1>4 DEF Checked, CheckedOK
  <2>1. proc[q].at \in Working
    BY DEF Working
  <2>2. /\ Current(q) = Least(proc[q].todo) /\ Current(q) \in Files
        /\ proc[q].part \in Names
    BY <2>1, AtWork
  <2> QED BY <1>1, <1>6, <2>2 DEF Checked, CheckedOK
<1>10. LoadedIsRight'
  <2> SUFFICES ASSUME NEW g \in Files \ resaved, final'[g] # <<>>
               PROVE  final'[g] = Right
    BY <1>4 DEF LoadedIsRight
  <2>1. CASE g # f \/ saving.at # "final"
    BY <1>1, <1>7, <2>1 DEF LoadedIsRight
  <2>2. CASE g = f /\ saving.at = "final"
    <3>1. final[g] # <<>>
      BY <1>1, <2>2 DEF Arrived
    <3> QED BY <1>1, <1>7, <3>1 DEF LoadedIsRight
  <2> QED BY <2>1, <2>2
<1>11. Arrived'
  <2> SUFFICES ASSUME saving.at = "final", f \notin resaved
               PROVE  final'[f] # <<>>
    BY <1>4, <1>5 DEF Arrived
  <2>1. final[f] = Right
    BY <1>1 DEF Arrived, LoadedIsRight
  <2> QED BY <1>1, <1>7, <2>1, RightIsText
<1> QED BY <1>4, <1>8, <1>9, <1>10, <1>11 DEF DInv

-----------------------------------------------------------------------------
(* The invariant.                                                          *)

(* It holds at the start.                                                  *)
LEMMA DInitInv == DInit => DInv
<1> SUFFICES ASSUME DInit PROVE DInv
  OBVIOUS
<1>0. /\ Size \in Nat /\ 1 \in Files /\ Free \notin Procs
      /\ {MaxKills, MaxFaults, MaxHand} \subseteq Nat
  BY DownloadAssumption, SMT DEF DownloadAssumption, Files
<1>1. DiskOK
  <2>1. /\ final = [f \in Files |-> <<>>]
        /\ parts = [f \in Files |-> [m \in Names |-> <<>>]]
        /\ saving = [file |-> 1, at |-> "gone", off |-> Size] /\ <<>> \in Text
    BY RightIsText DEF DInit, NoSave
  <2>2. final \in [Files -> Text] /\ parts \in [Files -> [Names -> Text]]
    BY <2>1, Zenon
  <2>3. Size \in 0 .. Size
    BY <1>0, SMT
  <2>4. saving \in [file : Files, at : Names \cup {"gone", "final"}, off : 0 .. Size]
    BY <1>0, <2>1, <2>3
  <2> QED BY <2>2, <2>4 DEF DiskOK
<1>2. ProcOK /\ \A q \in Procs : proc[q].at = "idle"
  <2>1. Idle \in Proc /\ Idle.at = "idle"
    BY <1>0, SMT DEF Idle, Proc, Names
  <2>2. proc = [p \in Procs |-> Idle] /\ dlock = Free
    BY DEF DInit
  <2>3. proc \in [Procs -> Proc] /\ \A q \in Procs : proc[q] = Idle
    BY <2>1, <2>2, Zenon
  <2> QED BY <1>0, <2>1, <2>2, <2>3 DEF ProcOK, InHand, Working
<1>3. CountOK
  BY <1>0, SMT DEF DInit, CountOK
<1>4. Checked
  BY <1>2 DEF Checked, CheckedOK
<1>5. Arrived
  BY DEF DInit, NoSave, Arrived
<1>6. LoadedIsRight
  BY DEF DInit, LoadedIsRight
<1> QED BY <1>1, <1>2, <1>3, <1>4, <1>5, <1>6 DEF DInv

(* Every step keeps it.                                                    *)
LEMMA DStepInv == DInv /\ [DNext]_dvars => DInv'
<1> SUFFICES ASSUME DInv, [DNext]_dvars PROVE DInv'
  OBVIOUS
<1>1. ASSUME NEW p \in Procs, EnsureModel(p) \/ LockTimesOut(p) \/ DownloadLock(p)
      PROVE  DInv'
  BY <1>1, LockSteps
<1>2. ASSUME NEW p \in Procs, Advance(p), ~DownloadLock(p)
      PROVE  DInv'
  BY <1>2, ListStep, StageStep, CheckSteps, CurlSteps, ReceiveStep, PromoteStep
     DEF Advance
<1>3. ASSUME NEW p \in Procs, Overrun(p) \/ Breaks(p) \/ Dies(p)
      PROVE  DInv'
  BY <1>3, CurlSteps, DeathStep
<1>4. ASSUME NEW f \in Files, DropPart(f) \/ StartSaving(f)
      PROVE  DInv'
  BY <1>4, UserSteps
<1>5. CASE KeepSaving
  BY <1>5, BrowserStep
<1>6. CASE Toggle
  <2>1. /\ UNCHANGED <<disk, dlock, proc, counts>> /\ disabled' \in BOOLEAN
        /\ resaved' = resaved
    BY <1>6 DEF Toggle, counts
  <2>2. DiskOK' /\ LoadedIsRight' /\ Arrived'
    BY <2>1, DiskStays
  <2>3. ProcOK' /\ Checked'
    BY <2>1 DEF DInv, ProcOK, InHand, Checked, CheckedOK, disk
  <2>4. CountOK'
    BY <2>1 DEF DInv, CountOK, counts
  <2> QED BY <2>2, <2>3, <2>4 DEF DInv
<1>7. CASE UNCHANGED dvars
  BY <1>7 DEF dvars, disk, counts, DInv, DiskOK, ProcOK, InHand, CountOK, Checked,
              CheckedOK, Arrived, LoadedIsRight
<1> QED BY <1>1, <1>2, <1>3, <1>4, <1>5, <1>6, <1>7 DEF DNext, Advance

(* Only the holder of the lock has work in hand, and every file is a       *)
(* sequence of pieces at most one longer than it should be.                *)
THEOREM DownloadTypes == DSpec => []DTypeOK
<1>1. DInv => DTypeOK
  BY DEF DInv, DiskOK, ProcOK, CountOK, DTypeOK
<1> QED BY <1>1, DInitInv, DStepInv, PTL DEF DSpec

(* What is at a final name is the right file, however many processes die,  *)
(* transfers fail and files are saved by hand, unless another file was     *)
(* saved by hand between the check and the rename.                         *)
THEOREM OnlyCheckedFiles == DSpec => []LoadedIsRight
<1>1. DInv => LoadedIsRight
  BY DEF DInv
<1> QED BY <1>1, DInitInv, DStepInv, PTL DEF DSpec

-----------------------------------------------------------------------------
(* A function defined by recursion is the one that satisfies its equation. *)
LEMMA FlattenIs ==
  ASSUME NEW s, Len(s) \in Nat, Len(s) # 0,
         NEW g, g = [i \in 1 .. Len(s) |-> IF i = 1 THEN s[i] ELSE g[i - 1] \o s[i]]
  PROVE  FlattenSeq(s) = g[Len(s)]
<1> DEFINE Eq(f) == f = [i \in 1 .. Len(s) |-> IF i = 1 THEN s[i] ELSE f[i - 1] \o s[i]]
           h == CHOOSE f : Eq(f)
<1>1. Eq(h)
  <2>1. Eq(g)
    OBVIOUS
  <2> HIDE DEF Eq
  <2> QED BY <2>1
<1>2. FlattenSeq(s) = h[Len(s)]
  BY DEF FlattenSeq
<1> HIDE DEF h
<1>3. \A i \in 1 .. Len(s) : h[i] = g[i]
  <2> DEFINE Wrong == {i \in 1 .. Len(s) : h[i] # g[i]}
  <2>1. SUFFICES ASSUME Wrong # {} PROVE FALSE
    OBVIOUS
  <2>2. Wrong \subseteq Nat
    BY SMT
  <2>3. PICK x \in Wrong : \A y \in Wrong : x <= y
    <3> HIDE DEF Wrong
    <3> QED BY <2>1, <2>2, LeastOf
  <2>4. x \in 1 .. Len(s) /\ h[x] # g[x]
    BY <2>3
  <2>5. h[x] = IF x = 1 THEN s[x] ELSE h[x - 1] \o s[x]
    BY <1>1, <2>4, Zenon
  <2>6. g[x] = IF x = 1 THEN s[x] ELSE g[x - 1] \o s[x]
    BY <2>4, Zenon
  <2>7. x # 1 => h[x - 1] = g[x - 1]
    <3> SUFFICES ASSUME x # 1, h[x - 1] # g[x - 1] PROVE FALSE
      OBVIOUS
    <3>1. x - 1 \in 1 .. Len(s) /\ ~(x <= x - 1)
      BY <2>4, SMT
    <3> QED BY <2>3, <3>1
  <2> QED BY <2>4, <2>5, <2>6, <2>7
<1>4. Len(s) \in 1 .. Len(s)
  BY SMT
<1> QED BY <1>2, <1>3, <1>4

(* What two adjacent parts of a sequence make.                             *)
LEMMA PartsJoin ==
  ASSUME NEW X, NEW t \in Seq(X), NEW a \in Nat, NEW b \in Nat, a <= b, b <= Len(t)
  PROVE  SubSeq(t, 1, a) \o SubSeq(t, a + 1, b) = SubSeq(t, 1, b)
<1>1. /\ SubSeq(t, 1, a) \in Seq(X) /\ SubSeq(t, a + 1, b) \in Seq(X) /\ SubSeq(t, 1, b) \in Seq(X)
      /\ Len(SubSeq(t, 1, a)) = a /\ Len(SubSeq(t, a + 1, b)) = b - a /\ Len(SubSeq(t, 1, b)) = b
  BY SMT
<1>2. \A i \in 1 .. b : (SubSeq(t, 1, a) \o SubSeq(t, a + 1, b))[i] = SubSeq(t, 1, b)[i]
  BY <1>1, SMT
<1>3. SubSeq(t, 1, a) \o SubSeq(t, a + 1, b) \in Seq(X) /\ Len(SubSeq(t, 1, a) \o SubSeq(t, a + 1, b)) = b
  BY <1>1, SMT
<1> QED BY <1>1, <1>2, <1>3, SMT

(* Places among naturals: each has its own and none is left free.          *)
LEMMA PlacesFill ==
  ASSUME NEW S, S \subseteq Nat, IsFiniteSet(S)
  PROVE  /\ Cardinality(S) \in Nat
         /\ \A k \in 1 .. Cardinality(S) : \E x \in S : Cardinality({y \in S : y < x}) = k - 1
         /\ \A x \in S : Cardinality({y \in S : y < x}) + 1 \in 1 .. Cardinality(S)
         /\ \A x, z \in S : Cardinality({y \in S : y < x}) = Cardinality({y \in S : y < z}) => x = z
<1> DEFINE below(x) == {y \in S : y < x}
           n == Cardinality(S)
           f == [x \in S |-> Cardinality(below(x)) + 1]
<1>1. n \in Nat
  BY FS_CardinalityType
<1>2. ASSUME NEW x \in S
      PROVE  /\ IsFiniteSet(below(x)) /\ Cardinality(below(x)) \in Nat
             /\ Cardinality(below(x)) + 1 \in 1 .. n
  <2>1. below(x) \in SUBSET (S \ {x})
    BY SMT
  <2>2. IsFiniteSet(S \ {x}) /\ Cardinality(S \ {x}) = n - 1
    BY FS_RemoveElement
  <2>3. IsFiniteSet(below(x)) /\ Cardinality(below(x)) <= Cardinality(S \ {x})
    <3> HIDE DEF below
    <3> QED BY <2>1, <2>2, FS_Subset
  <2>4. Cardinality(below(x)) \in Nat
    <3> HIDE DEF below
    <3> QED BY <2>3, FS_CardinalityType
  <2>5. Cardinality(below(x)) + 1 \in 1 .. n
    <3> HIDE DEF below, n
    <3> QED BY <1>1, <2>2, <2>3, <2>4, SMT
  <2> QED BY <2>3, <2>4, <2>5
<1>3. ASSUME NEW x \in S, NEW z \in S, x < z
      PROVE  Cardinality(below(x)) < Cardinality(below(z))
  <2>1. below(x) \cup {x} \in SUBSET below(z) /\ x \notin below(x)
    <3>1. \A y \in S : y < x => y < z
      BY <1>3, SMT
    <3>2. ~(x < x)
      BY SMT
    <3> QED BY <1>3, <3>1, <3>2, Zenon
  <2>2. Cardinality(below(x) \cup {x}) = Cardinality(below(x)) + 1
    <3> HIDE DEF below
    <3> QED BY <1>2, <2>1, FS_AddElement
  <2>3. Cardinality(below(x) \cup {x}) <= Cardinality(below(z))
    <3> HIDE DEF below
    <3> QED BY <1>2, <2>1, FS_Subset
  <2> HIDE DEF below
  <2> QED BY <1>2, <2>2, <2>3, SMT
<1> HIDE DEF below, n
<1>4. f \in [S -> 1 .. n]
  BY <1>2
<1>5. f \in Injection(S, 1 .. n)
  <2>1. ASSUME NEW x \in S, NEW z \in S, f[x] = f[z] PROVE x = z
    <3>1. Cardinality(below(x)) = Cardinality(below(z))
      <4>1. f[x] = Cardinality(below(x)) + 1 /\ f[z] = Cardinality(below(z)) + 1
        OBVIOUS
      <4>2. Cardinality(below(x)) \in Nat /\ Cardinality(below(z)) \in Nat
        BY <1>2
      <4>3. Cardinality(below(x)) + 1 = Cardinality(below(z)) + 1
        BY <2>1, <4>1
      <4> QED BY <4>2, <4>3, SMT
    <3>2. ~(x < z) /\ ~(z < x)
      BY <1>2, <1>3, <3>1, SMT
    <3>3. x \in Nat /\ z \in Nat
      OBVIOUS
    <3> QED BY <3>2, <3>3, SMT
  <2> HIDE DEF f
  <2> QED BY <1>4, <2>1 DEF Injection, IsInjective
<1>6. IsFiniteSet(1 .. n) /\ Cardinality(1 .. n) = n
  BY <1>1, FS_Interval, SMT
<1>7. f \in Surjection(S, 1 .. n)
  <2> HIDE DEF f
  <2> QED BY <1>5, <1>6, FS_Injection DEF n
<1>8. \A k \in 1 .. n : \E x \in S : f[x] = k
  BY <1>7 DEF Surjection
<1>9. \A k \in 1 .. n : \E x \in S : Cardinality(below(x)) = k - 1
  <2> TAKE k \in 1 .. n
  <2>1. PICK x \in S : f[x] = k
    BY <1>8
  <2>2. Cardinality(below(x)) + 1 = k
    BY <2>1
  <2>3. Cardinality(below(x)) = k - 1
    BY <1>1, <1>2, <2>2, SMT
  <2> QED BY <2>3
<1>10. \A x, z \in S : Cardinality(below(x)) = Cardinality(below(z)) => x = z
  <2> TAKE x \in S, z \in S
  <2> HAVE Cardinality(below(x)) = Cardinality(below(z))
  <2>1. ~(x < z) /\ ~(z < x)
    BY <1>2, <1>3, SMT
  <2>2. x \in Nat /\ z \in Nat
    OBVIOUS
  <2> QED BY <2>1, <2>2, SMT
<1> QED BY <1>1, <1>2, <1>9, <1>10 DEF below, n

-----------------------------------------------------------------------------
(* The slab is a sequence of texts, and there is one.                      *)
SlabOK == slab \in Seq(Heads \X Rests) /\ slab # <<>>

(* Turns that say the same are one text, and the first of them stands for  *)
(* it.                                                                     *)
LEMMA GroupsCover ==
  ASSUME SlabOK
  PROVE  /\ Cardinality(Firsts) \in Nat \ {0}
         /\ \A k \in 1 .. Cardinality(Firsts) : NthFirst(k) \in DOMAIN slab
         /\ \A i \in DOMAIN slab : \E k \in 1 .. Cardinality(Firsts) :
              Cut(slab[NthFirst(k)]) = Cut(slab[i])
<1>1. Len(slab) \in Nat /\ DOMAIN slab = 1 .. Len(slab) /\ Len(slab) # 0
  BY SMT DEF SlabOK
<1>2. Firsts \subseteq 1 .. Len(slab) /\ Firsts \subseteq Nat
  BY <1>1 DEF Firsts
<1>3. IsFiniteSet(Firsts)
  <2>1. IsFiniteSet(1 .. Len(slab))
    BY <1>1, FS_Interval
  <2> QED BY <1>2, <2>1, FS_Subset
<1>4. ASSUME NEW i \in DOMAIN slab
      PROVE  \E f \in Firsts : Cut(slab[f]) = Cut(slab[i])
  <2> DEFINE Same1 == {j \in DOMAIN slab : Cut(slab[j]) = Cut(slab[i])}
  <2>1. Same1 \subseteq Nat /\ Same1 # {}
    BY <1>1
  <2>2. PICK f \in Same1 : \A j \in Same1 : f <= j
    <3> HIDE DEF Same1
    <3> QED BY <2>1, LeastOf
  <2>3. f \in DOMAIN slab /\ Cut(slab[f]) = Cut(slab[i])
    OBVIOUS
  <2>4. \A j \in 1 .. f - 1 : Cut(slab[j]) # Cut(slab[f])
    <3> SUFFICES ASSUME NEW j \in 1 .. f - 1, Cut(slab[j]) = Cut(slab[f]) PROVE FALSE
      OBVIOUS
    <3>1. j \in DOMAIN slab /\ ~(f <= j)
      BY <1>1, <2>3, SMT
    <3>2. j \in Same1
      BY <2>3, <3>1
    <3> QED BY <2>2, <3>1, <3>2
  <2> QED BY <2>3, <2>4 DEF Firsts
<1>5. /\ Cardinality(Firsts) \in Nat
      /\ \A k \in 1 .. Cardinality(Firsts) :
           \E x \in Firsts : Cardinality({y \in Firsts : y < x}) = k - 1
      /\ \A x \in Firsts : Cardinality({y \in Firsts : y < x}) + 1 \in 1 .. Cardinality(Firsts)
      /\ \A x, z \in Firsts :
           Cardinality({y \in Firsts : y < x}) = Cardinality({y \in Firsts : y < z}) => x = z
  BY <1>2, <1>3, PlacesFill
<1>6. \A k \in 1 .. Cardinality(Firsts) :
        NthFirst(k) \in Firsts /\ Cardinality({y \in Firsts : y < NthFirst(k)}) = k - 1
  BY <1>5 DEF NthFirst
<1>7. ASSUME NEW i \in DOMAIN slab
      PROVE  \E k \in 1 .. Cardinality(Firsts) : Cut(slab[NthFirst(k)]) = Cut(slab[i])
  <2>1. PICK f \in Firsts : Cut(slab[f]) = Cut(slab[i])
    BY <1>4
  <2>2. PICK k \in 1 .. Cardinality(Firsts) : k = Cardinality({y \in Firsts : y < f}) + 1
    BY <1>5
  <2>3. Cardinality({y \in Firsts : y < f}) = k - 1
    <3>1. IsFiniteSet({y \in Firsts : y < f})
      BY <1>3, FS_Subset
    <3>2. Cardinality({y \in Firsts : y < f}) \in Nat
      BY <3>1, FS_CardinalityType
    <3> QED BY <1>5, <2>2, <3>2, SMT
  <2>4. NthFirst(k) = f
    <3>1. NthFirst(k) \in Firsts /\ Cardinality({y \in Firsts : y < NthFirst(k)}) = k - 1
      BY <1>6
    <3> QED BY <1>5, <2>3, <3>1
  <2> QED BY <2>1, <2>4
<1>8. Cardinality(Firsts) # 0
  <2>1. 1 \in DOMAIN slab
    BY <1>1, SMT
  <2>2. PICK k \in 1 .. Cardinality(Firsts) : TRUE
    BY <1>7, <2>1
  <2> QED BY <1>5, <2>2, SMT
<1>9. \A k \in 1 .. Cardinality(Firsts) : NthFirst(k) \in DOMAIN slab
  BY <1>1, <1>2, <1>6
<1> QED BY <1>5, <1>7, <1>8, <1>9

(* The texts are those of the first turns.                                 *)
LEMMA TextsAre ==
  ASSUME SlabOK
  PROVE  /\ Texts = [k \in 1 .. Cardinality(Firsts) |-> Cut(slab[NthFirst(k)])]
         /\ Texts \in Seq(Heads) /\ Len(Texts) = Cardinality(Firsts)
         /\ Len(Texts) \in Nat \ {0}
<1>1. Texts = [k \in 1 .. Cardinality(Firsts) |-> Cut(slab[NthFirst(k)])]
  BY DEF Texts, group_slab
<1>2. Cardinality(Firsts) \in Nat \ {0} /\ \A k \in 1 .. Cardinality(Firsts) : NthFirst(k) \in DOMAIN slab
  BY GroupsCover
<1>3. \A i \in DOMAIN slab : Cut(slab[i]) \in Heads
  BY DEF SlabOK, Cut
<1>4. \A k \in 1 .. Cardinality(Firsts) : Cut(slab[NthFirst(k)]) \in Heads
  BY <1>2, <1>3
<1>5. Texts \in [1 .. Cardinality(Firsts) -> Heads]
  BY <1>1, <1>4
<1>6. Texts \in Seq(Heads) /\ Len(Texts) = Cardinality(Firsts)
  <2> HIDE DEF Texts
  <2> QED BY <1>2, <1>5, SeqDef, LenProperties
<1> QED BY <1>1, <1>2, <1>6

(* How far the texts before a batch and up to its end go.                  *)
Till(at) == IF at * EmbedBatch < Len(Texts) THEN at * EmbedBatch ELSE Len(Texts)

(* The batches are the texts, cut.                                         *)
LEMMA BatchesAre ==
  ASSUME SlabsAssumption, SlabOK
  PROVE  /\ Batches \in Nat \ {0}
         /\ Till(Batches) = Len(Texts)
         /\ \A at \in 1 .. Batches :
              /\ Till(at) \in Nat /\ (at - 1) * EmbedBatch \in Nat
              /\ (at - 1) * EmbedBatch < Till(at) /\ Till(at) <= Len(Texts)
              /\ BatchAt(at) = SubSeq(Texts, (at - 1) * EmbedBatch + 1, Till(at))
              /\ BatchAt(at) \in Seq(Heads)
              /\ at > 1 => Till(at - 1) = (at - 1) * EmbedBatch
<1>1. EmbedBatch \in Nat \ {0}
  BY DEF SlabsAssumption
<1>2. PICK n \in Nat \ {0} : n = Len(Texts)
  BY TextsAre
<1>3. PICK b \in Nat : b = EmbedBatch /\ b > 0
  BY <1>1, SMT
<1>4. PICK q \in Int : q = (n + b - 1) \div b
  BY <1>3, SMT
<1>5. Batches = q
  BY <1>2, <1>3, <1>4 DEF Batches
<1>6. b * q <= n + b - 1 /\ n + b - 1 < b * q + b
  BY <1>3, <1>4, SMT
<1>7. q >= 1 /\ n <= b * q
  BY <1>3, <1>6, SMT
<1>8. Till(q) = n
  <2>1. q * b >= n
    BY <1>3, <1>7, SMT
  <2>2. ~(q * EmbedBatch < Len(Texts))
    BY <1>2, <1>3, <2>1, SMT
  <2> QED BY <1>2, <2>2 DEF Till
<1>9. ASSUME NEW at \in 1 .. Batches
      PROVE  /\ Till(at) \in Nat /\ (at - 1) * EmbedBatch \in Nat
             /\ (at - 1) * EmbedBatch < Till(at) /\ Till(at) <= Len(Texts)
             /\ BatchAt(at) = SubSeq(Texts, (at - 1) * EmbedBatch + 1, Till(at))
             /\ BatchAt(at) \in Seq(Heads)
             /\ at > 1 => Till(at - 1) = (at - 1) * EmbedBatch
  <2>1. at \in Int /\ 1 <= at /\ at <= q
    BY <1>5, SMT
  <2>2. PICK lo \in Int, hi \in Int : lo = (at - 1) * EmbedBatch /\ hi = at * EmbedBatch
    BY <1>1, <2>1, SMT
  <2>3. 0 <= lo /\ hi = lo + b /\ lo < n
    <3>1. lo = b * (at - 1) /\ hi = b * at
      BY <1>3, <2>1, <2>2, SMT
    <3>2. 0 <= lo /\ hi = lo + b
      BY <1>3, <2>1, <3>1, SMT
    <3>3. b * at <= b * q
      BY <1>3, <2>1, SMT
    <3> QED BY <1>6, <3>1, <3>2, <3>3, SMT
  <2>4. Till(at) = IF hi < n THEN hi ELSE n
    BY <1>2, <2>2 DEF Till
  <2>5. Till(at) \in Nat /\ lo < Till(at) /\ Till(at) <= n
    BY <1>2, <1>3, <2>3, <2>4, SMT
  <2>6. BatchAt(at) = SubSeq(Texts, (at - 1) * EmbedBatch + 1, Till(at))
    BY DEF BatchAt, Till
  <2>7. BatchAt(at) \in Seq(Heads)
    <3>1. Texts \in Seq(Heads)
      BY TextsAre
    <3>2. BatchAt(at) = SubSeq(Texts, lo + 1, Till(at))
      BY <2>2, <2>6
    <3>3. \A i \in lo + 1 .. Till(at) : i \in 1 .. Len(Texts)
      BY <1>2, <2>3, <2>5, SMT
    <3> HIDE DEF Texts
    <3> QED BY <2>3, <2>5, <3>1, <3>2, <3>3, SMT
  <2>8. at > 1 => Till(at - 1) = (at - 1) * EmbedBatch
    BY <1>2, <2>2, <2>3 DEF Till
  <2> QED BY <1>2, <2>2, <2>3, <2>5, <2>6, <2>7, <2>8, SMT
<1>10. Batches \in Nat \ {0} /\ Till(Batches) = Len(Texts)
  BY <1>2, <1>5, <1>7, <1>8, SMT
<1> QED BY <1>9, <1>10

(* All batches, one after another, are the texts.                          *)
LEMMA BatchesJoin ==
  ASSUME SlabsAssumption, SlabOK
  PROVE  FlattenSeq([k \in 1 .. Batches |-> BatchAt(k)]) = Texts
<1>1. PICK n \in Nat \ {0} : n = Batches
  BY BatchesAre
<1> DEFINE s == [k \in 1 .. n |-> BatchAt(k)]
           g == [k \in 1 .. n |-> SubSeq(Texts, 1, Till(k))]
<1>2. Len(s) = n
  <2>1. s \in Seq(Seq(Heads))
    BY <1>1, BatchesAre, SeqDef
  <2>2. s \in [1 .. n -> Seq(Heads)]
    BY <1>1, BatchesAre
  <2> HIDE DEF s
  <2> QED BY <1>1, <2>1, <2>2, LenProperties, SMT
<1>3. Texts \in Seq(Heads) /\ Len(Texts) \in Nat
  BY TextsAre
<1>4. ASSUME NEW k \in 1 .. n
      PROVE  g[k] = IF k = 1 THEN s[k] ELSE g[k - 1] \o s[k]
  <2>1. /\ Till(k) \in Nat /\ (k - 1) * EmbedBatch \in Nat
        /\ (k - 1) * EmbedBatch < Till(k) /\ Till(k) <= Len(Texts)
        /\ BatchAt(k) = SubSeq(Texts, (k - 1) * EmbedBatch + 1, Till(k))
        /\ k > 1 => Till(k - 1) = (k - 1) * EmbedBatch
    BY <1>1, BatchesAre
  <2>2. CASE k = 1
    <3>1. (k - 1) * EmbedBatch + 1 = 1
      BY <2>2, SMT DEF SlabsAssumption
    <3> QED BY <2>1, <2>2, <3>1
  <2>3. CASE k # 1
    <3>1. k - 1 \in 1 .. n /\ k > 1
      BY <2>3, SMT
    <3>2. PICK lo \in Nat : lo = (k - 1) * EmbedBatch
      BY <2>1
    <3>3. PICK hi \in Nat : hi = Till(k)
      BY <2>1
    <3>4. lo <= hi /\ hi <= Len(Texts)
      BY <2>1, <3>2, <3>3, SMT
    <3>5. SubSeq(Texts, 1, lo) \o SubSeq(Texts, lo + 1, hi) = SubSeq(Texts, 1, hi)
      BY <1>3, <3>4, PartsJoin
    <3>6. Till(k - 1) = lo /\ BatchAt(k) = SubSeq(Texts, lo + 1, hi)
      BY <2>1, <3>1, <3>2, <3>3
    <3>7. g[k] = SubSeq(Texts, 1, hi) /\ g[k - 1] = SubSeq(Texts, 1, lo) /\ s[k] = SubSeq(Texts, lo + 1, hi)
      BY <3>1, <3>3, <3>6
    <3> HIDE DEF g, s
    <3> QED BY <2>3, <3>5, <3>7
  <2> QED BY <2>2, <2>3
<1>5. g = [k \in 1 .. Len(s) |-> IF k = 1 THEN s[k] ELSE g[k - 1] \o s[k]]
  <2>1. DOMAIN g = 1 .. n
    OBVIOUS
  <2>2. g = [k \in 1 .. n |-> g[k]]
    OBVIOUS
  <2> HIDE DEF g, s
  <2> QED BY <1>2, <1>4, <2>2
<1>6. FlattenSeq(s) = g[n]
  <2> HIDE DEF g, s
  <2> QED BY <1>2, <1>5, FlattenIs
<1>7. g[n] = SubSeq(Texts, 1, Len(Texts))
  <2>1. n \in 1 .. n
    BY SMT
  <2>2. Till(n) = Len(Texts)
    BY <1>1, BatchesAre
  <2> QED BY <2>1, <2>2
<1>8. SubSeq(Texts, 1, Len(Texts)) = Texts
  <2> HIDE DEF Texts
  <2> QED BY <1>3, SMT
<1> QED BY <1>1, <1>6, <1>7, <1>8

-----------------------------------------------------------------------------
(* What a worker sends, and the types.                                     *)
Answer == [at : Nat, ok : BOOLEAN, vecs : Seq(Heads)]

WorkOK ==
  /\ next \in Nat \ {0} /\ held \in [Workers -> Nat] /\ gone \subseteq Workers
  /\ sent \in Seq(Answer)

(* A batch that was claimed is in one worker's hands or was answered once. *)
Once ==
  /\ \A w \in Workers : held[w] # 0 => held[w] <= Batches /\ held[w] < next /\ w \notin gone
  /\ \A w, v \in Workers : held[w] # 0 /\ held[w] = held[v] => w = v
  /\ \A i \in DOMAIN sent : sent[i].at \in 1 .. Batches /\ sent[i].at < next
  /\ \A i, j \in DOMAIN sent : sent[i].at = sent[j].at => i = j
  /\ \A i \in DOMAIN sent, w \in Workers : held[w] # sent[i].at
  /\ \A b \in 1 .. Batches : b < next => \/ \E w \in Workers : held[w] = b
                                         \/ \E i \in DOMAIN sent : sent[i].at = b

(* What was answered is the texts of that batch.                           *)
OwnTexts == \A i \in DOMAIN sent : sent[i].ok => sent[i].vecs = BatchAt(sent[i].at)

(* The workers end when all is claimed, or with a failure.                 *)
EndsRight == Joined => next > Batches \/ Failed

(* The inductive invariant of the workers.                                 *)
SlabInv == SlabOK /\ WorkOK /\ Once /\ OwnTexts /\ EndsRight

(* At the start no batch is claimed and nothing is answered.               *)
LEMMA SlabStarts == ASSUME SlabsAssumption, SlabInit PROVE SlabInv
<1>1. SlabOK
  <2>1. slab \in BoundedSeq(Heads \X Rests, MaxSlab) /\ slab # <<>>
    BY DEF SlabInit
  <2>2. MaxSlab \in Nat
    BY DEF SlabsAssumption
  <2>3. slab \in Seq(Heads \X Rests)
    <3>1. slab \in UNION {[1 .. n -> Heads \X Rests] : n \in 0 .. MaxSlab}
      BY <2>1 DEF BoundedSeq, SeqOf
    <3>2. PICK n \in 0 .. MaxSlab : slab \in [1 .. n -> Heads \X Rests]
      BY <3>1
    <3>3. n \in Nat
      BY <2>2, SMT
    <3> QED BY <3>2, <3>3, SeqDef
  <2> QED BY <2>1, <2>3 DEF SlabOK
<1>2. Batches \in Nat \ {0}
  BY <1>1, BatchesAre
<1>3. next = 1 /\ sent = <<>> /\ held = [w \in Workers |-> 0] /\ gone \subseteq Workers
  BY DEF SlabInit
<1>4. WorkOK
  BY <1>3 DEF WorkOK
<1>5. Once
  BY <1>2, <1>3, SMT DEF Once
<1>6. OwnTexts
  BY <1>3 DEF OwnTexts
<1>7. EndsRight
  <2> SUFFICES ASSUME gone = Workers PROVE FALSE
    BY DEF EndsRight, Joined
  <2>1. Cardinality(Workers \ gone) =
          (IF Cardinality(Workers) < Batches THEN Cardinality(Workers) ELSE Batches)
    BY DEF SlabInit
  <2>2. Cardinality(Workers \ gone) = 0
    <3>1. Workers \ gone = {}
      OBVIOUS
    <3> QED BY <3>1, FS_EmptySet
  <2>3. Cardinality(Workers) \in Nat /\ Cardinality(Workers) # 0
    BY FS_CardinalityType, FS_EmptySet DEF SlabsAssumption
  <2> QED BY <1>2, <2>1, <2>2, <2>3, SMT
<1> QED BY <1>1, <1>4, <1>5, <1>6, <1>7 DEF SlabInv

(* The slab stands still.                                                  *)
LEMMA SlabStays ==
  ASSUME UNCHANGED slab
  PROVE  /\ SlabOK => SlabOK'
         /\ Batches' = Batches
         /\ \A b : BatchAt(b)' = BatchAt(b)
<1>1. Texts' = Texts
  BY DEF Texts, group_slab, NthFirst, Firsts, Same
<1> QED BY <1>1 DEF SlabOK, Batches, BatchAt

(* A worker claims the next batch, or finds none left.                     *)
LEMMA ClaimKeeps ==
  ASSUME SlabsAssumption, SlabInv, NEW w \in Workers, Claim(w)
  PROVE  SlabInv'
<1>1. /\ w \notin gone /\ held[w] = 0 /\ next' = next + 1 /\ UNCHANGED <<slab, sent>>
  BY DEF Claim
<1>2. PICK n \in Nat \ {0} : n = Batches
  BY BatchesAre DEF SlabInv
<1>3. Batches' = n /\ SlabOK' /\ \A b : BatchAt(b)' = BatchAt(b)
  BY <1>1, <1>2, SlabStays DEF SlabInv
<1>4. next \in Nat \ {0} /\ held \in [Workers -> Nat] /\ gone \subseteq Workers
  BY DEF SlabInv, WorkOK
<1>5. OwnTexts'
  BY <1>1, <1>3 DEF SlabInv, OwnTexts
<1>6. CASE next <= n
  <2>1. held' = [held EXCEPT ![w] = next] /\ gone' = gone
    BY <1>2, <1>6 DEF Claim
  <2>2. WorkOK'
    BY <1>1, <1>4, <2>1, SMT DEF SlabInv, WorkOK
  <2>3. \A v \in Workers : held'[v] = IF v = w THEN next ELSE held[v]
    BY <1>4, <2>1
  <2>4. Once'
    <3>1. \A v \in Workers : held'[v] # 0 => held'[v] <= n /\ held'[v] < next' /\ v \notin gone'
      BY <1>1, <1>2, <1>4, <1>6, <2>1, <2>3, SMT DEF SlabInv, Once
    <3>2. \A v, u \in Workers : held'[v] # 0 /\ held'[v] = held'[u] => v = u
      BY <1>1, <1>2, <1>4, <2>3, SMT DEF SlabInv, Once
    <3>3. \A i \in DOMAIN sent : sent[i].at \in 1 .. n /\ sent[i].at < next'
      BY <1>1, <1>2, <1>4, SMT DEF SlabInv, Once
    <3>4. \A i \in DOMAIN sent, v \in Workers : held'[v] # sent[i].at
      BY <1>1, <1>2, <1>4, <2>3, SMT DEF SlabInv, Once
    <3>5. \A b \in 1 .. n : b < next' => \/ \E v \in Workers : held'[v] = b
                                         \/ \E i \in DOMAIN sent : sent[i].at = b
      <4> TAKE b \in 1 .. n
      <4> HAVE b < next'
      <4>1. b = next \/ b < next
        BY <1>1, <1>4, SMT
      <4>2. CASE b = next
        BY <2>3, <4>2
      <4>3. CASE b < next
        <5>1. \/ \E v \in Workers : held[v] = b
              \/ \E i \in DOMAIN sent : sent[i].at = b
          BY <1>2, <4>3 DEF SlabInv, Once
        <5>2. \A v \in Workers : held[v] = b => v # w
          BY <1>1, SMT
        <5> QED BY <2>3, <5>1, <5>2
      <4> QED BY <4>1, <4>2, <4>3
    <3>6. \A i, j \in DOMAIN sent : sent[i].at = sent[j].at => i = j
      BY DEF SlabInv, Once
    <3> QED BY <1>1, <1>3, <3>1, <3>2, <3>3, <3>4, <3>5, <3>6 DEF Once
  <2>5. EndsRight'
    BY <1>1, <2>1 DEF EndsRight, Joined
  <2> QED BY <1>3, <1>5, <2>2, <2>4, <2>5 DEF SlabInv
<1>7. CASE ~(next <= n)
  <2>1. held' = held /\ gone' = gone \cup {w}
    BY <1>2, <1>7 DEF Claim
  <2>2. WorkOK'
    BY <1>1, <1>4, <2>1, SMT DEF SlabInv, WorkOK
  <2>3. next' > n
    BY <1>1, <1>4, <1>7, SMT
  <2>4. Once'
    <3>1. \A v \in Workers : held'[v] # 0 => held'[v] <= n /\ held'[v] < next' /\ v \notin gone'
      BY <1>1, <1>2, <1>4, <2>1, SMT DEF SlabInv, Once
    <3>2. \A i \in DOMAIN sent : sent[i].at \in 1 .. n /\ sent[i].at < next'
      BY <1>1, <1>2, <1>4, SMT DEF SlabInv, Once
    <3>3. \A b \in 1 .. n : b < next
      BY <1>4, <1>7, SMT
    <3> QED BY <1>1, <1>2, <1>3, <2>1, <3>1, <3>2, <3>3 DEF SlabInv, Once
  <2>5. EndsRight'
    BY <1>3, <2>3 DEF EndsRight
  <2> QED BY <1>3, <1>5, <2>2, <2>4, <2>5 DEF SlabInv
<1> QED BY <1>6, <1>7

(* An answer is sent once for a batch that was claimed, and is its texts.  *)
LEMMA SendKeeps ==
  ASSUME SlabsAssumption, SlabInv, NEW w \in Workers, held[w] # 0,
         NEW ok \in BOOLEAN, NEW vecs \in Seq(Heads), ok => vecs = BatchAt(held[w]),
         Send(w, ok, vecs)
  PROVE  SlabInv'
<1>1. /\ sent' = Append(sent, [at |-> held[w], ok |-> ok, vecs |-> vecs])
      /\ held' = [held EXCEPT ![w] = 0]
      /\ gone' = (IF ok THEN gone ELSE gone \cup {w})
      /\ UNCHANGED <<slab, next>>
  BY DEF Send
<1>2. PICK n \in Nat \ {0} : n = Batches
  BY BatchesAre DEF SlabInv
<1>3. Batches' = n /\ SlabOK' /\ \A b : BatchAt(b)' = BatchAt(b)
  BY <1>1, <1>2, SlabStays DEF SlabInv
<1>4. /\ next \in Nat \ {0} /\ held \in [Workers -> Nat] /\ gone \subseteq Workers
      /\ sent \in Seq(Answer)
  BY DEF SlabInv, WorkOK
<1>5. PICK a \in Answer : a = [at |-> held[w], ok |-> ok, vecs |-> vecs]
  <2>1. held[w] \in Nat
    BY <1>4
  <2> QED BY <2>1 DEF Answer
<1>6. a.at = held[w] /\ a.ok = ok /\ a.vecs = vecs
  BY <1>5
<1>7. PICK m \in Nat : m = Len(sent) /\ DOMAIN sent = 1 .. m
  BY <1>4
<1>8. /\ sent' \in Seq(Answer) /\ DOMAIN sent' = 1 .. m + 1 /\ sent'[m + 1] = a
      /\ \A i \in 1 .. m : sent'[i] = sent[i]
  <2>1. sent' = Append(sent, a)
    BY <1>1, <1>5
  <2> QED BY <1>4, <1>7, <2>1, SMT
<1>9. \A v \in Workers : held'[v] = IF v = w THEN 0 ELSE held[v]
  BY <1>1, <1>4
<1>10. WorkOK'
  <2>1. held' \in [Workers -> Nat] /\ gone' \subseteq Workers
    BY <1>1, <1>4
  <2> QED BY <1>1, <1>4, <1>8, <2>1 DEF WorkOK
<1>11. \A i \in 1 .. m + 1 : i = m + 1 \/ i \in 1 .. m
  BY SMT
<1>12. \A i \in 1 .. m : i \in 1 .. m + 1 /\ i # m + 1
  BY SMT
<1>13. m + 1 \in 1 .. m + 1
  BY SMT
<1>14. Once'
  <2>1. \A v \in Workers : held'[v] # 0 => held'[v] <= n /\ held'[v] < next' /\ v \notin gone'
    BY <1>1, <1>2, <1>9 DEF SlabInv, Once
  <2>2. \A v, u \in Workers : held'[v] # 0 /\ held'[v] = held'[u] => v = u
    BY <1>9 DEF SlabInv, Once
  <2>3. held[w] \in 1 .. n /\ held[w] < next
    <3>1. held[w] <= n /\ held[w] < next /\ held[w] \in Nat
      BY <1>2, <1>4 DEF SlabInv, Once
    <3> QED BY <3>1, SMT
  <2>4. \A i \in 1 .. m : sent[i].at \in 1 .. n /\ sent[i].at < next /\ sent[i].at # held[w]
    BY <1>2, <1>7 DEF SlabInv, Once
  <2>5. \A i \in 1 .. m + 1 : sent'[i].at \in 1 .. n /\ sent'[i].at < next'
    BY <1>1, <1>6, <1>8, <1>11, <2>3, <2>4
  <2>6. \A i, j \in 1 .. m + 1 : sent'[i].at = sent'[j].at => i = j
    <3>1. \A i, j \in 1 .. m : sent[i].at = sent[j].at => i = j
      BY <1>7 DEF SlabInv, Once
    <3> QED BY <1>6, <1>8, <1>11, <2>4, <3>1
  <2>7. \A i \in 1 .. m + 1, v \in Workers : held'[v] # sent'[i].at
    <3> TAKE i \in 1 .. m + 1, v \in Workers
    <3>1. CASE v = w
      <4>1. sent'[i].at \in 1 .. n
        BY <2>5
      <4> QED BY <1>9, <3>1, <4>1, SMT
    <3>2. CASE v # w
      <4>1. held'[v] = held[v]
        BY <1>9, <3>2
      <4>2. CASE i = m + 1
        <5>1. held[v] # held[w]
          BY <3>2 DEF SlabInv, Once
        <5> QED BY <1>6, <1>8, <4>1, <4>2, <5>1
      <4>3. CASE i \in 1 .. m
        <5>1. held[v] # sent[i].at
          BY <1>7, <4>3 DEF SlabInv, Once
        <5> QED BY <1>8, <4>1, <4>3, <5>1
      <4> QED BY <1>11, <4>2, <4>3
    <3> QED BY <3>1, <3>2
  <2>8. \A b \in 1 .. n : b < next' => \/ \E v \in Workers : held'[v] = b
                                       \/ \E i \in 1 .. m + 1 : sent'[i].at = b
    <3> TAKE b \in 1 .. n
    <3> HAVE b < next'
    <3>1. \/ \E v \in Workers : held[v] = b
          \/ \E i \in 1 .. m : sent[i].at = b
      BY <1>1, <1>2, <1>7 DEF SlabInv, Once
    <3>2. CASE held[w] = b
      BY <1>6, <1>8, <1>13, <3>2
    <3>3. CASE \E v \in Workers \ {w} : held[v] = b
      BY <1>9, <3>3
    <3>4. CASE \E i \in 1 .. m : sent[i].at = b
      BY <1>8, <1>12, <3>4
    <3> QED BY <3>1, <3>2, <3>3, <3>4
  <2> QED BY <1>3, <1>8, <2>1, <2>2, <2>5, <2>6, <2>7, <2>8 DEF Once
<1>15. OwnTexts'
  <2>1. \A i \in 1 .. m + 1 : sent'[i].ok => sent'[i].vecs = BatchAt(sent'[i].at)
    <3>1. \A i \in 1 .. m : sent[i].ok => sent[i].vecs = BatchAt(sent[i].at)
      BY <1>7 DEF SlabInv, OwnTexts
    <3>2. sent'[m + 1].ok => sent'[m + 1].vecs = BatchAt(sent'[m + 1].at)
      BY <1>6, <1>8
    <3> QED BY <1>8, <1>11, <3>1, <3>2
  <2> QED BY <1>3, <1>8, <2>1 DEF OwnTexts
<1>16. EndsRight'
  <2> SUFFICES ASSUME gone' = Workers PROVE next' > Batches' \/ Failed'
    BY DEF EndsRight, Joined
  <2>1. CASE ok
    <3>1. gone = Workers
      BY <1>1, <2>1
    <3>2. w \notin gone
      BY DEF SlabInv, Once
    <3> QED BY <3>1, <3>2
  <2>2. CASE ~ok
    <3>1. ~sent'[m + 1].ok
      BY <1>6, <1>8, <2>2
    <3> QED BY <1>8, <1>13, <3>1 DEF Failed
  <2> QED BY <2>1, <2>2
<1> QED BY <1>3, <1>10, <1>14, <1>15, <1>16 DEF SlabInv

(* The model answers a batch, whole, short or not at all.                  *)
LEMMA EmbedKeeps ==
  ASSUME SlabsAssumption, SlabInv, NEW w \in Workers, Embed(w) \/ ModelFails(w)
  PROVE  SlabInv'
<1>1. <<>> \in Seq(Heads)
  BY EmptySeq
<1>2. CASE ModelFails(w)
  <2>1. held[w] # 0 /\ Send(w, FALSE, <<>>)
    BY <1>2 DEF ModelFails
  <2> QED BY <1>1, <2>1, SendKeeps
<1>3. CASE Embed(w)
  <2>1. held[w] # 0
    BY <1>3 DEF Embed
  <2>2. PICK n \in 0 .. Len(BatchAt(held[w])) :
          LET vecs == SubSeq(BatchAt(held[w]), 1, n)
          IN  IF Whole(vecs, held[w]) THEN Send(w, TRUE, vecs) ELSE Send(w, FALSE, <<>>)
    BY <1>3 DEF Embed
  <2>3. CASE Whole(SubSeq(BatchAt(held[w]), 1, n), held[w])
    <3>1. Send(w, TRUE, SubSeq(BatchAt(held[w]), 1, n))
      BY <2>2, <2>3
    <3>2. held[w] \in 1 .. Batches
      <4>1. held[w] <= Batches /\ held[w] \in Nat /\ Batches \in Nat
        BY <2>1, BatchesAre DEF SlabInv, Once, WorkOK
      <4> QED BY <2>1, <4>1, SMT
    <3>3. PICK batch \in Seq(Heads) : batch = BatchAt(held[w])
      BY <3>2, BatchesAre DEF SlabInv
    <3>4. Len(SubSeq(batch, 1, n)) = Len(batch) /\ n \in 0 .. Len(batch)
      BY <2>3, <3>3 DEF Whole
    <3>5. SubSeq(batch, 1, n) = batch
      <4>1. n = Len(batch)
        BY <3>4, SMT
      <4> QED BY <4>1, SMT
    <3>6. Send(w, TRUE, batch)
      BY <3>1, <3>3, <3>5
    <3> QED BY <2>1, <3>3, <3>6, SendKeeps
  <2>4. CASE ~Whole(SubSeq(BatchAt(held[w]), 1, n), held[w])
    <3>1. Send(w, FALSE, <<>>)
      BY <2>2, <2>4
    <3> QED BY <1>1, <2>1, <3>1, SendKeeps
  <2> QED BY <2>3, <2>4
<1> QED BY <1>2, <1>3

(* The invariant holds of every slab.                                      *)
LEMMA SlabInvHolds == SlabSpec => []SlabInv
<1>1. SlabsAssumption
  BY SlabsAssumption
<1>2. SlabInit => SlabInv
  BY <1>1, SlabStarts
<1>3. SlabInv /\ [SlabNext]_svars => SlabInv'
  <2> SUFFICES ASSUME SlabInv, [SlabNext]_svars PROVE SlabInv'
    OBVIOUS
  <2>1. CASE UNCHANGED svars
    <3>1. UNCHANGED <<slab, next, held, gone, sent>>
      BY <2>1 DEF svars
    <3>2. SlabOK' /\ Batches' = Batches /\ \A b : BatchAt(b)' = BatchAt(b)
      BY <3>1, SlabStays DEF SlabInv
    <3>3. WorkOK'
      BY <3>1 DEF SlabInv, WorkOK
    <3>4. Once'
      BY <3>1, <3>2 DEF SlabInv, Once
    <3>5. OwnTexts'
      BY <3>1, <3>2 DEF SlabInv, OwnTexts
    <3>6. EndsRight'
      BY <3>1, <3>2 DEF SlabInv, EndsRight, Joined, Failed
    <3> QED BY <3>2, <3>3, <3>4, <3>5, <3>6 DEF SlabInv
  <2>2. ASSUME NEW w \in Workers, SlabWorks(w) PROVE SlabInv'
    BY <1>1, <2>2, ClaimKeeps, EmbedKeeps DEF SlabWorks
  <2> QED BY <2>1, <2>2 DEF SlabNext
<1> QED BY <1>2, <1>3, PTL DEF SlabSpec

(* Sorted by batch, the answers are the batches one after another.         *)
LEMMA AnswersSorted ==
  ASSUME SlabsAssumption, SlabInv, Joined, ~Failed
  PROVE  [i \in DOMAIN InOrder |-> InOrder[i].vecs] = [k \in 1 .. Batches |-> BatchAt(k)]
<1>1. PICK n \in Nat \ {0} : n = Batches
  BY BatchesAre DEF SlabInv
<1>2. PICK m \in Nat : m = Len(sent) /\ DOMAIN sent = 1 .. m
  BY DEF SlabInv, WorkOK
<1>3. /\ \A i \in 1 .. m : sent[i].at \in 1 .. n
      /\ \A i, j \in 1 .. m : sent[i].at = sent[j].at => i = j
      /\ \A i \in 1 .. m : sent[i].vecs = BatchAt(sent[i].at)
  BY <1>1, <1>2 DEF SlabInv, Once, OwnTexts, Failed
<1>4. \A b \in 1 .. n : \E i \in 1 .. m : sent[i].at = b
  <2> TAKE b \in 1 .. n
  <2>1. next > n /\ next \in Nat
    BY <1>1 DEF SlabInv, EndsRight, WorkOK
  <2>2. b < next
    BY <2>1, SMT
  <2>3. \A w \in Workers : held[w] # b
    <3> TAKE w \in Workers
    <3>1. held[w] = 0
      BY DEF SlabInv, Once, Joined
    <3> QED BY <3>1, SMT
  <2> QED BY <1>1, <1>2, <2>2, <2>3 DEF SlabInv, Once
<1> DEFINE at(b) == CHOOSE i \in 1 .. m : sent[i].at = b
<1>5. \A b \in 1 .. n : at(b) \in 1 .. m /\ sent[at(b)].at = b
  BY <1>4
<1>6. \A i \in 1 .. m : at(sent[i].at) = i
  BY <1>3, <1>5
<1> HIDE DEF at
<1>7. m = n
  <2> DEFINE f == [b \in 1 .. n |-> at(b)]
  <2>1. f \in [1 .. n -> 1 .. m]
    BY <1>5
  <2>2. \A b, c \in 1 .. n : f[b] = f[c] => b = c
    BY <1>5
  <2>3. \A i \in 1 .. m : \E b \in 1 .. n : f[b] = i
    BY <1>3, <1>6
  <2>4. f \in Bijection(1 .. n, 1 .. m)
    <3> HIDE DEF f
    <3> QED BY <2>1, <2>2, <2>3 DEF Bijection, Injection, Surjection, IsInjective
  <2>5. IsFiniteSet(1 .. n) /\ Cardinality(1 .. n) = n /\ Cardinality(1 .. m) = m
    <3>1. ASSUME NEW k \in Nat PROVE IsFiniteSet(1 .. k) /\ Cardinality(1 .. k) = k
      <4>1. k \in Int /\ 1 \in Int /\ (IF 1 > k THEN 0 ELSE k - 1 + 1) = k
        BY SMT
      <4> QED BY <4>1, FS_Interval
    <3> QED BY <3>1
  <2>6. Cardinality(1 .. m) = Cardinality(1 .. n)
    <3> HIDE DEF f
    <3> QED BY <2>4, <2>5, FS_Bijection DEF ExistsBijection
  <2> QED BY <2>5, <2>6
<1>8. ASSUME NEW i \in 1 .. m
      PROVE  Cardinality(Ahead(i)) = sent[i].at - 1
  <2>1. PICK b \in 1 .. n : b = sent[i].at
    BY <1>3
  <2> DEFINE below == 1 .. b - 1
             f == [c \in below |-> at(c)]
  <2>2. below \subseteq 1 .. n /\ \A c \in below : c < b
    BY SMT
  <2>3. \A j \in 1 .. m : sent[j].at < b => sent[j].at \in below
    <3> TAKE j \in 1 .. m
    <3>1. sent[j].at \in 1 .. n
      BY <1>3
    <3> QED BY <3>1, SMT
  <2>4. Ahead(i) = {j \in 1 .. m : sent[j].at < b}
    <3>1. \A j \in 1 .. m : sent[j].at = b => j = i
      BY <1>3, <2>1
    <3>2. ~(i < i)
      BY SMT
    <3> QED BY <1>2, <2>1, <3>1, <3>2 DEF Ahead
  <2> HIDE DEF below
  <2>5. f \in [below -> Ahead(i)]
    <3>1. \A c \in below : at(c) \in 1 .. m /\ sent[at(c)].at < b
      BY <1>5, <2>2
    <3> QED BY <2>4, <3>1
  <2>6. \A c, e \in below : f[c] = f[e] => c = e
    BY <1>5, <2>2
  <2>7. \A j \in Ahead(i) : \E c \in below : f[c] = j
    <3> TAKE j \in Ahead(i)
    <3>1. j \in 1 .. m /\ sent[j].at \in below
      BY <2>3, <2>4
    <3> QED BY <1>6, <3>1
  <2>8. f \in Bijection(below, Ahead(i))
    <3> HIDE DEF f
    <3> QED BY <2>5, <2>6, <2>7 DEF Bijection, Injection, Surjection, IsInjective
  <2>9. IsFiniteSet(below) /\ Cardinality(below) = b - 1
    <3>1. b - 1 \in Int /\ 1 \in Int
      BY SMT
    <3>2. IsFiniteSet(1 .. b - 1) /\ Cardinality(1 .. b - 1) = (IF 1 > b - 1 THEN 0 ELSE b - 1 - 1 + 1)
      BY <3>1, FS_Interval
    <3>3. (IF 1 > b - 1 THEN 0 ELSE b - 1 - 1 + 1) = b - 1
      BY SMT
    <3> QED BY <3>2, <3>3 DEF below
  <2>10. Cardinality(Ahead(i)) = Cardinality(below)
    <3> HIDE DEF f
    <3> QED BY <2>8, <2>9, FS_Bijection DEF ExistsBijection
  <2> QED BY <2>1, <2>9, <2>10
<1>9. ASSUME NEW k \in 1 .. n
      PROVE  InOrder[k].vecs = BatchAt(k)
  <2>1. at(k) \in 1 .. m /\ sent[at(k)].at = k
    BY <1>5
  <2>2. Cardinality(Ahead(at(k))) = k - 1
    BY <1>8, <2>1
  <2>3. \A i \in 1 .. m : Cardinality(Ahead(i)) = k - 1 => i = at(k)
    <3> SUFFICES ASSUME NEW i \in 1 .. m, Cardinality(Ahead(i)) = k - 1 PROVE i = at(k)
      OBVIOUS
    <3>1. sent[i].at - 1 = k - 1 /\ sent[i].at \in 1 .. n
      BY <1>3, <1>8
    <3>2. sent[i].at = k
      BY <3>1, SMT
    <3> QED BY <1>6, <3>2
  <2>4. (CHOOSE i \in DOMAIN sent : Cardinality(Ahead(i)) = k - 1) = at(k)
    BY <1>2, <2>1, <2>2, <2>3
  <2>5. InOrder[k] = sent[at(k)]
    BY <1>2, <1>7, <2>4 DEF InOrder
  <2> QED BY <1>3, <2>1, <2>5
<1>10. DOMAIN InOrder = 1 .. n
  BY <1>2, <1>7 DEF InOrder
<1> QED BY <1>1, <1>9, <1>10

(* Whatever order the workers claim, answer and end in, the vector stored  *)
(* for each turn is that of its own text (EachItsOwn).                     *)
THEOREM VectorsStayInPlace == SlabSpec => []EachItsOwn
<1>1. SlabsAssumption
  BY SlabsAssumption
<1>2. SlabInv => EachItsOwn
  <2> SUFFICES ASSUME SlabInv, Embedded PROVE EachItsOwn
    BY DEF EachItsOwn
  <2>1. Joined /\ ~Failed /\ SlabOK
    BY DEF Embedded, SlabInv
  <2>2. Vectors = Texts
    <3>1. Vectors = FlattenSeq([i \in DOMAIN InOrder |-> InOrder[i].vecs])
      BY DEF Vectors
    <3>2. FlattenSeq([i \in DOMAIN InOrder |-> InOrder[i].vecs])
            = FlattenSeq([k \in 1 .. Batches |-> BatchAt(k)])
      BY <1>1, <2>1, AnswersSorted
    <3> QED BY <1>1, <2>1, <3>1, <3>2, BatchesJoin
  <2>3. Vectors = [k \in 1 .. Cardinality(Firsts) |-> Cut(slab[NthFirst(k)])]
    BY <2>1, <2>2, TextsAre
  <2>4. ASSUME NEW i \in DOMAIN slab
        PROVE  \E k \in DOMAIN group_slab :
                 i \in group_slab[k].ids /\ Vectors[k] = Cut(slab[i])
    <3>1. PICK k \in 1 .. Cardinality(Firsts) : Cut(slab[NthFirst(k)]) = Cut(slab[i])
      BY <2>1, GroupsCover
    <3>2. Vectors[k] = Cut(slab[i])
      BY <2>3, <3>1
    <3>3. k \in DOMAIN group_slab /\ group_slab[k].ids = Same(NthFirst(k))
      BY DEF group_slab
    <3>4. i \in Same(NthFirst(k))
      BY <3>1 DEF Same
    <3> QED BY <3>2, <3>3, <3>4
  <2> QED BY <2>4 DEF EachItsOwn
<1> QED BY <1>2, SlabInvHolds, PTL
=============================================================================
