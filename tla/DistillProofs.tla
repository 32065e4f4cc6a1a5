--------------------------- MODULE DistillProofs ---------------------------
(***************************************************************************)
(* Theorems about the control of the automatic worker, for any sessions,   *)
(* workers and cap.                                                        *)
(*                                                                         *)
(* WaitHasCause speaks of states without workers.  The invariant accounts  *)
(* for the state file at every moment: a run failed or was killed, or some *)
(* worker is still on its way to remove the file.  A worker that loses the *)
(* lock leaves that duty to the one that holds it (Accounted).             *)
(***************************************************************************)
EXTENDS Distill, TLAPS

(* A worker that will remove the state file unless it fails or is killed.  *)
Cleaner(w) ==
  \/ worker[w].at \in {"lock", "list", "pick", "child"}
  \/ worker[w].at = "clear" /\ ~worker[w].failed

Accounted == state # "none" => blamed \/ \E w \in Workers : Cleaner(w)

Inv == TypeOK /\ Accounted

(* Deleting a row leaves a queue.                                          *)
LEMMA WithoutType ==
  ASSUME TypeOK, NEW s \in Sessions
  PROVE  Without(s) \in Seq(Sessions)
<1> DEFINE i == CHOOSE j \in DOMAIN queue : queue[j] = s
<1>1. CASE ~Queued(s)
  BY <1>1 DEF TypeOK, Without
<1>2. CASE Queued(s)
  <2>1. i \in 1 .. Len(queue)
    BY <1>2 DEF Queued, TypeOK
  <2> HIDE DEF i
  <2>2. SubSeq(queue, 1, i - 1) \in Seq(Sessions)
    BY <2>1 DEF TypeOK
  <2>3. SubSeq(queue, i + 1, Len(queue)) \in Seq(Sessions)
    BY <2>1 DEF TypeOK
  <2>4. SubSeq(queue, 1, i - 1) \o SubSeq(queue, i + 1, Len(queue)) \in Seq(Sessions)
    BY <2>2, <2>3
  <2> QED
    BY <1>2, <2>4 DEF Without, i
<1> QED
  BY <1>1, <1>2

(* The worker that waits for its next start.                               *)
LEMMA IdleType == Idle \in Worker /\ Idle.at = "idle"
BY ConstantsAssumption DEF Idle, Worker

(* Every step keeps every type, and the lock with its holder.              *)
LEMMA TypeStep == TypeOK /\ [Next]_vars => TypeOK'
<1> SUFFICES ASSUME TypeOK, [Next]_vars PROVE TypeOK'
  OBVIOUS
<1> USE IdleType, ConstantsAssumption
<1>1. ASSUME NEW s \in Sessions, NEW w \in Workers, End(s, w) PROVE TypeOK'
  <2>1. [Idle EXCEPT !.at = "start", !.ended = s] \in Worker
    BY DEF Idle, Worker
  <2>2. queue' \in Seq(Sessions)
    BY <1>1 DEF End, TypeOK
  <2>3. worker' \in [Workers -> Worker] /\ worker'[w].at = "start"
    BY <1>1, <2>1 DEF End, TypeOK, Idle
  <2> QED
    BY <1>1, <2>2, <2>3 DEF End, TypeOK
<1>2. ASSUME NEW w \in Workers, EndEmpty(w) PROVE TypeOK'
  <2>1. [Idle EXCEPT !.at = "start"] \in Worker
    BY DEF Idle, Worker
  <2>2. worker' \in [Workers -> Worker] /\ worker'[w].at = "start"
    BY <1>2, <2>1 DEF EndEmpty, TypeOK, Idle
  <2> QED
    BY <1>2, <2>2 DEF EndEmpty, TypeOK
<1>3. ASSUME NEW s \in Sessions, Quiet(s) PROVE TypeOK'
  BY <1>3 DEF Quiet, TypeOK
<1>4. CASE Hour
  BY <1>4 DEF Hour, TypeOK
<1>5. ASSUME NEW w \in Workers, Control(w) PROVE TypeOK'
  <2>1. CASE Check(w)
    <3>1. CASE Pending
      <4>1. /\ worker' = [worker EXCEPT ![w] = Idle]
            /\ UNCHANGED <<queue, live, grown, state, lock, ends, blamed>>
            /\ worker[w].at = "start"
        BY <2>1, <3>1, Zenon DEF Check, Return
      <4>2. worker' \in [Workers -> Worker] /\ worker'[w].at = "idle"
        BY <4>1 DEF TypeOK
      <4>3. \A v \in Workers \ {w} : worker'[v] = worker[v]
        BY <4>1 DEF TypeOK
      <4>4. \A v \in Workers : lock = v <=> worker'[v].at \in {"list", "pick", "child"}
        BY <4>1, <4>2, <4>3 DEF TypeOK
      <4> QED
        BY <4>1, <4>2, <4>4 DEF TypeOK
    <3>2. CASE ~Pending
      <4>1. /\ worker' = [worker EXCEPT ![w].at = "attempt"]
            /\ UNCHANGED <<queue, live, grown, state, lock, ends, blamed>>
            /\ worker[w].at = "start"
        BY <2>1, <3>2, Zenon DEF Check, Goto
      <4> QED
        BY <4>1 DEF Worker, TypeOK
    <3> QED
      BY <3>1, <3>2
  <2>2. CASE RecordAttempt(w)
    BY <2>2 DEF RecordAttempt, Goto, Worker, TypeOK
  <2>3. CASE TryLock(w)
    <3>1. CASE lock = Nobody /\ lock' = w /\ Goto(w, "list")
      BY <2>3, <3>1 DEF TryLock, Goto, Worker, TypeOK
    <3>2. CASE Return(w) /\ UNCHANGED lock
      BY <2>3, <3>2 DEF TryLock, Return, TypeOK
    <3> QED
      BY <2>3, <3>1, <3>2 DEF TryLock
  <2>4. CASE List(w)
    BY <2>4 DEF List, Worker, TypeOK
  <2>5. CASE Skip(w)
    <3>1. worker[w].rows \in Seq(Sessions) /\ worker[w].rows # << >>
      BY <2>5 DEF Skip, Picking, TypeOK, Worker
    <3>2. Tail(worker[w].rows) \in Seq(Sessions)
      BY <3>1
    <3>3. worker' = [worker EXCEPT ![w].rows = Tail(worker[w].rows)]
      BY <2>5 DEF Skip
    <3>4. worker' \in [Workers -> Worker]
      BY <3>2, <3>3 DEF TypeOK, Worker
    <3> QED
      BY <2>5, <3>3, <3>4 DEF Skip, TypeOK
  <2>6. CASE Pick(w)
    <3>1. worker[w].rows \in Seq(Sessions) /\ worker[w].rows # << >>
      BY <2>6 DEF Pick, Picking, TypeOK, Worker
    <3>2. Tail(worker[w].rows) \in Seq(Sessions) /\ Head(worker[w].rows) \in Sessions
      BY <3>1
    <3>3. worker[w].runs + 1 \in 0 .. Cap
      BY <2>6 DEF Pick, Picking, TypeOK, Worker
    <3>4. worker' = [worker EXCEPT ![w].at = "child",
                                   ![w].rows = Tail(worker[w].rows),
                                   ![w].sid = Head(worker[w].rows),
                                   ![w].runs = worker[w].runs + 1]
      BY <2>6 DEF Pick
    <3>5. worker' \in [Workers -> Worker]
      <4> DEFINE q == [worker[w] EXCEPT !.at = "child", !.rows = Tail(worker[w].rows),
                                        !.sid = Head(worker[w].rows),
                                        !.runs = worker[w].runs + 1]
      <4>1. worker' = [worker EXCEPT ![w] = q]
        BY <3>4 DEF TypeOK
      <4>2. worker[w] \in Worker
        BY DEF TypeOK
      <4>3. q \in Worker
        BY <3>2, <3>3, <4>2 DEF Worker
      <4> HIDE DEF q
      <4> QED
        BY <4>1, <4>3 DEF TypeOK
    <3>6. worker[w].at = "pick" /\ worker'[w].at = "child"
      BY <2>6, <3>4 DEF Pick, Picking, TypeOK
    <3>7. \A v \in Workers \ {w} : worker'[v] = worker[v]
      BY <3>4 DEF TypeOK
    <3> QED
      BY <2>6, <3>5, <3>6, <3>7 DEF Pick, TypeOK
  <2>7. CASE Release(w)
    BY <2>7 DEF Release, Goto, Worker, TypeOK
  <2>8. CASE Clear(w)
    BY <2>8 DEF Clear, Return, Worker, Idle, TypeOK
  <2> QED
    BY <1>5, <2>1, <2>2, <2>3, <2>4, <2>5, <2>6, <2>7, <2>8 DEF Control
<1>6. ASSUME NEW w \in Workers, Done(w) PROVE TypeOK'
  <2>1. queue' \in Seq(Sessions)
    <3>1. CASE worker[w].sid \in Sessions
      BY <1>6, <3>1, WithoutType DEF Done, TypeOK
    <3>2. CASE worker[w].sid = Nobody
      <4>1. ~Queued(Nobody)
        BY DEF Queued, TypeOK
      <4> QED
        BY <1>6, <3>2, <4>1 DEF Done, Without, TypeOK
    <3> QED
      BY <3>1, <3>2 DEF TypeOK, Worker
  <2> QED
    BY <1>6, <2>1 DEF Done, NextSession, Worker, TypeOK
<1>7. ASSUME NEW w \in Workers, Defer(w) PROVE TypeOK'
  BY <1>7 DEF Defer, NextSession, Worker, TypeOK
<1>8. ASSUME NEW w \in Workers, Fail(w) PROVE TypeOK'
  BY <1>8 DEF Fail, NextSession, Worker, TypeOK
<1>9. ASSUME NEW w \in Workers, Kill(w) PROVE TypeOK'
  BY <1>9 DEF Kill, Return, Idle, TypeOK
<1>10. CASE UNCHANGED vars
  BY <1>10 DEF vars, TypeOK
<1> QED
  BY <1>1, <1>2, <1>3, <1>4, <1>5, <1>6, <1>7, <1>8, <1>9, <1>10
  DEF Next, Around

(* Before the first session ends there is no state file and no worker.     *)
LEMMA Initially == Init => Inv
<1> SUFFICES ASSUME Init PROVE Inv
  OBVIOUS
<1>1. TypeOK
  <2>1. worker \in [Workers -> Worker] /\ \A w \in Workers : worker[w].at = "idle"
    BY IdleType DEF Init
  <2>2. \A w \in Workers : lock # w
    BY ConstantsAssumption DEF Init
  <2>3. queue \in Seq(Sessions) /\ ends \in 0 .. MaxEnds
    BY ConstantsAssumption DEF Init
  <2> QED
    BY <2>1, <2>2, <2>3 DEF Init, TypeOK
<1>2. Accounted
  BY DEF Init, Accounted
<1> QED
  BY <1>1, <1>2 DEF Inv

(* A worker that keeps its duty accounts for the state file.               *)
LEMMA StillCleaner ==
  ASSUME TypeOK, Accounted, TypeOK', blamed' = blamed,
         state' # "none" => state # "none",
         \A w \in Workers : Cleaner(w) => Cleaner(w)'
  PROVE  Accounted'
BY DEF Accounted

(* Every step leaves the state file accounted for.                         *)
LEMMA Steps == Inv /\ [Next]_vars => Inv'
<1> SUFFICES ASSUME Inv, [Next]_vars PROVE Inv'
  OBVIOUS
<1>0. TypeOK /\ Accounted /\ TypeOK'
  BY TypeStep DEF Inv
<1> SUFFICES Accounted'
  BY <1>0 DEF Inv
<1>1. ASSUME NEW s \in Sessions, NEW w \in Workers, End(s, w) PROVE Accounted'
  BY <1>0, <1>1, StillCleaner DEF End, Cleaner, TypeOK
<1>2. ASSUME NEW w \in Workers, EndEmpty(w) PROVE Accounted'
  BY <1>0, <1>2, StillCleaner DEF EndEmpty, Cleaner, TypeOK
<1>3. ASSUME NEW s \in Sessions, Quiet(s) PROVE Accounted'
  BY <1>0, <1>3, StillCleaner DEF Quiet, Cleaner
<1>4. CASE Hour
  BY <1>0, <1>4, StillCleaner DEF Hour, Cleaner
<1>5. ASSUME NEW w \in Workers, Control(w) PROVE Accounted'
  <2>1. CASE Check(w)
    BY <1>0, <2>1, StillCleaner DEF Check, Goto, Return, Idle, Cleaner, TypeOK
  <2>2. CASE RecordAttempt(w)
    <3>1. Cleaner(w)'
      BY <1>0, <2>2 DEF RecordAttempt, Goto, Cleaner, TypeOK
    <3> QED
      BY <3>1 DEF Accounted
  <2>3. CASE TryLock(w)
    <3>1. CASE lock = Nobody /\ Goto(w, "list")
      BY <1>0, <2>3, <3>1, StillCleaner DEF TryLock, Goto, Cleaner, TypeOK
    <3>2. CASE lock # Nobody /\ Return(w)
      (* The holder of the lock has the duty. *)
      <4>1. PICK h \in Workers : lock = h
        BY <1>0, <3>2 DEF TypeOK
      <4>2. h # w /\ worker[h].at \in {"list", "pick", "child"}
        BY <1>0, <2>3, <4>1 DEF TryLock, TypeOK
      <4>3. worker'[h] = worker[h]
        BY <1>0, <3>2, <4>2 DEF Return, TypeOK
      <4>4. Cleaner(h)'
        BY <4>2, <4>3 DEF Cleaner
      <4> QED
        BY <4>4 DEF Accounted
    <3> QED
      BY <2>3, <3>1, <3>2 DEF TryLock
  <2>4. CASE List(w)
    BY <1>0, <2>4, StillCleaner DEF List, Cleaner, TypeOK
  <2>5. CASE Skip(w)
    BY <1>0, <2>5, StillCleaner DEF Skip, Picking, Cleaner, TypeOK
  <2>6. CASE Pick(w)
    BY <1>0, <2>6, StillCleaner DEF Pick, Picking, Cleaner, TypeOK
  <2>7. CASE Release(w)
    (* A run that failed takes the blame as it stops being a cleaner. *)
    <3>1. CASE worker[w].failed
      BY <1>0, <2>7, <3>1 DEF Release, Accounted
    <3>2. CASE ~worker[w].failed
      BY <1>0, <2>7, <3>2, StillCleaner DEF Release, Goto, Cleaner, TypeOK, Worker
    <3> QED
      BY <3>1, <3>2
  <2>8. CASE Clear(w)
    <3>1. CASE worker[w].failed
      BY <1>0, <2>8, <3>1, StillCleaner DEF Clear, Return, Idle, Cleaner, TypeOK
    <3>2. CASE ~worker[w].failed
      BY <2>8, <3>2 DEF Clear, Accounted
    <3> QED
      BY <3>1, <3>2
  <2> QED
    BY <1>5, <2>1, <2>2, <2>3, <2>4, <2>5, <2>6, <2>7, <2>8 DEF Control
<1>6. ASSUME NEW w \in Workers, Done(w) PROVE Accounted'
  BY <1>0, <1>6, StillCleaner DEF Done, NextSession, Cleaner, TypeOK
<1>7. ASSUME NEW w \in Workers, Defer(w) PROVE Accounted'
  BY <1>0, <1>7, StillCleaner DEF Defer, NextSession, Cleaner, TypeOK
<1>8. ASSUME NEW w \in Workers, Fail(w) PROVE Accounted'
  <2>1. Cleaner(w)'
    BY <1>0, <1>8 DEF Fail, NextSession, Cleaner, TypeOK
  <2> QED
    BY <2>1 DEF Accounted
<1>9. ASSUME NEW w \in Workers, Kill(w) PROVE Accounted'
  <2>1. CASE worker[w].at \in {"start", "attempt"}
    BY <1>0, <1>9, <2>1, StillCleaner DEF Kill, Return, Idle, Cleaner, TypeOK
  <2>2. CASE worker[w].at \notin {"start", "attempt"}
    BY <1>9, <2>2 DEF Kill, Accounted
  <2> QED
    BY <2>1, <2>2
<1>10. CASE UNCHANGED vars
  BY <1>0, <1>10, StillCleaner DEF vars, Cleaner
<1> QED
  BY <1>1, <1>2, <1>3, <1>4, <1>5, <1>6, <1>7, <1>8, <1>9, <1>10
  DEF Next, Around

(* The invariant holds throughout.                                         *)
THEOREM Invariance == Spec => []Inv
BY Initially, Steps, PTL DEF Spec

(* Type correctness, and one holder of the run lock: run_worker has it     *)
(* from run_lock to the drop, for any number of workers.                   *)
THEOREM TypeCorrect == Spec => []TypeOK
<1>1. Inv => TypeOK
  BY DEF Inv
<1> QED
  BY Invariance, <1>1, PTL

(* A state file that outlives all workers was left by a run that failed or *)
(* was killed: losers of the lock leave none (distill.rs, run_worker).     *)
THEOREM WaitsHaveACause == Spec => []WaitHasCause
<1>1. Inv => WaitHasCause
  BY DEF Inv, Accounted, Cleaner, WaitHasCause
<1> QED
  BY Invariance, <1>1, PTL
=============================================================================
