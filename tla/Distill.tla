------------------------------ MODULE Distill ------------------------------
(***************************************************************************)
(* When the automatic worker runs, and what it works on: spawn_if_due and  *)
(* run_worker (src/src/distill.rs).  Every session that ends starts a      *)
(* process.  It returns if the state file is younger than an hour, writes  *)
(* that file, tries a lock that only one process holds, and takes up to    *)
(* Cap queued sessions, the newest first.  A run in which no session       *)
(* failed removes the file.                                                *)
(*                                                                         *)
(* Module Checkpoint has one distillation step by step; here it is its     *)
(* start (Pick), at which the boundary is captured, and its outcome        *)
(* (Done, Defer, Fail).                                                    *)
(*                                                                         *)
(* Abstractions.  The state file is absent, recent or old: nothing reads   *)
(* the number of failures and the message in it.  The lock is an SQLite    *)
(* transaction, which ends with its process.  The file of the last result, *)
(* which is only shown, is left out.                                       *)
(***************************************************************************)
EXTENDS Integers, Sequences

CONSTANTS
  Sessions,
  Incomplete, \* sessions whose archive is incomplete
  Failing,    \* sessions whose child fails every time (Steady)
  Workers,    \* worker processes
  Nobody,     \* holds the lock when no worker does
  Cap,        \* MAX_SESSIONS, 3 in the code
  MaxEnds     \* bound: sessions that end with something to queue

ASSUME ConstantsAssumption ==
  /\ Incomplete \subseteq Sessions
  /\ Failing \subseteq Sessions
  /\ Nobody \notin Workers \cup Sessions
  /\ Cap \in Nat \ {0}
  /\ MaxEnds \in Nat

VARIABLES
  queue,      \* checkpoint_queue, the newest session first
  live,       \* sessions whose transcript changed in the last 10 minutes
  grown,      \* sessions archived further since their boundary was captured
  state,      \* distill.state
  lock,       \* who holds the run lock
  worker,     \* what each worker is doing
  ends,       \* sessions that ended with something to queue
  blamed      \* history: a run failed or was killed since state was absent

vars == <<queue, live, grown, state, lock, worker, ends, blamed>>

Worker == [at : {"idle", "start", "attempt", "lock", "list", "pick", "child",
                 "clear"},
           ended : Sessions \cup {Nobody}, rows : Seq(Sessions),
           sid : Sessions \cup {Nobody}, runs : 0 .. Cap, failed : BOOLEAN]
Idle == [at |-> "idle", ended |-> Nobody, rows |-> << >>, sid |-> Nobody,
         runs |-> 0, failed |-> FALSE]

(* The types, and that the run lock belongs to the worker that is between  *)
(* taking it and dropping it.                                              *)
TypeOK ==
  /\ queue \in Seq(Sessions)
  /\ live \subseteq Sessions
  /\ grown \subseteq Sessions
  /\ state \in {"none", "recent", "old"}
  /\ lock \in Workers \cup {Nobody}
  /\ worker \in [Workers -> Worker]
  /\ ends \in 0 .. MaxEnds
  /\ blamed \in BOOLEAN
  /\ \A w \in Workers : lock = w <=> worker[w].at \in {"list", "pick", "child"}

Init ==
  /\ queue = << >>
  /\ live = {}
  /\ grown = {}
  /\ state = "none"
  /\ lock = Nobody
  /\ worker = [w \in Workers |-> Idle]
  /\ ends = 0
  /\ blamed = FALSE

Queued(s) == \E i \in DOMAIN queue : queue[i] = s

(* What is left when the row of s is deleted, if there is one.             *)
Without(s) ==
  LET i == CHOOSE i \in DOMAIN queue : queue[i] = s
  IN  IF Queued(s)
        THEN SubSeq(queue, 1, i - 1) \o SubSeq(queue, i + 1, Len(queue))
        ELSE queue

----------------------------------------------------------------------------
(***************************************************************************)
(* Around the workers.                                                     *)
(***************************************************************************)

(* A session ends: it is queued, in the place it has if it is queued       *)
(* already, and its worker is started.                                     *)
End(s, w) ==
  /\ worker[w].at = "idle"
  /\ ends < MaxEnds
  /\ ends' = ends + 1
  /\ queue' = IF Queued(s) THEN queue ELSE <<s>> \o queue
  /\ live' = live \cup {s}
  /\ grown' = grown \cup {s}
  /\ worker' = [worker EXCEPT ![w] = [Idle EXCEPT !.at = "start", !.ended = s]]
  /\ UNCHANGED <<state, lock, blamed>>

(* A session ends that has nothing to queue.                               *)
EndEmpty(w) ==
  /\ worker[w].at = "idle"
  /\ worker' = [worker EXCEPT ![w] = [Idle EXCEPT !.at = "start"]]
  /\ UNCHANGED <<queue, live, grown, state, lock, ends, blamed>>

(* Ten minutes pass without a change to the transcript.                    *)
Quiet(s) ==
  /\ s \in live
  /\ live' = live \ {s}
  /\ UNCHANGED <<queue, grown, state, lock, worker, ends, blamed>>

(* RETRY_SECS pass.                                                        *)
Hour ==
  /\ state = "recent"
  /\ state' = "old"
  /\ UNCHANGED <<queue, live, grown, lock, worker, ends, blamed>>

----------------------------------------------------------------------------
(***************************************************************************)
(* One run.                                                                *)
(***************************************************************************)
Goto(w, step) == worker' = [worker EXCEPT ![w].at = step]
Return(w)     == worker' = [worker EXCEPT ![w] = Idle]


Pending == state = "recent"

Check(w) ==
  /\ worker[w].at = "start"
  /\ IF Pending THEN Return(w) ELSE Goto(w, "attempt")
  /\ UNCHANGED <<queue, live, grown, state, lock, ends, blamed>>

RecordAttempt(w) ==
  /\ worker[w].at = "attempt"
  /\ state' = "recent"
  /\ Goto(w, "lock")
  /\ UNCHANGED <<queue, live, grown, lock, ends, blamed>>

(* The loser leaves its attempt in the state file.                         *)
TryLock(w) ==
  /\ worker[w].at = "lock"
  /\ \/ /\ lock = Nobody
        /\ lock' = w
        /\ Goto(w, "list")
     \/ /\ lock # Nobody
        /\ Return(w)
        /\ UNCHANGED lock
  /\ UNCHANGED <<queue, live, grown, state, ends, blamed>>

List(w) ==
  /\ worker[w].at = "list"
  /\ worker' = [worker EXCEPT ![w].at = "pick", ![w].rows = queue]
  /\ UNCHANGED <<queue, live, grown, state, lock, ends, blamed>>

Picking(w) ==
  /\ worker[w].at = "pick"
  /\ worker[w].rows # << >>
  /\ worker[w].runs < Cap

Skipped(w, s) == (worker[w].ended # s /\ s \in live) \/ s \in Incomplete

(* A live session other than the one whose end started the run, and one    *)
(* whose archive is incomplete, are passed over.                           *)
Skip(w) ==
  LET s == Head(worker[w].rows)
  IN  /\ Picking(w)
      /\ Skipped(w, s)
      /\ worker' = [worker EXCEPT ![w].rows = Tail(@)]
      /\ UNCHANGED <<queue, live, grown, state, lock, ends, blamed>>

Pick(w) ==
  LET s == Head(worker[w].rows)
  IN  /\ Picking(w)
      /\ ~Skipped(w, s)
      /\ worker' = [worker EXCEPT ![w].at = "child", ![w].rows = Tail(@),
                                  ![w].sid = s, ![w].runs = @ + 1]
      /\ grown' = grown \ {s}
      /\ UNCHANGED <<queue, live, state, lock, ends, blamed>>

NextSession(w, failed) ==
  worker' = [worker EXCEPT ![w].at = "pick", ![w].sid = Nobody,
                           ![w].failed = @ \/ failed]

(* The proof passed; the session leaves the queue unless it has grown.     *)
Done(w) ==
  LET s == worker[w].sid
  IN  /\ worker[w].at = "child"
      /\ queue' = IF s \in grown THEN queue ELSE Without(s)
      /\ NextSession(w, FALSE)
      /\ UNCHANGED <<live, grown, state, lock, ends, blamed>>

(* The archive had become incomplete, before the child or during it.       *)
Defer(w) ==
  /\ worker[w].at = "child"
  /\ NextSession(w, FALSE)
  /\ UNCHANGED <<queue, live, grown, state, lock, ends, blamed>>

(* The child failed, or its proof was rejected.                            *)
Fail(w) ==
  /\ worker[w].at = "child"
  /\ state' = "recent"
  /\ NextSession(w, TRUE)
  /\ UNCHANGED <<queue, live, grown, lock, ends, blamed>>

(* The lock is dropped before the state file is dealt with.                *)
Release(w) ==
  /\ worker[w].at = "pick"
  /\ ~Picking(w)
  /\ lock' = Nobody
  /\ blamed' = (blamed \/ worker[w].failed)
  /\ Goto(w, "clear")
  /\ UNCHANGED <<queue, live, grown, state, ends>>

(* Mutant: a run that had nothing to do leaves its attempt.                *)
ClearIfBusy(w) ==
  /\ worker[w].at = "clear"
  /\ state' = IF worker[w].failed \/ worker[w].runs = 0 THEN state ELSE "none"
  /\ blamed' = (blamed /\ worker[w].failed)
  /\ Return(w)
  /\ UNCHANGED <<queue, live, grown, lock, ends>>

Clear(w) ==
  /\ worker[w].at = "clear"
  /\ state' = IF worker[w].failed THEN state ELSE "none"
  /\ blamed' = (blamed /\ worker[w].failed)
  /\ Return(w)
  /\ UNCHANGED <<queue, live, grown, lock, ends>>

(* Killed, or ended by an error of the lock file or the database.          *)
Kill(w) ==
  /\ worker[w].at # "idle"
  /\ lock' = IF lock = w THEN Nobody ELSE lock
  /\ blamed' = (blamed \/ worker[w].at \notin {"start", "attempt"})
  /\ Return(w)
  /\ UNCHANGED <<queue, live, grown, state, ends>>

----------------------------------------------------------------------------
Control(w) ==
  \/ Check(w)
  \/ RecordAttempt(w)
  \/ TryLock(w)
  \/ List(w)
  \/ Skip(w)
  \/ Pick(w)
  \/ Release(w)
  \/ Clear(w)

Around ==
  \/ \E s \in Sessions, w \in Workers : End(s, w)
  \/ \E w \in Workers : EndEmpty(w)
  \/ \E s \in Sessions : Quiet(s)
  \/ Hour

Next ==
  \/ Around
  \/ \E w \in Workers :
       \/ Control(w)
       \/ Done(w)
       \/ Defer(w)
       \/ Fail(w)
       \/ Kill(w)

Spec == Init /\ [][Next]_vars

(***************************************************************************)
(* For liveness: the child of a session in Failing fails every time and    *)
(* that of no other does, and a session is deferred only if it was         *)
(* archived further.  A run that is not killed gets to its end, sessions   *)
(* keep ending and time passes.                                            *)
(***************************************************************************)
Fated(w) ==
  \/ Control(w)
  \/ worker[w].sid \notin Failing /\ Done(w)
  \/ worker[w].sid \in Failing /\ Fail(w)
  \/ worker[w].sid \in grown /\ Defer(w)

Fairness ==
  /\ \A w \in Workers : WF_vars(Fated(w)) /\ WF_vars(EndEmpty(w))
  /\ \A s \in Sessions : WF_vars(Quiet(s))
  /\ WF_vars(Hour)

----------------------------------------------------------------------------
(* A retry wait has a cause.  When no worker is left, the state file is    *)
(* there only if a run failed or was killed since it was last absent:      *)
(* losing the lock leaves an attempt behind, and whoever held the lock     *)
(* removes it.                                                             *)
WaitHasCause ==
  (\A w \in Workers : worker[w].at = "idle") /\ state # "none" => blamed

=============================================================================
