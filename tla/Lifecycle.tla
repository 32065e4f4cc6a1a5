------------------------------ MODULE Lifecycle ------------------------------
(***************************************************************************)
(* From the end of a session to its place in the queue (src/src/hook.rs,   *)
(* sweep in src/src/ingest.rs).  Claude Code runs Stop after each turn,    *)
(* which archives but does not queue; SessionEnd, whose detached worker    *)
(* archives and queues, retrying while the database is busy; and           *)
(* SessionStart, whose sweep archives every transcript and then queues the *)
(* sessions whose transcript had changed.  Any of these processes may be   *)
(* killed, and a worker may never run.                                     *)
(*                                                                         *)
(* The module drives Checkpoint: a pass commits turns with ArchiveTurns    *)
(* and its row with SaveRow, and queues with Enqueue.                      *)
(*                                                                         *)
(* Abstractions.  Every line is a user turn, so a transcript is the number *)
(* of lines written; that number also serves as its size and modification  *)
(* time.  Module Ingest has the other lines and the steps of a pass.       *)
(***************************************************************************)
EXTENDS Checkpoint, FiniteSets

CONSTANTS
  Procs,      \* hook processes
  MaxTries    \* attempts of the SessionEnd worker (20 in the code)

ASSUME TriesAssumption == MaxTries \in Nat \ {0}

VARIABLES
  written,    \* turns Claude Code wrote to each transcript
  open,       \* the session is running
  stored,     \* size, mtime and offset in the sessions row
  proc        \* what each hook process is doing

lvars == <<vars, written, open, stored, proc>>

NoFile == [size |-> 0, mtime |-> 0, off |-> 0]

(* kind is stop, end or sweep; at is idle, check, open, archive, save, list *)
(* or enqueue; left is the transcripts a sweep has to visit, then the      *)
(* sessions it has to queue.                                               *)
NoProc == [kind |-> "none", at |-> "idle", sid |-> NoSession, mtime |-> 0,
           read |-> 0, tries |-> 0, left |-> {}, changed |-> {}]

LInit ==
  /\ Init
  /\ written = [s \in Sessions |-> 0]
  /\ open = [s \in Sessions |-> TRUE]
  /\ stored = [s \in Sessions |-> NoFile]
  /\ proc = [p \in Procs |-> NoProc]

----------------------------------------------------------------------------
(***************************************************************************)
(* Claude Code and the hooks it runs.                                      *)
(***************************************************************************)
Write(s) ==
  /\ open[s]
  /\ written[s] <= MaxSeq
  /\ written' = [written EXCEPT ![s] = @ + 1]
  /\ UNCHANGED <<vars, open, stored, proc>>

Spawn(p, new) ==
  /\ proc[p].at = "idle"
  /\ proc' = [proc EXCEPT ![p] = new]

StopHook(p, s) ==
  /\ open[s]
  /\ written[s] > 0
  /\ Spawn(p, [NoProc EXCEPT !.kind = "stop", !.at = "open", !.sid = s])
  /\ UNCHANGED <<vars, written, open, stored>>

SessionEnd(p, s) ==
  /\ open[s]
  /\ open' = [open EXCEPT ![s] = FALSE]
  /\ Spawn(p, [NoProc EXCEPT !.kind = "end", !.at = "open", !.sid = s])
  /\ UNCHANGED <<vars, written, stored>>

(* The worker never ran: not spawned, or the session was killed.           *)
EndUnheard(s) ==
  /\ open[s]
  /\ open' = [open EXCEPT ![s] = FALSE]
  /\ UNCHANGED <<vars, written, stored, proc>>

Resume(s) ==
  /\ ~open[s]
  /\ open' = [open EXCEPT ![s] = TRUE]
  /\ UNCHANGED <<vars, written, stored, proc>>

SessionStart(p) ==
  /\ Spawn(p, [NoProc EXCEPT !.kind = "sweep", !.at = "check",
                             !.left = {s \in Sessions : written[s] > 0}])
  /\ UNCHANGED <<vars, written, open, stored>>

----------------------------------------------------------------------------
(***************************************************************************)
(* A process.                                                              *)
(***************************************************************************)

(* Mutant: a worker that finds nothing to archive has nothing to queue.    *)
AfterOnlySave(p) ==
  LET q == proc[p]
  IN  CASE q.kind = "stop"  -> NoProc
        [] q.kind = "end"   -> IF q.at = "save" THEN [q EXCEPT !.at = "enqueue"]
                                                ELSE NoProc
        [] q.kind = "sweep" -> [q EXCEPT !.at = "check"]

(* What follows a pass.                                                    *)
After(p) ==
  LET q == proc[p]
  IN  CASE q.kind = "stop"  -> NoProc
        [] q.kind = "end"   -> [q EXCEPT !.at = "enqueue"]
        [] q.kind = "sweep" -> [q EXCEPT !.at = "check"]

(* The transcript's size or time is not the one its row says.              *)
FileChanged(s) == stored[s].size # written[s] \/ stored[s].mtime # written[s]

(* The sweep compares the file with its row before it ingests it.          *)
SweepCheck(p, s) ==
  /\ proc[p].at = "check"
  /\ s \in proc[p].left
  /\ proc' = [proc EXCEPT ![p].at = "open", ![p].sid = s,
                          ![p].left = @ \ {s},
                          ![p].changed = IF FileChanged(s) THEN @ \cup {s}
                                                           ELSE @]
  /\ UNCHANGED <<vars, written, open, stored>>

Unchanged(s) ==
  /\ hi[s] >= 0
  /\ ~FileChanged(s)
  /\ stored[s].off = written[s]

SkipPass(p) ==
  /\ proc[p].at = "open"
  /\ Unchanged(proc[p].sid) \/ written[proc[p].sid] = 0
  /\ proc' = [proc EXCEPT ![p] = After(p)]
  /\ UNCHANGED <<vars, written, open, stored>>

OpenFile(p) ==
  /\ proc[p].at = "open"
  /\ ~Unchanged(proc[p].sid)
  /\ written[proc[p].sid] > 0
  /\ proc' = [proc EXCEPT ![p].at = "archive",
                          ![p].mtime = written[proc[p].sid]]
  /\ UNCHANGED <<vars, written, open, stored>>

ReadAndArchive(p) ==
  LET s == proc[p].sid
      n == written[s]
  IN  /\ proc[p].at = "archive"
      /\ proc' = [proc EXCEPT ![p].at = "save", ![p].read = n]
      /\ \/ hi[s] < n - 1 /\ ArchiveTurns(s, n - 1, TRUE)
         \/ hi[s] >= n - 1 /\ UNCHANGED vars
      /\ UNCHANGED <<written, open, stored>>

(* The size is read anew, the time is the one at which the file was opened *)
(* and the offset never moves back.                                        *)
SavePass(p) ==
  LET s == proc[p].sid
  IN  /\ proc[p].at = "save"
      /\ stored' = [stored EXCEPT ![s] =
                      [size |-> written[s], mtime |-> proc[p].mtime,
                       off |-> Larger(@.off, proc[p].read)]]
      /\ SaveRow(s, FALSE, written[s] > proc[p].read)
      /\ proc' = [proc EXCEPT ![p] = After(p)]
      /\ UNCHANGED <<written, open>>

(* SessionEnd's worker, after its pass.                                    *)
EndEnqueue(p) ==
  /\ proc[p].at = "enqueue"
  /\ proc[p].kind = "end"
  /\ Enqueue(proc[p].sid)
  /\ proc' = [proc EXCEPT ![p] = NoProc]
  /\ UNCHANGED <<written, open, stored>>

(* The sweep, after its last transcript: the changed sessions that are not *)
(* queued and have grown beyond their watermark, in one SELECT.            *)
SweepList(p) ==
  /\ proc[p].at = "check"
  /\ proc[p].left = {}
  /\ proc' = [proc EXCEPT ![p].at = "list", ![p].changed = {},
                          ![p].left = {s \in proc[p].changed :
                                         /\ row[s].there
                                         /\ s \notin queue
                                         /\ hi[s] > row[s].mark}]
  /\ UNCHANGED <<vars, written, open, stored>>

ListEnqueue(p, s) ==
  /\ proc[p].at = "list"
  /\ s \in proc[p].left
  /\ Enqueue(s)
  /\ proc' = [proc EXCEPT ![p].left = @ \ {s}]
  /\ UNCHANGED <<written, open, stored>>

SweepDone(p) ==
  /\ proc[p].at = "list"
  /\ proc[p].left = {}
  /\ proc' = [proc EXCEPT ![p] = NoProc]
  /\ UNCHANGED <<vars, written, open, stored>>

LastTry(p) == proc[p].tries + 1 = MaxTries

(* The database is busy: the worker starts over, up to its last try.       *)
Busy(p) ==
  /\ proc[p].kind = "end"
  /\ proc' = [proc EXCEPT ![p] =
                IF LastTry(p) THEN NoProc
                ELSE [NoProc EXCEPT !.kind = "end", !.at = "open",
                                    !.sid = proc[p].sid,
                                    !.tries = proc[p].tries + 1]]
  /\ UNCHANGED <<vars, written, open, stored>>

(* Killed, or any other error: a sweep that fails on one transcript also   *)
(* leaves those it has archived unqueued.                                  *)
Kill(p) ==
  /\ proc[p].at # "idle"
  /\ proc' = [proc EXCEPT ![p] = NoProc]
  /\ UNCHANGED <<vars, written, open, stored>>

----------------------------------------------------------------------------
Run(p) ==
  \/ \E s \in Sessions : SweepCheck(p, s) \/ ListEnqueue(p, s)
  \/ SkipPass(p)
  \/ OpenFile(p)
  \/ ReadAndArchive(p)
  \/ SavePass(p)
  \/ EndEnqueue(p)
  \/ SweepList(p)
  \/ SweepDone(p)

Claude ==
  \/ \E s \in Sessions : Write(s) \/ Resume(s)
  \/ \E p \in Procs : SessionStart(p)
  \/ \E p \in Procs, s \in Sessions : StopHook(p, s) \/ SessionEnd(p, s)

Distilling ==
  /\ \E r \in Readers : Reading(r)
  /\ UNCHANGED <<written, open, stored, proc>>

Healthy ==
  \/ Claude
  \/ \E p \in Procs : Run(p)
  \/ Distilling

(* A process that is not killed runs to its end.                           *)
Running == \A p \in Procs : WF_lvars(Run(p))

----------------------------------------------------------------------------
(***************************************************************************)
(* Behaviours in which the SessionEnd worker always runs, is not killed    *)
(* and finds the database free at its last try; everything else may be     *)
(* killed.                                                                 *)
(***************************************************************************)
Heard ==
  \/ Healthy
  \/ \E p \in Procs : proc[p].kind # "end" /\ Kill(p)
  \/ \E p \in Procs : ~LastTry(p) /\ Busy(p)

(***************************************************************************)
(* Behaviours in which no process is killed, but a worker may never run.   *)
(* Sessions keep being started, each in a process of its own: a free slot  *)
(* of Procs is used for a sweep again and again, hence SF.                 *)
(***************************************************************************)
Unheard ==
  \/ Healthy
  \/ \E s \in Sessions : EndUnheard(s)

Starting == \A p \in Procs : SF_lvars(SessionStart(p))

UnheardSpec == LInit /\ [][Unheard]_lvars /\ Running /\ Starting

Safe(s) == s \in queue \/ row[s].mark >= written[s] - 1

(* A session that has ended with something said in it comes to be queued,  *)
(* or checkpointed, unless it is resumed: whatever the Stop hooks, sweeps  *)
(* and other workers that overlap it have archived before.                 *)
EndedIsQueued ==
  \A s \in Sessions :
    ~open[s] /\ written[s] > 0 ~> Safe(s) \/ open[s]

(* The transcript changed since it was archived, and nobody looks at it.   *)
Unattended(s) ==
  /\ stored[s].size # written[s] \/ stored[s].mtime # written[s]
  /\ \A p \in Procs : proc[p].sid # s
=============================================================================
