----------------------------- MODULE Checkpoint -----------------------------
(***************************************************************************)
(* The checkpoint queue and the watermark: enqueue_checkpoint, sweep and   *)
(* advance_checkpoint (src/src/ingest.rs), session dump, checkpoint-drop   *)
(* and checkpoint-mark (src/src/session.rs), and one distillation of the   *)
(* automatic worker (src/src/distill.rs).                                  *)
(*                                                                         *)
(* Readers save the facts of a session: the worker's child, a lane of the  *)
(* checkpoint-backlog skill, the checkpoint skill in the live session.     *)
(* Each captures a boundary, reads the archived turns, takes minutes over  *)
(* them and then acknowledges the turns up to the boundary, while the      *)
(* hooks go on archiving and queueing the same session and other readers   *)
(* work on it.  Each action is one SQLite transaction or statement; a      *)
(* reader may be killed or fail between any two.                           *)
(*                                                                         *)
(* Abstractions.  The archive only grows (module Ingest), so the turns of  *)
(* a session are 0 .. hi; numbers of lines without a turn are not told     *)
(* apart.  A pass is seen as its two commits: the turns, then the row.     *)
(* skipped_lines and partial_tail are one flag, as every reader of them    *)
(* adds them up.  enqueue_seq, which only orders the queue, is left out.   *)
(* enqueue_checkpoint counts the user turns before its transaction; the    *)
(* count only grows, so Enqueue takes both in one step.                    *)
(***************************************************************************)
EXTENDS Integers

CONSTANTS
  Sessions,   \* sessions of the user
  Children,   \* ids the worker gives the sessions of its children
  Readers,    \* readers, each saving the facts of one session at a time
  Roles,      \* what readers there are: child, lane, live (see Hows)
  NoSession,  \* what an idle reader works on
  MaxSeq      \* bound: the highest sequence number

ASSUME ConstantsAssumption ==
  /\ Sessions \cap Children = {}
  /\ NoSession \notin Sessions \cup Children
  /\ Roles \subseteq {"child", "lane", "live"}
  /\ MaxSeq \in Nat

VARIABLES
  hi,         \* the last archived sequence number of a session, or -1
  asked,      \* whether a user turn of it is archived
  row,        \* its sessions row
  queue,      \* checkpoint_queue
  job,        \* what each reader is doing
  digested,   \* history: turns whose reader acknowledged them
  due         \* history: hi when the session was last offered to the queue

vars == <<hi, asked, row, queue, job, digested, due>>

----------------------------------------------------------------------------
All   == Sessions \cup Children
Seqs  == 0 .. MaxSeq
Muted == MaxSeq + 1       \* i64::MAX: above every sequence number
Larger(a, b) == IF a < b THEN b ELSE a

(* fresh: scan_offset and scan_seq are 0.  unread: skipped_lines +         *)
(* partial_tail is not 0.                                                  *)
Row   == [there : BOOLEAN, mark : -1 .. Muted, fresh : BOOLEAN, unread : BOOLEAN]
NoRow == [there |-> FALSE, mark |-> -1, fresh |-> TRUE, unread |-> FALSE]

(* A worker's child, a lane of the backlog skill, the live session.        *)
Hows == {"child", "lane", "live"}
Job  == [at : {"idle", "captured", "looked", "read"}, how : Hows,
         sid : All \cup {NoSession}, boundary : -1 .. MaxSeq,
         since : -1 .. MaxSeq, turns : SUBSET Seqs]
NoJob == [at |-> "idle", how |-> "child", sid |-> NoSession,
          boundary |-> -1, since |-> -1, turns |-> {}]

TypeOK ==
  /\ hi \in [All -> -1 .. MaxSeq]
  /\ asked \in [All -> BOOLEAN]
  /\ row \in [All -> Row]
  /\ queue \subseteq All
  /\ job \in [Readers -> Job]
  /\ digested \in [All -> SUBSET Seqs]
  /\ due \in [All -> -1 .. MaxSeq]

Init ==
  /\ hi = [s \in All |-> -1]
  /\ asked = [s \in All |-> FALSE]
  /\ row = [s \in All |-> NoRow]
  /\ queue = {}
  /\ job = [r \in Readers |-> NoJob]
  /\ digested = [s \in All |-> {}]
  /\ due = [s \in All |-> -1]

----------------------------------------------------------------------------
(***************************************************************************)
(* The two commits of a pass over a transcript.  A pass that overlapped    *)
(* another, or was killed, leaves the first without the second.  A child   *)
(* writes its transcript only after its session was muted.                 *)
(***************************************************************************)
Started(s) == s \in Children => row[s].there

ArchiveTurns(s, n, user) ==
  /\ Started(s)
  /\ hi[s] < n
  /\ hi' = [hi EXCEPT ![s] = n]
  /\ asked' = [asked EXCEPT ![s] = @ \/ user]
  /\ UNCHANGED <<row, queue, job, digested, due>>

SaveRow(s, fresh, unread) ==
  /\ Started(s)
  /\ fresh => row[s].fresh
  /\ row' = [row EXCEPT ![s].there = TRUE, ![s].fresh = fresh,
                        ![s].unread = unread]
  /\ UNCHANGED <<hi, asked, queue, job, digested, due>>

----------------------------------------------------------------------------
(* Mutant: the watermark is assigned.                                      *)
AdvancedBack(s, n) ==
  IF row[s].there THEN [row EXCEPT ![s].mark = n] ELSE row

(* The watermark moves forward only; without a row nothing is updated.     *)
Advanced(s, n) ==
  IF row[s].there THEN [row EXCEPT ![s].mark = Larger(@, n)] ELSE row

(* "only when it's worth distilling and isn't already checkpointed"        *)
Worth(s) ==
  /\ asked[s]
  /\ row[s].there
  /\ hi[s] > row[s].mark \/ row[s].fresh

(* checkpoint-enqueue, and the SessionEnd worker once it has archived.     *)
Enqueue(s) ==
  /\ queue' = IF Worth(s) THEN queue \cup {s} ELSE queue
  /\ due' = [due EXCEPT ![s] = IF asked[s] /\ row[s].there THEN hi[s] ELSE @]
  /\ UNCHANGED <<hi, asked, row, job, digested>>

(* Mutant: the sweep offers every session that is not queued.              *)
SweepEnqueueAny(s) ==
  /\ row[s].there
  /\ s \notin queue
  /\ Enqueue(s)

(* The sweep offers a session only if it is not queued and has grown       *)
(* beyond its watermark, whoever wrote its transcript.                     *)
SweepEnqueue(s) ==
  /\ row[s].there
  /\ s \notin queue
  /\ hi[s] > row[s].mark
  /\ Enqueue(s)

(* Mutant: a grown session leaves the queue as well.                       *)
AcknowledgeGrown(s, n) ==
  /\ n <= hi[s]
  /\ row' = Advanced(s, n)
  /\ queue' = queue \ {s}

(***************************************************************************)
(* The transaction that ends every distillation: refuse a boundary above   *)
(* the archive, advance the watermark, and take the session off the queue  *)
(* only if nothing was archived after the boundary.                        *)
(***************************************************************************)
Acknowledge(s, n) ==
  /\ n <= hi[s]
  /\ row' = Advanced(s, n)
  /\ queue' = IF n = hi[s] THEN queue \ {s} ELSE queue

(* checkpoint-drop without a boundary uses the stored watermark.           *)
DropAtMark(s) ==
  /\ Acknowledge(s, IF row[s].there THEN row[s].mark ELSE -1)
  /\ UNCHANGED <<hi, asked, job, digested, due>>

(* checkpoint-drop --max-seq=-1, for a session without archived turns.     *)
DropEmpty(s) ==
  /\ Acknowledge(s, -1)
  /\ UNCHANGED <<hi, asked, job, digested, due>>

(* checkpoint-drop --abandon: out of the queue, no watermark moved.        *)
Abandon(s) ==
  /\ queue' = queue \ {s}
  /\ due' = [due EXCEPT ![s] = -1]
  /\ UNCHANGED <<hi, asked, row, job, digested>>

(* checkpoint-mark without a boundary: the caller vouches for everything   *)
(* archived by then.                                                       *)
MarkAll(s) ==
  /\ Acknowledge(s, hi[s])
  /\ digested' = [digested EXCEPT ![s] = IF row[s].there
                                         THEN @ \cup 0 .. hi[s] ELSE @]
  /\ UNCHANGED <<hi, asked, job, due>>

----------------------------------------------------------------------------
(***************************************************************************)
(* A reader at work.                                                       *)
(***************************************************************************)
Stop(r) == job' = [job EXCEPT ![r] = NoJob]

(* The worker captures the boundary and mutes its child's session in one   *)
(* transaction.  Its list is older: the session may have left the queue.   *)
Mute(r, s, c) ==
  /\ "child" \in Roles
  /\ job[r].at = "idle"
  /\ row[s].there
  /\ job' = [job EXCEPT ![r] = [NoJob EXCEPT !.at = "captured", !.sid = s,
                                             !.boundary = hi[s]]]
  /\ row' = IF row[c].there THEN row
            ELSE [row EXCEPT ![c].there = TRUE, ![c].mark = Muted]
  /\ UNCHANGED <<hi, asked, queue, digested, due>>

(* Earlier runs have distilled this far, if the session grew since.        *)
Since(r) ==
  LET mark == row[job[r].sid].mark
  IN  IF 0 <= mark /\ mark < job[r].boundary THEN mark ELSE -1

(* Then reads the row: an incomplete session is deferred, the child of any *)
(* other told where to start.                                              *)
Look(r) ==
  /\ job[r].at = "captured"
  /\ job' = [job EXCEPT ![r] = IF row[job[r].sid].unread THEN NoJob
                               ELSE [@ EXCEPT !.at = "looked",
                                              !.since = Since(r)]]
  /\ UNCHANGED <<hi, asked, row, queue, digested, due>>

(* A skill captures the boundary.  It runs a strict ingest before and      *)
(* after; the row may become incomplete right after either, so this is no  *)
(* guard here.                                                             *)
Capture(r, s, how) ==
  /\ job[r].at = "idle"
  /\ how # "child"
  /\ hi[s] >= 0
  /\ job' = [job EXCEPT ![r] = [NoJob EXCEPT !.at = "looked", !.how = how,
                                             !.sid = s, !.boundary = hi[s]]]
  /\ UNCHANGED <<hi, asked, row, queue, digested, due>>

(* `subrosa session`: the archived turns beyond --since, all in one read   *)
(* transaction.                                                            *)
ReadTurns(r) ==
  /\ job[r].at = "looked"
  /\ job' = [job EXCEPT ![r].at = "read",
                        ![r].turns = {i \in Seqs : job[r].since < i
                                                   /\ i <= hi[job[r].sid]}]
  /\ UNCHANGED <<hi, asked, row, queue, digested, due>>

(* Mutant: everything archived by now is acknowledged.                     *)
FinishLatest(r) ==
  LET s == job[r].sid
  IN  /\ job[r].at = "read"
      /\ job[r].how = "child"
      /\ ~row[s].unread
      /\ Acknowledge(s, hi[s])
      /\ digested' = [digested EXCEPT ![s] = @ \cup job[r].turns]
      /\ Stop(r)
      /\ UNCHANGED <<hi, asked, due>>

(* The child's facts are proved; the session may have grown or become      *)
(* incomplete meanwhile.                                                   *)
Finish(r) ==
  LET s == job[r].sid
  IN  /\ job[r].at = "read"
      /\ job[r].how = "child"
      /\ ~row[s].unread
      /\ Acknowledge(s, job[r].boundary)
      /\ digested' = [digested EXCEPT ![s] = @ \cup job[r].turns]
      /\ Stop(r)
      /\ UNCHANGED <<hi, asked, due>>

(* checkpoint-drop --max-seq, checkpoint-mark --max-seq.                   *)
DropThrough(r) ==
  /\ job[r].at = "read"
  /\ job[r].how = "lane"
  /\ Acknowledge(job[r].sid, job[r].boundary)
  /\ digested' = [digested EXCEPT ![job[r].sid] = @ \cup job[r].turns]
  /\ Stop(r)
  /\ UNCHANGED <<hi, asked, due>>

MarkThrough(r, hasFact, noFacts) ==
  /\ job[r].at = "read"
  /\ job[r].how = "live"
  /\ hasFact \/ noFacts
  /\ Acknowledge(job[r].sid, job[r].boundary)
  /\ digested' = [digested EXCEPT ![job[r].sid] = @ \cup job[r].turns]
  /\ Stop(r)
  /\ UNCHANGED <<hi, asked, due>>

(* Killed, out of budget, rejected by the proof, refused or deferred.      *)
Fail(r) ==
  /\ job[r].at # "idle"
  /\ Stop(r)
  /\ UNCHANGED <<hi, asked, row, queue, digested, due>>

----------------------------------------------------------------------------
Hooks ==
  \E s \in All :
    \/ \E n \in Seqs, user \in BOOLEAN : ArchiveTurns(s, n, user)
    \/ \E fresh \in BOOLEAN, unread \in BOOLEAN : SaveRow(s, fresh, unread)
    \/ SweepEnqueue(s)

Commands ==
  \E s \in Sessions :
    \/ Enqueue(s)
    \/ DropAtMark(s)
    \/ DropEmpty(s)
    \/ Abandon(s)
    \/ MarkAll(s)

Reading(r) ==
  \/ \E s \in Sessions, c \in Children : Mute(r, s, c)
  \/ \E s \in Sessions, how \in Roles : Capture(r, s, how)
  \/ Look(r)
  \/ ReadTurns(r)
  \/ Finish(r)
  \/ DropThrough(r)
  \/ \E hasFact \in BOOLEAN, noFacts \in BOOLEAN : MarkThrough(r, hasFact, noFacts)
  \/ Fail(r)

Next ==
  \/ Hooks
  \/ Commands
  \/ \E r \in Readers : Reading(r)

Spec == Init /\ [][Next]_vars

----------------------------------------------------------------------------
(* Every turn up to the watermark was read by somebody who then            *)
(* acknowledged it: no turn that was archived after a reader's boundary,   *)
(* or that a reader skipped because of --since, is written off.            *)
HonestWatermark ==
  \A s \in Sessions : \A i \in Seqs : i <= row[s].mark => i \in digested[s]

(* What was archived when a session was last offered to the queue is       *)
(* checkpointed or still waits there, whichever readers finish, fail,      *)
(* overlap or acknowledge a session that has grown under them.             *)
NothingOwedLost ==
  \A s \in Sessions : due[s] > row[s].mark => s \in queue

(* The session of the worker's own child is never queued, although its     *)
(* transcript is swept like any other: the worker would feed on itself.    *)
ChildNeverQueued == Children \cap queue = {}

(* The queue implements the ledger.                                        *)
Promise == INSTANCE Ledger WITH mark <- [s \in All |-> row[s].mark]

ImplementsLedger == Promise!Spec
=============================================================================
