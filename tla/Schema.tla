-------------------------------- MODULE Schema --------------------------------
(***************************************************************************)
(* Opening the database (src/src/db.rs).  A process that finds an older    *)
(* version brings the database up to date before it uses it; hooks start   *)
(* by the dozen, so that several do this at once, and any may be killed.   *)
(* What one step reads is used some steps later: only the single           *)
(* statements are atomic, and the version is written last.                 *)
(*                                                                         *)
(* Abstractions.  Of the columns that older versions lack and that are     *)
(* added alike, Plain stands for one; file_mtime, whose addition starts    *)
(* every scan anew, and enqueue_seq, which is added without looking for a  *)
(* second process, are themselves.  The two full-text tables are one, and  *)
(* the tags, which every version may derive again, are left out.           *)
(***************************************************************************)
EXTENDS Integers, Sequences, SequencesExt

CONSTANTS
  Procs,
  Sessions,    \* the sessions the queue may hold
  Waiting,     \* those the old queue holds, the oldest first
  Versions,    \* the versions the database may have at the start
  MaxKills,    \* bound: processes killed or out of time in a migration
  MaxOpens,    \* bound: times a database is opened
  MaxWork      \* bound: changes by processes that have it open

SCHEMA_VERSION == 7
Fresh   == 0   \* an empty file
Queued  == 5   \* from here on the queue is a table
InOrder == 6   \* from here on it has enqueue_seq

ASSUME SchemaAssumption ==
  /\ Waiting \in Seq(Sessions) /\ IsInjective(Waiting)
  /\ Versions \subseteq {Fresh} \cup (Queued - 1 .. SCHEMA_VERSION + 1)
  /\ {MaxKills, MaxOpens, MaxWork} \subseteq Nat

VARIABLES
  db,       \* the database
  legacy,   \* pending.log, the queue before there was a table
  proc,     \* what each process is at
  gone,     \* history: sessions that were finished or abandoned
  cut,      \* history: file_mtime was added and the process went no further
  crossed,  \* history: two processes imported the old queue at once
  kills, opens, work

mvars == <<db, legacy, proc, gone, cut, crossed, kills, opens, work>>

Columns == {"plain", "file_mtime", "enqueue_seq"}
Closed  == [at |-> "closed", ver |-> 0, saw |-> {}, todo |-> <<>>, next |-> 0]
Done    == {"closed", "open", "reading"}

At(p, at)   == proc[p].at = at
Goes(p, at) == proc' = [proc EXCEPT ![p] = [IF at \in Done THEN Closed ELSE @ EXCEPT !.at = at]]
Place(s)    == IF s \in ToSet(Waiting) THEN CHOOSE i \in DOMAIN Waiting : Waiting[i] = s ELSE 0
Elder(s, t) == Place(s) \in 1 .. Place(t) - 1

(* Mutant: a session that is queued again gets a new place.                *)
InsertOrReplace(queue, s, n) == (s :> n) @@ queue

InsertOrIgnore(queue, s, n) ==
  [t \in DOMAIN queue \cup {s} |-> IF t \in DOMAIN queue THEN queue[t] ELSE n]
MaxSeq(queue) == Max({0} \cup Range(queue))

Database == [version : Versions \cup {SCHEMA_VERSION}, tables : SUBSET {"sessions", "queue"},
             columns : SUBSET Columns, porter : BOOLEAN, scan : {"old", "reset", "new"},
             queue : {db.queue}, done : SUBSET Sessions]
Process  == [at : Done \cup {"look", "batch", "version", "columns", "plain", "file_mtime",
                             "reset", "fts", "rebuild", "legacy", "import", "insert", "seqs",
                             "alter", "number", "stamp"},
             ver : Nat, saw : SUBSET Columns, todo : Seq(Sessions), next : Nat]

(* The types, and that what was read as old is at most what is there.      *)
MTypeOK ==
  /\ db \in Database /\ \E waiting \in SUBSET Sessions : db.queue \in [waiting -> Nat]
  /\ legacy \in Seq(Sessions) /\ proc \in [Procs -> Process]
  /\ \A p \in Procs : proc[p].saw \subseteq db.columns /\ proc[p].ver <= db.version
  /\ gone \subseteq Sessions /\ cut \in BOOLEAN /\ crossed \in BOOLEAN
  /\ kills \in 0 .. MaxKills /\ opens \in 0 .. MaxOpens /\ work \in 0 .. MaxWork

(* A database as each version left it.  Before the table the queue was a   *)
(* file; with the table but without enqueue_seq, rowid was the order.      *)
MInit ==
  \E v \in Versions, porter \in BOOLEAN, done \in SUBSET ToSet(Waiting) :
    /\ v = Fresh => done = {}
    /\ v \in {Fresh} \cup (Queued .. SCHEMA_VERSION + 1) => porter
    /\ db = [version |-> v,
             tables |-> {t \in {"sessions"} : v # Fresh} \cup {t \in {"queue"} : v >= Queued},
             columns |-> {c \in {"plain", "file_mtime"} : v >= SCHEMA_VERSION}
                         \cup {c \in {"enqueue_seq"} : v >= InOrder},
             porter |-> porter,
             scan |-> IF v \in 1 .. SCHEMA_VERSION - 1 THEN "old" ELSE "new",
             queue |-> [s \in {t \in ToSet(Waiting) : v >= Queued} |->
                          IF v = Queued THEN 0 ELSE Place(s)],
             done |-> done]
    /\ legacy = IF v < Queued THEN Waiting ELSE <<>>
    /\ proc = [p \in Procs |-> Closed]
    /\ gone = done /\ cut = FALSE /\ crossed = FALSE
    /\ kills = 0 /\ opens = 0 /\ work = 0

-----------------------------------------------------------------------------
(* A hook or a command opens the database, or only its queue.              *)
Open(p) ==
  /\ At(p, "closed") /\ opens < MaxOpens
  /\ opens' = opens + 1
  /\ Goes(p, "look")
  /\ UNCHANGED <<db, legacy, gone, cut, crossed, kills, work>>

Still == UNCHANGED <<legacy, gone, cut, crossed, kills, opens, work>>
Reads == UNCHANGED db /\ Still

(* A current database is opened without a write, a newer one is refused.   *)
(* A reader is content with any version that is not older.                 *)
Look(p) ==
  /\ At(p, "look")
  /\ \/ db.version = SCHEMA_VERSION /\ Goes(p, "open")
     \/ db.version > SCHEMA_VERSION /\ Goes(p, "closed")
     \/ db.version >= SCHEMA_VERSION /\ Goes(p, "reading")
     \/ db.version < SCHEMA_VERSION /\ Goes(p, "batch")
  /\ Reads

(* Tables that are missing are made in their present form.                 *)
Batch(p) ==
  /\ At(p, "batch")
  /\ db' = [db EXCEPT !.tables = {"sessions", "queue"},
              !.columns = @ \cup {c \in {"plain", "file_mtime"} : "sessions" \notin db.tables}
                            \cup {c \in {"enqueue_seq"} : "queue" \notin db.tables}]
  /\ Goes(p, "version") /\ Still

ReadVersion(p) ==
  /\ At(p, "version")
  /\ proc' = [proc EXCEPT ![p].at = "columns", ![p].ver = db.version]
  /\ Reads

(* The columns are listed once.                                            *)
ReadColumns(p) ==
  /\ At(p, "columns")
  /\ proc' = [proc EXCEPT ![p].at = "plain", ![p].saw = db.columns]
  /\ Reads

(* A column that another process added in the meantime is no error.        *)
AddColumn(p, column, then, else) ==
  /\ At(p, column)
  /\ IF column \in proc[p].saw
     THEN Goes(p, else) /\ UNCHANGED db
     ELSE Goes(p, then) /\ db' = [db EXCEPT !.columns = @ \cup {column}]
  /\ Still

(* Mutant: the new column is all there is to it.                           *)
AddMtimeOnly(p) == AddColumn(p, "file_mtime", "fts", "fts")

AddPlain(p) == AddColumn(p, "plain", "file_mtime", "file_mtime")
AddMtime(p) == AddColumn(p, "file_mtime", "reset", "fts")

ResetScans(p) ==
  /\ At(p, "reset")
  /\ db' = [db EXCEPT !.scan = "reset"]
  /\ Goes(p, "fts") /\ Still

LookAtFts(p) ==
  /\ At(p, "fts")
  /\ Goes(p, IF ~db.porter THEN "rebuild"
             ELSE IF proc[p].ver < Queued THEN "legacy" ELSE "seqs")
  /\ Reads

(* One transaction: the index of the old words goes, the new one is made.  *)
RebuildFts(p) ==
  /\ At(p, "rebuild")
  /\ db' = [db EXCEPT !.porter = TRUE]
  /\ Goes(p, "fts") /\ Still

-----------------------------------------------------------------------------
Imports(p) == proc[p].at \in {"import", "insert"}

(* The old queue file is read and stays where it is.  The last place in    *)
(* the table is read once.                                                 *)
ReadLegacy(p) ==
  /\ At(p, "legacy")
  /\ proc' = [proc EXCEPT ![p].at = "import", ![p].todo = legacy,
                          ![p].next = MaxSeq(db.queue)]
  /\ crossed' = (crossed \/ \E q \in Procs : Imports(q))
  /\ UNCHANGED <<db, legacy, gone, cut, kills, opens, work>>

(* Whether the next session has been finished is asked and its row written *)
(* in two statements.                                                      *)
ImportNext(p) ==
  /\ At(p, "import")
  /\ LET todo == proc[p].todo
     IN  proc' = [proc EXCEPT ![p] =
           IF todo = <<>> THEN [@ EXCEPT !.at = "seqs"]
           ELSE IF Head(todo) \in db.done THEN [@ EXCEPT !.todo = Tail(todo)]
           ELSE [@ EXCEPT !.at = "insert", !.next = proc[p].next + 1]]
  /\ Reads

InsertNext(p) ==
  /\ At(p, "insert")
  /\ db' = [db EXCEPT !.queue = InsertOrIgnore(@, Head(proc[p].todo), proc[p].next)]
  /\ proc' = [proc EXCEPT ![p].at = "import", ![p].todo = Tail(@)]
  /\ Still

(* Mutant: a column that is there has its numbers.                         *)
LookForColumn(p) ==
  /\ At(p, "seqs")
  /\ Goes(p, IF proc[p].ver >= InOrder \/ "enqueue_seq" \in db.columns THEN "stamp"
             ELSE IF proc[p].ver >= Queued THEN "alter"
             ELSE "number")
  /\ Reads

(* Mutant: the version alone tells whether the column is there.            *)
LookAtVersion(p) ==
  /\ At(p, "seqs")
  /\ Goes(p, IF proc[p].ver >= InOrder THEN "stamp"
             ELSE IF proc[p].ver >= Queued THEN "alter"
             ELSE "number")
  /\ Reads

LookForSeqs(p) ==
  /\ At(p, "seqs")
  /\ Goes(p, IF proc[p].ver >= InOrder THEN "stamp"
             ELSE IF proc[p].ver >= Queued /\ "enqueue_seq" \notin db.columns THEN "alter"
             ELSE "number")
  /\ Reads

(* A second process that looked before the first added the column fails.   *)
AlterQueue(p) ==
  /\ At(p, "alter")
  /\ db' = [db EXCEPT !.columns = @ \cup {"enqueue_seq"}]
  /\ Goes(p, IF "enqueue_seq" \in db.columns THEN "closed" ELSE "number")
  /\ Still

NumberQueue(p) ==
  /\ At(p, "number")
  /\ db' = [db EXCEPT !.queue = [s \in DOMAIN @ |-> IF @[s] = 0 THEN Place(s) ELSE @[s]]]
  /\ Goes(p, "stamp") /\ Still

Stamp(p) ==
  /\ At(p, "stamp")
  /\ db' = [db EXCEPT !.version = SCHEMA_VERSION]
  /\ \E at \in {"open", "reading"} : Goes(p, at)
  /\ Still

(* A statement meets a lock for too long, and the process starts over if   *)
(* it has time left, or the process dies.                                  *)
Interrupted(p) ==
  /\ proc[p].at \notin Done /\ kills < MaxKills
  /\ \E at \in {"look", "closed"} : Goes(p, at)
  /\ cut' = (cut \/ At(p, "reset")) /\ kills' = kills + 1
  /\ UNCHANGED <<db, legacy, gone, crossed, opens, work>>

-----------------------------------------------------------------------------
(* What a process does with an open database, a transaction each: it       *)
(* ingests a session that has grown, queues one, takes one off the queue   *)
(* as finished or abandoned.                                               *)
Works(p) == At(p, "open") /\ work < MaxWork /\ work' = work + 1

Ingests(s) == db' = [db EXCEPT !.scan = "new", !.done = @ \ {s}] /\ UNCHANGED gone

Enqueues(s) ==
  /\ s \notin db.done
  /\ db' = [db EXCEPT !.queue = InsertOrIgnore(@, s, MaxSeq(@) + 1)]
  /\ UNCHANGED gone

Drops(s, finished) ==
  /\ db' = [db EXCEPT !.queue = Restrict(@, DOMAIN @ \ {s}),
                      !.done = @ \cup {t \in {s} : finished}]
  /\ gone' = gone \cup {s}

Work(p) ==
  /\ Works(p)
  /\ \E s \in Sessions :
       Ingests(s) \/ Enqueues(s) \/ \E finished \in BOOLEAN : Drops(s, finished)
  /\ UNCHANGED <<legacy, proc, cut, crossed, kills, opens>>

Close(p) ==
  /\ proc[p].at \in {"open", "reading"}
  /\ proc' = [proc EXCEPT ![p] = Closed]
  /\ Reads

-----------------------------------------------------------------------------
Migrate(p) ==
  \/ Batch(p) \/ ReadVersion(p) \/ ReadColumns(p)
  \/ AddPlain(p) \/ AddMtime(p) \/ ResetScans(p)
  \/ LookAtFts(p) \/ RebuildFts(p)
  \/ ReadLegacy(p) \/ ImportNext(p) \/ InsertNext(p)
  \/ LookForSeqs(p) \/ AlterQueue(p) \/ NumberQueue(p)
  \/ Stamp(p)

MNext == \E p \in Procs : Open(p) \/ Look(p) \/ Migrate(p) \/ Interrupted(p) \/ Work(p) \/ Close(p)

MSpec == MInit /\ [][MNext]_mvars

(* Hooks keep being run, and a process that is not killed goes on.         *)
FairMSpec == MSpec /\ \A p \in Procs : WF_mvars(Open(p) \/ Look(p) \/ Migrate(p) \/ Close(p))

-----------------------------------------------------------------------------
(* The version is written last: a database that has it has every column,   *)
(* the stemmed index, and a queue in which every session has its place,    *)
(* whichever processes brought it there and wherever they were stopped.    *)
CurrentIsWhole ==
  db.version = SCHEMA_VERSION =>
    /\ db.columns = Columns /\ db.porter
    /\ 0 \notin Range(db.queue)

(* No session that waited in an old queue is forgotten by the upgrade: it  *)
(* is in the table until it has been finished or abandoned.  Those that    *)
(* waited come before those queued since, and one after another as they    *)
(* came, unless two processes imported the old queue at once: each counts  *)
(* on from the last place it read, so that two sessions may get the same   *)
(* place, or change theirs.                                                *)
OldQueueKept ==
  db.version = SCHEMA_VERSION =>
    /\ ToSet(Waiting) \subseteq DOMAIN db.queue \cup gone
    /\ \A s \in ToSet(Waiting) \ gone : \A t \in DOMAIN db.queue :
         Place(t) = 0 => db.queue[s] < db.queue[t]
    /\ ~crossed => \A s, t \in ToSet(Waiting) \ gone :
                     Elder(s, t) => db.queue[s] < db.queue[t]

(* Cursors of the time before file_mtime are not trusted: once no process  *)
(* is about to reset them they have been reset, unless the one that added  *)
(* the column was stopped before it did, which no later process repairs.   *)
CursorsReset ==
  db.version = SCHEMA_VERSION /\ ~cut /\ (\A p \in Procs : ~At(p, "reset")) => db.scan # "old"

(* The upgrade is finished by somebody, though processes are killed, find  *)
(* the database busy, or fail on what another has done before them.        *)
Upgraded == <>(db.version >= SCHEMA_VERSION)
=============================================================================
