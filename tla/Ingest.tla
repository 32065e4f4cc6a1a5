------------------------------- MODULE Ingest -------------------------------
(***************************************************************************)
(* Archiving one transcript: ingest_file_report (src/src/ingest.rs).       *)
(*                                                                         *)
(* The hooks of several Claude Code sessions, a start-up sweep and the     *)
(* command line all run this function, each in a short-lived process of    *)
(* its own, on the same file and the same SQLite database, while Claude    *)
(* Code appends to the file.  Nothing but SQLite serialises them: every    *)
(* statement outside a transaction is a step of its own, and a process may *)
(* be killed between any two.                                              *)
(*                                                                         *)
(* Abstractions.  A line is a turn's text, Filtered (blank, or a record    *)
(* flatten_record rejects) or Bad (not JSON).  A complete line is          *)
(* LineBytes long and a half-written one is 1 byte, so the byte offset of  *)
(* the cursor is kept as a number of lines.  num_turns and skipped_lines   *)
(* are kept as whether they are positive, the only thing the code asks of  *)
(* them; last_seq and the descriptive columns, which no decision reads,    *)
(* are left out.  Reading to the end of the file is one step: with a       *)
(* writer that only appends, it returns what one read at its end would.    *)
(***************************************************************************)
EXTENDS Integers, Sequences

CONSTANTS
  Procs,      \* processes that may ingest the transcript
  Texts,      \* what a turn says
  Filtered,   \* a line without a turn
  Bad,        \* a line that is not JSON
  NoTurn,     \* no turn under a sequence number
  Modes,      \* require_complete of the passes that run
  MaxLines    \* bound: lines Claude Code writes to the transcript

ASSUME ConstantsAssumption ==
  /\ Filtered \notin Texts
  /\ Bad \notin Texts
  /\ NoTurn \notin Texts
  /\ Filtered # Bad
  /\ Modes \subseteq BOOLEAN
  /\ MaxLines \in Nat

VARIABLES
  file,     \* the transcript's complete lines
  tail,     \* it ends in a line still being written
  mtime,    \* its modification time
  exists,   \* it is there
  past,     \* history: the contents it had and lost (module IngestRewrite)
  turns,    \* the turns table, by sequence number
  row,      \* the sessions row
  pc,       \* where each process is
  strict,   \* its require_complete
  cur,      \* the row as the process read it
  stat,     \* length and mtime of the file as it opened it
  known,    \* archived turns a strict pass compares with
  scan,     \* what it read, how far, and the row it will save
  vouched   \* the lines its last strict pass answered "complete" for

transcript == <<file, tail, mtime, exists, past>>
vars == <<transcript, turns, row, pc, strict, cur, stat, known, scan, vouched>>

----------------------------------------------------------------------------
Line     == Texts \cup {Filtered, Bad}
Slots    == 0 .. MaxLines - 1
Archived == [Slots -> Texts \cup {NoTurn}]
Empty    == [i \in Slots |-> NoTurn]
Larger(a, b) == IF a < b THEN b ELSE a

LineBytes    == 2
Bytes(lines) == LineBytes * lines
Size         == Bytes(Len(file)) + (IF tail THEN 1 ELSE 0)

(* The columns an ingest reads and writes.  An absent row reads as zeros.  *)
Row == [there : BOOLEAN, some : BOOLEAN, size : Nat, mtime : Nat,
        off : Nat, seq : Nat, unread : BOOLEAN, tail : BOOLEAN]
NoRow == [there |-> FALSE, some |-> FALSE, size |-> 0, mtime |-> 0,
          off |-> 0, seq |-> 0, unread |-> FALSE, tail |-> FALSE]

Scan == [rows : Archived, off : Nat, seq : Nat, unread : BOOLEAN,
         tail : BOOLEAN, mtime : Nat, some : BOOLEAN, size : Nat]
NoScan == [rows |-> Empty, off |-> 0, seq |-> 0, unread |-> FALSE,
           tail |-> FALSE, mtime |-> 0, some |-> FALSE, size |-> 0]

Stat == [len : Nat, mtime : Nat]
NoStat == [len |-> 0, mtime |-> 0]

Steps == {"idle", "open", "archived", "read", "refuse", "insert", "count",
          "restat", "save"}

TypeOK ==
  /\ file \in Seq(Line)
  /\ Len(file) <= MaxLines
  /\ tail \in BOOLEAN
  /\ mtime \in Nat
  /\ exists \in BOOLEAN
  /\ past \in Seq(Seq(Line))
  /\ turns \in Archived
  /\ row \in Row
  /\ pc \in [Procs -> Steps]
  /\ strict \in [Procs -> BOOLEAN]
  /\ cur \in [Procs -> Row]
  /\ stat \in [Procs -> Stat]
  /\ known \in [Procs -> Archived]
  /\ scan \in [Procs -> Scan]
  /\ vouched \in [Procs -> Nat]

Init ==
  /\ file = << >>
  /\ tail = FALSE
  /\ mtime = 0
  /\ exists = TRUE
  /\ past = << >>
  /\ turns = Empty
  /\ row = NoRow
  /\ pc = [p \in Procs |-> "idle"]
  /\ strict = [p \in Procs |-> FALSE]
  /\ cur = [p \in Procs |-> NoRow]
  /\ stat = [p \in Procs |-> NoStat]
  /\ known = [p \in Procs |-> Empty]
  /\ scan = [p \in Procs |-> NoScan]
  /\ vouched = [p \in Procs |-> 0]

----------------------------------------------------------------------------
(***************************************************************************)
(* Claude Code appends; every write moves the modification time.           *)
(***************************************************************************)
WriteLine(line) ==
  /\ exists
  /\ Len(file) < MaxLines
  /\ file' = Append(file, line)
  /\ tail' = FALSE
  /\ mtime' = mtime + 1
  /\ UNCHANGED <<exists, past, turns, row, pc, strict, cur, stat, known, scan,
                 vouched>>

WriteHalf ==
  /\ exists
  /\ ~tail
  /\ Len(file) < MaxLines
  /\ tail' = TRUE
  /\ mtime' = mtime + 1
  /\ UNCHANGED <<file, exists, past, turns, row, pc, strict, cur, stat, known,
                 scan, vouched>>

----------------------------------------------------------------------------
(***************************************************************************)
(* One pass of a process.  What a step no longer needs it forgets.         *)
(***************************************************************************)
Goto(p, step) == pc' = [pc EXCEPT ![p] = step]

Return(p, lines) ==
  /\ Goto(p, "idle")
  /\ strict' = [strict EXCEPT ![p] = FALSE]
  /\ cur' = [cur EXCEPT ![p] = NoRow]
  /\ stat' = [stat EXCEPT ![p] = NoStat]
  /\ known' = [known EXCEPT ![p] = Empty]
  /\ scan' = [scan EXCEPT ![p] = NoScan]
  /\ vouched' = [vouched EXCEPT ![p] = lines]

(* SELECT the cursor.  A missing file returns before this and changes      *)
(* nothing.                                                                *)
Begin(p, requireComplete) ==
  /\ pc[p] = "idle"
  /\ exists
  /\ strict' = [strict EXCEPT ![p] = requireComplete]
  /\ cur' = [cur EXCEPT ![p] = row]
  /\ vouched' = [vouched EXCEPT ![p] = 0]
  /\ Goto(p, "open")
  /\ UNCHANGED <<transcript, turns, row, stat, known, scan>>

(* Mutant: neither the time nor the offset is compared.                    *)
UnchangedBySize(p) == ~strict[p] /\ cur[p].some /\ cur[p].size = Size

(* The early return of a pass that has nothing to do.                      *)
Unchanged(p) ==
  /\ ~strict[p]
  /\ cur[p].some
  /\ cur[p].size = Size
  /\ cur[p].mtime = mtime
  /\ Bytes(cur[p].off) = Size

OpenUnchanged(p) ==
  /\ pc[p] = "open"
  /\ exists
  /\ Unchanged(p)
  /\ Return(p, 0)
  /\ UNCHANGED <<transcript, turns, row>>

Open(p) ==
  /\ pc[p] = "open"
  /\ exists
  /\ ~Unchanged(p)
  /\ stat' = [stat EXCEPT ![p] = [len |-> Size, mtime |-> mtime]]
  /\ Goto(p, IF strict[p] THEN "archived" ELSE "read")
  /\ UNCHANGED <<transcript, turns, row, strict, cur, known, scan, vouched>>

(* A strict pass loads the archived texts, and refuses a file that shrank. *)
LoadArchived(p) ==
  /\ pc[p] = "archived"
  /\ known' = [known EXCEPT ![p] = turns]
  /\ Goto(p, IF stat[p].len < cur[p].size THEN "refuse" ELSE "read")
  /\ UNCHANGED <<transcript, turns, row, strict, cur, stat, scan, vouched>>

(* Where a pass starts: at the cursor if the file grew, else at the top.   *)
Resumes(p) ==
  /\ ~strict[p]
  /\ cur[p].some
  /\ 0 < cur[p].size
  /\ cur[p].size < stat[p].len
  /\ cur[p].mtime <= stat[p].mtime
  /\ Bytes(cur[p].off) < stat[p].len

(***************************************************************************)
(* The read loop from line `off` of the file, numbering from `seq`.  The   *)
(* line numbered i is At(off, seq, i); the loop reads every complete line  *)
(* and stops at a half-written one.                                        *)
(***************************************************************************)
Numbers(off, seq) == {i \in Slots : seq <= i /\ i < seq + Len(file) - off}

(* Mutant: the reader is not moved to the offset.                          *)
AtTop(off, seq, i) == file[i - seq + 1]

At(off, seq, i) == file[off + (i - seq) + 1]

Rows(off, seq) ==
  [i \in Slots |->
     IF i \in Numbers(off, seq) /\ At(off, seq, i) \in Texts
     THEN At(off, seq, i) ELSE NoTurn]

SawBad(off, seq) == \E i \in Numbers(off, seq) : At(off, seq, i) = Bad

Unread(p, off, seq) == cur[p].unread \/ SawBad(off, seq)

(* Mutant: the cursor taken for the high-water mark.                       *)
ChangedAtCursor(p, i) ==
  LET line == At(0, 0, i)
  IN  IF line \in Texts
      THEN \/ known[p][i] # NoTurn /\ known[p][i] # line
           \/ i <= cur[p].seq /\ known[p][i] = NoTurn
      ELSE i <= cur[p].seq /\ known[p][i] # NoTurn

(* Mutant: a turn that became a line without one goes unseen.              *)
ChangedText(p, i) ==
  At(0, 0, i) \in Texts /\ known[p][i] # NoTurn /\ known[p][i] # At(0, 0, i)

(* Strict: the file no longer agrees with the archive at number i, or has  *)
(* a turn at or below the high-water mark that was never archived.         *)
ChangedAt(p, i) ==
  LET line == At(0, 0, i)
      high == cur[p].seq - 1
  IN  IF line \in Texts
      THEN \/ known[p][i] # NoTurn /\ known[p][i] # line
           \/ i <= high /\ known[p][i] = NoTurn
      ELSE i <= high /\ known[p][i] # NoTurn

Changed(p) == strict[p] /\ \E i \in Numbers(0, 0) : ChangedAt(p, i)

Read(p) ==
  LET off  == IF Resumes(p) THEN cur[p].off ELSE 0
      seq  == IF Resumes(p) THEN cur[p].seq ELSE 0
      rows == Rows(off, seq)
  IN  /\ pc[p] = "read"
      /\ scan' = [scan EXCEPT ![p] =
                    [rows |-> rows,
                     off |-> Larger(off, Len(file)),
                     seq |-> seq + Larger(0, Len(file) - off),
                     unread |-> Unread(p, off, seq),
                     tail |-> tail,
                     mtime |-> stat[p].mtime,
                     some |-> FALSE,
                     size |-> 0]]
      /\ Goto(p, IF Changed(p) THEN "refuse"
                 ELSE IF rows = Empty THEN "count" ELSE "insert")
      /\ cur' = [cur EXCEPT ![p] = NoRow]
      /\ stat' = [stat EXCEPT ![p] = NoStat]
      /\ known' = [known EXCEPT ![p] = Empty]
      /\ UNCHANGED <<transcript, turns, row, strict, vouched>>

(* "content changed rather than grew; refusing to merge it"                *)
Refuse(p) ==
  /\ pc[p] = "refuse"
  /\ row' = IF row.there THEN [row EXCEPT !.unread = TRUE, !.tail = FALSE]
                         ELSE row
  /\ Return(p, 0)
  /\ UNCHANGED <<transcript, turns>>

(* Mutant: the session's turns are replaced by those read.                 *)
InsertReplacing(p) ==
  /\ pc[p] = "insert"
  /\ turns' = scan[p].rows
  /\ scan' = [scan EXCEPT ![p].rows = Empty]
  /\ Goto(p, "count")
  /\ UNCHANGED <<transcript, row, strict, cur, stat, known, vouched>>

(* One immediate transaction of INSERT OR IGNORE.                          *)
Insert(p) ==
  /\ pc[p] = "insert"
  /\ turns' = [i \in Slots |-> IF turns[i] # NoTurn THEN turns[i]
                                                   ELSE scan[p].rows[i]]
  /\ scan' = [scan EXCEPT ![p].rows = Empty]
  /\ Goto(p, "count")
  /\ UNCHANGED <<transcript, row, strict, cur, stat, known, vouched>>

(* SELECT the number of archived turns.                                    *)
CountTurns(p) ==
  /\ pc[p] = "count"
  /\ scan' = [scan EXCEPT ![p].some = (turns # Empty)]
  /\ Goto(p, "restat")
  /\ UNCHANGED <<transcript, turns, row, strict, cur, stat, known, vouched>>

(* The file may have grown since the read; then its tail is not archived.  *)
Restat(p) ==
  LET size == IF exists THEN Size ELSE 0
  IN  /\ pc[p] = "restat"
      /\ scan' = [scan EXCEPT ![p].size = size,
                              ![p].tail = @ \/ size > Bytes(scan[p].off)]
      /\ Goto(p, "save")
      /\ UNCHANGED <<transcript, turns, row, strict, cur, stat, known, vouched>>

(* Mutant: only one half of the cursor is kept from moving back.           *)
UpsertedOffset(p) ==
  LET shrank == scan[p].size < row.size
  IN  [there |-> TRUE, some |-> scan[p].some, size |-> scan[p].size,
       mtime |-> scan[p].mtime, off |-> scan[p].off,
       seq |-> IF shrank THEN scan[p].seq ELSE Larger(row.seq, scan[p].seq),
       unread |-> scan[p].unread, tail |-> scan[p].tail]

(***************************************************************************)
(* INSERT ... ON CONFLICT DO UPDATE of the sessions row, a statement of    *)
(* its own.  The cursor moves forward only, unless the file is shorter     *)
(* than the row says; the other columns are overwritten.                   *)
(***************************************************************************)
Upserted(p) ==
  LET shrank == scan[p].size < row.size
  IN  [there |-> TRUE,
       some |-> scan[p].some,
       size |-> scan[p].size,
       mtime |-> scan[p].mtime,
       off |-> IF shrank THEN scan[p].off ELSE Larger(row.off, scan[p].off),
       seq |-> IF shrank THEN scan[p].seq ELSE Larger(row.seq, scan[p].seq),
       unread |-> scan[p].unread,
       tail |-> scan[p].tail]

(* Mutant: lines that could not be parsed do not count.                    *)
CompleteIfWhole(p) == ~scan[p].tail /\ scan[p].size = Bytes(scan[p].off)

(* The report: complete if no tail, nothing grown, nothing unread.         *)
Complete(p) ==
  /\ ~scan[p].tail
  /\ scan[p].size = Bytes(scan[p].off)
  /\ ~scan[p].unread

Save(p) ==
  /\ pc[p] = "save"
  /\ row' = Upserted(p)
  /\ Return(p, IF strict[p] /\ Complete(p) THEN scan[p].seq ELSE 0)
  /\ UNCHANGED <<transcript, turns>>

(* Killed, or an error such as a busy database that ends the pass.         *)
Crash(p) ==
  /\ pc[p] # "idle"
  /\ Return(p, 0)
  /\ UNCHANGED <<transcript, turns, row>>

----------------------------------------------------------------------------
Pass(p) ==
  \/ OpenUnchanged(p)
  \/ Open(p)
  \/ LoadArchived(p)
  \/ Read(p)
  \/ Refuse(p)
  \/ Insert(p)
  \/ CountTurns(p)
  \/ Restat(p)
  \/ Save(p)

Unkilled ==
  \/ \E line \in Line : WriteLine(line)
  \/ WriteHalf
  \/ \E p \in Procs :
       \/ \E requireComplete \in Modes : Begin(p, requireComplete)
       \/ Pass(p)

Next ==
  \/ Unkilled
  \/ \E p \in Procs : Crash(p)

Spec == Init /\ [][Next]_vars

(***************************************************************************)
(* Hooks keep firing, so each process ingests again and again, and a pass  *)
(* that is not killed runs to its end.                                     *)
(***************************************************************************)
Fairness == \A p \in Procs : WF_vars(Begin(p, FALSE)) /\ WF_vars(Pass(p))

----------------------------------------------------------------------------
(***************************************************************************)
(* What has to hold while the transcript is only appended to.              *)
(***************************************************************************)
Promise == INSTANCE Archive

(* Every turn among the first n lines is archived.                         *)
Covered(n) ==
  \A i \in Slots : i < n /\ file[i + 1] \in Texts => turns[i] # NoTurn

(* The archived turns are exactly the turns of a prefix of the transcript, *)
(* each under its own line's number, whichever processes were killed       *)
(* between the insert of the turns and the update of the cursor.           *)
PrefixArchived == \E n \in 0 .. Len(file) : turns = Promise!Upto(file, n)

(* The cursor every later pass resumes from never stands beyond a turn     *)
(* that is not archived, and its offset and its line number, two columns   *)
(* advanced by two separate MAX expressions, name the same line.           *)
CursorCovered ==
  /\ row.off = row.seq
  /\ row.seq <= Len(file)
  /\ Covered(row.seq)

(* Appending, even while other passes run, is never taken for a rewrite:   *)
(* a refusal marks the session incomplete until somebody repairs it by     *)
(* hand.                                                                   *)
NoFalseRefusal == \A p \in Procs : pc[p] # "refuse"

(* A strict pass that answers "complete" has archived every turn it read   *)
(* and met no line it could not parse: the checkpoint skills drop a        *)
(* session from the queue on that answer.                                  *)
StrictAnswerHonest ==
  \A p \in Procs :
    /\ vouched[p] <= Len(file)
    /\ Covered(vouched[p])
    /\ \A i \in Slots : i < vouched[p] => file[i + 1] # Bad

(* A row that calls the session complete, which the checkpoint queue shows *)
(* as ready to be distilled, has no line before its cursor that could not  *)
(* be parsed.                                                              *)
CompleteRowHonest ==
  row.there /\ ~row.unread /\ ~row.tail =>
    \A i \in Slots : i < row.seq => file[i + 1] # Bad

(* Ingesting implements the abstract archive: each step of any process     *)
(* lengthens the archived prefix or leaves it alone.                       *)
ImplementsArchive == Promise!Spec

(* Once Claude Code stops writing, the archive and the row come to hold    *)
(* the whole transcript for good: no early return, stale cursor or late    *)
(* update of a slow process leaves a turn out or a finished transcript     *)
(* marked as half-written.                                                 *)
Settles ==
  <>[](~tail => /\ turns = Promise!Upto(file, Len(file))
                /\ row.seq = Len(file)
                /\ ~row.tail)
=============================================================================
