---------------------------- MODULE IngestProofs ----------------------------
(***************************************************************************)
(* What holds of Ingest for any number of processes, texts and lines.      *)
(***************************************************************************)
EXTENDS IngestRewrite, TLAPS

----------------------------------------------------------------------------
(***************************************************************************)
(* Types.                                                                  *)
(***************************************************************************)
(* What the read loop returns is a slice of an archive. *)
LEMMA RowsType ==
  ASSUME TypeOK, NEW off \in Nat, NEW seq \in Nat
  PROVE  Rows(off, seq) \in Archived
BY DEF Rows, Archived

(* The values a process forgets to. *)
LEMMA EmptyTypes ==
  /\ Empty \in Archived
  /\ NoRow \in Row
  /\ NoScan \in Scan
  /\ NoStat \in Stat
BY DEF Empty, Archived, NoRow, Row, NoScan, Scan, NoStat, Stat

(* The size of the file is a number. *)
LEMMA SizeType == (TypeOK => Size \in Nat) /\ (TypeOK' => Size' \in Nat)
BY DEF TypeOK, Size, Bytes, LineBytes

(* What every step that ends a pass leaves behind.                         *)
LEMMA ReturnType ==
  ASSUME TypeOK, NEW p \in Procs, NEW lines \in Nat, Return(p, lines)
  PROVE  /\ pc' \in [Procs -> Steps]
         /\ strict' \in [Procs -> BOOLEAN]
         /\ cur' \in [Procs -> Row]
         /\ stat' \in [Procs -> Stat]
         /\ known' \in [Procs -> Archived]
         /\ scan' \in [Procs -> Scan]
         /\ vouched' \in [Procs -> Nat]
BY EmptyTypes DEF TypeOK, Return, Goto, Steps

(* Every step keeps every type. *)
LEMMA TypeStep == TypeOK /\ [Next]_vars => TypeOK'
<1> SUFFICES ASSUME TypeOK, [Next]_vars PROVE TypeOK'
  OBVIOUS
<1> USE EmptyTypes, SizeType
<1>1. ASSUME NEW line \in Line, WriteLine(line) PROVE TypeOK'
  <2>1. file' \in Seq(Line) /\ Len(file') <= MaxLines
    BY <1>1, ConstantsAssumption DEF TypeOK, WriteLine
  <2>2. mtime' = mtime + 1 /\ tail' = FALSE
    BY <1>1, Zenon DEF WriteLine
  <2>3. mtime' \in Nat
    BY <2>2 DEF TypeOK
  <2> QED
    BY <1>1, <2>1, <2>2, <2>3, Zenon DEF TypeOK, WriteLine
<1>2. CASE WriteHalf
  BY <1>2 DEF TypeOK, WriteHalf
<1>3. ASSUME NEW p \in Procs, NEW requireComplete \in Modes,
             Begin(p, requireComplete)
      PROVE  TypeOK'
  <2>1. requireComplete \in BOOLEAN
    BY ConstantsAssumption
  <2> QED
    BY <1>3, <2>1 DEF TypeOK, Begin, Goto, Steps, transcript
<1>4. ASSUME NEW p \in Procs, OpenUnchanged(p) PROVE TypeOK'
  BY <1>4, ReturnType DEF TypeOK, OpenUnchanged, transcript
<1>5. ASSUME NEW p \in Procs, Open(p) PROVE TypeOK'
  BY <1>5 DEF TypeOK, Open, Goto, Steps, transcript, Stat
<1>6. ASSUME NEW p \in Procs, LoadArchived(p) PROVE TypeOK'
  BY <1>6 DEF TypeOK, LoadArchived, Goto, Steps, transcript
<1>7. ASSUME NEW p \in Procs, Read(p) PROVE TypeOK'
  <2> DEFINE off  == IF Resumes(p) THEN cur[p].off ELSE 0
             seq  == IF Resumes(p) THEN cur[p].seq ELSE 0
             read == [rows |-> Rows(off, seq),
                      off |-> Larger(off, Len(file)),
                      seq |-> seq + Larger(0, Len(file) - off),
                      unread |-> Unread(p, off, seq),
                      tail |-> tail,
                      mtime |-> stat[p].mtime,
                      some |-> FALSE,
                      size |-> 0]
  <2>1. off \in Nat /\ seq \in Nat
    BY DEF TypeOK, Row
  <2>2. Larger(off, Len(file)) \in Nat /\ seq + Larger(0, Len(file) - off) \in Nat
    BY <2>1 DEF TypeOK, Larger
  <2>3. stat[p].mtime \in Nat /\ Rows(off, seq) \in Archived
    BY <2>1, RowsType DEF TypeOK, Stat
  <2>4. Unread(p, off, seq) \in BOOLEAN
    BY DEF Unread
  <2> HIDE DEF off, seq
  <2>5. read \in Scan
    BY <2>2, <2>3, <2>4 DEF Scan, TypeOK
  <2>6. scan' = [scan EXCEPT ![p] = read]
    BY <1>7 DEF Read, off, seq
  <2>7. /\ \E step \in Steps : pc' = [pc EXCEPT ![p] = step]
        /\ cur' = [cur EXCEPT ![p] = NoRow]
        /\ stat' = [stat EXCEPT ![p] = NoStat]
        /\ known' = [known EXCEPT ![p] = Empty]
        /\ UNCHANGED <<file, tail, mtime, exists, past, turns, row, strict, vouched>>
    BY <1>7 DEF Read, Goto, Steps, transcript
  <2> QED
    BY <2>5, <2>6, <2>7 DEF TypeOK
<1>8. ASSUME NEW p \in Procs, Refuse(p) PROVE TypeOK'
  <2>1. [row EXCEPT !.unread = TRUE, !.tail = FALSE] \in Row
    BY Zenon DEF TypeOK, Row
  <2>2. row' \in Row
    BY <1>8, <2>1 DEF TypeOK, Refuse
  <2> QED
    BY <1>8, <2>2, ReturnType DEF TypeOK, Refuse, transcript
<1>9. ASSUME NEW p \in Procs, Insert(p) PROVE TypeOK'
  <2>1. turns' \in Archived
    BY <1>9 DEF TypeOK, Insert, Scan, Archived
  <2>2. scan' \in [Procs -> Scan]
    BY <1>9 DEF TypeOK, Insert, Scan
  <2> QED
    BY <1>9, <2>1, <2>2 DEF TypeOK, Insert, Goto, Steps, transcript
<1>10. ASSUME NEW p \in Procs, CountTurns(p) PROVE TypeOK'
  BY <1>10 DEF TypeOK, CountTurns, Goto, Steps, Scan, transcript
<1>11. ASSUME NEW p \in Procs, Restat(p) PROVE TypeOK'
  BY <1>11 DEF TypeOK, Restat, Goto, Steps, Scan, transcript
<1>12. ASSUME NEW p \in Procs, Save(p) PROVE TypeOK'
  <2>1. Upserted(p) \in Row
    BY DEF TypeOK, Upserted, Row, Scan, Larger
  <2> QED
    BY <1>12, <2>1, ReturnType DEF TypeOK, Save, Scan, transcript
<1>13. ASSUME NEW p \in Procs, Crash(p) PROVE TypeOK'
  BY <1>13, ReturnType DEF TypeOK, Crash, transcript
<1>14. CASE UNCHANGED vars
  BY <1>14 DEF TypeOK, vars, transcript
<1> QED
  BY <1>1, <1>2, <1>3, <1>4, <1>5, <1>6, <1>7, <1>8, <1>9, <1>10, <1>11, <1>12,
     <1>13, <1>14 DEF Next, Unkilled, Pass

(* The initial values have their types. *)
LEMMA InitType == Init => TypeOK
<1> SUFFICES ASSUME Init PROVE TypeOK
  OBVIOUS
<1>1. file \in Seq(Line) /\ Len(file) <= MaxLines /\ past \in Seq(Seq(Line))
  BY ConstantsAssumption DEF Init
<1> QED
  BY <1>1, EmptyTypes DEF Init, TypeOK, Steps

(* Every column, cursor and process-local value keeps its type.            *)
THEOREM TypeCorrect == Spec => []TypeOK
BY InitType, TypeStep, PTL DEF Spec

----------------------------------------------------------------------------
(***************************************************************************)
(* The inductive invariant.  PrefixArchived alone is not inductive: what   *)
(* an insert adds depends on what the process read, from where, and on the *)
(* cursor it read before.  Each of these is a statement about a prefix of  *)
(* the file, and a prefix outlives every append and every insert.          *)
(***************************************************************************)

(* No line among the first n was unreadable.                               *)
Clean(n) == \A i \in Slots : i < n => file[i + 1] # Bad

(* A cursor, in the row or as a process read it, is covered by the archive.*)
Cursor(c) ==
  /\ c.off = c.seq
  /\ c.seq <= Len(file)
  /\ Covered(c.seq)
  /\ c.size <= Size

(* A strict pass compares with turns of this transcript, and with all of   *)
(* them up to the cursor.                                                  *)
KnownOK(archive, c) ==
  \A i \in Slots :
    /\ archive[i] # NoTurn => i < Len(file) /\ archive[i] = file[i + 1]
    /\ i < c.seq /\ file[i + 1] \in Texts => archive[i] # NoTurn

(* What was read are turns of this transcript, and once they are inserted  *)
(* the archive covers all that was read.                                   *)
ScanOK(s) ==
  /\ s.off = s.seq
  /\ s.seq <= Len(file)
  /\ s.size <= Size
  /\ \A i \in Slots :
       /\ s.rows[i] # NoTurn => i < s.seq /\ s.rows[i] = file[i + 1]
       /\ i < s.seq /\ file[i + 1] \in Texts =>
            turns[i] # NoTurn \/ s.rows[i] # NoTurn

Vouched(n) == n <= Len(file) /\ Covered(n) /\ Clean(n)

ProcOK(p) ==
  /\ pc[p] # "refuse"
  /\ Cursor(cur[p])
  /\ pc[p] \in {"archived", "read"} => cur[p].size <= stat[p].len
  /\ pc[p] = "read" /\ strict[p] => KnownOK(known[p], cur[p])
  /\ ScanOK(scan[p])
  /\ pc[p] # "insert" => scan[p].rows = Empty
  /\ pc[p] \in {"idle", "open", "archived", "read"} => scan[p] = NoScan
  /\ strict[p] /\ ~scan[p].unread => Clean(scan[p].seq)
  /\ Vouched(vouched[p])

Inv ==
  /\ TypeOK
  /\ PrefixArchived
  /\ Cursor(row)
  /\ \A p \in Procs : ProcOK(p)

----------------------------------------------------------------------------
(***************************************************************************)
(* What no step takes back: lines of the file, its size, archived turns.   *)
(***************************************************************************)
Grows ==
  /\ Len(file) <= Len(file)'
  /\ \A i \in Slots : i < Len(file) => file'[i + 1] = file[i + 1]
  /\ Size <= Size'
  /\ \A i \in Slots : turns[i] # NoTurn => turns'[i] = turns[i]

(* A step that leaves the transcript alone lets it grow by nothing. *)
LEMMA Still ==
  ASSUME TypeOK, UNCHANGED <<file, tail, turns>>
  PROVE  Grows
BY SizeType DEF TypeOK, Grows, Size

(* No step removes or changes a line of the transcript. *)
LEMMA Growth == TypeOK /\ [Next]_vars => Grows
<1> SUFFICES ASSUME TypeOK, [Next]_vars PROVE Grows
  OBVIOUS
<1>1. ASSUME NEW line \in Line, WriteLine(line) PROVE Grows
  <2>1. file' = Append(file, line) /\ tail' = FALSE /\ turns' = turns
    BY <1>1, Zenon DEF WriteLine
  <2>2. /\ Len(file') = Len(file) + 1
        /\ \A i \in 1 .. Len(file) : file'[i] = file[i]
        /\ Len(file) \in Nat
    BY <2>1 DEF TypeOK
  <2>3. Size <= Size'
    BY <2>1, <2>2 DEF TypeOK, Size, Bytes, LineBytes
  <2> QED
    BY <2>1, <2>2, <2>3 DEF Grows, Slots
<1>2. CASE WriteHalf
  <2>1. file' = file /\ ~tail /\ tail' = TRUE /\ turns' = turns
    BY <1>2, Zenon DEF WriteHalf
  <2> QED
    BY <2>1 DEF TypeOK, Grows, Size, Bytes, LineBytes
<1>3. ASSUME NEW p \in Procs, Insert(p) PROVE Grows
  <2>1. /\ UNCHANGED <<file, tail>>
        /\ turns' = [i \in Slots |-> IF turns[i] # NoTurn THEN turns[i]
                                                         ELSE scan[p].rows[i]]
    BY <1>3, Zenon DEF Insert, transcript
  <2> QED
    BY <2>1, SizeType DEF TypeOK, Grows, Size
<1>4. ASSUME NEW p \in Procs,
             \/ \E requireComplete \in Modes : Begin(p, requireComplete)
             \/ OpenUnchanged(p) \/ Open(p) \/ LoadArchived(p) \/ Read(p)
             \/ Refuse(p) \/ CountTurns(p) \/ Restat(p) \/ Save(p) \/ Crash(p)
      PROVE  Grows
  BY <1>4, Still, Zenon DEF Begin, OpenUnchanged, Open, LoadArchived, Read,
     Refuse, CountTurns, Restat, Save, Crash, transcript
<1>5. CASE UNCHANGED vars
  BY <1>5, Still, Zenon DEF vars, transcript
<1> QED
  BY <1>1, <1>2, <1>3, <1>4, <1>5, Zenon DEF Next, Unkilled, Pass

(* The archived turns are turns of the transcript.                         *)
LEMMA TurnsTrue ==
  ASSUME TypeOK, PrefixArchived
  PROVE  \A i \in Slots :
           turns[i] # NoTurn => /\ i < Len(file)
                                /\ turns[i] = file[i + 1]
                                /\ file[i + 1] \in Texts
BY DEF TypeOK, PrefixArchived, Promise!Upto, Promise!Slots, Slots

(* A prefix stays covered, and a cursor stays a cursor.                    *)
LEMMA PrefixKept ==
  ASSUME TypeOK, TypeOK', Grows, NEW n \in Nat, n <= Len(file)
  PROVE  /\ n <= Len(file')
         /\ Covered(n) => \A i \in Slots :
                            i < n /\ file'[i + 1] \in Texts => turns'[i] # NoTurn
         /\ Clean(n) => \A i \in Slots : i < n => file'[i + 1] # Bad
<1>1. Len(file) \in Nat /\ Len(file') \in Nat /\ MaxLines \in Nat
  BY ConstantsAssumption DEF TypeOK
<1>2. n <= Len(file')
  BY <1>1 DEF Grows
<1>3. ASSUME NEW i \in Slots, i < n PROVE file'[i + 1] = file[i + 1]
  <2>1. i < Len(file)
    BY <1>1, <1>3 DEF Slots
  <2> QED
    BY <2>1 DEF Grows
<1>4. ASSUME Covered(n), NEW i \in Slots, i < n, file'[i + 1] \in Texts
      PROVE  turns'[i] # NoTurn
  <2>1. turns[i] # NoTurn
    BY <1>3, <1>4 DEF Covered
  <2> QED
    BY <2>1 DEF Grows
<1>5. ASSUME Clean(n), NEW i \in Slots, i < n PROVE file'[i + 1] # Bad
  BY <1>3, <1>5 DEF Clean
<1> QED
  BY <1>2, <1>4, <1>5

(* A cursor that is covered stays covered. *)
LEMMA RowKept ==
  ASSUME TypeOK, TypeOK', Grows, Cursor(row), row' = row
  PROVE  Cursor(row)'
<1>1. row.seq \in Nat /\ row.size \in Nat /\ row.off \in Nat
  BY DEF TypeOK, Row
<1>2. Size \in Nat /\ Size' \in Nat
  BY SizeType
<1>3. row.size <= Size'
  BY <1>1, <1>2 DEF Cursor, Grows
<1>4. row.seq <= Len(file') /\ Covered(row.seq)'
  BY <1>1, PrefixKept DEF Cursor, Covered
<1> QED
  BY <1>3, <1>4 DEF Cursor

(* A process that a step does not touch, or that only returns.             *)
LEMMA ProcKept ==
  ASSUME TypeOK, TypeOK', Grows, NEW p \in Procs, ProcOK(p),
         pc'[p] = pc[p], strict'[p] = strict[p], cur'[p] = cur[p],
         stat'[p] = stat[p], known'[p] = known[p], scan'[p] = scan[p],
         vouched'[p] = vouched[p]
  PROVE  ProcOK(p)'
<1>1. /\ cur[p] \in Row /\ known[p] \in Archived /\ scan[p] \in Scan
      /\ vouched[p] \in Nat /\ Len(file) \in Nat /\ Len(file') \in Nat
      /\ Size \in Nat /\ Size' \in Nat
  BY SizeType DEF TypeOK
<1>2. Cursor(cur[p])'
  <2>1. cur[p].size <= Size'
    BY <1>1 DEF ProcOK, Cursor, Grows, Row
  <2>2. cur[p].seq <= Len(file') /\ Covered(cur[p].seq)'
    BY <1>1, PrefixKept DEF ProcOK, Cursor, Covered, Row
  <2> QED
    BY <2>1, <2>2 DEF ProcOK, Cursor
<1>3. ASSUME KnownOK(known[p], cur[p]) PROVE KnownOK(known[p], cur[p])'
  <2> SUFFICES ASSUME NEW i \in Slots
               PROVE  /\ known[p][i] # NoTurn => /\ i < Len(file')
                                               /\ known[p][i] = file'[i + 1]
                      /\ i < cur[p].seq /\ file'[i + 1] \in Texts =>
                           known[p][i] # NoTurn
    BY DEF KnownOK
  <2>1. i < Len(file) => i < Len(file') /\ file'[i + 1] = file[i + 1]
    BY <1>1 DEF Grows, Slots
  <2>2. i < cur[p].seq => i < Len(file)
    BY <1>1 DEF ProcOK, Cursor, Row, Slots
  <2> QED
    BY <1>3, <2>1, <2>2 DEF KnownOK
<1>4. ScanOK(scan[p])'
  <2>1. scan[p].seq \in Nat /\ scan[p].size \in Nat
    BY <1>1 DEF Scan
  <2>2. scan[p].seq <= Len(file') /\ scan[p].size <= Size'
    BY <1>1, <2>1 DEF ProcOK, ScanOK, Grows
  <2>3. ASSUME NEW i \in Slots
        PROVE  /\ scan[p].rows[i] # NoTurn =>
                    i < scan[p].seq /\ scan[p].rows[i] = file'[i + 1]
               /\ i < scan[p].seq /\ file'[i + 1] \in Texts =>
                    turns'[i] # NoTurn \/ scan[p].rows[i] # NoTurn
    <3>1. i < scan[p].seq => file'[i + 1] = file[i + 1]
      BY <1>1, <2>1 DEF ProcOK, ScanOK, Grows, Slots
    <3> QED
      BY <3>1 DEF ProcOK, ScanOK, Grows
  <2> QED
    BY <2>2, <2>3 DEF ProcOK, ScanOK
<1>5. Clean(scan[p].seq) => Clean(scan[p].seq)'
  BY <1>1, PrefixKept DEF ProcOK, ScanOK, Clean, Scan
<1>6. Vouched(vouched[p])'
  BY <1>1, PrefixKept DEF ProcOK, Vouched, Covered, Clean
<1> QED
  BY <1>2, <1>3, <1>4, <1>5, <1>6 DEF ProcOK, Cursor, KnownOK, ScanOK, Clean,
     Vouched, Covered

(* The cursor at the top of the file is covered. *)
LEMMA ZeroOK ==
  TypeOK => Cursor(NoRow) /\ ScanOK(NoScan) /\ Clean(0) /\ Vouched(0)
BY SizeType DEF TypeOK, Cursor, ScanOK, Clean, Vouched, Covered, NoRow, NoScan,
   Empty, Slots

(* A process that returns keeps no claim but what it vouches for. *)
LEMMA ReturnOK ==
  ASSUME TypeOK, TypeOK', Grows, \A q \in Procs : ProcOK(q),
         NEW p \in Procs, NEW lines \in Nat, Return(p, lines), Vouched(lines)
  PROVE  \A q \in Procs : ProcOK(q)'
<1> SUFFICES ASSUME NEW q \in Procs PROVE ProcOK(q)'
  OBVIOUS
<1>1. CASE q # p
  BY <1>1, ProcKept DEF Return, Goto, TypeOK
<1>2. CASE q = p
  <2>1. /\ pc'[p] = "idle" /\ strict'[p] = FALSE /\ cur'[p] = NoRow
        /\ scan'[p] = NoScan /\ vouched'[p] = lines
    BY DEF Return, Goto, TypeOK
  <2>2. Vouched(lines)'
    BY PrefixKept DEF Vouched, Covered, Clean
  <2>3. Cursor(NoRow)' /\ ScanOK(NoScan)'
    BY ZeroOK, PTL
  <2>4. NoScan.rows = Empty
    BY DEF NoScan
  <2> QED
    BY <1>2, <2>1, <2>2, <2>3, <2>4 DEF ProcOK, Cursor, ScanOK, Vouched, Covered, Clean
<1> QED
  BY <1>1, <1>2

----------------------------------------------------------------------------
(***************************************************************************)
(* The steps of a pass that change what is proved.                         *)
(***************************************************************************)

(* Lines of a prefix the archive covers are read from the cursor on.       *)
LEMMA ReadRows ==
  ASSUME TypeOK, NEW start \in Nat, start <= Len(file), Covered(start),
         NEW i \in Slots
  PROVE  /\ Rows(start, start)[i] # NoTurn =>
              i < Len(file) /\ Rows(start, start)[i] = file[i + 1]
         /\ i < Len(file) /\ file[i + 1] \in Texts =>
              turns[i] # NoTurn \/ Rows(start, start)[i] # NoTurn
<1>1. i \in Nat /\ Len(file) \in Nat
  BY ConstantsAssumption DEF TypeOK, Slots
<1>2. i \in Numbers(start, start) <=> start <= i /\ i < Len(file)
  BY <1>1 DEF Numbers
<1>3. i \in Numbers(start, start) => At(start, start, i) = file[i + 1]
  BY <1>1, <1>2 DEF At
<1>4. i < start /\ file[i + 1] \in Texts => turns[i] # NoTurn
  BY DEF Covered
<1> QED
  BY <1>1, <1>2, <1>3, <1>4, ConstantsAssumption DEF Rows

(* No false alarm: what a strict pass knows agrees with what it reads.     *)
LEMMA NothingChanged ==
  ASSUME TypeOK, NEW p \in Procs, ProcOK(p), pc[p] = "read"
  PROVE  ~Changed(p)
<1> SUFFICES ASSUME strict[p], NEW i \in Numbers(0, 0) PROVE ~ChangedAt(p, i)
  BY DEF Changed
<1>1. i \in Slots /\ i \in Nat /\ i < Len(file)
  BY ConstantsAssumption DEF Numbers, Slots, TypeOK
<1>2. At(0, 0, i) = file[i + 1]
  BY <1>1 DEF At
<1>3. /\ known[p][i] # NoTurn => known[p][i] = file[i + 1]
      /\ i < cur[p].seq /\ file[i + 1] \in Texts => known[p][i] # NoTurn
  BY <1>1 DEF ProcOK, KnownOK
<1>4. known[p][i] \in Texts \cup {NoTurn} /\ cur[p].seq \in Nat
  BY <1>1 DEF TypeOK, Archived, Row
<1>5. i <= cur[p].seq - 1 <=> i < cur[p].seq
  BY <1>1, <1>4
<1> QED
  BY <1>2, <1>3, <1>4, <1>5 DEF ChangedAt

(* What a process remembers of its read.                                   *)
LEMMA ReadOK ==
  ASSUME TypeOK, NEW p \in Procs, ProcOK(p), Read(p)
  PROVE  /\ pc'[p] = "insert" \/ (pc'[p] = "count" /\ scan'[p].rows = Empty)
         /\ strict'[p] = strict[p] /\ cur'[p] = NoRow
         /\ vouched'[p] = vouched[p]
         /\ ScanOK(scan'[p])
         /\ strict[p] /\ ~scan'[p].unread => Clean(scan'[p].seq)
<1> DEFINE start == IF Resumes(p) THEN cur[p].seq ELSE 0
<1>1. start \in Nat /\ start <= Len(file) /\ Covered(start) /\ Len(file) \in Nat
  BY DEF TypeOK, ProcOK, Cursor, Row, Covered, Slots
<1>2. (IF Resumes(p) THEN cur[p].off ELSE 0) = start
  BY DEF ProcOK, Cursor
<1>3. /\ scan'[p].rows = Rows(start, start)
      /\ scan'[p].off = Larger(start, Len(file))
      /\ scan'[p].seq = start + Larger(0, Len(file) - start)
      /\ scan'[p].unread = Unread(p, start, start)
      /\ scan'[p].size = 0
  BY <1>2, Zenon DEF Read, TypeOK
<1>4. /\ pc'[p] = "insert" \/ (pc'[p] = "count" /\ Rows(start, start) = Empty)
      /\ strict'[p] = strict[p] /\ cur'[p] = NoRow
      /\ vouched'[p] = vouched[p]
  BY <1>2, NothingChanged DEF Read, Goto, TypeOK
<1> HIDE DEF start
<1>5. scan'[p].off = Len(file) /\ scan'[p].seq = Len(file)
  BY <1>1, <1>3 DEF Larger
<1>6. ScanOK(scan'[p])
  BY <1>1, <1>3, <1>5, ReadRows, SizeType DEF ScanOK
<1>7. ASSUME strict[p], ~scan'[p].unread PROVE Clean(scan'[p].seq)
  <2>1. start = 0
    BY <1>7 DEF start, Resumes
  <2>2. \A i \in Slots : i < Len(file) => i \in Numbers(0, 0) /\ At(0, 0, i) = file[i + 1]
    BY <1>1 DEF Numbers, At, Slots
  <2> QED
    BY <1>3, <1>5, <1>7, <2>1, <2>2 DEF Unread, SawBad, Clean
<1> QED
  BY <1>3, <1>4, <1>6, <1>7

(* Inserting what was read leaves exactly a prefix archived: the longer of *)
(* the one that was and the one that was read.                             *)
LEMMA InsertPrefix ==
  ASSUME TypeOK, PrefixArchived, NEW p \in Procs, ProcOK(p), Insert(p)
  PROVE  \E n \in 0 .. Len(file) : turns' = Promise!Upto(file, n)
<1>1. PICK n \in 0 .. Len(file) : turns = Promise!Upto(file, n)
  BY DEF PrefixArchived
<1> DEFINE seq == scan[p].seq
           m   == Larger(n, seq)
<1>2. seq \in Nat /\ seq <= Len(file) /\ Len(file) \in Nat
  BY DEF TypeOK, Scan, ProcOK, ScanOK
<1>3. m \in 0 .. Len(file) /\ n <= m /\ seq <= m /\ (m = n \/ m = seq)
  BY <1>2 DEF Larger
<1>4. ASSUME NEW i \in Slots
      PROVE  (IF turns[i] # NoTurn THEN turns[i] ELSE scan[p].rows[i])
                = IF i < m /\ file[i + 1] \in Texts THEN file[i + 1] ELSE NoTurn
  <2>1. i \in Nat
    BY ConstantsAssumption DEF Slots
  <2>2. turns[i] = IF i < n /\ file[i + 1] \in Texts THEN file[i + 1] ELSE NoTurn
    BY <1>1 DEF Promise!Upto, Promise!Slots, Slots
  <2>3. /\ scan[p].rows[i] # NoTurn => i < seq /\ scan[p].rows[i] = file[i + 1]
        /\ i < seq /\ file[i + 1] \in Texts =>
             turns[i] # NoTurn \/ scan[p].rows[i] # NoTurn
        /\ scan[p].rows[i] \in Texts \cup {NoTurn}
    BY DEF TypeOK, ProcOK, ScanOK, Scan, Archived
  <2>4. i < n \/ i < seq <=> i < m
    BY <1>2, <1>3, <2>1
  <2> HIDE DEF seq, m
  <2> QED
    BY <2>2, <2>3, <2>4, ConstantsAssumption
<1>5. turns' = [i \in Slots |-> IF turns[i] # NoTurn THEN turns[i]
                                                    ELSE scan[p].rows[i]]
  BY Zenon DEF Insert
<1>6. turns' = Promise!Upto(file, m)
  BY <1>4, <1>5, Zenon DEF Promise!Upto, Promise!Slots, Slots
<1> QED
  BY <1>3, <1>6

(* Every step keeps the archive a prefix. *)
LEMMA PrefixStep ==
  ASSUME Inv, [Next]_vars
  PROVE  PrefixArchived'
<1>1. TypeOK /\ TypeOK' /\ PrefixArchived /\ \A p \in Procs : ProcOK(p)
  BY TypeStep DEF Inv
<1>2. ASSUME UNCHANGED <<file, turns>> PROVE PrefixArchived'
  BY <1>1, <1>2 DEF PrefixArchived, Promise!Upto, Promise!Slots
<1>3. ASSUME NEW line \in Line, WriteLine(line) PROVE PrefixArchived'
  <2>1. PICK n \in 0 .. Len(file) : turns = Promise!Upto(file, n)
    BY <1>1 DEF PrefixArchived
  <2>2. file' = Append(file, line) /\ turns' = turns
    BY <1>3, Zenon DEF WriteLine
  <2>3. \A i \in Slots : i < n => file'[i + 1] = file[i + 1]
    BY <1>1, <2>2, ConstantsAssumption DEF TypeOK, Slots
  <2>4. Promise!Upto(file', n) = Promise!Upto(file, n)
    BY <2>3 DEF Promise!Upto, Promise!Slots, Slots
  <2>5. n \in 0 .. Len(file')
    BY <1>1, <2>2 DEF TypeOK
  <2> QED
    BY <2>1, <2>2, <2>4, <2>5 DEF PrefixArchived, Promise!Upto, Promise!Slots
<1>4. ASSUME NEW p \in Procs, Insert(p) PROVE PrefixArchived'
  <2>1. file' = file
    BY <1>4, Zenon DEF Insert, transcript
  <2> QED
    BY <1>1, <1>4, <2>1, InsertPrefix DEF PrefixArchived, Promise!Upto, Promise!Slots
<1>5. ASSUME NEW p \in Procs,
             \/ \E requireComplete \in Modes : Begin(p, requireComplete)
             \/ OpenUnchanged(p) \/ Open(p) \/ LoadArchived(p) \/ Read(p)
             \/ Refuse(p) \/ CountTurns(p) \/ Restat(p) \/ Save(p) \/ Crash(p)
      PROVE  UNCHANGED <<file, turns>>
  BY <1>5, Zenon DEF Begin, OpenUnchanged, Open, LoadArchived, Read,
     Refuse, CountTurns, Restat, Save, Crash, transcript
<1>6. ASSUME WriteHalf \/ UNCHANGED vars PROVE UNCHANGED <<file, turns>>
  BY <1>6, Zenon DEF WriteHalf, vars, transcript
<1> QED
  BY <1>2, <1>3, <1>4, <1>5, <1>6, Zenon DEF Next, Unkilled, Pass

(* A step inside a pass leaves the file alone and the other processes.     *)
LEMMA RowStep ==
  ASSUME Inv, [Next]_vars
  PROVE  Cursor(row)'
<1>1. /\ TypeOK /\ TypeOK' /\ Grows /\ Cursor(row)
      /\ \A p \in Procs : ProcOK(p)
  BY TypeStep, Growth DEF Inv
<1>2. ASSUME row' = row PROVE Cursor(row)'
  BY <1>1, <1>2, RowKept
<1>3. ASSUME NEW p \in Procs, Save(p) PROVE Cursor(row)'
  <2>1. row' = Upserted(p) /\ UNCHANGED <<file, tail, turns>> /\ pc[p] = "save"
    BY <1>3, Zenon DEF Save, transcript
  <2>2. Upserted(p).seq \in {scan[p].seq, row.seq}
    BY DEF Upserted, Larger
  <2>3. Upserted(p).off = Upserted(p).seq /\ Upserted(p).size = scan[p].size
    BY <1>1 DEF Upserted, Cursor, ProcOK, ScanOK
  <2>4. scan[p].seq <= Len(file) /\ Covered(scan[p].seq) /\ scan[p].size <= Size
    BY <1>1, <2>1 DEF ProcOK, ScanOK, Covered, Empty
  <2>5. Upserted(p).seq <= Len(file) /\ Covered(Upserted(p).seq)
    BY <1>1, <2>2, <2>4 DEF Cursor
  <2> QED
    BY <2>1, <2>3, <2>4, <2>5 DEF Cursor, Covered, Size
<1>4. ASSUME NEW p \in Procs, Refuse(p) PROVE FALSE
  BY <1>1, <1>4 DEF Refuse, ProcOK
<1>5. ASSUME NEW p \in Procs,
             \/ \E requireComplete \in Modes : Begin(p, requireComplete)
             \/ OpenUnchanged(p) \/ Open(p) \/ LoadArchived(p) \/ Read(p)
             \/ Insert(p) \/ CountTurns(p) \/ Restat(p) \/ Crash(p)
      PROVE  row' = row
  BY <1>5, Zenon DEF Begin, OpenUnchanged, Open, LoadArchived, Read, Insert,
     CountTurns, Restat, Crash
<1>6. ASSUME NEW line \in Line, WriteLine(line) PROVE row' = row
  BY <1>6, Zenon DEF WriteLine
<1>7. ASSUME WriteHalf \/ UNCHANGED vars PROVE row' = row
  BY <1>7, Zenon DEF WriteHalf, vars
<1> QED
  BY <1>2, <1>3, <1>4, <1>5, <1>6, <1>7, Zenon DEF Next, Unkilled, Pass

(* What a process remembers before it reads.                               *)
LEMMA EmptyRead == NoScan.rows = Empty /\ NoScan.seq = 0
BY DEF NoScan

(* A step of a process that reads or forgets, and stores nothing.          *)
LEMMA Moved ==
  ASSUME NEW p \in Procs, ProcOK(p), TypeOK, Cursor(row),
         UNCHANGED <<file, tail, turns>>,
         pc'[p] # "refuse",
         cur'[p] \in {cur[p], row, NoRow},
         pc'[p] \in {"archived", "read"} => cur'[p].size <= stat'[p].len,
         pc'[p] = "read" /\ strict'[p] => KnownOK(known'[p], cur'[p]),
         ScanOK(scan'[p]),
         pc'[p] # "insert" => scan'[p].rows = Empty,
         pc'[p] \in {"idle", "open", "archived", "read"} => scan'[p] = NoScan,
         strict'[p] /\ ~scan'[p].unread => Clean(scan'[p].seq),
         vouched'[p] \in {vouched[p], 0}
  PROVE  ProcOK(p)'
<1>1. Cursor(cur'[p]) /\ Vouched(vouched'[p])
  BY ZeroOK DEF ProcOK
<1> QED
  BY <1>1 DEF ProcOK, Cursor, KnownOK, ScanOK, Clean, Vouched, Covered, Size

(* Everything a process holds stays true when another one moves, and when  *)
(* it moves itself.                                                        *)
LEMMA ProcStep ==
  ASSUME Inv, [Next]_vars, NEW q \in Procs
  PROVE  ProcOK(q)'
<1>1. /\ TypeOK /\ TypeOK' /\ Grows /\ Cursor(row)
      /\ \A p \in Procs : ProcOK(p)
  BY TypeStep, Growth DEF Inv
<1>2. ASSUME UNCHANGED <<pc, strict, cur, stat, known, scan, vouched>>
      PROVE  ProcOK(q)'
  BY <1>1, <1>2, ProcKept, Zenon
<1>3. ASSUME NEW p \in Procs, NEW requireComplete \in Modes,
             Begin(p, requireComplete)
      PROVE  ProcOK(q)'
  <2>1. CASE q # p
    BY <1>1, <1>3, <2>1, ProcKept DEF Begin, Goto, TypeOK
  <2>2. CASE q = p
    <3>1. /\ pc'[p] = "open" /\ cur'[p] = row /\ vouched'[p] = 0
          /\ scan' = scan /\ scan[p] = NoScan
          /\ UNCHANGED <<file, tail, turns>>
      BY <1>1, <1>3 DEF Begin, Goto, TypeOK, transcript, ProcOK
    <3> QED
      BY <1>1, <2>2, <3>1, ZeroOK, EmptyRead, Moved
  <2> QED
    BY <2>1, <2>2
<1>4. ASSUME NEW p \in Procs, OpenUnchanged(p) \/ Crash(p)
      PROVE  ProcOK(q)'
  BY <1>1, <1>4, ZeroOK, ReturnOK DEF OpenUnchanged, Crash
<1>5. ASSUME NEW p \in Procs, Open(p) PROVE ProcOK(q)'
  <2>1. CASE q # p
    BY <1>1, <1>5, <2>1, ProcKept DEF Open, Goto, TypeOK
  <2>2. CASE q = p
    <3>1. /\ pc'[p] = IF strict[p] THEN "archived" ELSE "read"
          /\ strict' = strict /\ cur' = cur /\ vouched' = vouched
          /\ scan' = scan /\ scan[p] = NoScan /\ stat'[p].len = Size
          /\ UNCHANGED <<file, tail, turns>>
      BY <1>1, <1>5 DEF Open, Goto, TypeOK, transcript, ProcOK
    <3>2. cur[p].size <= Size
      BY <1>1 DEF ProcOK, Cursor
    <3> QED
      BY <1>1, <2>2, <3>1, <3>2, ZeroOK, EmptyRead, Moved
  <2> QED
    BY <2>1, <2>2
<1>6. ASSUME NEW p \in Procs, LoadArchived(p) PROVE ProcOK(q)'
  <2>1. CASE q # p
    BY <1>1, <1>6, <2>1, ProcKept DEF LoadArchived, Goto, TypeOK
  <2>2. CASE q = p
    <3>1. cur[p].size <= stat[p].len /\ cur[p].size \in Nat /\ stat[p].len \in Nat
      BY <1>1, <1>6 DEF LoadArchived, ProcOK, TypeOK, Row, Stat
    <3>2. /\ pc'[p] = "read" /\ known'[p] = turns
          /\ strict' = strict /\ cur' = cur /\ vouched' = vouched
          /\ scan' = scan /\ scan[p] = NoScan /\ stat' = stat
          /\ UNCHANGED <<file, tail, turns>>
      BY <1>1, <1>6, <3>1 DEF LoadArchived, Goto, TypeOK, transcript, ProcOK
    <3>3. KnownOK(turns, cur[p])
      BY <1>1, TurnsTrue DEF Inv, ProcOK, Cursor, Covered, KnownOK
    <3> QED
      BY <1>1, <2>2, <3>1, <3>2, <3>3, ZeroOK, EmptyRead, Moved
  <2> QED
    BY <2>1, <2>2
<1>7. ASSUME NEW p \in Procs, Read(p) PROVE ProcOK(q)'
  <2>1. CASE q # p
    BY <1>1, <1>7, <2>1, ProcKept, Zenon DEF Read, Goto, TypeOK
  <2>2. CASE q = p
    <3>1. UNCHANGED <<file, tail, turns>>
      BY <1>7, Zenon DEF Read, transcript
    <3> QED
      BY <1>1, <1>7, <2>2, <3>1, ReadOK, Moved
  <2> QED
    BY <2>1, <2>2
<1>8. ASSUME NEW p \in Procs, Refuse(p) PROVE ProcOK(q)'
  BY <1>1, <1>8 DEF Refuse, ProcOK
<1>9. ASSUME NEW p \in Procs, Insert(p) PROVE ProcOK(q)'
  <2>1. CASE q # p
    BY <1>1, <1>9, <2>1, ProcKept, Zenon DEF Insert, Goto, TypeOK
  <2>2. CASE q = p
    <3>1. /\ pc'[p] = "count" /\ strict' = strict /\ cur' = cur
          /\ vouched' = vouched /\ UNCHANGED <<file, tail>>
          /\ turns' = [i \in Slots |-> IF turns[i] # NoTurn THEN turns[i]
                                                           ELSE scan[p].rows[i]]
      BY <1>1, <1>9 DEF Insert, Goto, TypeOK, transcript
    <3>2. /\ scan'[p].rows = Empty /\ scan'[p].off = scan[p].off
          /\ scan'[p].seq = scan[p].seq /\ scan'[p].size = scan[p].size
          /\ scan'[p].unread = scan[p].unread
      BY <1>1, <1>9 DEF Insert, TypeOK, Scan
    <3>3. \A n \in Nat : Covered(n) => Covered(n)'
      BY <3>1 DEF Covered
    <3>4. cur[p].seq \in Nat /\ vouched[p] \in Nat
      BY <1>1 DEF TypeOK, Row
    <3>5. \A i \in Slots : i < scan[p].seq /\ file[i + 1] \in Texts => turns'[i] # NoTurn
      BY <1>1, <3>1 DEF ProcOK, ScanOK
    <3>6. ScanOK(scan[p])'
      BY <1>1, <3>1, <3>2, <3>5 DEF ProcOK, ScanOK, Size, Empty
    <3> QED
      BY <1>1, <2>2, <3>1, <3>2, <3>3, <3>4, <3>6
      DEF ProcOK, Cursor, Clean, Vouched, ScanOK, Size, Covered
  <2> QED
    BY <2>1, <2>2
<1>10. ASSUME NEW p \in Procs, CountTurns(p) PROVE ProcOK(q)'
  <2>1. CASE q # p
    BY <1>1, <1>10, <2>1, ProcKept, Zenon DEF CountTurns, Goto, TypeOK
  <2>2. CASE q = p
    <3>1. /\ pc'[p] = "restat" /\ strict' = strict /\ cur' = cur
          /\ vouched' = vouched /\ UNCHANGED <<file, tail, turns>>
          /\ scan[p].rows = Empty
      BY <1>1, <1>10 DEF CountTurns, Goto, TypeOK, transcript, ProcOK
    <3>2. /\ scan'[p].rows = scan[p].rows /\ scan'[p].off = scan[p].off
          /\ scan'[p].seq = scan[p].seq /\ scan'[p].size = scan[p].size
          /\ scan'[p].unread = scan[p].unread
      BY <1>1, <1>10 DEF CountTurns, TypeOK, Scan
    <3>3. ScanOK(scan'[p])
      BY <1>1, <3>2 DEF ProcOK, ScanOK
    <3>4. strict'[p] /\ ~scan'[p].unread => Clean(scan'[p].seq)
      BY <1>1, <3>1, <3>2 DEF ProcOK
    <3> QED
      BY <1>1, <2>2, <3>1, <3>2, <3>3, <3>4, Moved
  <2> QED
    BY <2>1, <2>2
<1>11. ASSUME NEW p \in Procs, Restat(p) PROVE ProcOK(q)'
  <2>1. CASE q # p
    BY <1>1, <1>11, <2>1, ProcKept, Zenon DEF Restat, Goto, TypeOK
  <2>2. CASE q = p
    <3>1. /\ pc'[p] = "save" /\ strict' = strict /\ cur' = cur
          /\ vouched' = vouched /\ UNCHANGED <<file, tail, turns>>
          /\ scan[p].rows = Empty
      BY <1>1, <1>11 DEF Restat, Goto, TypeOK, transcript, ProcOK
    <3>2. /\ scan'[p].rows = scan[p].rows /\ scan'[p].off = scan[p].off
          /\ scan'[p].seq = scan[p].seq /\ scan'[p].size \in {Size, 0}
          /\ scan'[p].unread = scan[p].unread
      BY <1>1, <1>11 DEF Restat, TypeOK, Scan
    <3>3. ScanOK(scan'[p])
      BY <1>1, <3>2, SizeType DEF ProcOK, ScanOK
    <3>4. strict'[p] /\ ~scan'[p].unread => Clean(scan'[p].seq)
      BY <1>1, <3>1, <3>2 DEF ProcOK
    <3> QED
      BY <1>1, <2>2, <3>1, <3>2, <3>3, <3>4, Moved
  <2> QED
    BY <2>1, <2>2
<1>12. ASSUME NEW p \in Procs, Save(p) PROVE ProcOK(q)'
  <2> DEFINE lines == IF strict[p] /\ Complete(p) THEN scan[p].seq ELSE 0
  <2>1. lines \in Nat
    BY <1>1 DEF TypeOK, Scan
  <2>2. Vouched(scan[p].seq) \/ ~strict[p] \/ ~Complete(p)
    BY <1>1, <1>12 DEF Save, ProcOK, ScanOK, Vouched, Covered, Complete, Empty
  <2>3. Vouched(lines)
    BY <1>1, <2>2, ZeroOK
  <2>4. Return(p, lines)
    BY <1>12, Zenon DEF Save
  <2> HIDE DEF lines
  <2> QED
    BY <1>1, <2>1, <2>3, <2>4, ReturnOK
<1>13. ASSUME NEW line \in Line, WriteLine(line) PROVE ProcOK(q)'
  BY <1>2, <1>13, Zenon DEF WriteLine
<1>14. ASSUME WriteHalf \/ UNCHANGED vars PROVE ProcOK(q)'
  BY <1>2, <1>14, Zenon DEF WriteHalf, vars
<1> QED
  BY <1>3, <1>4, <1>5, <1>6, <1>7, <1>8, <1>9, <1>10, <1>11, <1>12, <1>13,
     <1>14, Zenon DEF Next, Unkilled, Pass

(* The invariant holds initially. *)
LEMMA InvInit == Init => Inv
<1> SUFFICES ASSUME Init PROVE Inv
  OBVIOUS
<1>1. TypeOK
  BY InitType
<1>2. turns = Promise!Upto(file, 0) /\ 0 \in 0 .. Len(file)
  BY DEF Init, Empty, Slots, Promise!Upto, Promise!Slots
<1>3. Cursor(NoRow) /\ ScanOK(NoScan) /\ Clean(0) /\ Vouched(0)
  BY <1>1, ZeroOK
<1>4. ASSUME NEW p \in Procs PROVE ProcOK(p)
  BY <1>3, EmptyRead DEF Init, ProcOK
<1>5. Cursor(row)
  BY <1>3 DEF Init
<1> QED
  BY <1>1, <1>2, <1>4, <1>5 DEF Inv, PrefixArchived

(* Every step keeps the invariant. *)
LEMMA InvStep == Inv /\ [Next]_vars => Inv'
BY TypeStep, PrefixStep, RowStep, ProcStep DEF Inv

(* The inductive invariant holds in every reachable state. *)
THEOREM Invariance == Spec => []Inv
BY InvInit, InvStep, PTL DEF Spec

----------------------------------------------------------------------------
(***************************************************************************)
(* What follows.                                                           *)
(***************************************************************************)

(* The archive is always exactly the turns of a prefix of the transcript,  *)
(* however many processes ingest it and wherever they are killed.          *)
THEOREM ArchiveIsAPrefix == Spec => []PrefixArchived
BY Invariance, PTL DEF Inv

(* No pass ever resumes beyond a turn that is not archived.                *)
THEOREM CursorIsCovered == Spec => []CursorCovered
<1>1. Inv => CursorCovered
  BY DEF Inv, Cursor, CursorCovered
<1> QED
  BY <1>1, Invariance, PTL

(* A transcript that is only appended to is never refused.                 *)
THEOREM AppendIsNoRewrite == Spec => []NoFalseRefusal
<1>1. Inv => NoFalseRefusal
  BY DEF Inv, ProcOK, NoFalseRefusal
<1> QED
  BY <1>1, Invariance, PTL

(* "Complete" is never said of a transcript whose read part is not all     *)
(* archived and parsed.                                                    *)
THEOREM CompleteIsComplete == Spec => []StrictAnswerHonest
<1>1. Inv => StrictAnswerHonest
  BY DEF Inv, ProcOK, Vouched, Clean, Covered, StrictAnswerHonest
<1> QED
  BY <1>1, Invariance, PTL

(* Every step of every process is a step of the abstract archive: a line   *)
(* is written, or the archived prefix gets longer, or nothing is seen.     *)
THEOREM IngestImplementsArchive == Spec => ImplementsArchive
<1>1. Init => Promise!Init
  BY DEF Init, Promise!Init, Empty, Slots, Promise!Slots
<1>2. Inv /\ [Next]_vars => [Promise!Next]_<<file, turns>>
  <2> SUFFICES ASSUME Inv, [Next]_vars PROVE [Promise!Next]_<<file, turns>>
    OBVIOUS
  <2>1. /\ TypeOK /\ PrefixArchived /\ PrefixArchived'
        /\ \A p \in Procs : ProcOK(p)
    BY PrefixStep DEF Inv
  <2>2. ASSUME NEW line \in Line, WriteLine(line) PROVE Promise!Next
    BY <2>2, Zenon DEF WriteLine, Promise!Next, Promise!Write, Line, Promise!Line
  <2>3. ASSUME NEW p \in Procs, Insert(p) PROVE Promise!Next
    <3>1. PICK n \in 0 .. Len(file) : turns' = Promise!Upto(file, n)
      BY <2>1, <2>3, InsertPrefix
    <3>2. file' = file
      BY <2>3, Zenon DEF Insert, transcript
    <3>3. \A i \in Slots : turns[i] # NoTurn => turns'[i] = turns[i]
      BY <2>3 DEF Insert
    <3> QED
      BY <3>1, <3>2, <3>3, Zenon DEF Promise!Next, Promise!CatchUp, Promise!Slots, Slots
  <2>4. ASSUME NEW p \in Procs,
               \/ \E requireComplete \in Modes : Begin(p, requireComplete)
               \/ OpenUnchanged(p) \/ Open(p) \/ LoadArchived(p) \/ Read(p)
               \/ Refuse(p) \/ CountTurns(p) \/ Restat(p) \/ Save(p) \/ Crash(p)
        PROVE  UNCHANGED <<file, turns>>
    BY <2>4, Zenon DEF Begin, OpenUnchanged, Open, LoadArchived, Read,
       Refuse, CountTurns, Restat, Save, Crash, transcript
  <2>5. ASSUME WriteHalf \/ UNCHANGED vars PROVE UNCHANGED <<file, turns>>
    BY <2>5, Zenon DEF WriteHalf, vars, transcript
  <2> QED
    BY <2>2, <2>3, <2>4, <2>5, Zenon DEF Next, Unkilled, Pass
<1> QED
  BY <1>1, <1>2, Invariance, PTL DEF Spec, ImplementsArchive, Promise!Spec

----------------------------------------------------------------------------
(***************************************************************************)
(* A transcript whose content is replaced, seen by strict passes.          *)
(*                                                                         *)
(* The archive is the turns of the first row.seq lines of one content,     *)
(* lost or not.  A pass compares the whole file with it, and the file has  *)
(* that many lines, as its size is not below the row's; so what it does    *)
(* not refuse begins with the same turns, and the file becomes the content *)
(* that is archived.                                                       *)
(***************************************************************************)

(* The archive holds the turns of the first n of the lines, and no other.  *)
Exactly(lines, n) ==
  \A i \in Slots :
    turns[i] = IF i < n /\ lines[i + 1] \in Texts THEN lines[i + 1] ELSE NoTurn

Holds(lines) == row.seq <= Len(lines) /\ Exactly(lines, row.seq)
Owned == Holds(file) \/ \E i \in 1 .. Len(past) : Holds(past[i])

(* The places of a pass whose turns are in the archive, but whose row is   *)
(* still to be written.                                                    *)
Stored == {"count", "restat", "save"}

(* The first n lines of the file were read.                                *)
WasRead(s) ==
  /\ row.seq <= s.seq /\ s.seq <= Len(file)
  /\ \A i \in Slots :
       s.rows[i] = IF i < s.seq /\ file[i + 1] \in Texts THEN file[i + 1] ELSE NoTurn

Checking(p) ==
  /\ pc[p] # "idle" => strict[p] /\ exists
  /\ pc[p] \in {"open", "archived", "read"} => cur[p] = row
  /\ pc[p] \in {"archived", "read"} => stat[p].len <= Size
  /\ pc[p] = "read" => cur[p].size <= stat[p].len /\ known[p] = turns
  /\ pc[p] = "insert" => Holds(file) /\ WasRead(scan[p])
  /\ pc[p] \in Stored =>
       row.seq <= scan[p].seq /\ scan[p].seq <= Len(file) /\ Exactly(file, scan[p].seq)
  /\ pc[p] = "save" => Bytes(scan[p].seq) <= scan[p].size

OnePass == \A p, q \in Procs : pc[p] # "idle" /\ pc[q] # "idle" => p = q

CInv ==
  /\ TypeOK /\ OnePass
  /\ Bytes(row.seq) <= row.size
  /\ \A p \in Procs : Checking(p)
  /\ (\A p \in Procs : pc[p] \notin Stored) => Owned

(* Replacing the content keeps the types.                                  *)
LEMMA CheckedTypes == TypeOK /\ [CheckedNext]_vars => TypeOK'
<1> SUFFICES ASSUME TypeOK, [CheckedNext]_vars PROVE TypeOK'
  OBVIOUS
<1>1. ASSUME NEW p \in Procs, Begin(p, TRUE) PROVE TypeOK'
  BY <1>1 DEF TypeOK, Begin, Goto, Steps, transcript
<1>2. CASE Remove
  BY <1>2 DEF TypeOK, Remove
<1>3. ASSUME NEW lines \in Contents, Rewrite(lines) PROVE TypeOK'
  <2>1. lines \in Seq(Line) /\ Len(lines) <= MaxLines
    BY ConstantsAssumption DEF Contents
  <2>2. /\ file' = lines /\ past' = Append(past, file) /\ tail' = FALSE
        /\ mtime' = mtime + 1 /\ exists' = TRUE
        /\ UNCHANGED <<turns, row, pc, strict, cur, stat, known, scan, vouched>>
    BY <1>3, Zenon DEF Rewrite
  <2>3. past' \in Seq(Seq(Line)) /\ mtime' \in Nat
    BY <2>2 DEF TypeOK
  <2> QED
    BY <2>1, <2>2, <2>3, Zenon DEF TypeOK
<1> QED
  BY <1>1, <1>2, <1>3, TypeStep, Zenon
     DEF CheckedNext, Replaced, Next, Unkilled

(* Lines that are there stay.                                              *)
LEMMA LineStays ==
  ASSUME TypeOK, Grows, NEW n \in Nat, n <= Len(file), NEW i \in Slots, i < n
  PROVE  file'[i + 1] = file[i + 1]
<1>1. i < Len(file)
  BY ConstantsAssumption DEF TypeOK, Slots
<1> QED
  BY <1>1 DEF Grows

(* What is archived of a content stays so while lines are added to it.     *)
LEMMA ExactlyGrows ==
  ASSUME TypeOK, TypeOK', Grows, turns' = turns,
         NEW n \in Nat, n <= Len(file), Exactly(file, n)
  PROVE  n <= Len(file') /\ Exactly(file, n)'
<1>1. Len(file) \in Nat /\ Len(file') \in Nat /\ Len(file) <= Len(file')
  BY DEF TypeOK, Grows
<1>2. \A i \in Slots : i < n => file'[i + 1] = file[i + 1]
  BY LineStays
<1> QED
  BY <1>1, <1>2 DEF Exactly

(* A line, whole or half, is appended.                                     *)
LEMMA AppendStep ==
  ASSUME CInv, TypeOK', WriteHalf \/ \E line \in Line : WriteLine(line)
  PROVE  CInv'
<1>1. UNCHANGED <<exists, past, turns, row, pc, strict, cur, stat, known, scan>>
  BY Zenon DEF WriteHalf, WriteLine
<1>2. TypeOK /\ Grows
  BY Growth, Zenon DEF CInv, Next, Unkilled
<1>3. /\ row.seq \in Nat /\ Size \in Nat /\ Size' \in Nat /\ Size <= Size'
      /\ Len(file) \in Nat /\ Len(file') \in Nat /\ Len(file) <= Len(file')
  <2>1. row.seq \in Nat /\ Len(file) \in Nat /\ Len(file') \in Nat
    BY <1>2 DEF TypeOK, Row
  <2>2. Size \in Nat /\ Size' \in Nat
    BY <1>2, SizeType
  <2> QED
    BY <1>2, <2>1, <2>2, Zenon DEF Grows
<1>4. Holds(file) => Holds(file)'
  BY <1>1, <1>2, <1>3, ExactlyGrows DEF Holds
<1>5. ASSUME NEW p \in Procs PROVE Checking(p)'
  <2>1. Checking(p) /\ scan[p].seq \in Nat /\ stat[p].len \in Nat
    BY <1>2 DEF CInv, TypeOK, Scan, Stat
  <2>2. ASSUME WasRead(scan[p]) PROVE WasRead(scan[p])'
    <3>1. \A i \in Slots : i < scan[p].seq => file'[i + 1] = file[i + 1]
      BY <1>2, <2>1, <2>2, LineStays DEF WasRead
    <3> QED
      BY <1>1, <1>3, <2>1, <2>2, <3>1 DEF WasRead
  <2>3. ASSUME scan[p].seq <= Len(file), Exactly(file, scan[p].seq)
        PROVE  scan[p].seq <= Len(file') /\ Exactly(file, scan[p].seq)'
    <3>1. scan[p].seq <= Len(file') /\ \A i \in Slots :
             turns'[i] = IF i < scan[p].seq /\ file'[i + 1] \in Texts
                         THEN file'[i + 1] ELSE NoTurn
      BY <1>1, <1>2, <2>1, <2>3, ExactlyGrows DEF Exactly
    <3> QED
      BY <1>1, <3>1 DEF Exactly
  <2>4. stat[p].len <= Size => stat[p].len <= Size'
    BY <1>3, <2>1
  <2> QED
    BY <1>1, <1>4, <2>1, <2>2, <2>3, <2>4, Zenon DEF Checking, Bytes
<1>6. Owned => Owned'
  <2>1. ASSUME NEW i \in 1 .. Len(past), Holds(past[i]) PROVE Owned'
    BY <1>1, <2>1 DEF Owned, Holds, Exactly
  <2> QED
    BY <1>4, <2>1 DEF Owned
<1>7. OnePass' /\ (Bytes(row.seq) <= row.size)'
  BY <1>1, Zenon DEF CInv, OnePass, Bytes
<1> QED
  BY <1>1, <1>5, <1>6, <1>7, Zenon DEF CInv

(* The content is replaced or removed between two passes.                  *)
LEMMA ReplaceStep ==
  ASSUME CInv, TypeOK', Resting, Replaced
  PROVE  CInv'
<1>1. UNCHANGED <<turns, row, pc, strict, cur, stat, known, scan>>
  BY Zenon DEF Replaced, Remove, Rewrite
<1>2. \A p \in Procs : pc'[p] = "idle"
  BY <1>1, Zenon DEF Resting
<1>3. OnePass' /\ \A p \in Procs : Checking(p)'
  BY <1>2 DEF OnePass, Checking, Stored
<1>4. Owned
  BY DEF CInv, Resting, Stored
<1>5. /\ \A i \in 1 .. Len(past) : i \in 1 .. Len(past') /\ past'[i] = past[i]
      /\ file' = file \/ \E i \in 1 .. Len(past') : past'[i] = file
  <2>1. CASE Remove
    BY <2>1 DEF Remove
  <2>2. ASSUME NEW lines \in Contents, Rewrite(lines)
        PROVE  past' = Append(past, file) /\ past \in Seq(Seq(Line))
    BY <2>2, Zenon DEF Rewrite, CInv, TypeOK
  <2>3. CASE past' = Append(past, file) /\ past \in Seq(Seq(Line))
    <3>1. Len(past) \in Nat /\ Len(past') = Len(past) + 1 /\ past'[Len(past) + 1] = file
      BY <2>3
    <3>2. \A i \in 1 .. Len(past) : past'[i] = past[i]
      BY <2>3
    <3> QED
      BY <3>1, <3>2
  <2> QED
    BY <2>1, <2>2, <2>3 DEF Replaced
<1>6. Owned'
  BY <1>1, <1>4, <1>5 DEF Owned, Holds, Exactly
<1> QED
  BY <1>1, <1>3, <1>6, Zenon DEF CInv, Bytes

(* One pass begins where none is.                                          *)
LEMMA BeginStep ==
  ASSUME CInv, TypeOK', Resting, NEW p \in Procs, Begin(p, TRUE)
  PROVE  CInv'
<1>1. /\ UNCHANGED <<file, tail, mtime, exists, past, turns, row, stat, known, scan>>
      /\ exists /\ pc' = [pc EXCEPT ![p] = "open"]
      /\ strict' = [strict EXCEPT ![p] = TRUE] /\ cur' = [cur EXCEPT ![p] = row]
  BY Zenon DEF Begin, Goto, transcript
<1>2. /\ pc'[p] = "open" /\ strict'[p] = TRUE /\ cur'[p] = row
      /\ \A q \in Procs \ {p} : pc'[q] = "idle"
  BY <1>1 DEF CInv, TypeOK, Resting
<1>3. OnePass' /\ \A q \in Procs : Checking(q)'
  BY <1>1, <1>2 DEF OnePass, Checking, Stored
<1>4. Owned
  BY DEF CInv, Resting, Stored
<1>5. Owned'
  BY <1>1, <1>4, Zenon DEF Owned, Holds, Exactly
<1> QED
  BY <1>1, <1>3, <1>5, Zenon DEF CInv, Bytes

(* The one pass that runs moves on: what is to be shown of its step.       *)
LEMMA PassMoves ==
  ASSUME CInv, TypeOK', NEW p \in Procs, pc[p] # "idle",
         NEW step, pc' = [pc EXCEPT ![p] = step],
         Checking(p)', (Bytes(row.seq) <= row.size)', step \notin Stored => Owned'
  PROVE  CInv'
<1>1. pc'[p] = step /\ \A q \in Procs \ {p} : pc'[q] = pc[q] /\ pc[q] = "idle"
  BY DEF CInv, TypeOK, OnePass
<1>2. OnePass' /\ \A q \in Procs : Checking(q)'
  BY <1>1 DEF OnePass, Checking, Stored
<1> QED
  BY <1>1, <1>2 DEF CInv

(* Before it stores what it read, the archive is that of one content.      *)
LEMMA OwnedStill ==
  ASSUME CInv, NEW p \in Procs, pc[p] \notin Stored \cup {"idle"}
  PROVE  Owned /\ (UNCHANGED <<file, past, turns, row>> => Owned')
<1>1. Owned
  BY DEF CInv, OnePass, Stored
<1> QED
  BY <1>1, Zenon DEF Owned, Holds, Exactly

(* The file is opened, and is compared with the row.                       *)
LEMMA OpenSteps ==
  ASSUME CInv, TypeOK', NEW p \in Procs, OpenUnchanged(p) \/ Open(p) \/ LoadArchived(p)
  PROVE  CInv'
<1>1. pc[p] # "idle" /\ pc[p] \notin Stored
  BY DEF OpenUnchanged, Open, LoadArchived, Stored
<1>2. Checking(p) /\ strict[p] /\ exists /\ TypeOK /\ Size \in Nat
  BY <1>1, SizeType DEF CInv, Checking
<1>3. ~OpenUnchanged(p)
  BY <1>2 DEF OpenUnchanged, Unchanged
<1>4. UNCHANGED <<file, tail, mtime, exists, past, turns, row, strict, cur, scan>> /\ Owned'
  <2>1. UNCHANGED <<file, tail, mtime, exists, past, turns, row, strict, cur, scan>>
    BY <1>3, Zenon DEF Open, LoadArchived, transcript
  <2> QED
    BY <1>1, <2>1, OwnedStill, Zenon
<1>5. (Bytes(row.seq) <= row.size)'
  BY <1>4, Zenon DEF CInv, Bytes
<1>6. CASE Open(p)
  <2>1. /\ pc[p] = "open" /\ pc' = [pc EXCEPT ![p] = "archived"]
        /\ stat' = [stat EXCEPT ![p] = [len |-> Size, mtime |-> mtime]]
    BY <1>2, <1>6, Zenon DEF Open, Goto
  <2>2. pc'[p] = "archived" /\ stat'[p].len = Size /\ Size' = Size
    BY <1>2, <1>4, <2>1 DEF TypeOK, Size
  <2>3. Checking(p)'
    BY <1>2, <1>4, <2>1, <2>2 DEF Checking, Stored
  <2> QED
    BY <1>1, <1>4, <1>5, <2>1, <2>3, PassMoves
<1>7. CASE LoadArchived(p)
  <2> DEFINE step == IF stat[p].len < cur[p].size THEN "refuse" ELSE "read"
  <2>1. /\ pc[p] = "archived" /\ pc' = [pc EXCEPT ![p] = step]
        /\ known' = [known EXCEPT ![p] = turns] /\ stat' = stat
    BY <1>7, Zenon DEF LoadArchived, Goto
  <2>2. pc'[p] = step /\ known'[p] = turns /\ Size' = Size
    BY <1>2, <1>4, <2>1 DEF TypeOK, Size
  <2>3. stat[p].len \in Nat /\ cur[p].size \in Nat
    BY <1>2 DEF TypeOK, Stat, Row
  <2>4. Checking(p)'
    BY <1>2, <1>4, <2>1, <2>2, <2>3 DEF Checking, Stored
  <2> HIDE DEF step
  <2> QED
    BY <1>1, <1>4, <1>5, <2>1, <2>4, PassMoves
<1> QED
  BY <1>3, <1>6, <1>7

(* A pass that may read the file finds it no shorter than the archive.     *)
LEMMA FileIsLong ==
  ASSUME CInv, NEW p \in Procs, pc[p] = "read"
  PROVE  row.seq \in Nat /\ Len(file) \in Nat /\ row.seq <= Len(file)
<1>1. /\ cur[p].size <= stat[p].len /\ stat[p].len <= Size /\ cur[p] = row
      /\ Bytes(row.seq) <= row.size
  BY DEF CInv, Checking
<1>2. /\ row.seq \in Nat /\ row.size \in Nat /\ stat[p].len \in Nat /\ Size \in Nat
      /\ Len(file) \in Nat
  <2>1. TypeOK /\ row \in Row /\ stat[p] \in Stat /\ file \in Seq(Line)
    BY DEF CInv, TypeOK
  <2>2. row.seq \in Nat /\ row.size \in Nat
    BY <2>1, Zenon DEF Row
  <2>3. stat[p].len \in Nat
    BY <2>1, Zenon DEF Stat
  <2> QED
    BY <2>1, <2>2, <2>3, SizeType
<1>3. Bytes(row.seq) <= Size
  <2>1. Bytes(row.seq) \in Nat
    BY <1>2 DEF Bytes, LineBytes
  <2> QED
    BY <1>1, <1>2, <2>1
<1> QED
  BY <1>2, <1>3 DEF Size, Bytes, LineBytes

(* A file that is not refused begins with the archived turns.              *)
LEMMA UnchangedHolds ==
  ASSUME CInv, NEW p \in Procs, pc[p] = "read", ~Changed(p)
  PROVE  Holds(file)
<1>1. row.seq \in Nat /\ Len(file) \in Nat /\ row.seq <= Len(file)
  BY FileIsLong
<1>2. strict[p] /\ cur[p] = row /\ known[p] = turns /\ turns \in Archived
  BY DEF CInv, Checking, TypeOK
<1>3. PICK lines : Exactly(lines, row.seq)
  BY OwnedStill DEF Owned, Holds, Stored
<1>4. ASSUME NEW i \in Slots
      PROVE  turns[i] = IF i < row.seq /\ file[i + 1] \in Texts THEN file[i + 1] ELSE NoTurn
  <2>1. i \in Nat
    BY ConstantsAssumption DEF Slots
  <2>2. CASE i < row.seq
    <3>1. i \in Numbers(0, 0) /\ At(0, 0, i) = file[i + 1] /\ i <= row.seq - 1
      BY <1>1, <2>1, <2>2 DEF Numbers, At
    <3>2. ~ChangedAt(p, i)
      BY <1>2, <3>1 DEF Changed
    <3> QED
      BY <1>2, <2>2, <3>1, <3>2 DEF ChangedAt
  <2>3. CASE ~(i < row.seq)
    BY <1>3, <2>3 DEF Exactly
  <2> QED
    BY <2>2, <2>3
<1> QED
  BY <1>1, <1>4 DEF Holds, Exactly

(* The file is read from the top.                                          *)
LEMMA ReadAll ==
  ASSUME CInv, NEW p \in Procs, Read(p)
  PROVE  /\ scan'[p].rows = Rows(0, 0) /\ scan'[p].seq = Len(file)
         /\ Len(file) \in Nat
         /\ \A i \in Slots : Rows(0, 0)[i] =
              IF i < Len(file) /\ file[i + 1] \in Texts THEN file[i + 1] ELSE NoTurn
<1>1. pc[p] = "read"
  BY DEF Read
<1>2. TypeOK /\ ~Resumes(p) /\ Len(file) \in Nat
  BY <1>1 DEF CInv, Checking, Resumes, TypeOK
<1>3. scan'[p].rows = Rows(0, 0) /\ scan'[p].seq = 0 + Larger(0, Len(file) - 0)
  BY <1>2, Zenon DEF Read, TypeOK
<1>4. scan'[p].seq = Len(file)
  BY <1>2, <1>3 DEF Larger
<1>5. ASSUME NEW i \in Slots
      PROVE  /\ i \in Numbers(0, 0) <=> i < Len(file)
             /\ i < Len(file) => At(0, 0, i) = file[i + 1]
  BY <1>2, ConstantsAssumption DEF Numbers, At, Slots
<1>6. \A i \in Slots : Rows(0, 0)[i] =
        IF i < Len(file) /\ file[i + 1] \in Texts THEN file[i + 1] ELSE NoTurn
  BY <1>5 DEF Rows
<1> QED
  BY <1>2, <1>3, <1>4, <1>6

(* What was read is compared with the archive, and kept or refused.        *)
LEMMA ReadStep ==
  ASSUME CInv, TypeOK', NEW p \in Procs, Read(p)
  PROVE  CInv'
<1> DEFINE step == IF Changed(p) THEN "refuse"
                   ELSE IF Rows(0, 0) = Empty THEN "count" ELSE "insert"
<1>1. pc[p] = "read" /\ strict[p] /\ exists /\ TypeOK /\ ~Resumes(p)
  BY DEF Read, CInv, Checking, Resumes
<1>2. pc' = [pc EXCEPT ![p] = step]
  BY <1>1 DEF Read, Goto
<1>3. UNCHANGED <<file, tail, mtime, exists, past, turns, row, strict>>
  BY Zenon DEF Read, transcript
<1>4. Owned' /\ (Bytes(row.seq) <= row.size)'
  <2>1. Owned'
    BY <1>1, <1>3, OwnedStill, Zenon DEF Stored
  <2> QED
    BY <1>3, <2>1, Zenon DEF CInv, Bytes
<1>5. pc'[p] = step
  BY <1>1, <1>2 DEF TypeOK
<1>6. ASSUME ~Changed(p)
      PROVE  Holds(file)' /\ WasRead(scan[p])'
  <2>1. Holds(file)
    BY <1>1, <1>6, UnchangedHolds
  <2>2. Holds(file)'
    BY <1>3, <2>1, Zenon DEF Holds, Exactly
  <2>3. row.seq <= Len(file)
    BY <2>1 DEF Holds
  <2>4. /\ row'.seq <= scan'[p].seq /\ scan'[p].seq <= Len(file')
        /\ \A i \in Slots : scan'[p].rows[i] =
             IF i < scan'[p].seq /\ file'[i + 1] \in Texts THEN file'[i + 1] ELSE NoTurn
    BY <1>3, <2>3, ReadAll
  <2> QED
    BY <2>2, <2>4, Zenon DEF WasRead
<1>7. ASSUME ~Changed(p), Rows(0, 0) = Empty
      PROVE  Exactly(file, scan[p].seq)'
  <2>1. /\ scan'[p].seq = Len(file) /\ row.seq \in Nat /\ Len(file) \in Nat
        /\ row.seq <= Len(file) /\ Exactly(file, row.seq)
    BY <1>1, <1>7, UnchangedHolds, ReadAll, FileIsLong DEF Holds
  <2>2. \A i \in Slots : ~(i < Len(file) /\ file[i + 1] \in Texts)
    BY <1>7, ReadAll, ConstantsAssumption DEF Empty
  <2>3. \A i \in Slots : i \in Int
    BY ConstantsAssumption DEF Slots
  <2>4. \A i \in Slots : turns[i] = NoTurn
    BY <2>1, <2>2, <2>3 DEF Exactly
  <2> QED
    BY <1>3, <2>1, <2>2, <2>4 DEF Exactly
<1>8. Checking(p)'
  <2>1. CASE Changed(p)
    BY <1>1, <1>3, <1>5, <2>1 DEF Checking, Stored
  <2>2. CASE ~Changed(p) /\ Rows(0, 0) = Empty
    <3>1. Exactly(file, scan[p].seq)' /\ WasRead(scan[p])'
      BY <1>6, <1>7, <2>2
    <3>2. pc'[p] = "count"
      BY <1>5, <2>2
    <3> QED
      BY <1>1, <1>3, <3>1, <3>2 DEF Checking, Stored, WasRead
  <2>3. CASE ~Changed(p) /\ Rows(0, 0) # Empty
    <3>1. pc'[p] = "insert"
      BY <1>5, <2>3
    <3> QED
      BY <1>1, <1>3, <1>6, <2>3, <3>1 DEF Checking, Stored
  <2> QED
    BY <2>1, <2>2, <2>3
<1> HIDE DEF step
<1> QED
  BY <1>1, <1>2, <1>4, <1>8, PassMoves

(* The turns are stored, and counted; the file's size is asked again.      *)
LEMMA StoreSteps ==
  ASSUME CInv, TypeOK', NEW p \in Procs, Insert(p) \/ CountTurns(p) \/ Restat(p)
  PROVE  CInv'
<1> DEFINE s == scan[p].seq
<1>1. pc[p] # "idle" /\ Checking(p) /\ strict[p] /\ exists /\ TypeOK
  BY DEF Insert, CountTurns, Restat, CInv, Checking
<1>2. /\ row.seq \in Nat /\ s \in Nat /\ Len(file) \in Nat
      /\ \A i \in Slots : i \in Int
  <2>1. row \in Row /\ scan[p] \in Scan /\ file \in Seq(Line)
    BY <1>1, Zenon DEF TypeOK
  <2>2. \A i \in Slots : i \in Int
    BY ConstantsAssumption DEF Slots
  <2>3. row.seq \in Nat
    BY <2>1, Zenon DEF Row
  <2>4. scan[p].seq \in Nat
    BY <2>1 DEF Scan
  <2> QED
    BY <2>1, <2>2, <2>3, <2>4
<1>3. UNCHANGED <<file, tail, mtime, exists, past, row, strict>>
  BY Zenon DEF Insert, CountTurns, Restat, transcript
<1>4. scan'[p].seq = s
  <2>1. scan \in [Procs -> Scan]
    BY <1>1, Zenon DEF TypeOK
  <2>2. CASE Insert(p)
    BY <2>1, <2>2 DEF Insert, Scan
  <2>3. CASE CountTurns(p)
    BY <2>1, <2>3 DEF CountTurns, Scan
  <2>4. CASE Restat(p)
    BY <2>1, <2>4 DEF Restat, Scan
  <2> QED
    BY <2>2, <2>3, <2>4
<1>5. /\ row.seq <= s /\ s <= Len(file)
      /\ \A i \in Slots :
           turns'[i] = IF i < s /\ file[i + 1] \in Texts THEN file[i + 1] ELSE NoTurn
  <2>1. CASE Insert(p)
    <3>1. Holds(file) /\ WasRead(scan[p])
      BY <1>1, <2>1 DEF Insert, Checking
    <3>2. \A i \in Slots : turns'[i] = IF turns[i] # NoTurn THEN turns[i] ELSE scan[p].rows[i]
      BY <2>1 DEF Insert
    <3> QED
      BY <1>2, <3>1, <3>2, ConstantsAssumption DEF Holds, WasRead, Exactly
  <2>2. CASE CountTurns(p) \/ Restat(p)
    <3>1. turns' = turns /\ pc[p] \in Stored
      BY <2>2, Zenon DEF CountTurns, Restat, Stored
    <3> QED
      BY <1>1, <3>1 DEF Checking, Exactly
  <2> QED
    BY <2>1, <2>2
<1>6. PICK step \in Stored : pc' = [pc EXCEPT ![p] = step] /\ (step = "save" => Restat(p))
  BY DEF Insert, CountTurns, Restat, Goto, Stored
<1>7. step = "save" => Bytes(s) <= scan'[p].size
  <2> SUFFICES ASSUME Restat(p) PROVE Bytes(s) <= scan'[p].size
    BY <1>6
  <2>1. scan'[p].size = Size
    BY <1>1 DEF Restat, TypeOK
  <2> HIDE DEF s
  <2> QED
    BY <1>2, <1>5, <2>1 DEF Size, Bytes, LineBytes
<1>8. pc'[p] = step
  BY <1>1, <1>6 DEF TypeOK
<1>9. Exactly(file, scan[p].seq)'
  BY <1>3, <1>4, <1>5, Zenon DEF Exactly
<1>10. Checking(p)'
  BY <1>1, <1>3, <1>4, <1>5, <1>6, <1>7, <1>8, <1>9 DEF Checking, Stored, Bytes
<1>11. (Bytes(row.seq) <= row.size)'
  BY <1>3, Zenon DEF CInv, Bytes
<1> HIDE DEF s
<1> QED
  BY <1>1, <1>6, <1>10, <1>11, PassMoves

(* The row is written, or marked; the file is the content archived.        *)
LEMMA EndSteps ==
  ASSUME CInv, TypeOK', NEW p \in Procs, Save(p) \/ Refuse(p)
  PROVE  CInv'
<1>1. pc[p] # "idle" /\ Checking(p) /\ TypeOK
  BY DEF Save, Refuse, CInv
<1>2. /\ pc' = [pc EXCEPT ![p] = "idle"]
      /\ UNCHANGED <<file, tail, mtime, exists, past, turns>>
  BY Zenon DEF Save, Refuse, Return, Goto, transcript
<1>3. Checking(p)'
  BY <1>1, <1>2 DEF Checking, Stored, TypeOK
<1>4. Owned' /\ (Bytes(row.seq) <= row.size)'
  <2>1. CASE Save(p)
    <3>1. /\ pc[p] = "save" /\ row' = Upserted(p)
          /\ row.seq <= scan[p].seq /\ scan[p].seq <= Len(file)
          /\ Exactly(file, scan[p].seq) /\ Bytes(scan[p].seq) <= scan[p].size
      BY <1>1, <2>1 DEF Save, Checking, Stored
    <3>2. row'.size = scan[p].size /\ row'.seq = scan[p].seq
      <4>1. row.seq \in Nat /\ scan[p].seq \in Nat
        BY <1>1 DEF TypeOK, Row, Scan
      <4> QED
        BY <3>1, <4>1 DEF Upserted, Larger
    <3>3. Holds(file)'
      BY <1>2, <3>1, <3>2 DEF Holds, Exactly
    <3> QED
      BY <3>1, <3>2, <3>3, Zenon DEF Owned, Bytes
  <2>2. CASE Refuse(p)
    <3>1. row'.seq = row.seq /\ row'.size = row.size
      BY <1>1, <2>2 DEF Refuse, TypeOK, Row
    <3>2. Owned
      BY <2>2, OwnedStill DEF Refuse, Stored
    <3> QED
      BY <1>2, <3>1, <3>2, Zenon DEF CInv, Owned, Holds, Exactly, Bytes
  <2> QED
    BY <2>1, <2>2
<1> QED
  BY <1>1, <1>2, <1>3, <1>4, PassMoves

(* It holds at the start.                                                  *)
LEMMA CheckedInit == Init => CInv
<1> SUFFICES ASSUME Init PROVE CInv
  OBVIOUS
<1>1. TypeOK
  BY InitType
<1>2. row.seq = 0 /\ row.size = 0 /\ \A p \in Procs : pc[p] = "idle"
  BY DEF Init, NoRow
<1>3. OnePass /\ (\A p \in Procs : Checking(p)) /\ Bytes(row.seq) <= row.size
  BY <1>2 DEF OnePass, Checking, Stored, Bytes, LineBytes
<1>4. Owned
  <2>1. Len(file) = 0 /\ \A i \in Slots : turns[i] = NoTurn /\ ~(i < 0)
    BY ConstantsAssumption DEF Init, Empty, Slots
  <2> QED
    BY <1>2, <2>1 DEF Owned, Holds, Exactly
<1> QED
  BY <1>1, <1>3, <1>4 DEF CInv

(* Every step of strict passes and of the transcript keeps it.              *)
LEMMA CheckedStep == CInv /\ [CheckedNext]_vars => CInv'
<1> SUFFICES ASSUME CInv, [CheckedNext]_vars PROVE CInv'
  OBVIOUS
<1>1. TypeOK'
  BY CheckedTypes DEF CInv
<1>2. CASE UNCHANGED vars
  <2>1. UNCHANGED <<file, tail, mtime, exists, past, turns, row, pc, strict, cur, stat,
                    known, scan, vouched>>
    BY <1>2, Zenon DEF vars, transcript
  <2>2. OnePass'
    BY <2>1, Zenon DEF CInv, OnePass
  <2>3. (Bytes(row.seq) <= row.size)'
    BY <2>1, Zenon DEF CInv, Bytes
  <2>4. \A p \in Procs : Checking(p)'
    BY <2>1, Zenon DEF CInv, Checking, Holds, Exactly, WasRead, Stored, Size, Bytes
  <2>5. Owned' \/ \E p \in Procs : pc'[p] \in Stored
    BY <2>1, Zenon DEF CInv, Owned, Holds, Exactly
  <2> QED
    BY <1>1, <2>2, <2>3, <2>4, <2>5 DEF CInv
<1>3. ASSUME NEW p \in Procs, Pass(p) PROVE CInv'
  BY <1>1, <1>3, OpenSteps, ReadStep, StoreSteps, EndSteps, Zenon DEF Pass
<1> QED
  BY <1>1, <1>2, <1>3, AppendStep, ReplaceStep, BeginStep, Zenon DEF CheckedNext

(* However often the content is replaced or removed between the passes,    *)
(* strict passes never mix the turns of two contents in the archive.       *)
THEOREM NeverMixes == CheckedSpec => []OneTranscript
<1>1. CInv => OneTranscript
  <2> SUFFICES ASSUME CInv PROVE OneTranscript
    OBVIOUS
  <2>1. row.seq \in Nat /\ Len(file) \in Nat /\ \A i \in Slots : i \in Int
    BY ConstantsAssumption DEF CInv, TypeOK, Row, Slots
  <2>2. ASSUME NEW lines \in Seq(Line), Holds(lines) PROVE From(lines)
    BY <2>1, <2>2 DEF Holds, Exactly, From
  <2>3. file \in Seq(Line) /\ \A i \in 1 .. Len(past) : past[i] \in Seq(Line)
    BY DEF CInv, TypeOK
  <2>4. CASE Owned
    BY <2>2, <2>3, <2>4, Zenon DEF Owned, OneTranscript
  <2>5. ASSUME NEW p \in Procs, pc[p] \in Stored PROVE From(file)
    <3>1. scan[p].seq \in Nat /\ scan[p].seq <= Len(file) /\ Exactly(file, scan[p].seq)
      BY <2>5 DEF CInv, Checking, TypeOK, Scan
    <3> QED
      BY <2>1, <3>1 DEF Exactly, From
  <2> QED
    BY <2>4, <2>5, Zenon DEF CInv, OneTranscript
<1> QED
  BY <1>1, CheckedInit, CheckedStep, PTL DEF CheckedSpec

=============================================================================
